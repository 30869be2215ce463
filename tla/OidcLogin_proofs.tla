-------------------------- MODULE OidcLogin_proofs --------------------------
(***************************************************************************)
(* For any tabs, users, lives of the two cookies and number of restarts:   *)
(* the login keeps its types, ends a session in time, refuses a login as a *)
(* bad request only when something came in between, lands on the page that *)
(* was asked for, and implements Gate.                                     *)
(***************************************************************************)
EXTENDS OidcLogin, TLAPS

\* The flow cookie of a login that a tab goes through has the tab's page.
FlowOK == flow # None /\ flow.login # Stale => flow.ret = flow.login

\* A tab has a code only from the provider to the answer, and its own page; a token
\* has used up the code.
TabOK(t) ==
    /\ tab[t].ret \in {None, t}
    /\ tab[t].at \in {"insider", "outsider"} => tab[t].who # None /\ tab[t].spent = TRUE
    /\ tab[t].at \in {"open", "login", "idp", "page", "e403", "closed"}
          => tab[t].who = None /\ tab[t].spent = FALSE

\* What nothing has met still has its flow cookie.
Undisturbed(t) ==
    tab[t].at \in {"idp", "callback"} /\ t \notin disturbed =>
        flow # None /\ flow.login = t /\ flow.key = auth

\* Who is vouched for has not been away, and a session does not outlast an absence.
AwayOK ==
    /\ \A u \in members : away[u] = 0
    /\ \A t \in Tabs : tab[t].at = "insider" => away[tab[t].who] = 0
    /\ sess # None => sess.left + away[sess.user] <= TTL

LoginInv ==
    /\ TypeOK /\ FlowOK
    /\ \A t \in Tabs : TabOK(t) /\ Undisturbed(t)
    /\ OnlyDisturbedAreBadRequests
    /\ AwayOK

-----------------------------------------------------------------------------
LEMMA InitHolds == Init => LoginInv
<1>. SUFFICES ASSUME Init PROVE LoginInv OBVIOUS
<1>. USE TabsAssumption, LivesAssumption, UsersAssumption
<1>1. auth \in Keys \cup {"off", "down"}
  BY DEF Init, Outcomes, Started, Environments, Disabled, Keys
<1>2. tab \in [Tabs -> Tab] /\ \A t \in Tabs : tab[t] = At("closed")
  BY DEF Init, At, Tab, Places
<1>3. TypeOK
  <2>1. restarts \in 0..MaxRestarts BY LivesAssumption DEF Init
  <2>2. away \in [Users -> 0..TTL] BY DEF Init
  <2>3. QED BY <1>1, <1>2, <2>1, <2>2 DEF Init, TypeOK
<1>4. QED
  BY <1>2, <1>3 DEF Init, LoginInv, FlowOK, TabOK, Undisturbed, At,
                    OnlyDisturbedAreBadRequests, AwayOK

Fields(s, at, who, spent, sent, ret) ==
    s \in Tab /\ s.at = at /\ s.who = who /\ s.spent = spent /\ s.sent = sent /\ s.ret = ret

\* The tab records the actions make.
LEMMA TabMoved ==
  ASSUME NEW s \in Tab, NEW place \in Places
  PROVE  Fields([s EXCEPT !.at = place], place, s.who, s.spent, s.sent, s.ret)
BY DEF Tab, Fields

LEMMA TabSent ==
  ASSUME NEW s \in Tab, NEW login \in Tabs, NEW page \in Tabs
  PROVE  Fields([s EXCEPT !.at = "exchange", !.sent = login, !.ret = page],
                "exchange", s.who, s.spent, login, page)
BY DEF Tab, Places, Fields

LEMMA TabWithCode ==
  ASSUME NEW s \in Tab, NEW u \in Users
  PROVE  Fields([s EXCEPT !.at = "callback", !.who = u], "callback", u, s.spent, s.sent, s.ret)
BY DEF Tab, Places, Fields

LEMMA TabWithToken ==
  ASSUME NEW s \in Tab, NEW place \in Places
  PROVE  Fields([s EXCEPT !.spent = TRUE, !.at = place], place, s.who, TRUE, s.sent, s.ret)
BY DEF Tab, Fields

LEMMA TabFailed ==
  ASSUME TypeOK, NEW t \in Tabs, NEW status \in Places, NEW spent \in BOOLEAN
  PROVE  Fields(Failed(t, status, spent), status, tab[t].who, spent, None, None)
BY DEF TypeOK, Failed, Tab, Fields

LEMMA TabAt ==
  ASSUME NEW place \in Places, NEW page \in Tabs \cup {None}
  PROVE  /\ Fields(At(place), place, None, FALSE, None, None)
         /\ Fields([At(place) EXCEPT !.ret = page], place, None, FALSE, None, page)
BY DEF At, Tab, Fields

LEMMA TypeNext ==
  ASSUME TypeOK, \A t \in Tabs : TabOK(t), [Next]_vars
  PROVE  TypeOK'
<1>. USE TabsAssumption, LivesAssumption, UsersAssumption DEF TypeOK
<1>0. /\ \A place \in Places : At(place) \in Tab
      /\ \A t \in Tabs, status \in Places, spent \in BOOLEAN : Failed(t, status, spent) \in Tab
  BY TabFailed, TabAt DEF Fields
<1>1. ASSUME NEW t \in Tabs, NEW place \in Places PROVE [tab[t] EXCEPT !.at = place] \in Tab
  BY DEF Tab
<1>2. Keys \subseteq {"configured", "random"} BY DEF Keys
<1>3. ASSUME NEW t \in Tabs, Visit(t) \/ Close(t) PROVE TypeOK'
  <2>1. tab' \in [Tabs -> Tab] BY <1>3, <1>0 DEF Visit, Close, Become, Places
  <2>2. flow' \in Flow \cup {None} BY <1>3 DEF Visit, Close, Forget, Flow
  <2>3. disturbed' \subseteq Tabs BY <1>3 DEF Visit, Close
  <2>4. QED BY <1>3, <2>1, <2>2, <2>3 DEF Visit, Close
<1>4. ASSUME NEW t \in Tabs, Resend(t) PROVE TypeOK'
  <2>1. PICK spent \in {tab[t].spent, tab[t].at = "exchange"} :
           Become(t, Failed(t, "callback", spent))
    BY <1>4 DEF Resend
  <2>2. spent \in BOOLEAN BY DEF Tab
  <2>3. tab' \in [Tabs -> Tab] BY <1>0, <2>1, <2>2 DEF Become, Places
  <2>4. QED BY <1>4, <2>3 DEF Resend
<1>5. ASSUME NEW t \in Tabs, Serve(t) \/ ServeUngated(t) PROVE TypeOK'
  <2>1. tab' \in [Tabs -> Tab]
    BY <1>5, <1>0, <1>1 DEF Serve, ServeUngated, Become, Goto, Places
  <2>2. QED BY <1>5, <2>1 DEF Serve, ServeUngated
<1>6. ASSUME NEW t \in Tabs, Login(t) \/ Poll(t) PROVE TypeOK'
  <2>1. auth \in Keys BY <1>6 DEF Login, Poll, Gated
  <2>2. flow' \in Flow BY <1>6, <2>1 DEF Login, Poll, Stashed, NewFlow, Flow
  <2>3. tab' \in [Tabs -> Tab] BY <1>6, <1>1 DEF Login, Poll, Goto, Places
  <2>4. disturbed' \subseteq Tabs BY <1>6 DEF Login, Poll, Disturb
  <2>5. QED BY <1>6, <2>2, <2>3, <2>4 DEF Login, Poll
<1>7. ASSUME NEW t \in Tabs, CallbackWithoutFlow(t) \/ CallbackMismatch(t) PROVE TypeOK'
  <2>1. tab[t].spent \in BOOLEAN BY DEF Tab
  <2>2. tab' \in [Tabs -> Tab]
    BY <1>7, <1>0, <2>1 DEF CallbackWithoutFlow, CallbackMismatch, Become, Places
  <2>3. disturbed' \subseteq Tabs
    BY <1>7 DEF CallbackWithoutFlow, CallbackMismatch, Disturb
  <2>4. QED BY <1>7, <2>2, <2>3 DEF CallbackWithoutFlow, CallbackMismatch
<1>8. ASSUME NEW t \in Tabs, CallbackBegins(t) PROVE TypeOK'
  <2>1. flow \in Flow BY <1>8 DEF CallbackBegins, Verified
  <2>2. [tab[t] EXCEPT !.at = "exchange", !.sent = flow.login, !.ret = flow.ret] \in Tab
    BY <1>8, <2>1, TabSent DEF Flow, Fields, CallbackBegins
  <2>3. tab' \in [Tabs -> Tab] BY <1>8, <2>2 DEF CallbackBegins, Become
  <2>4. QED BY <1>8, <2>3 DEF CallbackBegins
<1>9. ASSUME NEW t \in Tabs, Answer(t) PROVE TypeOK'
  <2>1. flow' = None /\ disturbed' \subseteq Tabs
    BY <1>9 DEF Answer, ExchangeFails, Forbidden, LogIn, Answered
  <2>2. CASE ExchangeFails(t)
    <3>1. tab' \in [Tabs -> Tab] BY <1>0, <2>2 DEF ExchangeFails, Become, Places
    <3>2. QED BY <2>1, <2>2, <3>1 DEF ExchangeFails
  <2>3. CASE Forbidden(t)
    <3>1. tab' \in [Tabs -> Tab] BY <1>0, <2>3 DEF Forbidden, Become, Places
    <3>2. QED BY <2>1, <2>3, <3>1 DEF Forbidden
  <2>4. CASE LogIn(t)
    <3>1. tab[t].who \in Users /\ tab[t].ret \in Tabs \cup {None} /\ auth \in Keys
      BY <2>4 DEF LogIn, Verifies, Gated, Tab, TabOK
    <3>2. sess' \in Session BY <2>4, <3>1 DEF LogIn, Session
    <3>3. tab' \in [Tabs -> Tab] BY <2>4, <3>1 DEF LogIn, Become, At, Ret, Tab, Places
    <3>4. QED BY <2>1, <2>4, <3>2, <3>3 DEF LogIn
  <2>5. QED BY <1>9, <2>2, <2>3, <2>4 DEF Answer
<1>10. ASSUME NEW t \in Tabs, Logout(t) PROVE TypeOK'
  <2>1. tab' \in [Tabs -> Tab] BY <1>10, <1>0 DEF Logout, Become, Places
  <2>2. QED BY <1>10, <2>1 DEF Logout
<1>11. ASSUME NEW t \in Tabs, ComeBack(t) PROVE TypeOK'
  <2>1. CASE Decline(t)
    <3>1. tab' \in [Tabs -> Tab] BY <2>1, <1>1 DEF Decline, Goto, Places
    <3>2. QED BY <2>1, <3>1 DEF Decline
  <2>2. ASSUME NEW u \in Users, Authenticate(t, u) PROVE TypeOK'
    <3>1. [tab[t] EXCEPT !.at = "callback", !.who = u] \in Tab
      BY TabWithCode DEF Fields
    <3>2. tab' \in [Tabs -> Tab] BY <2>2, <3>1 DEF Authenticate, Become
    <3>3. QED BY <2>2, <3>2 DEF Authenticate
  <2>3. QED BY <1>11, <2>1, <2>2 DEF ComeBack
<1>12. CASE Regroup BY <1>12 DEF Regroup
<1>13. CASE Restart
  <2>1. auth' \in Keys \cup {"off", "down"}
    BY <1>13 DEF Restart, Outcomes, Started, Environments, Disabled, Keys
  <2>2. flow' \in Flow \cup {None} /\ sess' \in Session \cup {None}
    BY <1>13 DEF Restart, Kept
  <2>3. tab' \in [Tabs -> Tab] BY <1>13, <1>0 DEF Restart, Places
  <2>4. restarts' \in 0..MaxRestarts BY <1>13 DEF Restart
  <2>5. disturbed' \subseteq Tabs BY <1>13 DEF Restart, Disturb
  <2>6. QED BY <1>13, <2>1, <2>2, <2>3, <2>4, <2>5 DEF Restart
<1>14. CASE Tick
  <2>1. flow' \in Flow \cup {None} BY <1>14 DEF Tick, Flow
  <2>2. sess' \in Session \cup {None} BY <1>14 DEF Tick, Session
  <2>3. away' \in [Users -> 0..TTL] BY <1>14 DEF Tick
  <2>4. disturbed' \subseteq Tabs BY <1>14 DEF Tick, Disturb
  <2>5. QED BY <1>14, <2>1, <2>2, <2>3, <2>4 DEF Tick
<1>15. CASE Evict BY <1>15 DEF Evict
<1>16. CASE UNCHANGED vars BY <1>16 DEF vars
<1>17. ASSUME NEW t \in Tabs, Redeem(t) PROVE TypeOK'
  <2>1. tab' \in [Tabs -> Tab] BY <1>17, TabWithToken DEF Redeem, Become, Places, Fields
  <2>2. QED BY <1>17, <2>1 DEF Redeem
<1>18. QED
  BY <1>3, <1>4, <1>5, <1>6, <1>7, <1>8, <1>9, <1>10, <1>11, <1>12, <1>13, <1>14, <1>15,
     <1>16, <1>17 DEF Next, World, Handle, Browse, Callback

\* A step of a tab leaves the others as they are.
LEMMA OthersStay ==
  ASSUME TypeOK, NEW t \in Tabs, Handle(t) \/ Browse(t)
  PROVE  \A u \in Tabs \ {t} : tab'[u] = tab[u]
<1>1. ASSUME NEW s, Become(t, s) PROVE \A u \in Tabs \ {t} : tab'[u] = tab[u]
  BY <1>1 DEF Become, TypeOK
<1>2. ASSUME NEW place, Goto(t, place) PROVE \A u \in Tabs \ {t} : tab'[u] = tab[u]
  BY <1>2 DEF Goto, TypeOK
<1>3. CASE Handle(t)
  BY <1>1, <1>2, <1>3
     DEF Handle, Serve, ServeUngated, Login, Callback, CallbackWithoutFlow, CallbackMismatch,
         CallbackBegins, Redeem, Answer, ExchangeFails, Forbidden, LogIn
<1>4. CASE Browse(t)
  BY <1>1, <1>2, <1>4
     DEF Browse, Visit, Close, Resend, Poll, Logout, ComeBack, Decline, Authenticate
<1>5. QED BY <1>3, <1>4

\* What each step of a tab makes of it.
LEMMA TabEffect ==
  ASSUME TypeOK, NEW t \in Tabs
  PROVE  /\ Visit(t) \/ Logout(t) => Fields(tab'[t], "open", None, FALSE, None, None)
         /\ Close(t) => Fields(tab'[t], "closed", None, FALSE, None, None)
         /\ ServeUngated(t) => Fields(tab'[t], "page", None, FALSE, None, None)
         /\ Forbidden(t) => Fields(tab'[t], "e403", None, FALSE, None, None)
         /\ LogIn(t) => Fields(tab'[t], "open", None, FALSE, None, tab[t].ret)
         /\ Resend(t) => \E spent \in BOOLEAN : (tab[t].spent => spent) /\
              Fields(tab'[t], "callback", tab[t].who, spent, None, None)
         /\ ExchangeFails(t) => \E spent \in BOOLEAN : (tab[t].spent => spent) /\
              Fields(tab'[t], "e502", tab[t].who, spent, None, None)
         /\ CallbackWithoutFlow(t) \/ CallbackMismatch(t) =>
              Fields(tab'[t], "e400", tab[t].who, tab[t].spent, None, None)
         /\ CallbackBegins(t) =>
              Fields(tab'[t], "exchange", tab[t].who, tab[t].spent, t, flow.ret)
         /\ Redeem(t) => Fields(tab'[t], IF tab[t].who \in members THEN "insider" ELSE "outsider",
                                tab[t].who, TRUE, tab[t].sent, tab[t].ret)
         /\ Serve(t) => \E place \in {"page", "login"} :
              Fields(tab'[t], place, tab[t].who, tab[t].spent, tab[t].sent, tab[t].ret)
         /\ Login(t) =>
              Fields(tab'[t], "idp", tab[t].who, tab[t].spent, tab[t].sent, tab[t].ret)
         /\ Decline(t) =>
              Fields(tab'[t], "callback", tab[t].who, tab[t].spent, tab[t].sent, tab[t].ret)
         /\ \A u \in Users : Authenticate(t, u) =>
              Fields(tab'[t], "callback", u, tab[t].spent, tab[t].sent, tab[t].ret)
<1>. USE DEF TypeOK
<1>1. tab[t] \in Tab /\ tab[t].spent \in BOOLEAN /\ tab[t].ret \in Tabs \cup {None} BY DEF Tab
<1>2. ASSUME NEW s, Become(t, s) PROVE tab'[t] = s /\ \A u \in Tabs \ {t} : tab'[u] = tab[u]
  BY <1>2 DEF Become
<1>3. ASSUME NEW place \in Places, Goto(t, place)
      PROVE  /\ Fields(tab'[t], place, tab[t].who, tab[t].spent, tab[t].sent, tab[t].ret)
             /\ \A u \in Tabs \ {t} : tab'[u] = tab[u]
  <2>1. tab'[t] = [tab[t] EXCEPT !.at = place] /\ \A u \in Tabs \ {t} : tab'[u] = tab[u]
    BY <1>3 DEF Goto
  <2>2. QED BY <1>1, <2>1, TabMoved
<1>4. /\ {"open", "login", "idp", "callback", "exchange", "page"} \subseteq Places
      /\ {"insider", "outsider", "e400", "e502", "e403", "closed"} \subseteq Places
  BY DEF Places
<1>5. Visit(t) \/ Logout(t) => Fields(tab'[t], "open", None, FALSE, None, None)
  BY <1>2, <1>4, TabAt DEF Visit, Logout
<1>6. Close(t) => Fields(tab'[t], "closed", None, FALSE, None, None)
  BY <1>2, <1>4, TabAt DEF Close
<1>7. ServeUngated(t) => Fields(tab'[t], "page", None, FALSE, None, None)
  BY <1>2, <1>4, TabAt DEF ServeUngated
<1>8. Forbidden(t) => Fields(tab'[t], "e403", None, FALSE, None, None)
  BY <1>2, <1>4, TabAt DEF Forbidden
<1>9. ASSUME LogIn(t) PROVE Fields(tab'[t], "open", None, FALSE, None, tab[t].ret)
  <2>1. tab'[t] = [At("open") EXCEPT !.ret = tab[t].ret] BY <1>2, <1>9 DEF LogIn, Ret
  <2>2. Fields([At("open") EXCEPT !.ret = tab[t].ret], "open", None, FALSE, None, tab[t].ret)
    BY <1>1, <1>4, TabAt
  <2>3. QED BY <2>1, <2>2
<1>10. ASSUME Resend(t)
       PROVE  \E spent \in BOOLEAN : (tab[t].spent => spent) /\
                Fields(tab'[t], "callback", tab[t].who, spent, None, None)
  <2>1. PICK spent \in {tab[t].spent, tab[t].at = "exchange"} :
          (tab[t].spent => spent) /\ Become(t, Failed(t, "callback", spent))
    BY <1>10 DEF Resend
  <2>2. spent \in BOOLEAN BY <1>1
  <2>3. QED BY <1>2, <1>4, <2>1, <2>2, TabFailed
<1>11. ASSUME ExchangeFails(t)
       PROVE  \E spent \in BOOLEAN : (tab[t].spent => spent) /\
                Fields(tab'[t], "e502", tab[t].who, spent, None, None)
  <2>1. PICK spent \in BOOLEAN :
          (tab[t].spent => spent) /\ Become(t, Failed(t, "e502", spent))
    BY <1>11 DEF ExchangeFails
  <2>2. QED BY <1>2, <1>4, <2>1, TabFailed
<1>12. CallbackWithoutFlow(t) \/ CallbackMismatch(t) =>
         Fields(tab'[t], "e400", tab[t].who, tab[t].spent, None, None)
  BY <1>1, <1>2, <1>4, TabFailed DEF CallbackWithoutFlow, CallbackMismatch
<1>13. ASSUME CallbackBegins(t)
       PROVE  Fields(tab'[t], "exchange", tab[t].who, tab[t].spent, t, flow.ret)
  <2>1. flow.login = t /\ flow.ret \in Tabs BY <1>13 DEF CallbackBegins, Verified, Flow
  <2>2. tab'[t] = [tab[t] EXCEPT !.at = "exchange", !.sent = flow.login, !.ret = flow.ret]
    BY <1>2, <1>13 DEF CallbackBegins
  <2>3. tab'[t] = [tab[t] EXCEPT !.at = "exchange", !.sent = t, !.ret = flow.ret]
    BY <2>1, <2>2
  <2>4. Fields([tab[t] EXCEPT !.at = "exchange", !.sent = t, !.ret = flow.ret],
               "exchange", tab[t].who, tab[t].spent, t, flow.ret)
    BY <1>1, <2>1, TabSent
  <2>5. QED BY <2>3, <2>4 DEF Fields
<1>14. Serve(t) => \E place \in {"page", "login"} :
         Fields(tab'[t], place, tab[t].who, tab[t].spent, tab[t].sent, tab[t].ret)
  BY <1>3, <1>4 DEF Serve
<1>15. Login(t) => Fields(tab'[t], "idp", tab[t].who, tab[t].spent, tab[t].sent, tab[t].ret)
  BY <1>3, <1>4 DEF Login
<1>16. Decline(t) =>
         Fields(tab'[t], "callback", tab[t].who, tab[t].spent, tab[t].sent, tab[t].ret)
  BY <1>3, <1>4 DEF Decline
<1>17. ASSUME NEW u \in Users, Authenticate(t, u)
       PROVE  Fields(tab'[t], "callback", u, tab[t].spent, tab[t].sent, tab[t].ret)
  BY <1>1, <1>2, <1>17, TabWithCode DEF Authenticate
<1>18. Redeem(t) => Fields(tab'[t], IF tab[t].who \in members THEN "insider" ELSE "outsider",
                           tab[t].who, TRUE, tab[t].sent, tab[t].ret)
  BY <1>1, <1>2, <1>4, TabWithToken DEF Redeem
<1>19. QED
  BY <1>5, <1>6, <1>7, <1>8, <1>9, <1>10, <1>11, <1>12, <1>13, <1>14, <1>15, <1>16, <1>17, <1>18

\* After a crash: what the process was answering is an error page, the rest stays.
LEMMA RestartEffect ==
  ASSUME TypeOK, Restart, NEW t \in Tabs
  PROVE  IF Answering(t)
         THEN \E spent \in BOOLEAN : (tab[t].spent => spent) /\
                Fields(tab'[t], "e502", tab[t].who, spent, None, None)
         ELSE tab'[t] = tab[t]
<1>. DEFINE cut == {u \in Tabs : Answering(u)}
<1>1. PICK spent \in [cut -> BOOLEAN] :
        /\ \A u \in cut : tab[u].spent => spent[u]
        /\ tab' = [u \in Tabs |-> IF u \in cut THEN Failed(u, "e502", spent[u]) ELSE tab[u]]
  BY DEF Restart
<1>2. CASE t \in cut
  <2>1. tab'[t] = Failed(t, "e502", spent[t]) /\ spent[t] \in BOOLEAN
        /\ (tab[t].spent => spent[t]) /\ "e502" \in Places
    BY <1>1, <1>2 DEF Places
  <2>2. QED BY <1>2, <2>1, TabFailed
<1>3. CASE t \notin cut BY <1>1, <1>3
<1>4. QED BY <1>2, <1>3

\* The page and the code of each tab.
LEMMA TabNext ==
  ASSUME TypeOK, FlowOK, \A t \in Tabs : TabOK(t), [Next]_vars
  PROVE  FlowOK' /\ \A t \in Tabs : TabOK(t)'
<1>. USE TabsAssumption DEF TypeOK, FlowOK, TabOK
<1>1. ASSUME NEW t \in Tabs, Handle(t) \/ Browse(t), TabOK(t)' PROVE \A u \in Tabs : TabOK(u)'
  BY <1>1, OthersStay
<1>2. ASSUME NEW t \in Tabs, Visit(t) \/ Close(t) PROVE FlowOK' /\ TabOK(t)'
  <2>1. FlowOK' BY <1>2 DEF Visit, Close, Forget, Flow
  <2>2. QED BY <1>2, <2>1, TabEffect DEF Fields
<1>3. ASSUME NEW t \in Tabs, Resend(t) PROVE FlowOK' /\ TabOK(t)'
  <2>1. TabOK(t)' BY <1>3, TabEffect DEF Fields
  <2>2. QED BY <1>3, <2>1 DEF Resend
<1>4. ASSUME NEW t \in Tabs, Handle(t), ~Login(t), ~CallbackBegins(t) PROVE TabOK(t)'
  <2>1. CASE Serve(t) BY <2>1, TabEffect DEF Fields, Serve
  <2>2. CASE ServeUngated(t) \/ CallbackWithoutFlow(t) \/ CallbackMismatch(t)
    BY <2>2, TabEffect DEF Fields
  <2>3. CASE ExchangeFails(t) BY <2>3, TabEffect DEF Fields
  <2>4. CASE Forbidden(t) \/ LogIn(t) BY <2>4, TabEffect DEF Fields
  <2>5. CASE Redeem(t) BY <2>5, TabEffect DEF Fields, Redeem
  <2>6. QED BY <1>4, <2>1, <2>2, <2>3, <2>4, <2>5 DEF Handle, Callback, Answer
<1>5. ASSUME NEW t \in Tabs, Handle(t), ~Login(t) PROVE flow' \in {flow, None}
  BY <1>5 DEF Handle, Serve, ServeUngated, Callback, CallbackWithoutFlow, CallbackMismatch,
              CallbackBegins, Redeem, Answer, ExchangeFails, Forbidden, LogIn, Answered
<1>6. ASSUME NEW t \in Tabs, Login(t) PROVE FlowOK' /\ TabOK(t)'
  <2>1. FlowOK' BY <1>6 DEF Login, Stashed, NewFlow
  <2>2. QED BY <1>6, <2>1, TabEffect DEF Fields, Login
<1>7. ASSUME NEW t \in Tabs, Poll(t) PROVE FlowOK' /\ \A u \in Tabs : TabOK(u)'
  BY <1>7 DEF Poll, Stashed, NewFlow
<1>8. ASSUME NEW t \in Tabs, CallbackBegins(t) PROVE TabOK(t)'
  <2>1. flow.ret = t BY <1>8 DEF CallbackBegins, Verified
  <2>2. QED BY <1>8, <2>1, TabEffect DEF Fields
<1>9. ASSUME NEW t \in Tabs, Logout(t) PROVE FlowOK' /\ TabOK(t)'
  <2>1. TabOK(t)' BY <1>9, TabEffect DEF Fields
  <2>2. QED BY <1>9, <2>1 DEF Logout
<1>10. ASSUME NEW t \in Tabs, ComeBack(t) PROVE FlowOK' /\ TabOK(t)'
  <2>1. TabOK(t)' BY <1>10, TabEffect DEF Fields, ComeBack
  <2>2. QED BY <1>10, <2>1 DEF ComeBack, Decline, Authenticate
<1>11. CASE Restart
  <2>1. \A t \in Tabs : TabOK(t)' BY <1>11, RestartEffect DEF Fields
  <2>2. QED BY <1>11, <2>1 DEF Restart, Kept
<1>12. CASE Tick BY <1>12 DEF Tick, Flow
<1>13. CASE Regroup \/ Evict \/ UNCHANGED vars BY <1>13 DEF Regroup, Evict, vars
<1>14. ASSUME NEW t \in Tabs, Handle(t) PROVE FlowOK' /\ TabOK(t)'
  BY <1>4, <1>5, <1>6, <1>8, <1>14
<1>15. ASSUME NEW t \in Tabs, Browse(t) PROVE FlowOK' /\ \A u \in Tabs : TabOK(u)'
  BY <1>1, <1>2, <1>3, <1>7, <1>9, <1>10, <1>15 DEF Browse
<1>16. QED BY <1>1, <1>11, <1>12, <1>13, <1>14, <1>15 DEF Next, World

\* Whatever takes the flow cookie of a login that is under way disturbs that login.
LEMMA DisturbedNext ==
  ASSUME TypeOK, \A t \in Tabs : Undisturbed(t), OnlyDisturbedAreBadRequests, [Next]_vars
  PROVE  OnlyDisturbedAreBadRequests' /\ \A t \in Tabs : Undisturbed(t)'
<1>. DEFINE Refused(t) == tab[t].at = "e400" => t \in disturbed
            Fine(t) == Undisturbed(t) /\ Refused(t)
            Met == {u \in Tabs : UnderWay(u)}
<1>. SUFFICES \A t \in Tabs : Fine(t)' BY DEF OnlyDisturbedAreBadRequests
<1>0. \A t \in Tabs : Fine(t) BY DEF OnlyDisturbedAreBadRequests
<1>. USE TabsAssumption DEF Undisturbed, UnderWay
\* A tab nothing happens to stays fine if its flow cookie stays or it is disturbed.
<1>1. ASSUME NEW u \in Tabs, tab'[u] = tab[u], u \in disturbed => u \in disturbed',
             u \in Met => u \in disturbed' \/ (flow' = flow /\ auth' = auth)
      PROVE  Fine(u)'
  BY <1>0, <1>1
<1>2. ASSUME NEW t \in Tabs, Visit(t) \/ Close(t) PROVE \A u \in Tabs : Fine(u)'
  <2>1. Fine(t)' BY <1>2, TabEffect DEF Fields
  <2>2. ASSUME NEW u \in Tabs \ {t} PROVE Fine(u)'
    <3>1. tab'[u] = tab[u] /\ (u \in disturbed => u \in disturbed') /\ auth' = auth
      BY <1>2 DEF Visit, Close, Become, TypeOK
    <3>2. flow # None /\ flow.login = u => flow' = flow BY <1>2 DEF Visit, Close, Forget
    <3>3. QED BY <1>0, <3>1, <3>2
  <2>3. QED BY <2>1, <2>2
<1>4. ASSUME NEW t \in Tabs, Resend(t) PROVE Fine(t)'
  BY <1>4, TabEffect DEF Fields, Resend
<1>5. ASSUME NEW t \in Tabs, Serve(t) \/ ServeUngated(t) PROVE Fine(t)'
  BY <1>5, TabEffect DEF Fields
<1>6. ASSUME NEW t \in Tabs, Login(t) PROVE Fine(t)'
  <2>1. flow' = [login |-> t, ret |-> t, key |-> auth, left |-> FlowAge] /\ auth' = auth
    BY <1>6 DEF Login, Stashed, NewFlow
  <2>2. flow' # None
    <3>1. auth \in Keys BY <1>6 DEF Login, Gated
    <3>2. flow' \in Flow BY <2>1, <3>1, LivesAssumption DEF Flow
    <3>3. QED BY <3>2, NoneAssumption
  <2>3. QED BY <1>6, <2>1, <2>2, TabEffect DEF Fields
<1>7. ASSUME NEW t \in Tabs, Poll(t) PROVE Fine(t)'
  BY <1>0, <1>7 DEF Poll, Disturb, UnderWay
<1>8. ASSUME NEW t \in Tabs, CallbackWithoutFlow(t) \/ CallbackMismatch(t) PROVE Fine(t)'
  <2>1. t \in disturbed
    BY <1>0, <1>8 DEF CallbackWithoutFlow, CallbackMismatch, Verified
  <2>2. disturbed \subseteq disturbed'
    BY <1>8 DEF CallbackWithoutFlow, CallbackMismatch, Disturb
  <2>3. QED BY <1>8, <2>1, <2>2, TabEffect DEF Fields
<1>9. ASSUME NEW t \in Tabs, CallbackBegins(t) \/ Redeem(t) \/ Answer(t) PROVE Fine(t)'
  BY <1>9, TabEffect DEF Fields, Answer
<1>10. ASSUME NEW t \in Tabs, Logout(t) PROVE Fine(t)' BY <1>10, TabEffect DEF Fields
<1>11. ASSUME NEW t \in Tabs, ComeBack(t) PROVE Fine(t)'
  <2>1. tab[t].at = "idp" /\ tab'[t].at = "callback"
    BY <1>11, TabEffect DEF ComeBack, Decline, Authenticate, Fields
  <2>2. flow' = flow /\ auth' = auth /\ disturbed' = disturbed
    BY <1>11 DEF ComeBack, Decline, Authenticate
  <2>3. QED BY <1>0, <2>1, <2>2
<1>12. ASSUME NEW t \in Tabs, Handle(t) PROVE \A u \in Tabs : Fine(u)'
  <2>1. Fine(t)'
    BY <1>5, <1>6, <1>8, <1>9, <1>12 DEF Handle, Callback
  <2>2. CASE Login(t) \/ CallbackMismatch(t) \/ Answer(t)
    <3>1. disturbed \ {t} \subseteq disturbed' /\ Met \ {t} \subseteq disturbed'
      BY <2>2 DEF Login, CallbackMismatch, Answer, ExchangeFails, Forbidden, LogIn, Answered,
                  Disturb, UnderWay
    <3>2. \A u \in Tabs \ {t} : tab'[u] = tab[u] BY <1>12, OthersStay
    <3>3. QED BY <1>1, <2>1, <3>1, <3>2
  <2>3. CASE Serve(t) \/ ServeUngated(t) \/ CallbackWithoutFlow(t) \/ CallbackBegins(t) \/ Redeem(t)
    <3>1. disturbed' = disturbed /\ flow' = flow /\ auth' = auth
      BY <2>3 DEF Serve, ServeUngated, CallbackWithoutFlow, CallbackBegins, Redeem
    <3>2. \A u \in Tabs \ {t} : tab'[u] = tab[u] BY <1>12, OthersStay
    <3>3. QED BY <1>1, <2>1, <3>1, <3>2
  <2>4. QED BY <1>12, <2>2, <2>3 DEF Handle, Callback
<1>13. ASSUME NEW t \in Tabs, Browse(t), ~Visit(t), ~Close(t) PROVE \A u \in Tabs : Fine(u)'
  <2>1. Fine(t)' BY <1>4, <1>7, <1>10, <1>11, <1>13 DEF Browse
  <2>2. \A u \in Tabs \ {t} : tab'[u] = tab[u] BY <1>13, OthersStay
  <2>3. disturbed \subseteq disturbed' /\ (Met \subseteq disturbed' \/ (flow' = flow /\ auth' = auth))
    BY <1>13 DEF Browse, Resend, Poll, Logout, ComeBack, Decline, Authenticate, Disturb, UnderWay
  <2>4. QED BY <1>1, <2>1, <2>2, <2>3
<1>14. CASE Restart
  <2>1. disturbed' = disturbed \cup Met BY <1>14 DEF Restart, Disturb, UnderWay
  <2>2. ASSUME NEW t \in Tabs PROVE Fine(t)'
    <3>1. CASE Answering(t) BY <1>14, <3>1, RestartEffect DEF Fields
    <3>2. CASE ~Answering(t)
      <4>1. tab'[t] = tab[t] BY <1>14, <3>2, RestartEffect
      <4>2. QED BY <1>1, <2>1, <4>1
    <3>3. QED BY <3>1, <3>2
  <2>3. QED BY <2>2
<1>15. CASE Tick
  <2>1. tab' = tab /\ auth' = auth /\ disturbed \subseteq disturbed'
    BY <1>15 DEF Tick, Disturb
  <2>2. flow' = None => Met \subseteq disturbed' BY <1>15 DEF Tick, Disturb, UnderWay
  <2>3. flow' # None => flow # None /\ flow'.login = flow.login /\ flow'.key = flow.key
    BY <1>15 DEF Tick, Flow, TypeOK
  <2>4. QED BY <1>0, <2>1, <2>2, <2>3
<1>16. CASE Regroup \/ Evict \/ UNCHANGED vars BY <1>0, <1>16 DEF Regroup, Evict, vars
<1>17. QED BY <1>2, <1>12, <1>13, <1>14, <1>15, <1>16 DEF Next, World, Browse

\* A tick takes from the session what it adds to its user's absence, and a session
\* starts while its user is vouched for.
LEMMA AwayNext ==
  ASSUME TypeOK, \A t \in Tabs : TabOK(t), AwayOK, [Next]_vars
  PROVE  AwayOK'
<1>. USE TabsAssumption, UsersAssumption, LivesAssumption DEF TypeOK
<1>. DEFINE In(t) == tab[t].at = "insider"
            NoNewToken == \A t \in Tabs : In(t)' => In(t) /\ tab'[t].who = tab[t].who
<1>0. /\ \A t \in Tabs : In(t) => tab[t].who \in Users /\ away[tab[t].who] = 0
      /\ \A u \in members : away[u] = 0
      /\ sess # None => sess.left + away[sess.user] <= TTL
  BY DEF AwayOK, TabOK, Tab
\* Most steps start no session, hand out no token, and take no time.
<1>1. ASSUME NoNewToken, members' = members, away' = away, sess' \in {sess, None} PROVE AwayOK'
  BY <1>0, <1>1 DEF AwayOK
<1>2. CASE Tick
  <2>1. tab' = tab /\ members' = members BY <1>2 DEF Tick
  <2>2. \A u \in Users : u \in Vouched => away'[u] = away[u] BY <1>2 DEF Tick
  <2>3. \A u \in members' : away'[u] = 0 BY <1>0, <2>1, <2>2 DEF Vouched
  <2>4. \A t \in Tabs : In(t)' => away'[tab'[t].who] = 0
    BY <1>0, <2>1, <2>2 DEF Vouched
  <2>5. CASE sess = None BY <1>2, <2>3, <2>4, <2>5 DEF Tick, AwayOK
  <2>6. CASE sess # None
    <3>1. sess \in Session BY <2>6
    <3>2. /\ sess.left \in 0..TTL /\ sess.user \in Users /\ away[sess.user] \in 0..TTL
          /\ TTL \in Nat
      BY <3>1 DEF Session
    <3>3. sess' = IF sess.left = 0 THEN sess ELSE [sess EXCEPT !.left = @ - 1]
      BY <1>2, <2>6 DEF Tick
    <3>4. /\ sess'.user = sess.user
          /\ sess'.left = IF sess.left = 0 THEN 0 ELSE sess.left - 1
      BY <3>1, <3>3 DEF Session
    <3>5. away'[sess.user] \in {away[sess.user], away[sess.user] + 1} /\ away'[sess.user] <= TTL
      BY <1>2, <3>2 DEF Tick
    <3>6. sess'.left + away'[sess'.user] <= TTL BY <1>0, <2>6, <3>2, <3>4, <3>5
    <3>7. QED BY <2>3, <2>4, <3>6 DEF AwayOK
  <2>7. QED BY <2>5, <2>6
<1>3. CASE Regroup
  <2>1. tab' = tab /\ sess' = sess /\ members' \subseteq Users BY <1>3 DEF Regroup
  <2>2. \A u \in Users : away'[u] = IF u \in members \cup members' THEN 0 ELSE away[u]
    BY <1>3 DEF Regroup
  <2>3. \A u \in Users : away'[u] <= away[u] BY <2>2
  <2>4. \A t \in Tabs : In(t)' => away'[tab'[t].who] = 0 BY <1>0, <2>1, <2>2
  <2>5. ASSUME sess' # None PROVE sess'.left + away'[sess'.user] <= TTL
    <3>1. /\ sess' = sess /\ sess # None /\ sess.left \in 0..TTL /\ sess.user \in Users
          /\ sess.left + away[sess.user] <= TTL
      BY <1>0, <2>1, <2>5 DEF Session
    <3>2. away[sess.user] \in 0..TTL /\ away'[sess.user] \in {0, away[sess.user]}
      BY <2>2, <3>1
    <3>3. QED BY <3>1, <3>2
  <2>6. QED BY <2>1, <2>2, <2>4, <2>5 DEF AwayOK
<1>4. ASSUME NEW t \in Tabs, Handle(t) \/ Browse(t), tab'[t].at # "insider" PROVE NoNewToken
  BY <1>4, OthersStay
<1>5. ASSUME NEW t \in Tabs, LogIn(t) PROVE AwayOK'
  <2>1. NoNewToken BY <1>4, <1>5, TabEffect DEF Handle, Answer, Fields
  <2>2. tab[t].who \in Users /\ away[tab[t].who] = 0 BY <1>0, <1>5 DEF LogIn, HasGroup
  <2>3. sess' = [user |-> tab[t].who, key |-> auth, left |-> TTL] /\ away' = away
        /\ members' = members
    BY <1>5 DEF LogIn
  <2>4. sess'.left + away'[sess'.user] <= TTL BY <2>2, <2>3
  <2>5. QED BY <1>0, <2>1, <2>3, <2>4 DEF AwayOK
<1>6. ASSUME NEW t \in Tabs, Redeem(t) PROVE AwayOK'
  <2>1. UNCHANGED <<members, away, sess>> BY <1>6 DEF Redeem
  <2>2. In(t)' => tab'[t].who \in members BY <1>6, TabEffect DEF Fields
  <2>3. \A u \in Tabs \ {t} : tab'[u] = tab[u] BY <1>6, OthersStay DEF Handle
  <2>4. \A u \in Tabs : In(u)' => away'[tab'[u].who] = 0 BY <1>0, <2>1, <2>2, <2>3
  <2>5. QED BY <1>0, <2>1, <2>4 DEF AwayOK
<1>7. ASSUME NEW t \in Tabs, Handle(t), ~LogIn(t), ~Redeem(t) PROVE AwayOK'
  <2>1. sess' \in {sess, None} /\ members' = members /\ away' = away
    BY <1>7 DEF Handle, Serve, ServeUngated, Login, Callback, CallbackWithoutFlow,
                CallbackMismatch, CallbackBegins, Answer, ExchangeFails, Forbidden
  <2>2. tab'[t].at # "insider"
    BY <1>7, TabEffect DEF Handle, Callback, Answer, Fields
  <2>3. QED BY <1>1, <1>4, <1>7, <2>1, <2>2
<1>8. ASSUME NEW t \in Tabs, Browse(t) PROVE AwayOK'
  <2>1. sess' \in {sess, None} /\ members' = members /\ away' = away
    BY <1>8 DEF Browse, Visit, Close, Resend, Poll, Logout, ComeBack, Decline, Authenticate
  <2>2. CASE Poll(t) BY <1>1, <2>1, <2>2 DEF Poll
  <2>3. CASE ~Poll(t)
    <3>1. tab'[t].at # "insider" BY <1>8, <2>3, TabEffect DEF Browse, ComeBack, Fields
    <3>2. QED BY <1>1, <1>4, <1>8, <2>1, <3>1
  <2>4. QED BY <2>2, <2>3
<1>9. CASE Restart
  <2>1. sess' \in {sess, None} /\ members' = members /\ away' = away BY <1>9 DEF Restart, Kept
  <2>2. NoNewToken BY <1>9, RestartEffect DEF Fields
  <2>3. QED BY <1>1, <2>1, <2>2
<1>10. CASE Evict \/ UNCHANGED vars BY <1>1, <1>10 DEF Evict, vars
<1>11. QED BY <1>2, <1>3, <1>5, <1>6, <1>7, <1>8, <1>9, <1>10 DEF Next, World

LEMMA LoginInvAlways == Spec => []LoginInv
<1>1. LoginInv /\ [Next]_vars => LoginInv'
  BY TypeNext, TabNext, DisturbedNext, AwayNext DEF LoginInv
<1>2. QED BY InitHolds, <1>1, PTL DEF Spec

-----------------------------------------------------------------------------
\* Every variable of the login keeps its type.
THEOREM LoginTypes == Spec => []TypeOK
<1>1. LoginInv => TypeOK BY DEF LoginInv
<1>2. QED BY LoginInvAlways, <1>1, PTL

\* A login is refused as a bad request only when something met it on the way:
\* callbackHandler's comparisons never fail for a login left alone.
THEOREM BadRequestsAreDisturbed == Spec => []OnlyDisturbedAreBadRequests
<1>1. LoginInv => OnlyDisturbedAreBadRequests BY DEF LoginInv
<1>2. QED BY LoginInvAlways, <1>1, PTL

\* A session outlives the last vouching for its user by the session's life at most.
THEOREM SessionsEndInTime == Spec => []GoneWithinTTL
<1>1. LoginInv => GoneWithinTTL BY DEF LoginInv, AwayOK, GoneWithinTTL
<1>2. QED BY LoginInvAlways, <1>1, PTL

\* Nobody is sent to the page that another tab had asked for.
THEOREM LoginLandsHome == Spec => []LandsWhereItAsked
<1>1. LoginInv => LandsWhereItAsked BY DEF LoginInv, TabOK, LandsWhereItAsked
<1>2. QED BY LoginInvAlways, <1>1, PTL

-----------------------------------------------------------------------------
(* The login implements Gate                                               *)

AskedNow == [t \in Tabs |-> Asked(t)]
InsideNow == {t \in Tabs : tab[t].at = "page"}

\* Without a step of its own the gate stands still.
GateStays == UNCHANGED <<auth, members, Pass, AskedNow, InsideNow>>

\* What a tab has asked for changes with the tab only.
LEMMA AskedChanges ==
  ASSUME NEW t \in Tabs, \A u \in Tabs \ {t} : tab'[u] = tab[u]
  PROVE  /\ AskedNow' = [AskedNow EXCEPT ![t] = Asked(t)']
         /\ InsideNow' = IF tab'[t].at = "page" THEN InsideNow \cup {t} ELSE InsideNow \ {t}
         /\ Asked(t)' = Asked(t) => AskedNow' = AskedNow
<1>1. \A u \in Tabs \ {t} : Asked(u)' = Asked(u) BY DEF Asked
<1>2. AskedNow' = [u \in Tabs |-> Asked(u)'] BY DEF AskedNow
<1>3. AskedNow' = [AskedNow EXCEPT ![t] = Asked(t)'] BY <1>1, <1>2 DEF AskedNow
<1>4. Asked(t)' = Asked(t) => AskedNow' = AskedNow BY <1>1, <1>2 DEF AskedNow
<1>5. InsideNow' = IF tab'[t].at = "page" THEN InsideNow \cup {t} ELSE InsideNow \ {t}
  BY DEF InsideNow
<1>6. QED BY <1>3, <1>4, <1>5

\* The browser's steps.
LEMMA BrowseIsGate ==
  ASSUME LoginInv, NEW t \in Tabs, Browse(t)
  PROVE  Gate!Next \/ GateStays
<1>. USE TabsAssumption, UsersAssumption DEF LoginInv, TabOK
<1>. DEFINE NextAsked == Asked(t)'
<1>0. /\ TypeOK
      /\ AskedNow' = [AskedNow EXCEPT ![t] = NextAsked]
      /\ InsideNow' = IF tab'[t].at = "page" THEN InsideNow \cup {t} ELSE InsideNow \ {t}
      /\ NextAsked = Asked(t) => AskedNow' = AskedNow
      /\ AskedNow[t] = Asked(t)
      /\ t \in InsideNow <=> tab[t].at = "page"
  BY OthersStay, AskedChanges DEF AskedNow, InsideNow
<1>. HIDE DEF NextAsked
<1>1. CASE Visit(t) \/ Close(t)
  <2>1. NextAsked = None /\ tab'[t].at # "page"
    BY <1>0, <1>1, TabEffect DEF NextAsked, Fields, Asked
  <2>2. auth' = auth /\ members' = members /\ Pass' = Pass BY <1>1 DEF Visit, Close, Pass
  <2>3. Gate!Drop(t) BY <1>0, <2>1, <2>2 DEF Gate!Drop, AskedNow, InsideNow
  <2>4. QED BY <2>3 DEF Gate!Next
<1>2. CASE Resend(t)
  <2>1. /\ tab[t].at # "page" /\ tab'[t].at # "page"
        /\ NextAsked \in {None, Asked(t)}
    BY <1>0, <1>2, TabEffect DEF NextAsked, Fields, Asked, Resend, Answering
  <2>2. auth' = auth /\ members' = members /\ Pass' = Pass BY <1>2 DEF Resend, Pass
  <2>3. CASE NextAsked = Asked(t) BY <1>0, <2>1, <2>2, <2>3 DEF GateStays
  <2>4. CASE NextAsked = None
    <3>1. Gate!Drop(t) BY <1>0, <2>1, <2>2, <2>4 DEF Gate!Drop, AskedNow, InsideNow
    <3>2. QED BY <3>1 DEF Gate!Next
  <2>5. QED BY <2>1, <2>3, <2>4
<1>3. CASE Poll(t)
  <2>1. tab' = tab /\ UNCHANGED <<auth, members, sess>> BY <1>3 DEF Poll
  <2>2. QED BY <2>1 DEF GateStays, AskedNow, InsideNow, Pass, Asked
<1>4. CASE Logout(t)
  <2>1. /\ tab[t].at = "page" /\ tab'[t].at # "page"
        /\ NextAsked = Asked(t)
    BY <1>0, <1>4, TabEffect DEF NextAsked, Fields, Asked, Logout
  <2>2. auth' = auth /\ members' = members /\ Pass' = None BY <1>4 DEF Logout, Pass
  <2>3. Gate!Revoke(t) BY <1>0, <2>1, <2>2 DEF Gate!Revoke, AskedNow, InsideNow
  <2>4. QED BY <2>3 DEF Gate!Next
<1>5. CASE Decline(t)
  <2>1. /\ tab[t].at # "page" /\ tab'[t].at # "page"
        /\ NextAsked = None
    BY <1>0, <1>5, TabEffect DEF NextAsked, Fields, Asked, Decline
  <2>2. auth' = auth /\ members' = members /\ Pass' = Pass BY <1>5 DEF Decline, Pass
  <2>3. Gate!Drop(t) BY <1>0, <2>1, <2>2 DEF Gate!Drop, AskedNow, InsideNow
  <2>4. QED BY <2>3 DEF Gate!Next
<1>6. ASSUME NEW u \in Users, Authenticate(t, u)
      PROVE  Gate!Next \/ GateStays
  <2>1. /\ tab[t].at # "page" /\ tab'[t].at # "page"
        /\ NextAsked = Asked(t)
    <3>1. /\ tab[t].at = "idp" /\ tab[t].who = None /\ tab[t].spent = FALSE
          /\ tab'[t].at = "callback" /\ tab'[t].who = u /\ tab'[t].spent = FALSE
      BY <1>0, <1>6, TabEffect DEF Fields, Authenticate
    <3>2. u # None BY UsersAssumption
    <3>3. QED BY <3>1, <3>2 DEF NextAsked, Asked
  <2>2. auth' = auth /\ members' = members /\ Pass' = Pass BY <1>6 DEF Authenticate, Pass
  <2>3. QED BY <1>0, <2>1, <2>2 DEF GateStays
<1>7. QED BY <1>1, <1>2, <1>3, <1>4, <1>5, <1>6 DEF Browse, ComeBack

\* The server's answers.
LEMMA HandleIsGate ==
  ASSUME LoginInv, NEW t \in Tabs, Handle(t)
  PROVE  Gate!Next \/ GateStays
<1>. USE TabsAssumption, UsersAssumption DEF LoginInv, TabOK
<1>. DEFINE NextAsked == Asked(t)'
<1>0. /\ TypeOK
      /\ AskedNow' = [AskedNow EXCEPT ![t] = NextAsked]
      /\ InsideNow' = IF tab'[t].at = "page" THEN InsideNow \cup {t} ELSE InsideNow \ {t}
      /\ NextAsked = Asked(t) => AskedNow' = AskedNow
      /\ AskedNow[t] = Asked(t)
      /\ t \in InsideNow <=> tab[t].at = "page"
  BY OthersStay, AskedChanges DEF AskedNow, InsideNow
<1>. HIDE DEF NextAsked
<1>1. CASE Serve(t)
  <2>1. tab[t].at = "open" /\ Asked(t) = None /\ NextAsked = None /\ tab'[t].at \in {"page", "login"}
    BY <1>0, <1>1, TabEffect DEF NextAsked, Fields, Asked, Serve
  <2>2. auth' = auth /\ members' = members /\ Pass' = Pass BY <1>1 DEF Serve, Pass
  <2>3. CASE tab'[t].at = "login" BY <1>0, <2>1, <2>2, <2>3 DEF GateStays
  <2>4. CASE tab'[t].at = "page"
    <3>1. auth = "off" \/ LoggedIn
      BY <1>1, <2>4 DEF Serve, Goto, TypeOK, Tab
    <3>2. auth = "off" \/ Pass # None
      <4>1. CASE LoggedIn
        <5>1. sess \in Session /\ sess.left # 0
          BY <1>0, <4>1 DEF LoggedIn, Verified, TypeOK, Session
        <5>2. sess # None BY <5>1, NoneAssumption
        <5>3. QED BY <5>1, <5>2, NoneAssumption DEF Pass, Session, Passes
      <4>2. QED BY <3>1, <4>1
    <3>3. Gate!Enter(t) BY <1>0, <2>1, <2>2, <2>4, <3>2 DEF Gate!Enter, AskedNow, InsideNow
    <3>4. QED BY <3>3 DEF Gate!Next
  <2>5. QED BY <2>1, <2>3, <2>4
<1>2. CASE ServeUngated(t)
  <2>1. NextAsked = None /\ tab'[t].at = "page"
    BY <1>0, <1>2, TabEffect DEF NextAsked, Fields, Asked
  <2>2. auth = "off" /\ auth' = auth /\ members' = members /\ Pass' = Pass
    BY <1>2 DEF ServeUngated, Pass
  <2>3. Gate!Enter(t) BY <1>0, <2>1, <2>2 DEF Gate!Enter, AskedNow, InsideNow
  <2>4. QED BY <2>3 DEF Gate!Next
<1>3. CASE Login(t)
  <2>1. tab[t].at = "login" /\ NextAsked = "asked" /\ tab'[t].at = "idp"
    BY <1>0, <1>3, TabEffect DEF NextAsked, Fields, Asked, Login
  <2>2. auth' = auth /\ members' = members /\ Pass' = Pass BY <1>3 DEF Login, Pass
  <2>3. Gate!Ask(t) BY <1>0, <2>1, <2>2 DEF Gate!Ask, AskedNow, InsideNow
  <2>4. QED BY <2>3 DEF Gate!Next
<1>4. CASE Callback(t)
  <2>1. tab[t].at = "callback" /\ NextAsked = Asked(t) /\ tab'[t].at \in {"e400", "exchange"}
    BY <1>0, <1>4, TabEffect DEF NextAsked, Fields, Asked, Callback, CallbackWithoutFlow,
                                 CallbackMismatch, CallbackBegins
  <2>2. auth' = auth /\ members' = members /\ Pass' = Pass
    BY <1>4 DEF Callback, CallbackWithoutFlow, CallbackMismatch, CallbackBegins, Pass
  <2>3. QED BY <1>0, <2>1, <2>2 DEF GateStays
<1>5. CASE ExchangeFails(t)
  <2>1. tab[t].at # "page" /\ NextAsked \in {None, Asked(t)} /\ tab'[t].at = "e502"
    BY <1>0, <1>5, TabEffect DEF NextAsked, Fields, Asked, ExchangeFails, Answering
  <2>2. auth' = auth /\ members' = members /\ Pass' = Pass BY <1>5 DEF ExchangeFails, Pass
  <2>3. CASE NextAsked = Asked(t) BY <1>0, <2>1, <2>2, <2>3 DEF GateStays
  <2>4. CASE NextAsked = None
    <3>1. Gate!Drop(t) BY <1>0, <2>1, <2>2, <2>4 DEF Gate!Drop, AskedNow, InsideNow
    <3>2. QED BY <3>1 DEF Gate!Next
  <2>5. QED BY <2>1, <2>3, <2>4
<1>6. CASE Forbidden(t)
  <2>1. NextAsked = None /\ tab'[t].at = "e403"
    BY <1>0, <1>6, TabEffect DEF NextAsked, Fields, Asked
  <2>2. auth' = auth /\ members' = members /\ Pass' = Pass BY <1>6 DEF Forbidden, Pass
  <2>3. Gate!Drop(t) BY <1>0, <2>1, <2>2 DEF Gate!Drop, AskedNow, InsideNow
  <2>4. QED BY <2>3 DEF Gate!Next
<1>7. CASE LogIn(t)
  <2>1. /\ tab[t].at = "insider" /\ tab'[t].at = "open"
        /\ Asked(t) = tab[t].who /\ tab[t].who \in Users /\ NextAsked = None
    BY <1>0, <1>7, TabEffect DEF NextAsked, Fields, Asked, LogIn, HasGroup, TypeOK, Tab
  <2>2. auth' = auth /\ members' = members
        /\ sess' = [user |-> tab[t].who, key |-> auth, left |-> TTL]
    BY <1>7 DEF LogIn
  <2>3. sess' \in Session
    BY <1>0, <1>7, <2>1, <2>2, LivesAssumption
       DEF TypeOK, Session, LogIn, Verifies, Gated
  <2>4. Pass' = [user |-> tab[t].who, left |-> TTL]
    BY <2>2, <2>3, LivesAssumption, NoneAssumption DEF Pass
  <2>5. Gate!Grant(t) BY <1>0, <2>1, <2>2, <2>4 DEF Gate!Grant, AskedNow, InsideNow
  <2>6. QED BY <2>5 DEF Gate!Next
<1>8. CASE Redeem(t)
  <2>1. /\ tab[t].at = "exchange" /\ tab'[t].at \in {"insider", "outsider"}
        /\ Asked(t) = "asked" /\ tab[t].who \in Users
        /\ NextAsked = IF tab[t].who \in members THEN tab[t].who ELSE None
    BY <1>0, <1>8, TabEffect DEF NextAsked, Fields, Asked, Redeem, TypeOK, Tab
  <2>2. auth' = auth /\ members' = members /\ Pass' = Pass BY <1>8 DEF Redeem, Pass
  <2>3. CASE tab[t].who \in members
    <3>1. Gate!Vouch(t, tab[t].who)
      BY <1>0, <2>1, <2>2, <2>3 DEF Gate!Vouch, AskedNow, InsideNow
    <3>2. QED BY <2>1, <3>1 DEF Gate!Next
  <2>4. CASE tab[t].who \notin members
    <3>1. Gate!Drop(t) BY <1>0, <2>1, <2>2, <2>4 DEF Gate!Drop, AskedNow, InsideNow
    <3>2. QED BY <3>1 DEF Gate!Next
  <2>5. QED BY <2>3, <2>4
<1>9. QED BY <1>1, <1>2, <1>3, <1>4, <1>5, <1>6, <1>7, <1>8 DEF Handle, Answer

\* Time, the provider, and restarts.
LEMMA WorldIsGate ==
  ASSUME LoginInv, World
  PROVE  Gate!Next \/ GateStays
<1>. USE DEF LoginInv
<1>1. CASE Regroup
  <2>1. tab' = tab /\ UNCHANGED <<auth, sess>> /\ members' \subseteq Users BY <1>1 DEF Regroup
  <2>2. AskedNow' = AskedNow /\ InsideNow' = InsideNow /\ Pass' = Pass
    BY <2>1 DEF AskedNow, InsideNow, Pass, Asked
  <2>3. Gate!Regroup BY <2>1, <2>2 DEF Gate!Regroup, AskedNow, InsideNow
  <2>4. QED BY <2>3 DEF Gate!Next
<1>2. CASE Restart
  <2>1. members' = members /\ sess' \in {None, sess} BY <1>2 DEF Restart, Kept
  <2>2. Pass' \in {None, Pass} BY <2>1 DEF Pass
  <2>3. \A t \in Tabs : /\ Asked(t)' \in {None, Asked(t)}
                        /\ tab'[t].at = "page" <=> tab[t].at = "page"
    BY <1>2, RestartEffect DEF Fields, Asked, Answering
  <2>4. InsideNow' = InsideNow BY <2>3 DEF InsideNow
  <2>5. AskedNow' = [t \in Tabs |-> IF t \in {u \in Tabs : Asked(u)' = None}
                                    THEN None ELSE AskedNow[t]]
    BY <2>3 DEF AskedNow
  <2>6. AskedNow' \in {[t \in Tabs |-> IF t \in T THEN None ELSE AskedNow[t]] : T \in SUBSET Tabs}
    BY <2>5
  <2>7. Gate!Restart
    BY <2>1, <2>2, <2>4, <2>6 DEF Gate!Restart, AskedNow, InsideNow
  <2>8. QED BY <2>7 DEF Gate!Next
<1>3. CASE Tick
  <2>1. tab' = tab /\ UNCHANGED <<auth, members>> BY <1>3 DEF Tick
  <2>2. AskedNow' = AskedNow /\ InsideNow' = InsideNow BY <2>1 DEF AskedNow, InsideNow, Asked
  <2>3. CASE sess = None \/ sess.left = 0
    BY <1>3, <2>1, <2>2, <2>3 DEF Tick, GateStays, Pass
  <2>4. CASE sess # None /\ sess.left # 0
    <3>1. sess \in Session /\ sess' = [sess EXCEPT !.left = @ - 1]
      BY <1>3, <2>4 DEF Tick, TypeOK
    <3>2. /\ sess'.user = sess.user /\ sess'.left = sess.left - 1
          /\ sess' \in Session /\ sess.left \in 1..TTL
      BY <2>4, <3>1, LivesAssumption DEF Session
    <3>3. Pass = [user |-> sess.user, left |-> sess.left] /\ Pass # None
      BY <2>4, <3>1, NoneAssumption DEF Pass, Session, Passes
    <3>4. Pass' = IF sess.left = 1 THEN None ELSE [user |-> sess.user, left |-> sess.left - 1]
      BY <3>2, NoneAssumption, LivesAssumption DEF Pass
    <3>5. Pass' = IF Pass.left = 1 THEN None ELSE [Pass EXCEPT !.left = @ - 1]
      BY <3>3, <3>4
    <3>6. Gate!Tick BY <2>1, <2>2, <3>3, <3>5 DEF Gate!Tick, AskedNow, InsideNow
    <3>7. QED BY <3>6 DEF Gate!Next
  <2>5. QED BY <2>3, <2>4
<1>4. CASE Evict
  <2>1. tab' = tab /\ UNCHANGED <<auth, members>> BY <1>4 DEF Evict
  <2>2. Pass' = None /\ Pass = None BY <1>4 DEF Evict, Pass
  <2>3. QED BY <2>1, <2>2 DEF GateStays, AskedNow, InsideNow, Asked
<1>5. QED BY <1>1, <1>2, <1>3, <1>4 DEF World

\* The browser is let in, kept in and kept out as Gate promises, for any tabs, users
\* and restarts: middleware, login, callback and logout implement it.
THEOREM LoginIsGate == Spec => ImplementsGate
<1>1. Init => Gate!Init
  <2>1. SUFFICES ASSUME Init PROVE Gate!Init OBVIOUS
  <2>2. \A t \in Tabs : Asked(t) = None /\ tab[t].at # "page"
    BY <2>1 DEF Init, At, Asked
  <2>3. QED BY <2>1, <2>2 DEF Init, Gate!Init, Pass
<1>2. LoginInv /\ [Next]_vars =>
        [Gate!Next]_<<auth = "off", members, [t \in Tabs |-> Asked(t)], Pass,
                      {t \in Tabs : tab[t].at = "page"}>>
  <2>1. SUFFICES ASSUME LoginInv, [Next]_vars
                 PROVE  Gate!Next \/ GateStays
    BY DEF GateStays, AskedNow, InsideNow
  <2>2. CASE UNCHANGED vars
    BY <2>2 DEF vars, GateStays, AskedNow, InsideNow, Asked, Pass
  <2>3. QED BY <2>1, <2>2, BrowseIsGate, HandleIsGate, WorldIsGate DEF Next
<1>3. QED BY LoginInvAlways, <1>1, <1>2, PTL DEF Spec, ImplementsGate, Gate!Spec, Gate!gvars
=============================================================================
