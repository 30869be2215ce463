----------------------------- MODULE OidcLogin -----------------------------
(***************************************************************************)
(* The OIDC login of one browser: its tabs share a cookie jar with the     *)
(* signed flow cookie of a login under way and the signed session cookie.  *)
(* internal/auth/auth.go, http.go and session.go, the routes of server.go. *)
(*                                                                         *)
(* A login's random state, nonce and PKCE verifier are named by the tab    *)
(* that goes through it; Stale are those of a login no tab holds any more. *)
(* The page a tab asks for is named by the tab too.                        *)
(* A cookie carries the ticks it still lives and the key that signed it;   *)
(* one that nobody can verify any more is as good as none.                 *)
(***************************************************************************)
EXTENDS Naturals

CONSTANTS
    Tabs, Users, None, Stale,
    Patient,      \* tabs whose users try until they are in
    TTL,          \* the session's life in ticks
    FlowAge,      \* the flow cookie's
    MaxRestarts   \* bound: the starts after the first

ASSUME TabsAssumption == None \notin Tabs /\ Stale \notin Tabs /\ None # Stale
                         /\ Patient \subseteq Tabs
ASSUME LivesAssumption == TTL \in Nat \ {0} /\ FlowAge \in Nat \ {0} /\ MaxRestarts \in Nat
ASSUME UsersAssumption == None \notin Users /\ "asked" \notin Users /\ None # "asked"

VARIABLES
    auth,      \* "down", "off", or what signs: the "configured" key or a "random" one
    flow,      \* the flow cookie
    sess,      \* the session cookie
    tab,       \* what each tab is doing
    members,   \* the users in the required group
    restarts,
    \* ---- history ----
    away,      \* ticks since each user was last vouched for, at most TTL
    disturbed  \* tabs whose login something else has met

vars == <<auth, flow, sess, tab, members, restarts, away, disturbed>>

Keys == {"configured", "random"}
Flow == [login : Tabs \cup {Stale}, ret : Tabs, key : Keys, left : 1..FlowAge]
Session == [user : Users, key : Keys, left : 0..TTL]
Places == {"open", "login", "idp", "callback", "exchange", "insider", "outsider", "page",
           "e400", "e502", "e403", "closed"}
\* Where a tab is (an insider's callback holds a token that names the required group,
\* an outsider's one that does not); the user whose code the provider has put into its address, and
\* whether that code has been redeemed; the login and the page of the flow cookie
\* its callback was sent with.
Tab == [at : Places, who : Users \cup {None}, spent : BOOLEAN,
        sent : Tabs \cup {Stale, None}, ret : Tabs \cup {None}]
At(place) == [at |-> place, who |-> None, spent |-> FALSE, sent |-> None, ret |-> None]

Passes == [user : Users, left : 1..TTL]
ASSUME NoneAssumption == None \notin Flow \cup Session \cup Passes

-----------------------------------------------------------------------------
(* Start-up and keys                                                       *)

Disabled(conf) == conf.mode \in {"", "off"}

\* auth.New and resolveKey.
Started(conf) ==
    CASE Disabled(conf) -> "off"
      [] ~Disabled(conf) /\ (conf.mode # "oidc" \/ ~conf.complete \/ conf.key = "short"
                             \/ ~conf.discovered) -> "down"
      [] OTHER -> IF conf.key = "" THEN "random" ELSE "configured"

Environments == [mode : {"", "off", "oidc", "odic"}, complete : BOOLEAN,
                 key : {"", "short", "good"}, discovered : BOOLEAN]

Outcomes == {Started(conf) : conf \in Environments}

\* Mutant: the configured key verifies, not the one resolveKey returned.
VerifiedAsConfigured(cookie) == cookie # None /\ cookie.key = "configured"
\* verifyValue
Verified(cookie) == cookie # None /\ cookie.key = auth

\* Mutant: the expiry is left to the browser.
Signed == Verified(sess)
\* ParseSession
LoggedIn == Verified(sess) /\ sess.left > 0

-----------------------------------------------------------------------------
(* The browser                                                             *)

Goto(t, place) == tab' = [tab EXCEPT ![t].at = place]
Become(t, state) == tab' = [tab EXCEPT ![t] = state]

\* An answer other than the page, with the address still in the tab.
Failed(t, status, spent) == [tab[t] EXCEPT !.at = status, !.spent = spent,
                                           !.sent = None, !.ret = None]
\* The random values of t's login are nobody's from now on.
Forget(t) == flow' = IF flow # None /\ flow.login = t THEN [flow EXCEPT !.login = Stale]
                     ELSE flow

Answering(t) == tab[t].at \in {"exchange", "insider", "outsider"}
UnderWay(t) == tab[t].at \in {"idp", "callback"} \/ Answering(t)
Disturb(T) == disturbed' = disturbed \cup {t \in T : UnderWay(t)}

Init ==
    /\ auth \in Outcomes \ {"down"}
    /\ flow = None /\ sess = None
    /\ tab = [t \in Tabs |-> At("closed")]
    /\ members \in SUBSET Users
    /\ restarts = 0
    /\ away = [u \in Users |-> IF u \in members THEN 0 ELSE TTL]
    /\ disturbed = {}

\* The user types an address, follows a link or tries again.
Visit(t) ==
    /\ tab[t].at \in {"closed", "page", "e400", "e502", "e403"}
    /\ Become(t, At("open"))
    /\ Forget(t)
    /\ disturbed' = disturbed \ {t}
    /\ UNCHANGED <<auth, sess, members, restarts, away>>

Close(t) ==
    /\ tab[t].at # "closed"
    /\ Become(t, At("closed"))
    /\ Forget(t)
    /\ disturbed' = disturbed \ {t}
    /\ UNCHANGED <<auth, sess, members, restarts, away>>

\* The callback address is sent once more: a reload of the error page, or of a
\* page that does not come.  The code may be redeemed by the first all the same.
Resend(t) ==
    /\ Answering(t) \/ tab[t].at \in {"e400", "e502"}
    /\ \E spent \in {tab[t].spent, tab[t].at = "exchange"} :
         /\ tab[t].spent => spent
         /\ Become(t, Failed(t, "callback", spent))
    /\ disturbed' = disturbed \cup {t}
    /\ UNCHANGED <<auth, flow, sess, members, restarts, away>>

-----------------------------------------------------------------------------
(* The server                                                              *)

Gated == auth \in Keys

\* Middleware, for a page.
Serve(t) ==
    /\ tab[t].at = "open" /\ auth # "down"
    /\ IF auth = "off" \/ LoggedIn THEN Goto(t, "page") ELSE Goto(t, "login")
    /\ UNCHANGED <<auth, flow, sess, members, restarts, away, disturbed>>

\* Without a login to go through, /auth/* is a page like any other.
ServeUngated(t) ==
    /\ tab[t].at \in {"login", "callback"} /\ auth = "off"
    /\ Become(t, At("page"))
    /\ UNCHANGED <<auth, flow, sess, members, restarts, away, disturbed>>

\* Mutant: a login that is under way is kept.
KeepFlow(new) == IF flow = None THEN new ELSE flow
Stashed(new) == new

\* Mutant: a cookie without MaxAge.
AgelessFlow(login, page) == [login |-> login, ret |-> page, key |-> auth, left |-> 0]
NewFlow(login, page) == [login |-> login, ret |-> page, key |-> auth, left |-> FlowAge]

\* Login: fresh random values into the flow cookie, and off to the provider.
Login(t) ==
    /\ tab[t].at = "login" /\ Gated
    /\ flow' = Stashed(NewFlow(t, t))
    /\ Goto(t, "idp")
    /\ Disturb(Tabs)
    /\ UNCHANGED <<auth, sess, members, restarts, away>>

\* The poll of a page whose session is over is sent to /auth/login too, and takes
\* its flow cookie; the browser then refuses to follow it to the provider.
Poll(t) ==
    /\ tab[t].at = "page" /\ Gated /\ ~LoggedIn
    /\ flow' = Stashed(NewFlow(Stale, t))
    /\ Disturb(Tabs)
    /\ UNCHANGED <<auth, sess, tab, members, restarts, away>>

\* Callback without a flow cookie it can verify: nothing is cleared.
CallbackWithoutFlow(t) ==
    /\ tab[t].at = "callback" /\ Gated /\ ~Verified(flow)
    /\ Become(t, Failed(t, "e400", tab[t].spent))
    /\ UNCHANGED <<auth, flow, sess, members, restarts, away, disturbed>>

\* Callback with the flow cookie of another login: it is cleared all the same.
CallbackMismatch(t) ==
    /\ tab[t].at = "callback" /\ Gated /\ Verified(flow) /\ flow.login # t
    /\ Become(t, Failed(t, "e400", tab[t].spent))
    /\ flow' = None
    /\ Disturb(Tabs \ {t})
    /\ UNCHANGED <<auth, sess, members, restarts, away>>

\* Callback: the flow cookie fits, and the exchange with the provider begins.
CallbackBegins(t) ==
    /\ tab[t].at = "callback" /\ Gated /\ Verified(flow) /\ flow.login = t
    /\ Become(t, [tab[t] EXCEPT !.at = "exchange", !.sent = flow.login, !.ret = flow.ret])
    /\ UNCHANGED <<auth, flow, sess, members, restarts, away, disturbed>>

\* The answer reaches the browser, and its cookie lines whatever is in the jar by now.
Answered(t) ==
    /\ flow' = None
    /\ disturbed' = (disturbed \cup {u \in Tabs : UnderWay(u)}) \ {t}

\* The provider refuses or fails (502), or the token it sent does not verify (401).
ExchangeFails(t) ==
    /\ Answering(t) /\ Gated
    /\ \E spent \in BOOLEAN :
         (tab[t].spent => spent) /\ Become(t, Failed(t, "e502", spent))
    /\ Answered(t)
    /\ UNCHANGED <<auth, sess, members, restarts, away>>

\* Exchange comes back with a token.  The provider redeems a code once and for its
\* own verifier, and writes the groups of that moment into the token; the token's
\* nonce is that of the flow cookie.
Redeem(t) ==
    /\ tab[t].at = "exchange" /\ Gated
    /\ tab[t].who # None /\ ~tab[t].spent /\ tab[t].sent = t
    /\ Become(t, [tab[t] EXCEPT !.spent = TRUE,
                    !.at = IF tab[t].who \in members THEN "insider" ELSE "outsider"])
    /\ UNCHANGED <<auth, flow, sess, members, restarts, away, disturbed>>

\* Verify has checked the token, with the provider's keys, which it may fetch first.
Verifies(t) == tab[t].at \in {"insider", "outsider"} /\ Gated

\* Mutant: any group will do.
AnyGroup(t) == TRUE
\* hasGroup, of the claim in the token.
HasGroup(t) == tab[t].at = "insider"

Forbidden(t) ==
    /\ Verifies(t) /\ ~HasGroup(t)
    /\ Become(t, At("e403"))
    /\ Answered(t)
    /\ UNCHANGED <<auth, sess, members, restarts, away>>

\* Mutant: the return path is looked up in the jar when the answer is written.
RetFromJar(t) == IF flow = None THEN None ELSE flow.ret
Ret(t) == tab[t].ret

\* verifyAndAuthorize succeeds: a session from now on, its cookie, and back to the page.
LogIn(t) ==
    /\ Verifies(t) /\ HasGroup(t)
    /\ sess' = [user |-> tab[t].who, key |-> auth, left |-> TTL]
    /\ Become(t, [At("open") EXCEPT !.ret = Ret(t)])
    /\ Answered(t)
    /\ UNCHANGED <<auth, members, restarts, away>>

\* Logout, and its redirect to the front page.
Logout(t) ==
    /\ tab[t].at = "page" /\ Gated
    /\ sess' = None
    /\ Become(t, At("open"))
    /\ UNCHANGED <<auth, flow, members, restarts, away, disturbed>>

-----------------------------------------------------------------------------
(* The provider, the operator, and time                                    *)

\* The user comes back with a code, or with the provider's refusal.
Authenticate(t, u) ==
    /\ tab[t].at = "idp"
    /\ Become(t, [tab[t] EXCEPT !.at = "callback", !.who = u])
    /\ UNCHANGED <<auth, flow, sess, members, restarts, away, disturbed>>

Decline(t) ==
    /\ tab[t].at = "idp"
    /\ Goto(t, "callback")
    /\ UNCHANGED <<auth, flow, sess, members, restarts, away, disturbed>>

\* The users in the group, and those of whom a token that a callback holds says so.
Vouched == members \cup {tab[t].who : t \in {u \in Tabs : tab[u].at = "insider"}}

Regroup ==
    /\ members' \in SUBSET Users \ {members}
    /\ away' = [u \in Users |-> IF u \in members \cup members' THEN 0 ELSE away[u]]
    /\ UNCHANGED <<auth, flow, sess, tab, restarts, disturbed>>

\* What a random key has signed is void after a restart.
Kept(cookie) == IF cookie # None /\ cookie.key = "random" THEN None ELSE cookie

\* The process dies, with the callbacks it was answering, and starts again.
Restart ==
    /\ restarts < MaxRestarts /\ restarts' = restarts + 1
    /\ auth' \in Outcomes
    /\ flow' = Kept(flow) /\ sess' = Kept(sess)
    /\ LET cut == {t \in Tabs : Answering(t)}
       IN  \E spent \in [cut -> BOOLEAN] :
             /\ \A t \in cut : tab[t].spent => spent[t]
             /\ tab' = [t \in Tabs |-> IF t \in cut THEN Failed(t, "e502", spent[t])
                                        ELSE tab[t]]
    /\ Disturb(Tabs)
    /\ UNCHANGED <<members, away>>

\* The browser drops a flow cookie at the end of its life, a session cookie when
\* it notices.
Tick ==
    /\ flow' = IF flow = None \/ flow.left = 1 THEN None ELSE [flow EXCEPT !.left = @ - 1]
    /\ sess' = IF sess = None \/ sess.left = 0 THEN sess ELSE [sess EXCEPT !.left = @ - 1]
    /\ away' = [u \in Users |-> IF u \in Vouched \/ away[u] = TTL THEN away[u]
                                ELSE away[u] + 1]
    /\ Disturb(IF flow' = None THEN Tabs ELSE {})
    /\ UNCHANGED <<auth, tab, members, restarts>>

Evict ==
    /\ sess # None /\ sess.left = 0
    /\ sess' = None
    /\ UNCHANGED <<auth, flow, tab, members, restarts, away, disturbed>>

-----------------------------------------------------------------------------

Answer(t) == ExchangeFails(t) \/ Forbidden(t) \/ LogIn(t)
ComeBack(t) == Decline(t) \/ \E u \in Users : Authenticate(t, u)
Callback(t) == CallbackWithoutFlow(t) \/ CallbackMismatch(t) \/ CallbackBegins(t)
Handle(t) == Serve(t) \/ ServeUngated(t) \/ Login(t) \/ Callback(t) \/ Redeem(t) \/ Answer(t)
Browse(t) ==
    Visit(t) \/ Close(t) \/ Resend(t) \/ Poll(t) \/ Logout(t) \/ ComeBack(t)
World == Regroup \/ Restart \/ Tick \/ Evict

Next == World \/ \E t \in Tabs : Handle(t) \/ Browse(t)

Spec == Init /\ [][Next]_vars

\* The user of a tab that was refused tries again.
Retry(t) == tab[t].at \in {"e400", "e502", "e403"} /\ Visit(t)

\* A member of the group is through with the provider before the flow cookie ends.
InTime(t) == flow # None /\ \E u \in members : Authenticate(t, u)
InTimeBack(t) == tab[t].who \in members /\ CallbackBegins(t)
TokenForMember(t) == tab[t].who \in members /\ Redeem(t)

\* The server answers; the provider does not fail for ever; a user who was refused
\* tries again, does not reload for ever what is about to come, and once in a
\* while is quick and uses an account of the group if there is one.
Fairness ==
    \A t \in Patient :
        /\ WF_vars(Handle(t)) /\ SF_vars(Answer(t)) /\ WF_vars(ComeBack(t))
        /\ SF_vars(InTime(t)) /\ SF_vars(InTimeBack(t)) /\ SF_vars(TokenForMember(t))
        /\ SF_vars(LogIn(t)) /\ SF_vars(Retry(t))

FairSpec == Spec /\ Fairness

-----------------------------------------------------------------------------
(* Properties                                                              *)

TypeOK ==
    /\ auth \in Keys \cup {"off", "down"}
    /\ flow \in Flow \cup {None} /\ sess \in Session \cup {None}
    /\ tab \in [Tabs -> Tab]
    /\ members \subseteq Users
    /\ restarts \in 0..MaxRestarts
    /\ away \in [Users -> 0..TTL] /\ disturbed \subseteq Tabs

\* A login is bad-request only if something came in between: another login or
\* poll of the browser, the answer to another callback, a restart, the end of
\* the flow cookie's ten minutes, or a callback sent twice (http.go:71-84).
OnlyDisturbedAreBadRequests == \A t \in Tabs : tab[t].at = "e400" => t \in disturbed

\* Whoever is taken out of the group is out of the application TTL later at the
\* latest, whatever tabs, logins and restarts do.  The TTL runs from the answer to the
\* last token that named the group: Verify may take its time over it, and the end of
\* the session is set after that (http.go:86-97, auth.go:131-150, session.go:72).
GoneWithinTTL ==
    sess # None /\ sess.user \notin Vouched => sess.left + away[sess.user] <= TTL

\* After a login a tab lands on the page it asked for, never on another tab's.
LandsWhereItAsked ==
    \A t \in Tabs : tab[t].at \in {"open", "page"} => tab[t].ret \in {None, t}

\* The gate's view: a session is a pass as long as some key may verify it.
Pass == IF sess = None \/ sess.left = 0 THEN None
        ELSE [user |-> sess.user, left |-> sess.left]
\* A login is asked for until its code is redeemed, by the token then.
Asked(t) ==
    CASE tab[t].at = "insider" -> tab[t].who
      [] tab[t].at = "idp" \/ (tab[t].who # None /\ ~tab[t].spent) -> "asked"
      [] OTHER -> None

\* Middleware, login, callback and logout keep the promise of Gate.
Gate == INSTANCE Gate WITH open <- auth = "off", pass <- Pass,
                           asked <- [t \in Tabs |-> Asked(t)],
                           inside <- {t \in Tabs : tab[t].at = "page"}
ImplementsGate == Gate!Spec

\* While one tab is alone and somebody is in the group, that tab gets in again and
\* again or is closed, whatever fails and expires on the way.
Alone(t) == auth # "down" /\ members # {} /\ \A u \in Tabs \ {t} : tab[u].at = "closed"
LoneTabGetsIn ==
    \A t \in Patient : <>[]Alone(t) => []<>(LoggedIn \/ tab[t].at \in {"page", "closed"})
=============================================================================
