-------------------------------- MODULE Gate --------------------------------
(***************************************************************************)
(* What the login promises one browser: a page is shown on a pass only, a  *)
(* pass is given for a login that a tab of this browser has asked for, to  *)
(* the user the provider vouches for in it, once; the provider vouches for *)
(* users in the required group, and a pass is over after TTL ticks.        *)
(***************************************************************************)
EXTENDS Naturals

CONSTANTS Tabs, Users, None, TTL

VARIABLES
    open,     \* AUTH_MODE is off
    members,  \* the users in the required group
    asked,    \* what each tab has come to: None, "asked", or the user vouched for
    pass,     \* None, or the user let in and the ticks that are left
    inside    \* the tabs that show a page

gvars == <<open, members, asked, pass, inside>>

Init ==
    /\ open \in BOOLEAN
    /\ members \subseteq Users
    /\ asked = [t \in Tabs |-> None]
    /\ pass = None
    /\ inside = {}

Ask(t) ==
    /\ asked' = [asked EXCEPT ![t] = "asked"]
    /\ inside' = inside \ {t}
    /\ UNCHANGED <<open, members, pass>>

Vouch(t, u) ==
    /\ asked[t] = "asked" /\ u \in members
    /\ asked' = [asked EXCEPT ![t] = u]
    /\ UNCHANGED <<open, members, pass, inside>>

Drop(t) ==
    /\ asked' = [asked EXCEPT ![t] = None]
    /\ inside' = inside \ {t}
    /\ UNCHANGED <<open, members, pass>>

Grant(t) ==
    /\ asked[t] \in Users
    /\ pass' = [user |-> asked[t], left |-> TTL]
    /\ asked' = [asked EXCEPT ![t] = None]
    /\ UNCHANGED <<open, members, inside>>

Enter(t) ==
    /\ open \/ pass # None
    /\ inside' = inside \cup {t}
    /\ asked' = [asked EXCEPT ![t] = None]
    /\ UNCHANGED <<open, members, pass>>

Tick ==
    /\ pass # None
    /\ pass' = IF pass.left = 1 THEN None ELSE [pass EXCEPT !.left = @ - 1]
    /\ UNCHANGED <<open, members, asked, inside>>

\* Logout: the pass is given back.
Revoke(t) ==
    /\ pass' = None
    /\ inside' = inside \ {t}
    /\ UNCHANGED <<open, members, asked>>

\* A new start of the server, with another configuration perhaps.
Restart ==
    /\ open' \in BOOLEAN
    /\ pass' \in {None, pass}
    /\ asked' \in {[t \in Tabs |-> IF t \in T THEN None ELSE asked[t]] : T \in SUBSET Tabs}
    /\ UNCHANGED <<members, inside>>

\* The group is kept by the provider.
Regroup == members' \subseteq Users /\ UNCHANGED <<open, asked, pass, inside>>

Next ==
    \/ \E t \in Tabs : Ask(t) \/ Drop(t) \/ Grant(t) \/ Enter(t) \/ Revoke(t)
    \/ \E t \in Tabs, u \in Users : Vouch(t, u)
    \/ Tick \/ Restart \/ Regroup

Spec == Init /\ [][Next]_gvars
=============================================================================
