------------------------------ MODULE MCAccess ------------------------------
(***************************************************************************)
(* Accounts and Sessions in one run.  They share no variable, so a step of *)
(* one neither helps nor hinders the other: instead of the product of      *)
(* their states, the initial state picks which of the two moves.           *)
(***************************************************************************)
EXTENDS Accounts, Sessions

VARIABLE focus

vars == <<accountsVars, sessionsVars, focus>>

CalledEndpoints ==
    {<<"users", h>> : h \in {"create", "update", "deactivate", "remove"}}
    \cup {<<"tenants", "lock">>, <<"invoices", "pay">>,
          <<"posDevices", "heartbeat">>}

GrantedRoles == {"SUPER_ADMIN", "VIEWER"}

OneSecond == [amount |-> 1, unit |-> "s"]
TwoSeconds == [amount |-> 2, unit |-> "s"]

Init ==
    /\ AccountsInit
    /\ SessionsInit
    /\ focus \in {"accounts", "sessions"}

Next ==
    /\ \/ focus = "accounts" /\ AccountsNext /\ UNCHANGED sessionsVars
       \/ focus = "sessions" /\ SessionsNext /\ UNCHANGED accountsVars
    /\ UNCHANGED focus

Spec == Init /\ [][Next]_vars /\ SessionsFairness
=============================================================================
