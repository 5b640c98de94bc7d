-------------------------- MODULE AccountLifecycle --------------------------
(***************************************************************************)
(* What the service promises about an account, whatever the interleaving   *)
(* of handlers on its replicas: it is registered, then activated, then may *)
(* be removed, one after the other and once each; nobody holds a session   *)
(* of an account that was never activated, and only a holder of a session  *)
(* removes it.                                                             *)
(***************************************************************************)
CONSTANTS Users

VARIABLES
    status,     \* where each account is in its life
    signedIn    \* accounts a session was ever opened for

lifecycleVars == <<status, signedIn>>

Statuses == {"absent", "pending", "active", "removed"}

Init ==
    /\ status = [u \in Users |-> "absent"]
    /\ signedIn = {}

Move(u, from, to) ==
    /\ status[u] = from
    /\ status' = [status EXCEPT ![u] = to]
    /\ UNCHANGED signedIn

Register(u) == Move(u, "absent", "pending")

Activate(u) == Move(u, "pending", "active")

Remove(u) == u \in signedIn /\ Move(u, "active", "removed")

\* A removed account may still be signed in: a login that loaded the account
\* before it was removed finishes on what it loaded.
OpenSession(u) ==
    /\ status[u] \in {"active", "removed"}
    /\ signedIn' = signedIn \cup {u}
    /\ UNCHANGED status

Next ==
    \E u \in Users : Register(u) \/ Activate(u) \/ Remove(u) \/ OpenSession(u)

Spec == Init /\ [][Next]_lifecycleVars
=============================================================================
