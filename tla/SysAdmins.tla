------------------------------ MODULE SysAdmins ------------------------------
(***************************************************************************)
(* What the user tables promise about system administrators: rights are    *)
(* granted to and withdrawn from one user at a time, and never withdrawn   *)
(* from the last one, so somebody can always administer the system.        *)
(***************************************************************************)
CONSTANT Users

VARIABLE admins    \* the users who are active system administrators

Init == admins \in SUBSET Users /\ admins # {}

Grant(u) == admins' = admins \cup {u}

Withdraw(u) ==
    /\ \E v \in admins : v # u
    /\ admins' = admins \ {u}

Next == \E u \in Users : Grant(u) \/ Withdraw(u)

Spec == Init /\ [][Next]_admins
=============================================================================
