---------------------------- MODULE MCWorkspace ----------------------------
(* Workspace for TLC. *)
EXTENDS Workspace

MCViews == {"board", "backlog", "releases", "project-settings", "system-settings"}

\* The default project's issue is an active one, those of the others are open.
MCInit ==
    /\ Init
    /\ selected # DefaultProject
    /\ \A p \in Projects : at[p] = IF p = DefaultProject THEN "active" ELSE "open"
\* Bound: two refreshes overlap, and the requests of their lists.
Within == Cardinality(refreshes) <= 2 /\ Cardinality(fetches) <= 5
MCSpec == MCInit /\ [][Next /\ Within']_vars /\ Fairness
=============================================================================
