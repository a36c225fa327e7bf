--------------------------- MODULE MCIssuePanels ---------------------------
(* The comments and the tasks of an issue for TLC.  They share no state, so *)
(* in a behaviour one of the two panels is used.                            *)
EXTENDS Activity, Tasks, TLC

VARIABLE panel
panelVars == <<areaVars, taskVars, panel>>

\* No issue and no comment differs from another.
Symmetry == Permutations(Issues) \cup Permutations(Comments)

\* There are one comment and two tasks.
MCInit ==
    /\ Init
    /\ \E i \in Issues, c \in Comments :
          \A j \in Issues, d \in Comments : server[j].comments[d] = 1 <=> <<i, c>> = <<j, d>>
    /\ TasksInit
    /\ DOMAIN stored = {1, 2} /\ stored[1].pos < stored[2].pos
    /\ panel \in {"comments", "tasks"}
    /\ panel = "comments" => stored[1].pos = 0 /\ stored[2].pos = 1

MCNext ==
    \/ panel = "comments" /\ Next /\ UNCHANGED <<taskVars, panel>>
    \/ panel = "tasks" /\ TasksNext /\ UNCHANGED <<areaVars, panel>>

MCSpec == MCInit /\ [][MCNext]_panelVars
=============================================================================
