---------------------------- MODULE MCIssueStore ----------------------------
(* IssueStore for TLC.                                                     *)
EXTENDS IssueStore, TLC

Symmetry == Permutations(Clients)

VARIABLE work
mcVars == <<vars, work>>

\* What the clients do in a behaviour: the requests, and the rows they ask for.  A run
\* explores several of these, each from its own initial states.
Workloads == [
    board   |-> [ops |-> {"create", "positions", "get", "put"}, avoids |-> {"Done", "Archive"},
                 labels |-> {}, releases |-> {}, users |-> {}, maxPos |-> 1],
    edit    |-> [ops |-> {"get", "put", "archive", "unarchive", "delete", "user"},
                 avoids |-> {}, labels |-> {}, releases |-> {}, users |-> Users,
                 maxPos |-> 0],
    move    |-> [ops |-> {"put", "move", "label", "project", "deleteProject"},
                 avoids |-> {}, labels |-> Labels, releases |-> {}, users |-> {},
                 maxPos |-> 0],
    release |-> [ops |-> {"get", "put", "release", "putRelease", "triggerRelease", "archive",
                          "unarchive"},
                 avoids |-> {}, labels |-> {}, releases |-> Releases, users |-> {},
                 maxPos |-> 0]]

AnyOf(S) == IF S = {} THEN Null ELSE CHOOSE x \in S : TRUE
NewRows == [i \in Issues |-> NoRow]

\* A database in use: project DefaultProject has one issue.  The other projects, the
\* label and the release are there, as a sequence of requests would leave them, or are
\* yet to be created.
InUse ==
    /\ user = [u \in Users |-> "active"]
    /\ \E i \in Issues, s \in {"Open", "Done"}, there \in BOOLEAN :
         LET labels == IF there THEN Workloads[work].labels ELSE {}
             releases == IF there THEN Workloads[work].releases ELSE {}
         IN
         /\ project = [p \in Projects |->
                         IF p = DefaultProject \/ (there /\ work = "move") THEN "live" ELSE "free"]
         /\ label = [l \in Labels |-> IF l \in labels THEN DefaultProject ELSE Free]
         /\ release = [r \in Releases |->
                         [NoRelease EXCEPT !.project = IF r \in releases THEN DefaultProject ELSE Free]]
         /\ issue = [NewRows EXCEPT ![i] = [project |-> DefaultProject, status |-> s,
                       label |-> AnyOf(labels), release |-> AnyOf(releases),
                       assignee |-> AnyOf(Workloads[work].users),
                       text |-> AnyOf(Texts), pos |-> Workloads[work].maxPos, etag |-> 1]]
         /\ history = {Entry(i, "created")}
    /\ clock = 2
    /\ req = [c \in Clients |-> Idle]
    /\ seen = [c \in Clients |-> NoView]

\* The step is one of the workload.
InWork ==
    LET w == Workloads[work] IN
    /\ \A c \in Clients : req[c].op = "none" =>
         /\ req'[c].op \in w.ops \cup {"none"}
         /\ req'[c].new.status \notin w.avoids
         /\ req'[c].new.label \in w.labels \cup {Null}
         /\ req'[c].new.release \in w.releases \cup {Null}
         /\ req'[c].new.assignee \in w.users \cup {Null}
         /\ req'[c].new.pos <= w.maxPos
    /\ (req' = req /\ seen' # seen) => "get" \in w.ops
    /\ \A i \in Issues : issue'[i].pos <= w.maxPos
    /\ (req' = req /\ issue' # issue) => w.ops \cap {"positions", "user", "label", "release"} # {}
    /\ project' # project => w.ops \cap {"project", "deleteProject"} # {}
    /\ label' # label => "label" \in w.ops
    /\ release' # release => "release" \in w.ops
    /\ user' # user => "user" \in w.ops

\* Bound: at most one PUT of an issue is in flight, but in the workload edit.
OnePut == work \in {"move", "release"} =>
    \A c, d \in Clients : req[c].op = "put" /\ req[d].op = "put" => c = d

Step == Next /\ InWork /\ UNCHANGED work

EditInit == \/ work = "board" /\ Init
            \/ work = "edit" /\ InUse
EditSpec == EditInit /\ [][Step]_mcVars

IfMatchInit == work = "edit" /\ InUse
IfMatchSpec == IfMatchInit /\ [][Step]_mcVars

ReferencesInit == work \in {"move", "release"} /\ InUse
ReferencesSpec == ReferencesInit /\ [][Step]_mcVars
=============================================================================
