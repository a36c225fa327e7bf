--------------------------- MODULE MCSessionClient ---------------------------
(* SessionClient and RateLimits for TLC.  They share no state: in a behaviour *)
(* either the tabs are busy, or people log in and fail, or somebody calls.    *)
EXTENDS SessionClient, RateLimits

VARIABLE work
mcVars == <<vars, limitVars, work>>

MCInit == Init /\ LimitsInit /\ work \in {"tabs", "logins", "calls"}

MCNext ==
    \/ work = "tabs" /\ Next /\ UNCHANGED <<limitVars, work>>
    \/ /\ work # "tabs" /\ LimitsNext
       /\ work = "logins" => keyedCalls' = keyedCalls
       /\ work = "calls" => login' = login
       /\ UNCHANGED <<vars, work>>

MCSpec == MCInit /\ [][MCNext]_mcVars /\ Fairness /\ WF_limitVars(Tick)
=============================================================================
