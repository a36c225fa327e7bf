---------------------------- MODULE MCIssueModal ----------------------------
(* IssueModal for TLC.                                                     *)
EXTENDS IssueModal

\* Bound: three edits in the first modal while all stays calm, which EditsSurviveWhenCalm
\* is about, and two when it is opened again or with all that can go wrong.
Within == used <= IF calm /\ opens <= 1 THEN MaxEdits ELSE 2

MCSpec == Init /\ [][Next /\ Within']_vars /\ Fairness
=============================================================================
