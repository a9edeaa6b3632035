----------------------------- MODULE MCRestart ------------------------------
(* What a restart finds on disk: the files, among them those of a merge     *)
(* that was on, and the saved tree.  A behaviour is about one of the two    *)
(* and has the other at rest.                                               *)
EXTENDS RdbBase, SavedTree

VARIABLE part

RestartInit == Init /\ SavedInit /\ part \in {"files", "tree"}

RestartNext ==
  /\ UNCHANGED part
  /\ \/ part = "files" /\ Next /\ UNCHANGED savedVars
     \/ part = "tree" /\ SavedNext /\ UNCHANGED vars

\* Fairness and SavedFairness, each for its part.
RestartFairness ==
  /\ WF_vars(part = "files" /\ Merging)
  /\ WF_vars(part = "files" /\ Restart)
  /\ WF_vars(part = "files" /\ Resuming)
  /\ WF_savedVars(part = "tree" /\ SaveStep)
  /\ WF_savedVars(part = "tree" /\ SavedDump)
  /\ SF_savedVars(part = "tree" /\ Exit)

RestartSpec == /\ RestartInit /\ [][RestartNext]_<<part, vars, savedVars>>
               /\ RestartFairness

\* The types of both.
RestartTypeOK == TypeOK /\ SavedTypeOK
=============================================================================
