-------------------------- MODULE MCFencedExecution ---------------------------
EXTENDS FencedExecution, TLC
CONSTANTS e1, e2, commit
MCSubjectOf == (e1 :> <<"task", "T">>) @@ (e2 :> <<"task", "U">>)
MCSubjects == {MCSubjectOf[e] : e \in {e1, e2}}
\* One repository, spelled twice.
MCReserved ==
  (e1 :> [repository |-> "Org/Repo", base |-> "main", head |-> "work"])
  @@ (e2 :> [repository |-> "org/repo", base |-> "main", head |-> "work"])
MCFolded == "Org/Repo" :> "org/repo" @@ "org/repo" :> "org/repo"
MCSymmetry == Permutations(Daemons) \cup Permutations(Workflows)
================================================================================
