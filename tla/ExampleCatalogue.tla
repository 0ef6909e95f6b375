-------------------------- MODULE ExampleCatalogue --------------------------
(* All the example programs that are build targets, and their goals.       *)
EXTENDS IbcExamples, NodeExamples, LeanExamples, AppExamples, TLC

AllPrograms == IbcPrograms @@ NodePrograms @@ LeanPrograms @@ AppPrograms
AllGoals    == IbcGoals @@ NodeGoals @@ LeanGoals @@ AppGoals
=============================================================================
