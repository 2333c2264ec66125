----------------------------- MODULE MCAnalysis -----------------------------
(***************************************************************************)
(* A small project for the runs of Analysis: a route handler, a service   *)
(* with two functions that call one another, a helper and a main function. *)
(***************************************************************************)
EXTENDS Analysis

CONSTANTS handler, svc, repo, helper, main

MCFuncs == {handler, svc, repo, helper, main}
MCFileOf == [f \in MCFuncs |-> IF f = repo THEN svc ELSE f]
MCKind == [f \in MCFuncs |-> CASE f = handler -> "route" [] f = main -> "main" [] OTHER -> "plain"]

MCCall(f, g, sure) == [from |-> f, to |-> g, trusted |-> sure]

\* Two ways to the repository, of different lengths, a cycle, and a helper
\* below; a call that is not trusted, two entries that share a service, and
\* a helper without calls.
MCPrograms ==
  {{MCCall(handler, svc, TRUE), MCCall(handler, repo, TRUE), MCCall(svc, repo, TRUE),
    MCCall(repo, svc, TRUE), MCCall(repo, helper, TRUE)},
   {MCCall(handler, svc, TRUE), MCCall(svc, repo, FALSE), MCCall(main, svc, TRUE)}}

=============================================================================
