------------------------------- MODULE MCLoop -------------------------------
(* The main loop on small instances.                                       *)
EXTENDS FbTerm, TLC

\* The addresses of windows are interchangeable.
Addresses == Permutations(Shells)

\* The console is never switched and no SIGTERM arrives.
OneConsoleNext ==
    \/ \E s \in Shells : ProcessExits(s) \/ TerminalClosed(s)
    \/ OtherChildExits
    \/ \E k \in TypedKeys : TypeKey(k)
    \/ Loop \/ Gone
OneConsoleSpec == LoopInit /\ [][OneConsoleNext]_vars /\ WF_vars(Loop)
=============================================================================
