-------------------------- MODULE MCFireAndForget --------------------------
\* Values for FireAndForget: a root with a chain of two crawls, a root with one.
EXTENDS FireAndForget, TLC

CONSTANTS r1, r2, a, b, c

MCRoots == {r1, r2}
MCTasks == {a, b, c}
MCParent == (a :> r1) @@ (b :> a) @@ (c :> r2)
MCRootOf == (a :> r1) @@ (b :> r1) @@ (c :> r2)
=============================================================================
