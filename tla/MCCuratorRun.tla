---------------------------- MODULE MCCuratorRun ----------------------------
(* Small instances of CuratorRun for TLC.                                  *)
EXTENDS CuratorRunRefinement, TLC

CONSTANTS k1, a, b, p1, p2

\* Events 1 and 2 are retries under one key; 3 carries no key.
MCKeyOf == (1 :> k1) @@ (2 :> k1) @@ (3 :> NoKey)
\* One content: with Cap = 1 a claim takes several events.
MCOneContent == (1 :> a) @@ (2 :> a) @@ (3 :> a)
\* Event 3 has a content of its own: with Cap = 1 a claim leaves it behind.
MCTwoContents == (1 :> a) @@ (2 :> a) @@ (3 :> b)
=============================================================================
