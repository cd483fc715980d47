----------------------------- MODULE MCRequeue -----------------------------
(* Small instances of Requeue for TLC.                                     *)
EXTENDS Requeue, TLC

CONSTANTS k1, a, b, p1, p2

\* Events 1 and 2 are retries under one key; 3 carries no key.
MCKeyOf == (1 :> k1) @@ (2 :> k1) @@ (3 :> NoKey)
MCOneContent == (1 :> a) @@ (2 :> a) @@ (3 :> a)
=============================================================================
