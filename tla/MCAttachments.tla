--------------------------- MODULE MCAttachments ---------------------------
(* Small instances of Attachments for TLC.                                 *)
EXTENDS Attachments, TLC

CONSTANTS b1, b2, w1, w2

\* Events 1 and 2 share b1; event 3, of another writer, has b1 and b2.
MCCites == (1 :> {b1}) @@ (2 :> {b1}) @@ (3 :> {b1, b2})
MCWriterOf == (1 :> w1) @@ (2 :> w1) @@ (3 :> w2)
=============================================================================
