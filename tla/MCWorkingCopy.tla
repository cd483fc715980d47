--------------------------- MODULE MCWorkingCopy ---------------------------
(* Small instances of WorkingCopy for TLC. *)
EXTENDS WorkingCopy

MCNotes == {"a", "b"}
MCHabits == {"stage", "commit", "detach"}
=============================================================================
