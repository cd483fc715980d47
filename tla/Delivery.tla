------------------------------ MODULE Delivery ------------------------------
(***************************************************************************)
(* What the spool promises the people and agents who capture into it: an   *)
(* event, once captured, is delivered to the curated branch at most once,  *)
(* one event per delivery key, or set aside as terminal, and neither is    *)
(* ever undone.  No file, run, manifest, lock or crash is visible here.    *)
(***************************************************************************)
EXTENDS FiniteSets

CONSTANTS Event, KeyOf, NoKey

VARIABLES captured, delivered, terminal

vars == <<captured, delivered, terminal>>

Open == captured \ (delivered \cup terminal)

SameKey(d, e) == KeyOf[d] = KeyOf[e] /\ KeyOf[d] # NoKey

Init == captured = {} /\ delivered = {} /\ terminal = {}

Capture(e) ==
    /\ e \notin captured
    /\ captured' = captured \cup {e}
    /\ UNCHANGED <<delivered, terminal>>

\* One commit delivers a batch, one event per key.
Deliver(B) ==
    /\ B # {}
    /\ B \subseteq Open
    /\ \A e \in B : \A d \in (delivered \cup B) \ {e} : ~SameKey(d, e)
    /\ delivered' = delivered \cup B
    /\ UNCHANGED <<captured, terminal>>

Abandon(e) ==
    /\ e \in Open
    /\ terminal' = terminal \cup {e}
    /\ UNCHANGED <<captured, delivered>>

Next == \/ \E e \in Event : Capture(e) \/ Abandon(e)
        \/ \E B \in SUBSET Event : Deliver(B)

Spec == Init /\ [][Next]_vars
=============================================================================
