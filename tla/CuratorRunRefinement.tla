------------------------ MODULE CuratorRunRefinement ------------------------
(***************************************************************************)
(* With one curating process, whatever crashes, the curator run implements *)
(* Delivery: an event counts as delivered as soon as the commit of a run   *)
(* that claimed it is on the branch (git decides, not the spool), and as   *)
(* terminal when its file is in failed/.                                   *)
(***************************************************************************)
EXTENDS CuratorRun

CapturedEvents  == {e \in Event : spool[e].dir \notin {"unwritten", "writing"}}
DeliveredEvents == UNION {job[r].events : r \in published}
TerminalEvents  == {e \in Event : spool[e].dir = "failed"}

D == INSTANCE Delivery WITH captured  <- CapturedEvents,
                            delivered <- DeliveredEvents,
                            terminal  <- TerminalEvents

\* Every step of capture, claim, publication, failure and recovery is a
\* step of Delivery or changes nothing it can see: no event is delivered
\* twice, no key is delivered twice, nothing delivered or terminal comes
\* back (the recovery table of recover(), the budget of _fail).
ImplementsDelivery == D!Spec
=============================================================================
