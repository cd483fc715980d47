-------------------------- MODULE MCConsolidation --------------------------
(* Small instances of Consolidation for TLC: three runs over two days.     *)
EXTENDS Consolidation

Wish(op, name, links, prose) ==
  [op |-> op, name |-> name, domain |-> "d", links |-> links, prose |-> prose,
   label |-> {}, events |-> {}]

MCBatches == <<{"e1", "e2"}, {"e3", "e4"}, {"e5"}>>
MCText == [e1 |-> "t1", e2 |-> "t2", e3 |-> "t3", e4 |-> "t3", e5 |-> "t5"]
MCGated == {"e2", "e4"}
MCWishes ==
  {Wish("CREATE_THEME", "a", {}, TRUE), Wish("CREATE_THEME", "mon", {"a"}, FALSE),
   Wish("APPEND_DAILY", "mon", {}, TRUE), Wish("APPEND_DAILY", "mon", {}, FALSE),
   [Wish("CREATE_THEME", "d", {}, FALSE) EXCEPT !.domain = "k"],
   Wish("MERGE_INTO_THEME", "a", {}, TRUE),
   Wish("MARK_CONTESTED", "a", {"a"}, FALSE), Wish("MARK_CONTESTED", "a", {}, FALSE),
   Wish("DROP", "a", {}, FALSE)}
MCDomains == {"d", "k"}
MCDates == <<"mon", "tue">>
\* No person and no rogue edit beside the runs.
MCNobody == {}
MCTame == {"none"}
MCHumanPaths == {<<"concepts/old", "a">>}
MCRogue == {"none", "frontmatter", "outside", "delete", "heal", "add", "foreign", "raw", "log"}
=============================================================================
