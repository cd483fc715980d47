----------------------------- MODULE MCRestamp -----------------------------
(* Small instances of Restamp for TLC. *)
EXTENDS Restamp

MCNotes == {"a", "b"}
MCTags == {"x", "y"}
MCProcs == {"upgrade", "curator", "remote"}
MCHostOf == [upgrade |-> "here", curator |-> "here", remote |-> "there"]
MCJobOf == [upgrade |-> "restamp", curator |-> "curate", remote |-> "curate"]

\* a: a curator concept with a stale mirror; b: every other shape of a note.
Concept ==
  [at |-> "wiki", kind |-> "concept", stamped |-> TRUE, form |-> "stable",
   sources |-> 1, mirror |-> 0, tags |-> {}, body |-> 1]
Others ==
  {Concept, [Concept EXCEPT !.mirror = 1, !.tags = {"x"}]}
  \cup {[Concept EXCEPT !.form = f] : f \in {"style", "fence", "bytes", "unparseable"}}
  \cup {[Concept EXCEPT !.stamped = FALSE], [Concept EXCEPT !.kind = "map"],
        [Concept EXCEPT !.at = "_templates"]}
Taxonomy == [present |-> TRUE, known |-> TRUE, policy |-> "open", allowed |-> {}]
Taxonomies ==
  {Taxonomy, [Taxonomy EXCEPT !.allowed = {"x"}], [Taxonomy EXCEPT !.present = FALSE],
   [Taxonomy EXCEPT !.known = FALSE]}
  \cup {[Taxonomy EXCEPT !.policy = q] : q \in {"review-only", "capped:1", "unreadable"}}
MCTrees ==
  {[notes |-> [n \in MCNotes |-> IF n = "a" THEN Concept ELSE other], taxonomy |-> Taxonomy] :
      other \in Others}
  \cup {[notes |-> [n \in MCNotes |-> Concept], taxonomy |-> t] : t \in Taxonomies}

File(keys, tags) == [keys |-> keys, tags |-> tags, structural |-> FALSE]
MCVaults ==
  {{File({"a"}, {"x", "y"}), File({"b"}, {"y"})},
   {File({"a"}, {"x"}), File({"b"}, {"?"})},
   {File({"a", "b"}, {"x"}), File({"b"}, {})},
   {File({"a"}, {}), [File({"b"}, {"x"}) EXCEPT !.structural = TRUE]}}
=============================================================================
