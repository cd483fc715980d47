----------------------------- MODULE KbConvert -----------------------------
(***************************************************************************)
(* `agora import --from-kb`: a schema-1 repo becomes a new schema-2 repo.  *)
(* Each note keeps its basename but for the maps, which take their         *)
(* subject's, and the dailies, which merge into one journal per date.  A   *)
(* collision or an undated daily refuses the conversion before any write.  *)
(*                                                                         *)
(* A source is a sequence of notes in path order; a note is                *)
(*   dirs, stem  its path            type    its declared type:, or ""     *)
(*   date        its date:, or ""    body    its text                      *)
(*   md          the paths it links  wiki    the [[basenames]] it links    *)
(*   children    its children:       sources, tags                         *)
(***************************************************************************)
EXTENDS Naturals, Sequences, FiniteSets, FiniteSetsExt, Functions

CONSTANTS
  KbDomains,    \* the source taxonomy's domains, in order
  MapStem,      \* domain -> the stem of its map in schema 1
  DateOfStem    \* stem -> the date its last ten characters spell, or ""

None == ""
SourceNote ==
  [dirs : Seq(STRING), stem : STRING, type : STRING, date : STRING, body : STRING,
   md : SUBSET (Seq(STRING) \X STRING), wiki : SUBSET STRING, children : SUBSET STRING,
   sources : SUBSET STRING, tags : SUBSET STRING]
IsKb(kb) == kb \in Seq(SourceNote)
KindOfType == [theme |-> "concept", moc |-> "map", daily |-> "note", index |-> "index"]
KindOfPath(n) ==
  LET under == Len(n.dirs) >= 2 /\ n.dirs[1] = "wiki"
  IN CASE n.dirs = <<>> /\ n.stem = "index" -> "index"
       [] under /\ Len(n.dirs) = 2 /\ n.stem = MapStem[n.dirs[2]] -> "map"
       [] under /\ Len(n.dirs) >= 3 /\ n.dirs[3] = "themes" -> "concept"
       [] under /\ Len(n.dirs) >= 3 /\ n.dirs[3] = "daily" -> "note"
       [] OTHER -> None

PathDomain(n) == IF Len(n.dirs) >= 2 /\ n.dirs[1] = "wiki" THEN n.dirs[2] ELSE None
KbSubject(n) == IF PathDomain(n) \in Range(KbDomains) THEN PathDomain(n) ELSE None
PlannedKind(n) ==
  LET declared == IF n.type \in DOMAIN KindOfType THEN KindOfType[n.type] ELSE KindOfPath(n)
  IN CASE declared = None -> "concept"
       [] declared = "index" /\ ~(n.dirs = <<>> /\ n.stem = "index") -> "map"
       [] OTHER -> declared
JournalDate(n) == IF n.date # None THEN n.date ELSE DateOfStem[n.stem]
Undated(n) == PlannedKind(n) = "note" /\ JournalDate(n) = None

\* Where a note goes: <<directory, basename>>.
PlanNote(n) ==
  CASE PlannedKind(n) = "index" -> <<".", "index">>
    [] PlannedKind(n) = "map" ->
         <<"maps", IF PathDomain(n) # None /\ n.stem = MapStem[PathDomain(n)]
                   THEN PathDomain(n) ELSE n.stem>>
    [] PlannedKind(n) = "note" -> <<"notes", JournalDate(n)>>
    [] OTHER -> <<"concepts", n.stem>>

\* The conversion's order: by domain as the taxonomy lists them (the last time, should
\* it repeat one), then by path.
DomainRank(n) ==
  LET at == {i \in DOMAIN KbDomains : KbDomains[i] = KbSubject(n)}
  IN IF at = {} THEN Cardinality(Range(KbDomains)) + 1 ELSE Max(at)
Earlier(K, i, j) ==
  \/ DomainRank(K[i]) < DomainRank(K[j])
  \/ DomainRank(K[i]) = DomainRank(K[j]) /\ i < j
\* The source notes that become path p, in order.
Merged(K, p) == {i \in DOMAIN K : PlanNote(K[i]) = p}
Before(K, p, i) == Cardinality({j \in Merged(K, p) : Earlier(K, j, i)})
Contributors(K, p) ==
  [k \in 1 .. Cardinality(Merged(K, p)) |->
     CHOOSE i \in Merged(K, p) : Before(K, p, i) = k - 1]

\* Two notes on one path or one basename, unless they are one date's dailies.
Collides(K) ==
  \E i, j \in DOMAIN K :
    /\ i # j /\ PlanNote(K[i])[2] = PlanNote(K[j])[2]
    /\ ~(PlannedKind(K[i]) = "note" /\ PlannedKind(K[j]) = "note")
\* _assert_convertible: schema 1, disjoint from an empty destination.
Convertible(x) ==
  /\ x.schema = 1
  /\ ~x.nested
  /\ x.destEmpty
  /\ \A i \in DOMAIN KbDomains : KbDomains[i] # "_reserved"
Refuses(x) ==
  ~Convertible(x) \/ (\E i \in DOMAIN x.kb : Undated(x.kb[i])) \/ Collides(x.kb)
-----------------------------------------------------------------------------
(* Links.  The rename map is keyed by the old basename; the last note of   *)
(* that basename, in conversion order, decides.                            *)
Named(K, stem) == {i \in DOMAIN K : K[i].stem = stem /\ PlanNote(K[i])[2] # stem}
\* (mutant) a map keeps the name it had in the links to it.
RenamedStemNever(K, stem) == stem
RenamedStem(K, stem) ==
  IF Named(K, stem) = {} THEN stem
  ELSE PlanNote(K[CHOOSE i \in Named(K, stem) :
                    \A j \in Named(K, stem) \ {i} : Earlier(K, j, i)])[2]
At(K, path) == {i \in DOMAIN K : <<K[i].dirs, K[i].stem>> = path}
Holding(K, name) == {PlanNote(K[i]) : i \in {j \in DOMAIN K : PlanNote(K[j])[2] = name}}
\* A markdown link: the note at its path, else a note of its basename.
RetargetLink(K, path) ==
  IF At(K, path) # {} THEN {PlanNote(K[i]) : i \in At(K, path)}
  ELSE Holding(K, RenamedStem(K, path[2]))
RewriteBody(K, n) ==
  [text |-> n.body,
   md |-> UNION {RetargetLink(K, p) : p \in n.md},
   wiki |-> {RenamedStem(K, s) : s \in n.wiki}]
-----------------------------------------------------------------------------
(* The destination notes.                                                  *)
DestNote(K, p) ==
  LET group == Contributors(K, p)
      from == Range(group)
      kind == PlannedKind(K[group[1]])
  IN [from |-> group, kind |-> kind,
      subjects |-> {KbSubject(K[i]) : i \in from} \ {None},
      sections |-> [k \in DOMAIN group |-> RewriteBody(K, K[group[k]])],
      sources |-> IF kind \in {"concept", "note"} THEN UNION {K[i].sources : i \in from} ELSE {},
      tags |-> UNION {K[i].tags : i \in from},
      children |-> IF kind \in {"map", "index"}
                   THEN {RenamedStem(K, s) : s \in K[group[1]].children} ELSE {}]
\* convert_kb: nothing, or the whole repo with the source's raw/ as it was.
Convert(x) ==
  IF Refuses(x) THEN [notes |-> <<>>, raw |-> {}]
  ELSE [notes |-> [p \in {PlanNote(x.kb[i]) : i \in DOMAIN x.kb} |-> DestNote(x.kb, p)],
        raw |-> x.raw]
-----------------------------------------------------------------------------
(* Properties of one conversion into an empty destination: K is x.kb, out  *)
(* and notes are the result.                                               *)

\* Every source note is in exactly one destination note, with its text, its
\* sources and its tags; a conversion that refuses writes nothing at all.
ConversionKeepsAll(x, out) ==
  IF Refuses(x) THEN DOMAIN out.notes = {} /\ out.raw = {}
  ELSE /\ \A i \in DOMAIN x.kb :
            \E p \in DOMAIN out.notes :
              /\ \A q \in DOMAIN out.notes :
                   (i \in Range(out.notes[q].from)) <=> (q = p)
              /\ \E k \in DOMAIN out.notes[p].sections :
                   out.notes[p].sections[k].text = x.kb[i].body
              /\ x.kb[i].tags \subseteq out.notes[p].tags
              /\ out.notes[p].kind \in {"concept", "note"}
                   => x.kb[i].sources \subseteq out.notes[p].sources
       /\ out.raw = x.raw

\* A link that led to a note leads to the note that holds its text now: by path
\* for a markdown link, by basename for a wikilink or a child of a map.
ConvertedLinksLead(K, notes) ==
  LET holds(p, j) == \E k \in DOMAIN notes[p].sections : notes[p].sections[k].text = K[j].body
      \* the note a basename means in the source: the only one that has it
      meant(s) == {j \in DOMAIN K : K[j].stem = s /\ \A k \in DOMAIN K \ {j} : K[k].stem # s}
      named(s, j) == \E p \in DOMAIN notes : p[2] = s /\ holds(p, j)
  IN \A p \in DOMAIN notes : \A k \in DOMAIN notes[p].from :
       LET n == K[notes[p].from[k]] section == notes[p].sections[k]
       IN /\ \A path \in n.md : \A j \in At(K, path) :
               \E q \in section.md : q \in DOMAIN notes /\ holds(q, j)
          /\ \A s \in n.wiki : \A j \in meant(s) : \E t \in section.wiki : named(t, j)
          /\ notes[p].kind \in {"map", "index"} =>
               \A s \in n.children : \A j \in meant(s) : \E t \in notes[p].children : named(t, j)

\* A repo that is converted has no two notes of one basename, and a journal
\* lists its dailies in the order of their domains.
ConvertedNamesUnique(K, notes) ==
  /\ \A p, q \in DOMAIN notes : p[2] = q[2] => p = q
  /\ \A p \in DOMAIN notes : \A k \in 1 .. Len(notes[p].from) - 1 :
       DomainRank(K[notes[p].from[k]]) <= DomainRank(K[notes[p].from[k + 1]])

ConversionHolds(x, out) ==
  /\ ConversionKeepsAll(x, out)
  /\ ConvertedLinksLead(x.kb, out.notes)
  /\ ConvertedNamesUnique(x.kb, out.notes)
\* The three of them.
ConversionIsFaithful(x) == ConversionHolds(x, Convert(x))
=============================================================================
