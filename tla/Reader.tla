------------------------------ MODULE Reader ------------------------------
(***************************************************************************)
(* The deterministic query: parse, seed from the maps, walk the links,     *)
(* score what carries lexical evidence, and order the hits.                *)
(*                                                                         *)
(* A file is [dirs, name, title, tags, aliases, summary, subjects, status, *)
(* related, lines]; texts are sets of tokens.  A line is [mark, tokens,    *)
(* links]: mark is "h1", "h2", "fence" or "text", a link is [to, label].   *)
(* Files come in path order, the root index first.  A basename is its own  *)
(* token.  Term weights are counts: idf, saturation and length             *)
(* normalization, which only scale a positive weight, are left out.        *)
(***************************************************************************)
EXTENDS Integers, Sequences, FiniteSets, FiniteSetsExt, Functions

MaxHops == 2
Floor == 180          \* scores are in thousandths
FieldWeights == [title |-> 6, aliases |-> 6, tags |-> 5, headings |-> 4, summary |-> 4, body |-> 2]
Fields == <<"title", "aliases", "tags", "headings", "summary", "body">>

PathKind(f) ==
  CASE f.dirs = <<>> /\ f.name = "index" -> "index"
    [] Len(f.dirs) >= 2 /\ f.dirs[1] = "wiki" ->
         (CASE f.dirs[2] = "maps" -> "map" [] f.dirs[2] = "people" -> "person"
            [] f.dirs[2] = "concepts" -> "concept" [] OTHER -> "")
    [] OTHER -> ""

(* _parse_note.                                                            *)
InFence(f, i) == Cardinality({j \in 1 .. i - 1 : f.lines[j].mark = "fence"}) % 2 = 1
Shown(f) == {i \in DOMAIN f.lines : f.lines[i].mark # "fence" /\ ~InFence(f, i)}
Marked(f, mark) == {i \in Shown(f) : f.lines[i].mark = mark}
TokensAt(f, S) == UNION {f.lines[i].tokens : i \in S}
\* The first H1 is the title, else the frontmatter's, else the name.
TitleTokens(f) ==
  IF Marked(f, "h1") # {} THEN f.lines[Min(Marked(f, "h1"))].tokens
  ELSE IF f.title # {} THEN f.title ELSE {f.name}
\* Every line that is shown is body text, headings included; a link counts
\* wherever it stands, in a fence too.
FieldTokens(f) ==
  [title |-> TitleTokens(f), aliases |-> f.aliases, tags |-> f.tags,
   headings |-> TokensAt(f, Marked(f, "h2")), summary |-> f.summary,
   body |-> TokensAt(f, Shown(f))]
LabelledLinks(f) ==
  UNION {f.lines[i].links : i \in {j \in DOMAIN f.lines : f.lines[j].mark # "fence"}}
OutlinksOf(f) == {l.to : l \in LabelledLinks(f)} \cup f.related
AllTokens(f) == UNION {FieldTokens(f)[g] : g \in Range(Fields)}

(* The graph: humans' notes are neither targets nor sources in it.         *)
\* The file a basename means, the last of that name; 0 if there is none.
ByBasename(fs, name) ==
  LET at == {i \in DOMAIN fs : fs[i].name = name /\ PathKind(fs[i]) # "person"}
  IN IF at = {} THEN 0 ELSE Max(at)
IsNamed(fs, name) == ByBasename(fs, name) # 0
IndegreeOf(fs, i) ==
  Cardinality({j \in DOMAIN fs : /\ PathKind(fs[j]) # "person"
                                /\ \E t \in OutlinksOf(fs[j]) : ByBasename(fs, t) = i})
HighestIndegree(fs) == Max({0} \cup {IndegreeOf(fs, i) : i \in DOMAIN fs})

(* Stage 1.  A query that holds a declared subject looks at its maps only. *)
InScopeMaps(fs, q) ==
  LET maps == {i \in DOMAIN fs : PathKind(fs[i]) = "map"}
      focused == {i \in maps : fs[i].subjects \cap q # {}}
      \* the first declared subject of the first such map, one token each
      focus == CHOOSE s \in fs[Min(focused)].subjects : s \in q
  IN IF focused = {} THEN maps ELSE {i \in maps : focus \in fs[i].subjects}
Children(fs, S) == {l.to : l \in UNION {LabelledLinks(fs[i]) : i \in S}}
MapSeeds(fs, q) ==
  LET maps == InScopeMaps(fs, q)
  IN {m \in {fs[i].name : i \in maps} \cup Children(fs, maps) : IsNamed(fs, m)}
IndexSeeds(fs) ==
  LET i == ByBasename(fs, "index")
  IN IF i # 0 /\ PathKind(fs[i]) = "index"
     THEN {m \in {"index"} \cup Children(fs, {i}) : IsNamed(fs, m)} ELSE {}
Seeds(fs, q) ==
  [m \in MapSeeds(fs, q) \cup IndexSeeds(fs) |-> IF m \in MapSeeds(fs, q) THEN 0 ELSE 1]
\* What the maps in scope call a child of theirs.
LinkLabels(fs, q, name) ==
  UNION {l.label : l \in {k \in UNION {LabelledLinks(fs[i]) : i \in InScopeMaps(fs, q)} :
                            k.to = name}}

(* Stage 2.  Two rounds over the names reached in the round before, each   *)
(* expanded at the distance it has at that moment.                         *)
\* (mutant) a name that was reached keeps its first distance.
ExpandFirst(fs, d, name) ==
  LET to == {t \in OutlinksOf(fs[ByBasename(fs, name)]) : IsNamed(fs, t)}
      new == {t \in to : t \notin DOMAIN d}
  IN IF d[name] >= MaxHops THEN d
     ELSE [t \in DOMAIN d \cup new |-> IF t \in new THEN d[name] + 1 ELSE d[t]]
Expand(fs, d, name) ==
  LET to == {t \in OutlinksOf(fs[ByBasename(fs, name)]) : IsNamed(fs, t)}
      new == {t \in to : t \notin DOMAIN d \/ d[name] + 1 < d[t]}
  IN IF d[name] >= MaxHops THEN d
     ELSE [t \in DOMAIN d \cup new |-> IF t \in new THEN d[name] + 1 ELSE d[t]]
\* One round: the names of current, each at the file it means, file by file; the code
\* takes them sorted, and which order it is does not matter (DistanceIsShortest).
Round(fs, before, current) ==
  LET after[k \in 0 .. Len(fs)] ==
        IF k = 0 THEN before
        ELSE IF fs[k].name \in current /\ ByBasename(fs, fs[k].name) = k
             THEN Expand(fs, after[k - 1], fs[k].name) ELSE after[k - 1]
  IN after
Improved(before, d) ==
  [d |-> d, current |-> {t \in DOMAIN d : t \notin DOMAIN before \/ d[t] # before[t]}]
Hop(fs, acc) == Improved(acc.d, Round(fs, acc.d, acc.current)[Len(fs)])
TwoHops(fs, seeds) == Hop(fs, Hop(fs, [d |-> seeds, current |-> DOMAIN seeds])).d
Distances(fs, q) == TwoHops(fs, Seeds(fs, q))
LexicalCandidates(fs, q) == {i \in DOMAIN fs : AllTokens(fs[i]) \cap q # {}}
\* Below, d is Distances(fs, q).
Reached(fs, d, i) == fs[i].name \in DOMAIN d /\ PathKind(fs[i]) # "person"
Candidates(fs, q, d) == {i \in DOMAIN fs : Reached(fs, d, i)} \cup LexicalCandidates(fs, q)
DistanceOf(fs, d, i) == IF Reached(fs, d, i) THEN d[fs[i].name] ELSE MaxHops + 1
LabelsOf(fs, q, d, i) == IF Reached(fs, d, i) THEN LinkLabels(fs, q, fs[i].name) ELSE {}

(* Scores, in thousandths.                                                 *)
Lexical(f, q) ==
  LET weight(g) == FieldWeights[g] * Cardinality(FieldTokens(f)[g] \cap q)
      raw == weight("title") + weight("aliases") + weight("tags") + weight("headings")
               + weight("summary") + weight("body")
  IN (1000 * raw) \div (raw + 3)
Structural(fs, d, i) ==
  700 \div (1 + DistanceOf(fs, d, i)) + (300 * IndegreeOf(fs, i)) \div Max({1, HighestIndegree(fs)})
StatusBoost(f) == CASE f.status = "active" -> 100 [] f.status = "deprecated" -> -150 [] OTHER -> 0
Combined(fs, q, d, i) ==
  LET structure == IF Lexical(fs[i], q) > 0 THEN 350 * Structural(fs, d, i) ELSE 0
  IN Max({0, Min({1000, (650 * Lexical(fs[i], q) + structure) \div 1000 + StatusBoost(fs[i])})})
ThemeTokens(fs, q, d, i) ==
  FieldTokens(fs[i]).title \cup FieldTokens(fs[i]).aliases \cup FieldTokens(fs[i]).tags
    \cup LabelsOf(fs, q, d, i)
PassesGate(fs, q, d, i) ==
  \/ Lexical(fs[i], q) > 0
  \/ DistanceOf(fs, d, i) = 0 /\ q \cap ThemeTokens(fs, q, d, i) # {}

\* The field that owns the token: the first of the fields that has one.
TopMatchedField(f, q) ==
  LET at == {k \in DOMAIN Fields : FieldTokens(f)[Fields[k]] \cap q # {}}
  IN IF at = {} THEN "" ELSE Fields[Min(at)]
Reason(fs, q, d, i) ==
  IF DistanceOf(fs, d, i) = 0 /\ q \cap ThemeTokens(fs, q, d, i) # {} THEN "linked-theme"
  ELSE IF TopMatchedField(fs[i], q) \in {"title", "headings"} THEN "heading" ELSE "lexical"
ReasonRank == [r \in {"linked-theme", "heading", "lexical"} |->
                 CASE r = "linked-theme" -> 0 [] r = "heading" -> 1 [] OTHER -> 2]
\* Score, reason, lexical score, in-degree, path: a total order.
OrderKey(fs, q, d, i) ==
  <<-Combined(fs, q, d, i), ReasonRank[Reason(fs, q, d, i)], -Lexical(fs[i], q), -IndegreeOf(fs, i), i>>
Before(a, b) == \E k \in 1 .. 5 : a[k] < b[k] /\ \A l \in 1 .. k - 1 : a[l] = b[l]
\* The hits that go before a hit say its place.
HitsAmong(fs, q, d, among, limit) ==
  LET hits == {i \in among : PassesGate(fs, q, d, i) /\ Combined(fs, q, d, i) >= Floor}
      key == [i \in hits |-> OrderKey(fs, q, d, i)]
      place == [i \in hits |-> Cardinality({j \in hits : Before(key[j], key[i])})]
  IN [k \in 1 .. Min({limit, Cardinality(hits)}) |-> CHOOSE i \in hits : place[i] = k - 1]
HitsAt(fs, q, d, limit) == HitsAmong(fs, q, d, Candidates(fs, q, d), limit)
\* query_lexical: the files of the hits, best first; none is not_found.
QueryLexical(fs, q, limit) ==
  IF fs = <<>> \/ q = {} THEN <<>> ELSE HitsAt(fs, q, Distances(fs, q), limit)

-----------------------------------------------------------------------------
(* The knowledge graph of the faces, whole or around one note: nodes are   *)
(* files by their place in path order.                                     *)
MaxGraphDepth == 3
Graded(fs) == {i \in DOMAIN fs : PathKind(fs[i]) # "person"}
\* The first file of a name, not the last as in a query.
GraphTarget(fs, name) == Min({Len(fs) + 1} \cup {i \in Graded(fs) : fs[i].name = name})
EdgePairs(fs) ==
  {e \in (DOMAIN fs) \X (DOMAIN fs) :
     e[1] # e[2] /\ \E t \in OutlinksOf(fs[e[1]]) : GraphTarget(fs, t) = e[2]}
\* Below, edges is EdgePairs(fs).
InducedEdges(edges, nodes) == {e \in edges : {e[1], e[2]} \subseteq nodes}
Referenced(fs) == UNION {OutlinksOf(fs[i]) : i \in Graded(fs)}
Orphans(fs, nodes) ==
  {i \in nodes : PathKind(fs[i]) = "concept" /\ fs[i].name \notin Referenced(fs)}

Drawn(fs, edges, nodes, all) ==
  [nodes |-> nodes, edges |-> InducedEdges(edges, nodes), orphans |-> Orphans(fs, nodes),
   node_total |-> Cardinality(all), edge_total |-> Cardinality(InducedEdges(edges, all)),
   truncated |-> Cardinality(nodes) < Cardinality(all)]
\* The notes of a subject ("" for all), the first of them where there are too many;
\* the totals are those before the cut.
GlobalGraph(fs, edges, subject, cap) ==
  LET kept == {i \in DOMAIN fs : subject = "" \/ subject \in fs[i].subjects}
  IN Drawn(fs, edges, {i \in kept : Cardinality({j \in kept : j <= i}) <= cap}, kept)
NextFrontier(fs, edges, reached, frontier) ==
  {j \in DOMAIN fs \ reached : \E i \in frontier : {<<i, j>>, <<j, i>>} \cap edges # {}}
Grown(r, next) == [reached |-> r.reached \cup next, frontier |-> next]
Neighbourhood(fs, edges, center, rounds) ==
  LET grown[k \in 0 .. rounds] ==
        IF k = 0 THEN [reached |-> {center}, frontier |-> {center}]
        ELSE Grown(grown[k - 1],
                   NextFrontier(fs, edges, grown[k - 1].reached, grown[k - 1].frontier))
  IN grown[rounds].reached
Whole(fs, edges, nodes) == Drawn(fs, edges, nodes, nodes)
LocalGraph(fs, edges, center, depth) ==
  IF center \notin DOMAIN fs THEN Whole(fs, edges, {})
  ELSE Whole(fs, edges, Neighbourhood(fs, edges, center, Max({1, Min({depth, MaxGraphDepth})})))

-----------------------------------------------------------------------------
(* Properties of one query of x.files: d is Distances of it.               *)
IsSequence(s) == s \in Seq(Range(s))
IsQuery(x) ==
  /\ IsSequence(x.files) /\ \A i \in DOMAIN x.files : IsSequence(x.files[i].lines)
  /\ IsFiniteSet(x.q) /\ x.limit \in Nat

\* The distance of a note is that of the shortest walk over the links: from a
\* map in scope or a child of one, or one step more from the index or a child of
\* it, and at most two steps.
DistanceIsShortest(fs, q, d) ==
  LET names == {fs[i].name : i \in {j \in DOMAIN fs : PathKind(fs[j]) # "person"}}
      linked(m, n) == n \in names /\ n \in OutlinksOf(fs[ByBasename(fs, m)])
      root(m) == IF m \in MapSeeds(fs, q) THEN 0 ELSE IF m \in IndexSeeds(fs) THEN 1 ELSE 9
      one(n) == {root(m) + 1 : m \in {k \in names : linked(k, n)}}
      two(n) == {root(p[1]) + 2 : p \in {r \in names \X names : linked(r[1], r[2]) /\ linked(r[2], n)}}
      within(n, shortest) == IF shortest <= MaxHops THEN n \in DOMAIN d /\ d[n] = shortest
                             ELSE n \notin DOMAIN d
  IN \A n \in names : within(n, Min({root(n)} \cup one(n) \cup two(n)))

\* The prefilter loses no hit (wiki.py: "provably output-identical").
PrefilterIsExact(x, d) ==
  x.q # {} => QueryLexical(x.files, x.q, x.limit)
                = HitsAmong(x.files, x.q, d, DOMAIN x.files, x.limit)

\* A human's note is read, but neither its links nor its name move a hit: with
\* its links cut and another name, the same files come back in the same order.
Nameless(f) ==
  IF PathKind(f) # "person" THEN f
  ELSE [dirs |-> f.dirs, name |-> "somebody", title |-> TitleTokens(f), tags |-> f.tags,
        aliases |-> f.aliases, summary |-> f.summary, subjects |-> f.subjects,
        status |-> f.status, related |-> {},
        lines |-> [i \in DOMAIN f.lines |-> [mark |-> f.lines[i].mark, links |-> {},
                                             tokens |-> f.lines[i].tokens]]]
PeopleTakeNoCredit(x) ==
  QueryLexical(x.files, x.q, x.limit)
    = QueryLexical([i \in DOMAIN x.files |-> Nameless(x.files[i])], x.q, x.limit)

\* A map's label for a note is no evidence of its own: every hit has a query
\* token in one of its fields (wiki.py: structure never substitutes for it).
HitsHaveEvidence(x) ==
  \A i \in Range(QueryLexical(x.files, x.q, x.limit)) : AllTokens(x.files[i]) \cap x.q # {}

QueryHolds(x, d) ==
  /\ DistanceIsShortest(x.files, x.q, d)
  /\ PrefilterIsExact(x, d)
  /\ PeopleTakeNoCredit(x)
  /\ HitsHaveEvidence(x)
\* The four of them.
QueryIsExact(x) == QueryHolds(x, Distances(x.files, x.q))

\* The drawing of x.files around a note, and as a whole.
IsDrawing(x) == IsSequence(x.files) /\ x.depth \in Nat /\ x.cap \in Nat
\* The picture around a note has exactly the notes a walk of the given length, either
\* way along the links, leads to, one to three steps; the whole picture leaves notes
\* out only when it says so.  Neither marks a note as an orphan that a shown link leads
\* to, unless a human's note holds the link.
PicturesAreTrue(x, edges, local, whole) ==
  LET fs == x.files
      near(i, j) == i = j \/ {<<i, j>>, <<j, i>>} \cap edges # {}
      steps == Max({1, Min({x.depth, 3})})
      reaches(j) == \E a, b \in DOMAIN fs :
                      /\ near(x.center, a) /\ near(a, b) /\ near(b, j)
                      /\ steps < 3 => b = j
                      /\ steps < 2 => a = j
      honest(g) == \A e \in g.edges : e[2] \in g.orphans => PathKind(fs[e[1]]) = "person"
  IN /\ x.center \in DOMAIN fs => local.nodes = {j \in DOMAIN fs : reaches(j)} /\ ~local.truncated
     /\ whole.truncated <=> whole.node_total > x.cap
     /\ Cardinality(whole.nodes) = Min({whole.node_total, x.cap})
     /\ ~whole.truncated => Cardinality(whole.edges) = whole.edge_total
     /\ honest(local) /\ honest(whole)
GraphHolds(x, edges) ==
  PicturesAreTrue(x, edges, LocalGraph(x.files, edges, x.center, x.depth),
                  GlobalGraph(x.files, edges, x.subject, x.cap))
GraphIsTrue(x) == GraphHolds(x, EdgePairs(x.files))
=============================================================================
