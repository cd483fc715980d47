------------------------------- MODULE Gold -------------------------------
(***************************************************************************)
(* The assembly of a gold pack: which notes may enter it, how they are     *)
(* ranked over the whole note graph, and how the token budget is filled.   *)
(*                                                                         *)
(* A repo is a sequence of notes in path order, of distinct basenames:     *)
(*   name, kind    basename, kind        body      basenames its body links*)
(*   arrays        those of related: and children:                         *)
(*   status, confidence, derived, origin, sources  frontmatter             *)
(*   age           half-lives since its last update, Undated if unknown    *)
(*   bytes         the length of its rendered line, the newline included   *)
(* Scores are exact, in units of 1/60000; the code rounds to six digits.   *)
(***************************************************************************)
EXTENDS Integers, Sequences, FiniteSets, FiniteSetsExt, Functions

GoldKinds == {"concept", "summary"}
Undated == 99
Unreached == 1000000

IsHarvestProvenance(n) ==
  \/ n.origin = "harvest"
  \/ n.sources # <<>> /\ Range(n.sources) = {"harvest"}
Eligible(n) ==
  /\ n.kind \in GoldKinds
  /\ ~n.derived
  /\ n.status = "active" /\ n.confidence # "low"
  /\ ~IsHarvestProvenance(n)

(* Centrality over the whole graph.                                        *)
Outlinks(n) == n.body \cup n.arrays
NameSet(pop) == {pop[i].name : i \in DOMAIN pop}
Named(pop, name) == pop[CHOOSE i \in DOMAIN pop : pop[i].name = name]
Indegree(pop, name) == Cardinality({i \in DOMAIN pop : name \in Outlinks(pop[i])})
MaxIndegree(pop) == Max({0} \cup {Indegree(pop, m) : m \in NameSet(pop)})
\* A root stands at depth 0 or 1, and so does every note it links.
Roots(pop, kind) ==
  UNION {{pop[i].name} \cup (Outlinks(pop[i]) \cap NameSet(pop)) :
           i \in {j \in DOMAIN pop : pop[j].kind = kind}}
\* The breadth-first queue, level by level: the notes within d steps.
Level(pop, d, nearer) ==
  nearer \cup UNION {Outlinks(Named(pop, m)) \cap NameSet(pop) : m \in nearer}
    \cup (IF d = 1 THEN Roots(pop, "index") ELSE {})
Within(pop) ==
  LET reach[d \in 0 .. Len(pop) + 1] ==
        IF d = 0 THEN Roots(pop, "map") ELSE Level(pop, d, reach[d - 1])
  IN reach
Depth(pop, name) ==
  LET at == {d \in 0 .. Len(pop) + 1 : name \in Within(pop)[d]}
  IN IF at = {} THEN Unreached ELSE Min(at)

(* The gold score: 0.35 structure, 0.25 recency, 0.20 confidence, 0.20     *)
(* provenance.                                                             *)
Structure(pop, n) ==
  (14700 \div (1 + Depth(pop, n.name)))
    + (6300 * Indegree(pop, n.name)) \div Max({1, MaxIndegree(pop)})
Recency(n) ==
  LET halved[h \in 0 .. n.age] == IF h = 0 THEN 15000 ELSE halved[h - 1] \div 2
  IN IF n.age = Undated THEN 0 ELSE halved[n.age]
ConfidenceBucket(n) ==
  CASE n.confidence = "high" -> 12000 [] n.confidence = "medium" -> 8400 [] OTHER -> 6000
ProvenanceDensity(n) == 2400 * Min({5, Len(n.sources)})
Score(pop, n) == Structure(pop, n) + Recency(n) + ConfidenceBucket(n) + ProvenanceDensity(n)

\* The eligible notes, by their places in the population; best first, and by path
\* among equals: how many go before a note says where it comes.
Scored(pop) ==
  {[at |-> i, score |-> Score(pop, pop[i])] : i \in {j \in DOMAIN pop : Eligible(pop[j])}}
Better(a, b) == a.score > b.score \/ (a.score = b.score /\ a.at < b.at)
Ranked(pop) ==
  LET scored == Scored(pop)
      nth(k) == CHOOSE a \in scored : Cardinality({b \in scored : Better(b, a)}) = k - 1
  IN [k \in 1 .. Cardinality(scored) |-> nth(k).at]
\* At most half of a pack is harvested: the lowest of those are dropped first.
CapHarvestShare(pop, ranked) ==
  LET harvested == {k \in DOMAIN ranked : IsHarvestProvenance(pop[ranked[k]])}
      clean == Len(ranked) - Cardinality(harvested)
      kept(k) == k \in harvested => Cardinality({h \in harvested : h <= k}) <= clean
  IN [k \in 1 .. Cardinality({k \in DOMAIN ranked : kept(k)}) |->
        ranked[CHOOSE m \in DOMAIN ranked :
                 kept(m) /\ Cardinality({l \in 1 .. m : kept(l)}) = k]]

(* The budget, in tokens of four bytes.                                    *)
EstimateTokens(bytes) == (bytes + 3) \div 4
\* (mutant) the first line that does not fit ends the pack.
FilledOrFull(pop, budget, acc, i) ==
  IF acc.running + EstimateTokens(pop[i].bytes) > budget
  THEN [selected |-> acc.selected, running |-> budget + 1]
  ELSE [selected |-> Append(acc.selected, i),
        running |-> acc.running + EstimateTokens(pop[i].bytes)]
\* A line that does not fit what is left is skipped, and the scan goes on.
Filled(pop, budget, acc, i) ==
  IF acc.running + EstimateTokens(pop[i].bytes) > budget THEN acc
  ELSE [selected |-> Append(acc.selected, i),
        running |-> acc.running + EstimateTokens(pop[i].bytes)]
BudgetFill(pop, budget, frame, ranked) ==
  LET after[k \in 0 .. Len(ranked)] ==
        IF k = 0 THEN [selected |-> <<>>, running |-> EstimateTokens(frame)]
        ELSE Filled(pop, budget, after[k - 1], ranked[k])
  IN after[Len(ranked)].selected
\* The frame, the lines, and an empty line after them when there are any.
RenderedBytes(pop, frame, selected) ==
  LET sum[k \in 0 .. Len(selected)] ==
        IF k = 0 THEN frame ELSE sum[k - 1] + pop[selected[k]].bytes
  IN sum[Len(selected)] + (IF selected # <<>> THEN 1 ELSE 0)

\* Every note but the people's, in path order.
Population(notes) ==
  LET graded == {i \in DOMAIN notes : notes[i].kind # "person"}
      nth(k) == CHOOSE i \in graded : Cardinality({j \in graded : j < i}) = k - 1
  IN [k \in 1 .. Cardinality(graded) |-> notes[nth(k)]]
\* PackAssembler.assemble: the lines in order, each the place of its note in the
\* population, and the recorded estimate.
Assemble(notes, budget, frame) ==
  LET pop == Population(notes)
      selected == BudgetFill(pop, budget, frame, CapHarvestShare(pop, Ranked(pop)))
  IN [lines |-> selected, tokens |-> EstimateTokens(RenderedBytes(pop, frame, selected))]

-----------------------------------------------------------------------------
(* Properties of one pack: x.notes, x.budget, x.frame (bytes).             *)
IsPacking(x) ==
  /\ x.notes \in Seq(Range(x.notes)) /\ x.budget \in Nat /\ x.frame \in Nat
  /\ \A i \in DOMAIN x.notes :
       /\ x.notes[i].bytes \in Nat /\ x.notes[i].age \in Nat
       /\ x.notes[i].sources \in Seq({"captured", "harvest"})

\* The pack is what the rank and the budget say: only claims that may be injected, the
\* best first, and a claim that is left out does not fit beside the better ones.  The
\* render's empty line is one byte the fill does not count: it may cost one token more
\* than the budget.
BestClaimsFit(x) ==
  LET pop == Population(x.notes)
      out == Assemble(x.notes, x.budget, x.frame)
      scored == Scored(pop)
      better(i, j) == \E a, b \in scored : a.at = i /\ b.at = j /\ Better(a, b)
      cost(i) == EstimateTokens(pop[i].bytes)
      \* what the frame and the lines better than a note take
      spent(i) ==
        LET sum[k \in 0 .. Len(out.lines)] ==
              IF k = 0 THEN EstimateTokens(x.frame)
              ELSE sum[k - 1] + (IF better(out.lines[k], i) THEN cost(out.lines[k]) ELSE 0)
        IN sum[Len(out.lines)]
  IN /\ out.lines # <<>> => out.tokens <= x.budget + 1
     /\ \A k \in DOMAIN out.lines :
          LET n == pop[out.lines[k]]
          IN /\ n.kind \in GoldKinds /\ n.status = "active" /\ n.confidence # "low"
             /\ ~n.derived /\ n.origin # "harvest" /\ (n.sources = <<>> \/ "captured" \in Range(n.sources))
     /\ \A k, l \in DOMAIN out.lines : k < l => better(out.lines[k], out.lines[l])
     /\ \A i \in DOMAIN pop \ Range(out.lines) : Eligible(pop[i]) => spent(i) + cost(i) > x.budget

\* A human's note does not move a pack, not even through the links it sets
\* (gold.py: the exclusion is a population filter, not a score).
PeopleNeverCount(x) ==
  Assemble(x.notes, x.budget, x.frame) = Assemble(Population(x.notes), x.budget, x.frame)

=============================================================================
