------------------------------- MODULE Brain -------------------------------
(***************************************************************************)
(* The brain adapters: how a model's answer becomes a plan the gate can    *)
(* accept, and how its prose reaches the body regions of a note.           *)
(*                                                                         *)
(* A basename is <<slug, k>>: k = 1 is the slug itself, k > 1 the slug     *)
(* with the suffix -k.  A note is <<directories below wiki/, basename>>.   *)
(* A model may answer anything: a wish per candidate, with texts that      *)
(* still have to be slugified (SlugOf; the empty slug is "").              *)
(***************************************************************************)
EXTENDS Naturals, Sequences, FiniteSets, Functions

CONSTANTS
  SlugOf,        \* text -> the slug it leaves, or ""
  AllowedTags,   \* taxonomy.yaml: the closed tag vocabulary
  DomainList,    \* taxonomy.yaml: the declared domains, in order
  RunDate,       \* the run's date, the basename of its journal
  DottedSlugs,   \* slugs that end in ".md", until a suffix follows
  UnsafeSlugs    \* tokens no suffix makes safe: "_..." and what is no component

BrainBasenameOps == {"CREATE_THEME", "APPEND_DAILY"}
BrainTargetOps == {"MERGE_INTO_THEME", "MARK_CONTESTED"}
BrainContentOps == BrainBasenameOps \cup BrainTargetOps
BrainOps == BrainContentOps \cup {"DROP", "NOOP"}
BrainGateAllowedOps == BrainTargetOps \cup {"DROP"}
StatusValues == {"active", "stub", "deprecated"}
Nothing == "none"
NoSlug == ""
NoName == <<NoSlug, 0>>

DomainSet == Range(DomainList)
DomainNames == {<<d, 1>> : d \in DomainSet}
\* The first declared domain takes what fits none.
CatchAllDomain == IF DomainList = <<>> THEN Nothing ELSE DomainList[1]
\* The gate's rule for a name or a domain it has to compose a path from.
IsSafeBasename(name) ==
  /\ name[1] \notin UnsafeSlugs
  /\ name[1] \in DottedSlugs => name[2] > 1

-----------------------------------------------------------------------------
(* What the shim learns of the wiki: the bundle's related hits, nothing    *)
(* else of the registry.                                                   *)
RelatedBasenames(hits) == {h[2] : h \in hits}
RelatedThemeBasenames(hits) ==
  {h[2] : h \in {x \in hits : "themes" \in Range(x[1])}}

(* One disposition of the normalized plan, field by field.                 *)
AdmittedOp(c, w) ==
  IF w.op \notin BrainOps \/ (c.gated /\ w.op \notin BrainGateAllowedOps)
  THEN "DROP" ELSE w.op
RoutedDomain(c, w) ==
  CASE w.domain \in DomainSet -> w.domain
    [] w.domain \notin DomainSet /\ c.domain \in DomainSet -> c.domain
    [] OTHER -> CatchAllDomain
\* The first seed that leaves a slug; else the note is named by its content.
SeedSlug(c, w) ==
  LET named == {i \in DOMAIN w.seeds : SlugOf[w.seeds[i]] # NoSlug}
  IN IF named # {} THEN SlugOf[w.seeds[CHOOSE i \in named : \A j \in named : i <= j]]
     ELSE IF SlugOf[c.text] # NoSlug THEN SlugOf[c.text] ELSE c.hash
FreshName(slug, taken) ==
  <<slug, CHOOSE k \in 1 .. Cardinality(taken) + 1 :
            /\ <<slug, k>> \notin taken
            /\ \A j \in 1 .. k - 1 : <<slug, j>> \in taken>>
Taken(acc, hits) == RelatedBasenames(hits) \cup acc.new \cup DomainNames

Competing(w, hits) ==
  {l \in w.links : l \in RelatedThemeBasenames(hits) /\ l # w.target}
FinalOp(c, w, hits) ==
  LET op == AdmittedOp(c, w)
  IN CASE op \in BrainBasenameOps /\ RoutedDomain(c, w) = Nothing -> "DROP"
       [] op \in BrainTargetOps /\ w.target \notin RelatedThemeBasenames(hits) -> "DROP"
       [] op = "MARK_CONTESTED" /\ Competing(w, hits) = {} -> "DROP"
       [] OTHER -> op
NameOf(op, c, w, hits, acc) ==
  CASE op = "CREATE_THEME" -> FreshName(SeedSlug(c, w), Taken(acc, hits))
    [] op = "APPEND_DAILY" -> <<RunDate, 1>>
    [] OTHER -> NoName
StatusFor(op, w) ==
  CASE op \in {"CREATE_THEME", "MERGE_INTO_THEME"} ->
         IF w.status \in StatusValues THEN w.status ELSE "active"
    [] op = "MARK_CONTESTED" -> "contested"
    [] OTHER -> Nothing
LinksFor(op, w, hits, new) ==
  CASE op = "MARK_CONTESTED" -> Competing(w, hits)
    [] op \in BrainContentOps \ {"MARK_CONTESTED"} ->
         w.links \cap (RelatedBasenames(hits) \cup new)
    [] OTHER -> {}
\* (mutant) an alias is compared with what the wiki shows, not with this plan.
KeptAliasesShown(op, w, hits, planned) ==
  IF op \notin BrainContentOps THEN {}
  ELSE {<<SlugOf[a], 1>> : a \in {b \in w.aliases : SlugOf[b] # NoSlug}}
         \ RelatedBasenames(hits)
KeptAliases(op, w, hits, planned) ==
  IF op \notin BrainContentOps THEN {}
  ELSE {<<SlugOf[a], 1>> : a \in {b \in w.aliases : SlugOf[b] # NoSlug}}
         \ (RelatedBasenames(hits) \cup planned)

Disposition(c, w, hits, acc) ==
  LET op == FinalOp(c, w, hits)
      name == NameOf(op, c, w, hits, acc)
      new == IF op = "CREATE_THEME" THEN acc.new \cup {name} ELSE acc.new
  IN [candidate |-> c.id, events |-> c.events, op |-> op, name |-> name,
      domain |-> IF op \in BrainBasenameOps THEN RoutedDomain(c, w) ELSE Nothing,
      target |-> IF op \in BrainTargetOps THEN w.target ELSE NoName,
      tags |-> IF op \in {"CREATE_THEME", "MERGE_INTO_THEME"}
               THEN w.tags \cap AllowedTags ELSE {},
      status |-> StatusFor(op, w),
      links |-> LinksFor(op, w, hits, new),
      aliases |-> KeptAliases(op, w, hits, new \cup acc.aliases \cup {name}),
      prose |-> op \in BrainContentOps \ {"MARK_CONTESTED"}]
\* The plan so far, with the names it has created and the aliases it has given.
Disposed(acc, d) ==
  [out |-> Append(acc.out, d),
   new |-> IF d.op = "CREATE_THEME" THEN acc.new \cup {d.name} ELSE acc.new,
   aliases |-> acc.aliases \cup d.aliases]

\* A wish per candidate id; a candidate the answer leaves out is dropped.
NoWish == [op |-> Nothing, domain |-> Nothing, seeds |-> <<>>, target |-> NoName,
           status |-> Nothing, links |-> {}, tags |-> {}, aliases |-> {}]
WishFor(id, wishes) == IF id \in DOMAIN wishes THEN wishes[id] ELSE NoWish
\* The plan after the first k candidates, for every k.
Normalized(cands, wishes, hits) ==
  LET after[k \in 0 .. Len(cands)] ==
        IF k = 0 THEN [out |-> <<>>, new |-> {}, aliases |-> {}]
        ELSE Disposed(after[k - 1], Disposition(cands[k], WishFor(cands[k].id, wishes), hits,
                                                after[k - 1]))
  IN after
NormalizePlan(cands, wishes, hits) == Normalized(cands, wishes, hits)[Len(cands)].out

\* run_plan: the bundle's candidates and hits, the parsed answer, the vocabulary.
RunPlan(x) == NormalizePlan(x.cands, x.wishes, x.hits)

-----------------------------------------------------------------------------
(* validate_plan over the whole registry: the checks that can fail, each   *)
(* with the dispositions it blames.                                        *)
NamesOf(registry) == {p[2] : p \in registry}
Concepts(registry) == {p \in registry : p[1] # <<>> /\ p[1][1] = "concepts"}
ConceptNames(registry) == NamesOf(Concepts(registry))
Created(plan) == {d \in Range(plan) : d.op = "CREATE_THEME"}
GateErrors(cands, plan, registry) ==
  LET ds == Range(plan)
      new == {d.name : d \in Created(plan)}
      gated == {c.id : c \in {x \in Range(cands) : x.gated}}
      covered(e) == Cardinality({d \in ds : e \in d.events})
      blame(check, set) == {<<check, d.candidate>> : d \in set}
  IN UNION {
       {<<"COVERAGE", e>> : e \in {x \in UNION {c.events : c \in Range(cands)} :
                                      covered(x) # 1}},
       blame("CLOSED-VOCAB", {d \in ds : d.op \notin BrainOps}),
       blame("TAXONOMY", {d \in ds : \/ ~(d.tags \subseteq AllowedTags)
                                     \/ d.domain \notin DomainSet \cup {Nothing}}),
       blame("BASENAME", {d \in ds : /\ d.op \in BrainBasenameOps
                                     /\ (d.domain = Nothing \/ d.name = NoName)}),
       blame("BASENAME-LIVE", {d \in Created(plan) : d.name \in NamesOf(registry)}),
       blame("BASENAME-RESERVED", {d \in Created(plan) : d.name \in DomainNames}),
       blame("BASENAME-TWICE", {d \in Created(plan) :
                \E e \in Created(plan) \ {d} : e.name = d.name}),
       blame("TARGET", {d \in ds : /\ d.op \in BrainTargetOps
                                   /\ d.target \notin ConceptNames(registry)}),
       blame("PATH-DOMAIN", {d \in ds : /\ d.domain # Nothing
                                        /\ ~IsSafeBasename(<<d.domain, 1>>)}),
       blame("PATH-BASENAME", {d \in ds : /\ d.op \in BrainBasenameOps /\ d.name # NoName
                                          /\ ~IsSafeBasename(d.name)}),
       blame("PATH-DATE", {d \in ds : d.op = "APPEND_DAILY" /\ d.name # <<RunDate, 1>>}),
       blame("LINK", {d \in ds : ~(d.links \subseteq NamesOf(registry) \cup new)}),
       blame("PROVENANCE", {d \in ds : d.op \in BrainContentOps /\ d.events = {}}),
       blame("STATUS", {d \in ds : \/ d.status \notin StatusValues \cup {"contested", Nothing}
                                   \/ d.status = "contested" /\ d.op # "MARK_CONTESTED"}),
       blame("CANDIDATE-GATE", {d \in ds : /\ d.candidate \in gated
                                           /\ d.op \notin BrainGateAllowedOps})}

-----------------------------------------------------------------------------
(* PASS 2.  A note is its regions, in order: a sequence of [id, text].     *)
(* The brain's answer to a region is Refused (no answer), or prose made   *)
(* of the pieces a model may print.  A fence, a comment or a link is taken *)
(* out before it is filled in, in one pass: of one that is split around    *)
(* another, as in <!-<!-- a -->- b -->, what is left over closes up to the *)
(* mark that was to go.                                                    *)
Refused == {"refused"}
Unsplit == [split_fence |-> "fence", split_comment |-> "comment", split_brackets |-> "brackets"]
Marks == Range(Unsplit)
SanitizeProse(prose) ==
  (prose \ (Marks \cup DOMAIN Unsplit)) \cup {Unsplit[p] : p \in prose \cap DOMAIN Unsplit}
PresentSentinelIds(note) == {note[i].id : i \in DOMAIN note}
\* Only the first region of an id is found.
FirstOfId(note, i) == \A j \in 1 .. i - 1 : note[j].id # note[i].id
FillSentinelRegions(note, ids, answers) ==
  [i \in DOMAIN note |->
     IF note[i].id \in ids /\ FirstOfId(note, i)
     THEN [id |-> note[i].id, text |-> SanitizeProse(answers[note[i].id])] ELSE note[i]]
AuthorTargets(note, asked) == PresentSentinelIds(note) \cap asked
\* run_author: every answered target is filled in memory, then one write.
RunAuthor(note, asked, answers) ==
  FillSentinelRegions(note, {id \in AuthorTargets(note, asked) : answers[id] # Refused}, answers)
\* SubprocessBackend.author: one process per region, each reading and writing
\* the whole note.  A process that exits non-zero is reported and the next one
\* starts; one that hangs past its timeout ends the pass.
AuthorStep(acc, id, exit, answers) ==
  IF acc.aborted THEN acc
  ELSE CASE exit[id] = "hangs" ->
              [note |-> acc.note, failures |-> acc.failures, aborted |-> TRUE]
         [] exit[id] = "fails" ->
              [note |-> acc.note, failures |-> acc.failures \cup {id}, aborted |-> FALSE]
         [] OTHER ->
              [note |-> RunAuthor(acc.note, {id}, answers), failures |-> acc.failures,
               aborted |-> FALSE]
\* The pass after the first k regions, for every k.
Authored(note, sids, exit, answers) ==
  LET after[k \in 0 .. Len(sids)] ==
        IF k = 0 THEN [note |-> note, failures |-> {}, aborted |-> FALSE]
        ELSE AuthorStep(after[k - 1], sids[k], exit, answers)
  IN after
AuthorPass(note, sids, exit, answers) == Authored(note, sids, exit, answers)[Len(sids)]

-----------------------------------------------------------------------------
(* Properties of one PLAN pass: x.cands, what the model answered for them, *)
(* the hits the bundle showed and the registry the gate will check.  Each  *)
(* candidate has an id and captures of its own and a hash that is a safe   *)
(* name, and the bundle shows no note but a concept the gate will find     *)
(* (build_bundle's mergeable_paths).                                       *)
IsSequence(s) == s \in Seq(Range(s))
IsPlanInput(x) ==
  /\ IsSequence(x.cands)
  /\ \A i \in DOMAIN x.cands :
       /\ x.cands[i].events # {} /\ IsSafeBasename(<<x.cands[i].hash, 1>>)
       /\ \A j \in DOMAIN x.cands \ {i} :
            /\ x.cands[i].id # x.cands[j].id
            /\ x.cands[i].events \cap x.cands[j].events = {}
  /\ \A id \in DOMAIN x.wishes : IsSequence(x.wishes[id].seeds)
  /\ IsFiniteSet(x.hits) /\ x.hits \subseteq Concepts(x.registry)

\* Whatever the model answers, the normalized plan fails no check of the gate, but for a
\* created note's name, that a note no hit showed has or that is an unsafe slug of what
\* the model or the capture said ("Foo.md" gives foo.md), and for an unsafe domain that
\* taxonomy.yaml declares.
NormalizedPassesGate(x) ==
  LET plan == RunPlan(x)
      said(i) == {SlugOf[t] : t \in Range(WishFor(plan[i].candidate, x.wishes).seeds)
                                       \cup {x.cands[i].text}}
  IN \A err \in GateErrors(x.cands, plan, x.registry) :
       \E i \in DOMAIN plan :
         /\ plan[i].candidate = err[2]
         /\ \/ /\ err[1] = "BASENAME-LIVE" /\ plan[i].op = "CREATE_THEME"
               /\ plan[i].name \in NamesOf(x.registry) \ NamesOf(x.hits)
            \/ /\ err[1] = "PATH-BASENAME" /\ plan[i].op = "CREATE_THEME"
               /\ plan[i].name[1] \in said(i) /\ ~IsSafeBasename(plan[i].name)
            \/ /\ err[1] = "PATH-DOMAIN" /\ plan[i].domain \in DomainSet
               /\ ~IsSafeBasename(<<plan[i].domain, 1>>)

\* No alias names a note the hits showed, the alias of another disposition, or
\* the note of its own or an earlier disposition -- but the journal of an earlier one,
\* which the driver does not count among the names of its plan.
AliasesApart(x) ==
  LET plan == RunPlan(x)
  IN \A i \in DOMAIN plan :
       /\ plan[i].aliases \cap NamesOf(x.hits) = {}
       /\ \A j \in DOMAIN plan \ {i} : plan[i].aliases \cap plan[j].aliases = {}
       /\ \A j \in 1 .. i :
            plan[j].name \in plan[i].aliases => j # i /\ plan[j].op = "APPEND_DAILY"

\* The prompt's promise that a durable new fact is never dropped for lack of a
\* domain: one that asks for a note gets one while the taxonomy has a domain.
NewFactKept(x) ==
  LET plan == RunPlan(x)
  IN \A i \in DOMAIN plan :
       LET w == WishFor(plan[i].candidate, x.wishes)
       IN /\ DomainList # <<>> /\ ~x.cands[i].gated /\ w.op \in BrainBasenameOps
          => plan[i].op = w.op

\* A PASS 2 over x.note, by a process per x.sids.
IsAuthoring(x) ==
  /\ IsSequence(x.sids) /\ IsSequence(x.note)
  /\ \A i \in DOMAIN x.sids : x.exit[x.sids[i]] \in {"ok", "fails", "hangs"}
\* Of a PASS 2 over x.note: a region that was not asked for, was refused, failed or
\* came after a hang keeps its text; one that was answered before it has the prose
\* without its marks, but those the answer had split around another; and every failed
\* process up to a hang is reported.
AuthorLeavesTheRest(x) ==
  LET hung == {i \in DOMAIN x.sids : x.exit[x.sids[i]] = "hangs"}
      reached == {x.sids[i] : i \in {j \in DOMAIN x.sids : \A k \in hung : j < k}}
      pass == AuthorPass(x.note, x.sids, x.exit, x.answers)
      first(i) == \A j \in 1 .. i - 1 : x.note[j].id # x.note[i].id
      filled(i) == /\ first(i) /\ x.note[i].id \in reached
                   /\ x.exit[x.note[i].id] = "ok" /\ x.answers[x.note[i].id] # Refused
      cleaned(text, prose) ==
        /\ text \ Marks = prose \ (Marks \cup DOMAIN Unsplit)
        /\ \A m \in Marks : m \in text <=> \E p \in prose \cap DOMAIN Unsplit : Unsplit[p] = m
  IN /\ \A i \in DOMAIN x.note :
          IF filled(i)
          THEN /\ pass.note[i].id = x.note[i].id
               /\ cleaned(pass.note[i].text, x.answers[x.note[i].id])
          ELSE pass.note[i] = x.note[i]
     /\ pass.failures = {id \in reached : x.exit[id] = "fails"}
     /\ pass.aborted = (hung # {})
=============================================================================
