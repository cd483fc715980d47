----------------------------- MODULE RepoInit -----------------------------
(***************************************************************************)
(* agora repo init: a directory becomes a knowledge repo in a sequence of  *)
(* writes and two commits, any of which may be the last before a crash,    *)
(* and the command may be run again, with another --schema, on what that   *)
(* left or on a repo somebody edited.                                      *)
(*                                                                         *)
(* A tree is what the directory holds.  Each field is the schema version   *)
(* of a file, 0 where it is absent: doc (AGENTS.md), tax                   *)
(* (_meta/taxonomy.yaml; Broken if it cannot be read), mirror              *)
(* (_kb/repo.yaml, git-ignored), map (the root index.md), notes (those     *)
(* under wiki/).  kb is the identity in _meta/kb.yaml and mapKb the one    *)
(* the root map names, 0 for none; kinds and brain say whether the kind    *)
(* directories and adapters.yaml exist; attrs are the rules of             *)
(* .gitattributes, top down; commits counts the commits on the branch and  *)
(* tracked is the tree of the last one.  Names, domains and tags are left  *)
(* out, with the refusal of a domain that begins with "_"; so are the      *)
(* templates and links beside AGENTS.md, and a taxonomy without a version  *)
(* counts as one that says 1.                                              *)
(* A run is [schema, cut]: --schema or 0, and after how many of its writes *)
(* it stops (Whole: it does not).                                          *)
(***************************************************************************)
EXTENDS Naturals, Sequences

Supported == {1, 2}
MaxSupported == 2
Broken == 9
Whole == 99

\* A rule marks every path as a blob, or says something else of some.
Rules == {"blob", "text"}
TreeFields ==
  {"kb", "kinds", "map", "mapKb", "notes", "attrs", "doc", "tax", "mirror", "brain", "commits",
   "tracked"}
IsTree(t) ==
  /\ t = [f \in TreeFields |-> t[f]]
  /\ \A f \in {"kb", "map", "mapKb", "notes", "doc", "tax", "mirror", "commits"} : t[f] \in Nat
  /\ t.kinds \in BOOLEAN /\ t.brain \in BOOLEAN
  /\ t.attrs \in Seq(Rules)
Run == [schema : {0, 1, 2}, cut : 0 .. 9 \cup {Whole}]
IsInit(x) == IsTree(x.tree) /\ x.runs \in Seq(Run) /\ x.runs # <<>>

\* What git tracks of a tree: not the mirror.
Tracked(t) ==
  [f \in {"kb", "kinds", "map", "mapKb", "notes", "attrs", "doc", "tax", "brain"} |-> t[f]]

-----------------------------------------------------------------------------
(* Which version a repo is of, and who may use it.                         *)

\* read_canonical_kb_schema_version and read_kb_schema_version; 0: unknown.
Declared(t) == IF t.tax \in {0, Broken} THEN 0 ELSE t.tax
ReadVersion(t) ==
  CASE t.tax = Broken -> 0
    [] t.tax = 0 -> IF t.mirror = 0 THEN 1 ELSE t.mirror
    [] OTHER -> t.tax

\* The guard of every command; what may also be written (Inbox.write, curate,
\* watch, requeue); and what is reported as read-only.
MayRun(t) == ReadVersion(t) = 0 \/ ReadVersion(t) \in Supported
MayWrite(t) == Declared(t) = 0 \/ Declared(t) = MaxSupported
ReadOnly(t) == Declared(t) \in Supported \ {MaxSupported}

-----------------------------------------------------------------------------
(* The run: refused before any write, or a sequence of writes.             *)

Already(t) == t.commits > 0
\* --schema, else what the repo declares, else what this build writes.
Version(t, schema) ==
  CASE schema # 0 -> schema
    [] schema = 0 /\ Declared(t) # 0 -> Declared(t)
    [] OTHER -> MaxSupported
HasContent(t) == t.map # 0 \/ t.notes # 0
Contradicts(t, schema) == Declared(t) # 0 /\ schema # 0 /\ schema # Declared(t)
AheadOfTree(t, schema) ==
  /\ schema = 0 /\ Already(t)
  /\ Version(t, schema) >= 2
  /\ t.kb = 0
  /\ Declared(t) # 0 \/ HasContent(t)
Refused(t, schema) == ~MayRun(t) \/ Contradicts(t, schema) \/ AheadOfTree(t, schema)

\* Git resolves the attribute of a blob by the last rule that matches it.
Pinned(attrs) == attrs # <<>> /\ attrs[Len(attrs)] = "blob"
EnsureBlobAttributes(attrs) == IF Pinned(attrs) THEN attrs ELSE Append(attrs, "blob")

\* (mutant) an identity is minted by every run.
MintAlways(t, id) == [t EXCEPT !.kb = id]
LoadOrMint(t, id) == [t EXCEPT !.kb = IF t.kb = 0 THEN id ELSE t.kb]
SeedMap(t, v) ==
  IF t.map # 0 THEN t
  ELSE [t EXCEPT !.map = v, !.mapKb = IF v >= 2 THEN t.kb ELSE 0]
Commit(t) == [t EXCEPT !.commits = t.commits + 1, !.tracked = Tracked(t)]

\* One write of a run of version v that mints id and began on an initialized
\* repo or not.
Write(step, t, v, id, already) ==
  CASE step = "identity" -> IF v >= 2 THEN LoadOrMint(t, id) ELSE t
    [] step = "kinds" -> IF v >= 2 THEN [t EXCEPT !.kinds = TRUE] ELSE t
    [] step = "attributes" ->
         IF already THEN t ELSE [t EXCEPT !.attrs = EnsureBlobAttributes(t.attrs)]
    [] step = "map" -> IF already THEN t ELSE SeedMap(t, v)
    [] step = "initialize" -> IF already THEN t ELSE Commit(t)
    [] step = "doc" -> IF t.doc = 0 THEN [t EXCEPT !.doc = v] ELSE t
    [] step = "taxonomy" -> IF t.tax = 0 THEN [t EXCEPT !.tax = v] ELSE t
    [] step = "mirror" -> [t EXCEPT !.mirror = v]
    [] step = "brain" -> [t EXCEPT !.brain = TRUE]
    [] step = "schema" -> IF already THEN t ELSE Commit(t)
InitSteps ==
  <<"identity", "kinds", "attributes", "map", "initialize", "doc", "taxonomy", "mirror",
    "brain", "schema">>
CutBetweenCommits == 5 .. 9

\* L1-17, and the frontmatter of the root map and the notes (a schema-2 map
\* satisfies schema 1 too).
Lints(t, v) == t.doc = v /\ t.mirror = v /\ t.map >= v /\ t.notes \in {0, v}
\* The tree after k writes of a run on t, for every k.
Writes(t, v, id) ==
  LET after[k \in 0 .. 9] ==
        IF k = 0 THEN t ELSE Write(InitSteps[k], after[k - 1], v, id, Already(t))
  IN after
\* The tree a run leaves and whether it exits 0.  The second commit fails when the
\* first one took everything.
InitRun(t, run, id) ==
  LET v == Version(t, run.schema)
      after == Writes(t, v, id)[IF run.cut < 10 THEN run.cut ELSE 9]
      empty == ~Already(t) /\ after.tracked = Tracked(after)
      done == Write("schema", after, v, id, Already(t))
  IN CASE Refused(t, run.schema) -> [tree |-> t, ok |-> FALSE]
       [] ~Refused(t, run.schema) /\ (run.cut < 10 \/ empty) -> [tree |-> after, ok |-> FALSE]
       [] OTHER -> [tree |-> done, ok |-> Lints(done, v)]

\* The runs of x one after the other; the i-th mints identity i.
AfterRuns(x) ==
  LET after[i \in 0 .. Len(x.runs)] ==
        IF i = 0 THEN [tree |-> x.tree, ok |-> FALSE]
        ELSE InitRun(after[i - 1].tree, x.runs[i], i)
  IN after
InitRuns(x) == AfterRuns(x)[Len(x.runs)]

-----------------------------------------------------------------------------
EmptyTree(attrs) ==
  [kb |-> 0, kinds |-> FALSE, map |-> 0, mapKb |-> 0, notes |-> 0, attrs |-> attrs,
   doc |-> 0, tax |-> 0, mirror |-> 0, brain |-> FALSE, commits |-> 0, tracked |-> <<>>]
SameRequest(x) == \A i \in DOMAIN x.runs : x.runs[i].schema = x.runs[1].schema
LastRun(x) == x.runs[Len(x.runs)]
LastWhole(x) == LastRun(x).cut = Whole

\* A run that is cut anywhere, any number of times, and repeated leaves the files one
\* uninterrupted run leaves, under the identity minted first.
RerunConverges(x) ==
  (x.tree = EmptyTree(x.tree.attrs) /\ SameRequest(x) /\ LastWhole(x)) =>
    LET again == InitRuns(x)
        once == InitRun(x.tree, LastRun(x), again.tree.kb)
        files(t) == [f \in DOMAIN t \ {"commits", "tracked"} |-> t[f]]
    IN again.ok /\ once.ok /\ files(again.tree) = files(once.tree)

RulesKept(before, after) ==
  Len(before) <= Len(after) /\ \A i \in DOMAIN before : after[i] = before[i]
\* An init that succeeds has every file it wrote in a commit, with the blobs pinned
\* before any is added and nobody's rule dropped -- unless an earlier run was cut
\* between its two commits: the next one finds a commit and makes none, so the schema
\* document and the taxonomy stay untracked.  So may the identity of a run that asked
\* for schema 2 and failed, between two that asked for schema 1, where the taxonomy
\* cannot be read and contradicts neither.  Every command then runs on it, and those
\* that write do exactly if it is of schema 2.
SuccessIsCommitted(x) ==
  LET r == InitRuns(x)
      cut == \E i \in DOMAIN x.runs : x.runs[i].cut \in CutBetweenCommits
      mixed == /\ x.tree.tax = Broken
               /\ \E i, j \in DOMAIN x.runs :
                    Version(x.tree, x.runs[i].schema) # Version(x.tree, x.runs[j].schema)
  IN (x.tree.commits = 0 /\ r.ok) =>
       /\ Pinned(r.tree.tracked.attrs)
       /\ RulesKept(x.tree.attrs, r.tree.attrs)
       /\ r.tree.tracked # Tracked(r.tree) => cut \/ mixed
       /\ r.tree.tax # Broken =>
            /\ MayRun(r.tree)
            /\ MayWrite(r.tree) <=> r.tree.mirror = 2
            /\ ReadOnly(r.tree) <=> r.tree.mirror = 1

\* A committed tree of schema 1 is not seeded with schema 2, whatever its taxonomy
\* was made to say, but by an explicit --schema 2 where it does not say 1.
NoSilentConversion(x) ==
  LET asked == \E i \in DOMAIN x.runs : x.runs[i].schema = 2 /\ Declared(x.tree) # 1
      r == InitRuns(x).tree
  IN (x.tree.commits > 0 /\ x.tree.kb = 0 /\ HasContent(x.tree) /\ ~asked) =>
       r.kb = 0 /\ r.kinds = x.tree.kinds /\ r.mirror \in {x.tree.mirror, 1}
=============================================================================
