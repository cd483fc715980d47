---------------------------- MODULE VaultImport ----------------------------
(***************************************************************************)
(* `agora import`: a foreign vault of markdown notes becomes a schema-2    *)
(* repo.  Every note is placed by kind, colliding names are told apart,    *)
(* links are pointed at where their targets landed, provenance is grounded *)
(* in raw/, and the maps and the root index are completed.                 *)
(*                                                                         *)
(* A vault is a sequence of notes in path order; a note is                 *)
(*   dirs, stem   its source path          body     its text, "" if blank  *)
(*   wiki         [[keys]] of its body     md       source paths it links  *)
(*   related      keys of related:         sources  sources:, a sequence   *)
(*   tags         tags:                    status   status:, or ""         *)
(* A destination basename is <<slug>>, or <<slug, body>> with the hash of  *)
(* the body as a suffix.  Links to files that are no notes are left out,   *)
(* and in a map or index every body link stands on a bullet of its own.    *)
(***************************************************************************)
EXTENDS Naturals, Sequences, FiniteSets, FiniteSetsExt, Functions

CONSTANTS
  VaultSlug,     \* stem -> its slug, or ""
  MocStem,       \* domain -> the stem of its map of content in an old layout
  VaultDomains,  \* --domains, in order
  VaultTags      \* --tags

\* A vault: notes of distinct paths.
VaultNote ==
  [dirs : Seq(STRING), stem : STRING, body : STRING, wiki : SUBSET STRING,
   md : SUBSET (Seq(STRING) \X STRING), related : SUBSET STRING,
   sources : Seq(({"raw"} \X STRING \X Seq(STRING)) \cup ({"url"} \X STRING)),
   tags : SUBSET STRING, status : STRING]
IsVault(vault) ==
  /\ vault \in Seq(VaultNote)
  /\ \A i, j \in DOMAIN vault :
       vault[i].dirs = vault[j].dirs /\ vault[i].stem = vault[j].stem => i = j

NoText == ""
StructuralDirs == {"_templates", "_meta", "_kb", ".obsidian"}
ExemptStems == {"AGENTS", "log"}
AdmittedChildKinds == {"concept", "map"}
FinalStatuses == {"active", "stub", "contested", "deprecated"}
RootIndex == <<".", <<"index">>>>

\* The notes the scan keeps, each under its place in the order of the paths.
ScanNotes(vault) ==
  Restrict(vault, {i \in DOMAIN vault : /\ vault[i].stem \notin ExemptStems
                                        /\ Range(vault[i].dirs) \cap StructuralDirs = {}})
-----------------------------------------------------------------------------
(* Placement.                                                              *)
PathSubject(n) ==
  LET at == {i \in DOMAIN n.dirs : n.dirs[i] \in Range(VaultDomains)}
  IN IF at = {} THEN NoText ELSE n.dirs[Min(at)]
SlugOrHash(stem, n) ==
  IF VaultSlug[stem] = NoText THEN <<"note", n.body>> ELSE <<VaultSlug[stem]>>
InferLayout(n) ==
  LET wiki == Len(n.dirs) >= 2 /\ n.dirs[1] = "wiki"
  IN CASE n.dirs = <<>> /\ n.stem = "index" -> [kind |-> "index", dest |-> RootIndex]
       [] wiki /\ Len(n.dirs) = 2 /\ n.stem = MocStem[n.dirs[2]] ->
            [kind |-> "map", dest |-> <<"maps", SlugOrHash(n.dirs[2], n)>>]
       [] wiki /\ Len(n.dirs) = 3 /\ n.dirs[3] = "themes" ->
            [kind |-> "concept", dest |-> <<"concepts", <<n.stem>>>>]
       [] OTHER -> [kind |-> "concept", dest |-> <<"concepts", SlugOrHash(n.stem, n)>>]

\* Note j claims its basename before note i: destinations in path order, and
\* equal ones in the order of their sources.  The root, "." here, sorts first.
Tier(dir) == CASE dir = "." -> 0 [] dir = "concepts" -> 1 [] OTHER -> 2
ClaimsFirst(V, j, i) ==
  LET a == InferLayout(V[j]).dest b == InferLayout(V[i]).dest
  IN /\ a[2] = b[2]
     /\ \/ Tier(a[1]) < Tier(b[1])
        \/ Tier(a[1]) = Tier(b[1]) /\ j < i
\* Note i told apart by its text.  The name `index` is the root map's, imported or not.
Suffixed(V, i) ==
  LET d == InferLayout(V[i]).dest IN <<d[1], Append(d[2], V[i].body)>>
Displaced(V, i) ==
  LET d == InferLayout(V[i]).dest
  IN \/ \E j \in DOMAIN V \ {i} : ClaimsFirst(V, j, i)
     \/ d[2] = RootIndex[2] /\ d # RootIndex
\* Where note i lands.  The name a displaced note gets is claimed too, but nothing asks
\* whether it was free.
Placed(V, i) ==
  LET d == InferLayout(V[i]).dest
      taken == \E j \in DOMAIN V :
                 /\ Displaced(V, j) /\ Suffixed(V, j)[2] = d[2]
                 /\ Tier(d[1]) > Tier(Suffixed(V, j)[1])
  IN IF Displaced(V, i) \/ taken THEN Suffixed(V, i) ELSE d
\* The notes of the import with what was planned for each; V below.
Planned(V) ==
  [i \in DOMAIN V |->
     LET n == V[i]
     IN [kind |-> InferLayout(n).kind, dest |-> Placed(V, i), dirs |-> n.dirs, stem |-> n.stem,
         body |-> n.body, wiki |-> n.wiki, md |-> n.md, related |-> n.related,
         sources |-> n.sources, tags |-> n.tags, status |-> n.status]]
-----------------------------------------------------------------------------
(* Links.                                                                  *)
\* A map is renamed from its old stem to the name of its subject.
Renamed(V, key) ==
  LET maps == {i \in DOMAIN V : V[i].kind = "map" /\ V[i].stem = key}
  IN IF maps # {} THEN V[Max(maps)].dest[2] ELSE <<key>>
HasName(V, name) == \E i \in DOMAIN V : V[i].dest[2] = name
\* The last note of a basename is the one the table keeps.
PathOf(V, name) == V[Max({i \in DOMAIN V : V[i].dest[2] = name})].dest
SourceOf(V, path) == {i \in DOMAIN V : <<V[i].dirs, V[i].stem>> = path}

\* (mutant) a markdown link is looked up by basename only.
RetargetedByName(V, path) ==
  IF HasName(V, Renamed(V, path[2])) THEN {PathOf(V, Renamed(V, path[2]))} ELSE {}
\* A markdown link: the note its path names in the vault, else its basename.
Retargeted(V, path) ==
  IF SourceOf(V, path) # {} THEN {V[Max(SourceOf(V, path))].dest}
  ELSE IF HasName(V, Renamed(V, path[2])) THEN {PathOf(V, Renamed(V, path[2]))}
  ELSE {}
ConvertedWiki(V, key) ==
  IF HasName(V, Renamed(V, key)) THEN {PathOf(V, Renamed(V, key))} ELSE {}
BodyLinks(V, n) ==
  UNION ({Retargeted(V, p) : p \in n.md} \cup {ConvertedWiki(V, k) : k \in n.wiki})
KeptRelated(V, n) == {Renamed(V, k) : k \in {x \in n.related : HasName(V, Renamed(V, x))}}
UnresolvedLinks(V, n) ==
  {p[2] : p \in {x \in n.md : Retargeted(V, x) = {}}}
    \cup {k \in n.wiki : ConvertedWiki(V, k) = {}}
    \cup {k \in n.related : ~HasName(V, Renamed(V, k))}
\* A map's children are its bullets that name a kind a map may list.
SyncedChildren(V, n) ==
  {p[2] : p \in {q \in BodyLinks(V, n) : \E i \in DOMAIN V :
                    V[i].dest = q /\ V[i].kind \in AdmittedChildKinds}}
-----------------------------------------------------------------------------
(* Provenance.  A source is <<"raw", shard, name>> or something else.      *)
RawSources(n) == {s \in Range(n.sources) : s[1] = "raw"}
Shard(n) == IF PathSubject(n) = NoText THEN VaultDomains[1] ELSE PathSubject(n)
\* The first cited source the vault holds is copied, and only that one.
CitedInVault(n, vaultRaw) == RawSources(n) \cap vaultRaw
FirstCited(n, vaultRaw) ==
  n.sources[Min({i \in DOMAIN n.sources : n.sources[i] \in CitedInVault(n, vaultRaw)})]
SynthRawSource(V, i, vaultRaw) ==
  LET n == V[i]
      cited == CitedInVault(n, vaultRaw)
      own == <<"raw", Shard(n), V[i].dest[2]>>
  IN CASE n.kind # "concept" ->
            [write |-> {}, sources |-> RawSources(n), stub |-> FALSE]
       [] n.kind = "concept" /\ cited # {} ->
            [write |-> {<<FirstCited(n, vaultRaw), "vault">>}, sources |-> RawSources(n),
             stub |-> FALSE]
       [] n.kind = "concept" /\ cited = {} /\ n.body # NoText ->
            [write |-> {<<own, n.body>>}, sources |-> {own}, stub |-> FALSE]
       [] OTHER -> [write |-> {}, sources |-> {}, stub |-> TRUE]
\* raw/ after the import: the last write of a path wins.
ImportedRaw(V, vaultRaw) ==
  LET writes(i) == SynthRawSource(V, i, vaultRaw).write
      paths == {w[1] : w \in UNION {writes(i) : i \in DOMAIN V}}
      last(p) == Max({i \in DOMAIN V : \E w \in writes(i) : w[1] = p})
  IN [p \in paths |-> (CHOOSE w \in writes(last(p)) : w[1] = p)[2]]
ImportedStatus(n, stub) ==
  CASE stub -> "stub"
    [] ~stub /\ n.status \in FinalStatuses -> n.status
    [] OTHER -> "active"
-----------------------------------------------------------------------------
(* Navigation: a map per domain that has concepts, and the root index.     *)
OfDomain(V, d) ==
  {i \in DOMAIN V : V[i].kind = "concept" /\ PathSubject(V[i]) = d}
SynthesizedMaps(V) ==
  {d \in Range(VaultDomains) :
     OfDomain(V, d) # {} /\ ~HasName(V, <<d>>)}
MapNames(V) ==
  {V[i].dest[2] : i \in {j \in DOMAIN V : V[j].kind = "map"}}
    \cup {<<d>> : d \in SynthesizedMaps(V)}
HasIndex(V) == \E i \in DOMAIN V : V[i].dest = RootIndex
IndexChildren(V) ==
  IF HasIndex(V)
  THEN MapNames(V) \cup SyncedChildren(V, V[CHOOSE i \in DOMAIN V : V[i].dest = RootIndex])
  ELSE MapNames(V)

NoteOut(V, i, vaultRaw) ==
  LET n == V[i] ground == SynthRawSource(V, i, vaultRaw)
  IN [from |-> i, kind |-> n.kind, body |-> n.body,
      subjects |-> {PathSubject(n)} \ {NoText}, links |-> BodyLinks(V, n),
      related |-> KeptRelated(V, n), tags |-> n.tags \cap VaultTags,
      sources |-> ground.sources, status |-> ImportedStatus(n, ground.stub),
      children |-> CASE V[i].dest = RootIndex -> IndexChildren(V)
                     [] n.kind = "map" -> SyncedChildren(V, n)
                     [] OTHER -> {},
      reported |-> UnresolvedLinks(V, n)]
NavigationOut(kids, subjects, kind) ==
  [from |-> 0, kind |-> kind, body |-> "map", subjects |-> subjects, links |-> {},
   related |-> {}, tags |-> {}, sources |-> {}, status |-> "active", children |-> kids,
   reported |-> {}]
\* import_vault: path -> note, the last write of a path wins.
ImportPlanned(V, vaultRaw) ==
  LET maps == {<<"maps", <<d>>>> : d \in SynthesizedMaps(V)}
      dests == {V[i].dest : i \in DOMAIN V}
      kids(d) == {V[i].dest[2] : i \in OfDomain(V, d)}
  IN [p \in dests \cup maps \cup {RootIndex} |->
        IF p \in maps THEN NavigationOut(kids(p[2][1]), {p[2][1]}, "map")
        ELSE IF p \notin dests THEN NavigationOut(IndexChildren(V), {}, "index")
        ELSE NoteOut(V, Max({i \in DOMAIN V : V[i].dest = p}), vaultRaw)]
-----------------------------------------------------------------------------
(* Properties of one import: V is what was planned, out what was written,  *)
(* raw its raw/ and vaultRaw the files of the vault's.                     *)

\* No note is lost but a copy: two notes land on one path only if they have one body,
\* and one of them gave way to a third note (or the root map) that has its plain name.
NotesKept(V) ==
  \A i, j \in DOMAIN V : (i # j /\ V[i].dest = V[j].dest) =>
    /\ V[i].body = V[j].body
    /\ \E m \in {i, j} :
         /\ V[m].dest[2] = Append(InferLayout(V[m]).dest[2], V[m].body)
         /\ \/ InferLayout(V[m]).dest[2] = <<"index">>
            \/ \E k \in DOMAIN V \ {i, j} : V[k].dest[2] = InferLayout(V[m]).dest[2]

\* One basename, one path: what every [[basename]] of the result resolves on.  A map
\* and a concept of one text may be told apart from others by that text alike, and a
\* domain may be called index.
ImportedNamesUnique(out) ==
  \A p, q \in DOMAIN out : (p[2] = q[2] /\ p # q) =>
    \/ Len(p[2]) > 1 /\ out[p].body = out[q].body /\ "map" \in {out[p].kind, out[q].kind}
    \/ p[2] = RootIndex[2] /\ "index" \in Range(VaultDomains)

\* A markdown link to a note of the vault leads to the note with that text, and
\* a [[key]] to a note of that name, to a map's name, or into the report.
ImportedLinksLand(V, out) ==
  \A i \in DOMAIN V : out[V[i].dest].from = i =>
    LET n == out[V[i].dest]
    IN /\ \A p \in V[i].md : \A j \in SourceOf(V, p) :
            \E q \in n.links : q \in DOMAIN out /\ out[q].body = V[j].body
       /\ n.links \subseteq DOMAIN out
       /\ \A k \in V[i].wiki : k \in n.reported
            \/ \E q \in n.links : \/ q[2] = <<k>>
                                   \/ \E m \in DOMAIN out : m[2] = q[2] /\ out[m].kind = "map"

\* Every concept cites a source or is a stub, and a source the import wrote for
\* one holds that concept's text, unless another note's source took its path.
ImportedConceptsGrounded(out, raw, vaultRaw) ==
  \A p \in DOMAIN out : out[p].kind = "concept" =>
    /\ out[p].sources # {} \/ out[p].status = "stub"
    /\ out[p].sources # {} => out[p].sources \cap DOMAIN raw # {}
    /\ \A s \in (out[p].sources \cap DOMAIN raw) \ vaultRaw :
         s[3] = p[2] => raw[s] = out[p].body

\* Every map is a child of the index, every concept of a domain a child of the
\* map written for it, and maps list only what lint lets them list.
NavigationComplete(V, out) ==
  /\ \A p \in DOMAIN out : out[p].kind = "map" => p[2] \in out[RootIndex].children
  /\ \A d \in Range(VaultDomains) : \A i \in OfDomain(V, d) :
       \E p \in DOMAIN out : /\ p[2] = <<d>>
                             /\ out[p].from = 0 => V[i].dest[2] \in out[p].children
  /\ \A p \in DOMAIN out : \A c \in out[p].children :
       \E q \in DOMAIN out : q[2] = c /\ out[q].kind \in AdmittedChildKinds

ImportHolds(V, out, raw, vaultRaw) ==
  /\ NotesKept(V)
  /\ ImportedNamesUnique(out)
  /\ ImportedLinksLand(V, out)
  /\ ImportedConceptsGrounded(out, raw, vaultRaw)
  /\ NavigationComplete(V, out)
PlanHolds(V, vaultRaw) ==
  ImportHolds(V, ImportPlanned(V, vaultRaw), ImportedRaw(V, vaultRaw), vaultRaw)
\* The five of them, of the vault x.vault with the files x.raw in its raw/.
ImportIsFaithful(x) == PlanHolds(Planned(ScanNotes(x.vault)), x.raw)
=============================================================================
