--------------------------- MODULE MCAlgorithms ---------------------------
(* The inputs of Algorithms for TLC. *)
EXTENDS Algorithms, Naturals, Sequences, FiniteSets, SequencesExt, Functions

\* Every subsequence of s.
Subsequences(s) ==
  {SelectSeq([i \in DOMAIN s |-> <<i, s[i]>>], LAMBDA p : p[1] \in I) : I \in SUBSET DOMAIN s}
Picked(s) == {[i \in DOMAIN p |-> p[i][2]] : p \in Subsequences(s)}

-----------------------------------------------------------------------------
(* Brain: two candidates, the wishes of a model, what the wiki shows.      *)
MCSlugOf == [t \in {"Alpha", "alpha", "ops", "???", "d1", "Foo.md", "_-_x"} |->
               CASE t \in {"Alpha", "alpha"} -> "alpha" [] t = "???" -> ""
                 [] t = "Foo.md" -> "foo.md" [] t = "_-_x" -> "_x" [] OTHER -> t]
MCDotted == {"foo.md"}
MCUnsafe == {"_x", "two words"}
MCBrainTags == {"t"}
MCBrainDomains == <<"ops", "two words">>
MCDate == "d1"
Wish(op, domain, seeds, target, aliases, links) ==
  [op |-> op, domain |-> domain, seeds |-> seeds, target |-> target, status |-> "final",
   links |-> links, tags |-> {"t", "u"}, aliases |-> aliases]
Alpha == <<"alpha", 1>>
Beta == <<"beta", 1>>
MCWishes ==
  {Wish(op, domain, seeds, Alpha, aliases, {Alpha, Beta}) :
     op \in {"CREATE_THEME", "APPEND_DAILY"}, domain \in {"ops", "unknown"},
     seeds \in {<<>>, <<"???", "Alpha">>, <<"ops">>, <<"Foo.md">>},
     aliases \in {{}, {"Alpha", "d1"}, {"ops"}}}
  \cup {Wish(op, "two words", <<"_-_x">>, Alpha, {}, {}) : op \in {"CREATE_THEME", "APPEND_DAILY"}}
  \cup {Wish(op, "ops", <<>>, target, {"alpha"}, {Alpha, Beta}) :
          op \in {"MERGE_INTO_THEME", "MARK_CONTESTED", "DROP", "GUESS"},
          target \in {Alpha, Beta, <<"ghost", 1>>}}
Candidate(id, text, gated) ==
  [id |-> id, events |-> {id}, text |-> text, hash |-> id, domain |-> "unknown", gated |-> gated]
ConceptAlpha == <<<<"concepts">>, Alpha>>
ConceptBeta == <<<<"concepts">>, Beta>>
ThemeBeta == <<<<"concepts", "themes">>, Beta>>
\* The first candidate's answers; the second's are all of MCWishes.
MCFirstWishes ==
  {w \in MCWishes : w.domain = "ops" /\ w.op \in {"CREATE_THEME", "APPEND_DAILY", "MERGE_INTO_THEME"}
                     /\ w.seeds # <<"ops">> /\ w.aliases # {"ops"} /\ w.target # <<"ghost", 1>>}
MCPlans ==
  {[cands |-> <<Candidate("c1", "Alpha", FALSE), Candidate("c2", c[1], c[2])>>,
    wishes |-> ws, hits |-> v[1], registry |-> v[2]] :
     c \in {<<"alpha", FALSE>>, <<"???", FALSE>>, <<"alpha", TRUE>>},
     ws \in {[id \in {"c1"} |-> w] : w \in MCFirstWishes}
              \cup {[id \in {"c1", "c2"} |-> IF id = "c1" THEN w[1] ELSE w[2]] :
                      w \in MCFirstWishes \X MCWishes},
     v \in {<<{}, {}>>, <<{}, {ConceptAlpha}>>, <<{ConceptBeta}, {ConceptAlpha, ConceptBeta}>>,
            <<{ConceptAlpha, ThemeBeta}, {ConceptAlpha, ThemeBeta}>>}}

Answers == {{"refused"}, {"prose", "brackets"}, {"prose", "comment", "split_comment"}}
MCAuthorings ==
  {[note |-> note, sids |-> sids, exit |-> exit, answers |-> answers] :
     note \in {<<[id |-> "r1", text |-> {"old"}], [id |-> "r2", text |-> {}],
                 [id |-> "r1", text |-> {"again"}]>>,
               <<[id |-> "r2", text |-> {"old"}]>>},
     sids \in {<<"r1">>, <<"r1", "r2">>, <<"r2", "r1">>, <<"r3", "r2">>},
     exit \in [{"r1", "r2", "r3"} -> {"ok", "fails", "hangs"}],
     answers \in [{"r1", "r2", "r3"} -> Answers]}
-----------------------------------------------------------------------------
(* Backends. *)
BackendSpecs ==
  [name \in {"local", "remote"} |->
     [network |-> IF name = "local" THEN "none" ELSE "egress", roots |-> {"share"},
      program |-> "ollama"]]
MCRoutings ==
  {[adapters |-> [specs |-> BackendSpecs, default |-> default, routing |-> routing],
    host |-> [os |-> os, usable |-> usable, found |-> {"ollama"}, exists |-> {}],
    reduced |-> reduced, default |-> asked, override |-> override] :
     default \in {"local", "remote"},
     routing \in UNION {[acts -> {"local", "remote"}] : acts \in SUBSET {"plan", "author"}},
     os \in {"darwin", "linux", "windows"}, usable \in {{}, {"bwrap"}},
     reduced \in BOOLEAN, asked \in {"unset", "local"},
     override \in {"unset", "remote", "typo"}}
-----------------------------------------------------------------------------
(* VaultImport. *)
MCImportSlug == [s \in {"Alpha", "alpha", "Beta", "note", "ops", "ops-moc", "index", "???"} |->
                   CASE s \in {"Alpha", "alpha"} -> "alpha" [] s = "Beta" -> "beta"
                     [] s = "???" -> "" [] OTHER -> s]
MCImportMocStem == [d \in {"ops", "misc", "themes", "Alpha", "note", "???"} |->
                      CASE d = "ops" -> "ops-moc" [] d \in {"note", "???"} -> "moc"
                        [] OTHER -> "none-moc"]
MCImportDomains == <<"ops">>
MCImportTags == {"t"}
Vault(dirs, stem, body, wiki, md, related, sources, status) ==
  [dirs |-> dirs, stem |-> stem, body |-> body, wiki |-> wiki, md |-> md,
   related |-> related, sources |-> sources, tags |-> {"t", "u"}, status |-> status]
RawA == <<"raw", "ops", <<"a">>>>
VaultPool == <<
  Vault(<<>>, "Alpha", "X", {"beta"}, {<<<<"ops">>, "index">>}, {"ops-moc"}, <<>>, "draft"),
  Vault(<<>>, "alpha", "Y", {}, {<<<<>>, "Alpha">>}, {"ghost"}, <<<<"url", "u">>>>, "stub"),
  Vault(<<>>, "index", "I", {"alpha"}, {<<<<"ops">>, "ops">>}, {}, <<>>, ""),
  Vault(<<"_meta">>, "Beta", "M", {}, {}, {}, <<>>, ""),
  Vault(<<"ops">>, "alpha", "Y", {"ops-moc"}, {<<<<>>, "alpha">>}, {}, <<RawA>>, "active"),
  Vault(<<"ops">>, "index", "O", {}, {<<<<>>, "index">>}, {}, <<>>, ""),
  Vault(<<"ops">>, "ops", "Z", {}, {}, {}, <<>>, "active"),
  Vault(<<"wiki", "ops">>, "ops-moc", "K", {"alpha"}, {<<<<"wiki", "ops", "themes">>, "Beta">>}, {},
        <<>>, ""),
  Vault(<<"wiki", "ops", "themes">>, "Beta", "", {}, {}, {}, <<>>, "contested"),
  Vault(<<"x">>, "???", "Q", {}, {<<<<"wiki", "ops">>, "ops-moc">>}, {}, <<>>, "")>>
\* Copies, and names that are told apart the way others are.
CopyPool == <<
  Vault(<<>>, "note", "A", {"note"}, {<<<<"k">>, "note">>}, {}, <<>>, ""),
  Vault(<<"k">>, "note", "B", {"moc"}, {<<<<"l">>, "note">>}, {}, <<>>, ""),
  Vault(<<"l">>, "note", "B", {}, {<<<<"wiki", "???">>, "moc">>}, {}, <<>>, ""),
  Vault(<<"wiki", "???">>, "moc", "B", {"note"}, {<<<<"k">>, "note">>}, {}, <<>>, ""),
  Vault(<<"wiki", "note">>, "moc", "B", {}, {<<<<>>, "note">>}, {}, <<>>, "")>>
MCVaults ==
  {[vault |-> v, raw |-> raw] : v \in Picked(VaultPool), raw \in {{}, {RawA}}}
    \cup {[vault |-> v, raw |-> {}] : v \in Picked(CopyPool)}
-----------------------------------------------------------------------------
(* KbConvert. *)
MCKbDomains == <<"b", "a">>
MCKbMapStem == [d \in {"a", "b", "z"} |-> CASE d = "a" -> "a-moc" [] d = "b" -> "b-moc" [] OTHER -> "z-moc"]
MCKbDateOfStem == [s \in {"index", "a-moc", "b-moc", "a", "x", "y", "a-d1", "b-d1", "b-d2"} |->
                     CASE s \in {"a-d1", "b-d1"} -> "d1" [] s = "b-d2" -> "d2" [] OTHER -> ""]
KbNote(dirs, stem, type, date, body, md, wiki, children) ==
  [dirs |-> dirs, stem |-> stem, type |-> type, date |-> date, body |-> body, md |-> md,
   wiki |-> wiki, children |-> children, sources |-> {body}, tags |-> {body}]
KbPool == <<
  KbNote(<<>>, "index", "index", "", "I", {<<<<"wiki", "a">>, "a-moc">>}, {"b-moc"}, {"a-moc", "b-moc"}),
  KbNote(<<"wiki", "a">>, "a-moc", "moc", "", "A", {}, {"x"}, {"x", "y"}),
  KbNote(<<"wiki", "a", "daily">>, "a-d1", "daily", "", "D1", {<<<<"wiki", "b", "daily">>, "b-d1">>},
         {"a-moc"}, {}),
  KbNote(<<"wiki", "a", "themes">>, "a", "theme", "", "T", {}, {}, {}),
  KbNote(<<"wiki", "a", "themes">>, "x", "", "", "X", {<<<<"wiki", "a">>, "a-moc">>}, {"y", "a-d1"}, {}),
  KbNote(<<"wiki", "b">>, "b-moc", "", "", "B", {}, {"index"}, {"y"}),
  KbNote(<<"wiki", "b", "daily">>, "b-d1", "daily", "d1", "E1", {}, {}, {}),
  KbNote(<<"wiki", "b", "daily">>, "b-d2", "", "", "E2", {}, {"b-d1"}, {}),
  KbNote(<<"wiki", "b", "daily">>, "y", "daily", "", "U", {}, {}, {}),
  KbNote(<<"wiki", "b", "themes">>, "y", "theme", "", "Y", {<<<<"wiki", "b">>, "b-moc">>}, {}, {}),
  KbNote(<<"wiki", "z", "themes">>, "x", "theme", "", "Z", {}, {"x"}, {})>>
MCKbs ==
  {[kb |-> kb, schema |-> 1, nested |-> FALSE, destEmpty |-> empty, raw |-> {RawA}] :
     kb \in Picked(KbPool), empty \in BOOLEAN}
-----------------------------------------------------------------------------
(* Gold and Reader. *)
GoldNote(name, kind, body, arrays, status, confidence, origin, sources, age, bytes) ==
  [name |-> name, kind |-> kind, body |-> body, arrays |-> arrays, status |-> status,
   confidence |-> confidence, derived |-> FALSE, origin |-> origin, sources |-> sources,
   age |-> age, bytes |-> bytes]
GoldPool == <<
  GoldNote("index", "index", {"m"}, {}, "active", "high", "", <<>>, 99, 8),
  GoldNote("a", "concept", {"b"}, {}, "active", "high", "", <<"captured", "harvest">>, 1, 8),
  GoldNote("b", "concept", {}, {"c"}, "active", "medium", "", <<"captured">>, 0, 16),
  GoldNote("c", "concept", {}, {}, "active", "medium", "", <<"captured">>, 0, 4),
  GoldNote("h", "concept", {"c"}, {"c"}, "active", "high", "", <<"harvest">>, 0, 4),
  GoldNote("m", "map", {"a", "h"}, {}, "active", "high", "", <<>>, 0, 8),
  GoldNote("p", "person", {"c"}, {"b"}, "active", "high", "", <<"captured">>, 0, 4),
  GoldNote("s", "summary", {"a"}, {}, "active", "high", "", <<"captured", "captured">>, 2, 9)>>
MCPackings ==
  {[notes |-> notes, budget |-> budget, frame |-> frame] :
     notes \in Picked(GoldPool), budget \in {4, 6, 8, 11}, frame \in {15, 16}}

Line(mark, tokens, links) == [mark |-> mark, tokens |-> tokens, links |-> links]
To(name, label) == [to |-> name, label |-> label]
File(dirs, name, tags, aliases, subjects, status, related, lines) ==
  [dirs |-> dirs, name |-> name, title |-> {}, tags |-> tags, aliases |-> aliases, summary |-> {},
   subjects |-> subjects, status |-> status, related |-> related, lines |-> lines]
FilePool == <<
  File(<<>>, "index", {}, {}, {}, "active", {}, <<Line("text", {}, {To("b", {}), To("m", {})})>>),
  File(<<"wiki", "concepts">>, "a", {}, {"q"}, {}, "active", {"b"}, <<Line("h1", {"a"}, {})>>),
  File(<<"wiki", "concepts">>, "b", {"q"}, {}, {}, "deprecated", {}, <<Line("text", {"q", "r"}, {To("c", {})})>>),
  File(<<"wiki", "concepts">>, "c", {}, {}, {}, "draft", {},
       <<Line("fence", {}, {}), Line("text", {"q"}, {To("d", {})}), Line("fence", {}, {}),
         Line("h2", {"r"}, {})>>),
  File(<<"wiki", "concepts">>, "d", {}, {}, {}, "active", {"a"}, <<Line("text", {"q"}, {})>>),
  File(<<"wiki", "concepts">>, "husk", {}, {}, {}, "draft", {"c"}, <<>>),
  File(<<"wiki", "maps">>, "m", {}, {}, {"s"}, "active", {}, <<Line("text", {}, {To("a", {"q"}), To("husk", {"r"})})>>),
  File(<<"wiki", "maps">>, "n", {}, {}, {}, "active", {}, <<Line("text", {"r"}, {To("c", {"r"})})>>),
  File(<<"wiki", "people">>, "d", {}, {}, {}, "active", {"c"}, <<Line("h1", {"q"}, {To("b", {})})>>)>>
MCQueries ==
  {[files |-> files, q |-> q, limit |-> limit] :
     files \in Picked(FilePool), q \in {{}, {"q"}, {"r"}, {"q", "s"}}, limit \in {3}}
\* Around every file of a tree, to every depth; the whole to two caps.
MCDrawings ==
  {[files |-> files, center |-> center, depth |-> depth, cap |-> cap, subject |-> subject] :
     files \in {f \in Picked(FilePool) : Len(f) >= 7}, center \in {1, 3, 6, 9}, depth \in {0, 1, 2, 4},
     cap \in {2}, subject \in {""}}
  \cup
  {[files |-> files, center |-> 1, depth |-> 1, cap |-> cap, subject |-> "s"] :
     files \in Picked(FilePool), cap \in {0, 9}}
-----------------------------------------------------------------------------
(* RepoInit and Uploads. *)
MCAttributes == {<<>>, <<"text">>, <<"text", "blob">>, <<"blob", "text">>}
\* Trees nobody has initialized, some with the files of a copied repo ...
MCBare ==
  {Founds!EmptyTree(attrs) : attrs \in MCAttributes}
  \cup {[Founds!EmptyTree(<<>>) EXCEPT !.map = map, !.notes = map, !.tax = tax, !.mirror = mirror,
                                       !.doc = map, !.brain = TRUE] :
          map \in {0, 1}, tax \in {0, 1, 2, Founds!Broken}, mirror \in {0, 1, 2}}
\* ... and repos whose taxonomy or mirror was edited or deleted after the commit.
MCCommitted ==
  {[t EXCEPT !.commits = 2, !.tracked = Founds!Tracked(t)] :
     t \in {[Founds!EmptyTree(<<"blob">>) EXCEPT
                !.map = v[1], !.doc = v[1], !.notes = v[2], !.kb = v[3], !.mapKb = v[3],
                !.kinds = v[3] # 0, !.tax = tax, !.mirror = mirror] :
              v \in {<<1, 1, 0>>, <<1, 0, 0>>, <<2, 0, 9>>, <<2, 2, 9>>},
              tax \in {0, 1, 2, 3, Founds!Broken}, mirror \in {0, 1, 2}}}
MCRuns == [schema : {0, 1, 2}, cut : 0 .. 9 \cup {Founds!Whole}]
MCWholeRuns == [schema : {0, 1, 2}, cut : {Founds!Whole}]
MCInits ==
  {[tree |-> tree, runs |-> runs] :
     tree \in MCBare \cup MCCommitted,
     runs \in {<<a>> : a \in MCRuns} \cup {<<a, b>> : a \in MCRuns, b \in MCWholeRuns}}
  \cup
  {[tree |-> Founds!EmptyTree(<<"text">>), runs |-> <<a, b, c>>] :
     a \in MCRuns, b \in MCRuns, c \in MCWholeRuns}
  \cup
  {[tree |-> [Founds!EmptyTree(<<>>) EXCEPT !.tax = Founds!Broken], runs |-> <<a, b, c>>] :
     a \in MCWholeRuns, b \in MCRuns, c \in MCWholeRuns}

UploadedFiles ==
  [size : {1, 3}, ext : {".md", ".exe"}, text : BOOLEAN, staged : {"ok", "refused", "fault"}]
MCBatches ==
  {[files |-> files, tagsOk |-> tagsOk,
    policy |-> [max_files |-> max, total_bytes |-> total, max_bytes |-> 2, allowed |-> {".md"}]] :
     files \in {<<>>} \cup {<<a>> : a \in UploadedFiles} \cup (UploadedFiles \X UploadedFiles),
     tagsOk \in BOOLEAN, max \in {1, 2}, total \in {3, 6}}
=============================================================================
