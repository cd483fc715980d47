------------------------------ MODULE Harvest ------------------------------
(***************************************************************************)
(* The harvester: connectors scan an agent's memory into gated candidates  *)
(* of the inbox, a cursor remembers the digest of the last scan, and the   *)
(* curator's finalization adds its verdicts to the same cursor.  Scans by  *)
(* hand and by a timer run beside each other and beside the curator, the   *)
(* sources change at any time, and harvests and runs may crash.            *)
(*                                                                         *)
(* A source is one text, a file or an assistant's turn: a sequence of      *)
(* facts, links to a sibling file, the opening and closing markers of a    *)
(* gold pack and its lines ("echo").  A fact is identified with its key,   *)
(* and a digest with what it is taken of.                                  *)
(***************************************************************************)
EXTENDS Naturals, Sequences, FiniteSets, Functions

CONSTANTS
  Connectors,    \* the connectors of adapters.yaml
  AgentOf,       \* connector -> the agent in its name; several may share one
  Charged,       \* agent -> the connector its verdicts count for, its last one
  ConnectorKind, \* "file", "follow" (a file with follow_links) or "session"
  Harvesters,    \* processes that harvest
  Texts,         \* what a fact may say, beside the lines of the gold pack
  Entries,       \* connector -> the texts its source may hold; <<>> is no source
  Siblings,      \* what the linked sibling may hold
  MaxFacts,      \* cap on the facts of one scan
  MaxEdits,      \* bound on the changes of the sources
  MaxCrashes     \* bound on the crashes and the failed runs

Markers == {"open", "close"}
Keys == Texts \cup {"link", "echo"}
Tokens == Keys \cup Markers
Agents == Range(AgentOf)
\* What the inbox tells candidates apart by: writer:event_key, the writer being
\* the agent's.
Candidates == Agents \X Keys
\* An empty sibling, or a whole pack, leaves no body; "echo" is a torn pack.
Bodiless == {"empty", "missing", "pack"}

ASSUME SourceAssumption ==
  /\ MaxFacts \in Nat
  /\ AgentOf \in [Connectors -> Range(AgentOf)]
  /\ Charged \in [Range(AgentOf) -> Connectors]
  /\ ConnectorKind \in [Connectors -> {"file", "follow", "session"}]
  /\ Texts \cap ({"link", "echo"} \cup Markers \cup Bodiless) = {}
  /\ \A c \in Connectors : Entries[c] \subseteq Seq(Tokens)
  /\ Siblings \subseteq Texts \cup {"echo"} \cup Bodiless

VARIABLES
  source,        \* connector -> [text, sibling]
  cursor,        \* connector -> the digest its saved cursor holds; <<>> is none
  proc,          \* harvester -> its scan in progress
  inbox,         \* candidate -> how many events of it are pending
  run,           \* the run in flight: its stage, the candidates it has claimed
  ledger,        \* state.event_keys: the candidates finalized runs have recorded
  filed,         \* history: candidate -> how many published runs decided on it
  judging,       \* the cursor updates in flight: [todo, of, loaded]
  torn,          \* history: whether a source ever held a line of a torn pack
  edits, crashes

bounds == <<edits, crashes>>
curator == <<run, ledger, filed>>
vars == <<source, cursor, proc, inbox, curator, judging, torn, bounds>>
-----------------------------------------------------------------------------
(* Scanning.  A file is stripped of the sentinel spans before its digest is *)
(* taken, a session after it.                                               *)
\* A span runs from an opening marker to the first closing one; an opening marker
\* that no closing one follows opens nothing.
InSpan(text, i) ==
  \E o \in 1 .. i :
    /\ text[o] = "open"
    /\ \E c \in i .. Len(text) : text[c] = "close" /\ \A j \in o .. c - 1 : text[j] # "close"
\* The text without the first k tokens' spans, for every k.
StrippedTo(text) ==
  LET upto[k \in 0 .. Len(text)] ==
        IF k = 0 THEN <<>>
        ELSE IF InSpan(text, k) THEN upto[k - 1] ELSE Append(upto[k - 1], text[k])
  IN upto
Stripped(text) == StrippedTo(text)[Len(text)]
ReadText(kind, text) == IF kind = "session" THEN text ELSE Stripped(text)
Distilled(kind, read) == IF kind = "session" THEN Stripped(read) ELSE read
\* The fact of a token: a link gives its sibling's body, or else its own line.
FactOf(kind, sibling, token) ==
  IF kind = "follow" /\ token = "link" /\ sibling \notin Bodiless THEN sibling ELSE token
\* The facts of what was read, by position; a lone marker is none.
FactsOf(kind, read, sibling) ==
  LET text == Distilled(kind, read)
      told == {i \in DOMAIN text : text[i] \notin Markers}
  IN [i \in {j \in told : Cardinality({k \in told : k <= j}) <= MaxFacts} |->
        FactOf(kind, sibling, text[i])]
Facts(c) ==
  FactsOf(ConnectorKind[c], ReadText(ConnectorKind[c], source[c].text), source[c].sibling)
\* (mutant) the digest is of the index file, whatever its links hold.
DigestOfIndex(c) == <<ReadText(ConnectorKind[c], source[c].text), "missing">>
\* The bytes of a followed sibling count, those that leave no body too.
Digest(c) ==
  LET read == ReadText(ConnectorKind[c], source[c].text)
      follows == ConnectorKind[c] = "follow" /\ "link" \in Range(read)
  IN <<read, IF follows THEN source[c].sibling ELSE "missing">>
\* A source without a match has no digest.
Matches(c) == source[c].text # <<>>
Unchanged(c, last) ==
  IF Matches(c) THEN last = Digest(c) ELSE last = <<>>
-----------------------------------------------------------------------------
NoScan == [stage |-> "idle", of |-> "", digest |-> <<>>, todo |-> <<>>]
NoRun == [stage |-> "none", events |-> {}]
NoVerdict == [todo |-> {}, of |-> "", loaded |-> <<>>]
\* A line of a pack that has lost its opening or its closing marker.
IsTorn(s) ==
  \/ \E i \in DOMAIN s.text :
       /\ s.text[i] = "echo"
       /\ \/ \A o \in 1 .. i : s.text[o] = "open" =>
               \E j \in o .. i : s.text[j] = "close"
          \/ \A c \in i .. Len(s.text) : s.text[c] # "close"
  \/ s.sibling = "echo"
Init ==
  /\ source \in {s \in [Connectors -> [text : UNION {Entries[c] : c \in Connectors},
                                       sibling : {"missing"}]] :
                   \A c \in Connectors : s[c].text \in Entries[c]}
  /\ cursor = [c \in Connectors |-> <<>>]
  /\ proc = [h \in Harvesters |-> NoScan]
  /\ inbox = [p \in Candidates |-> 0]
  /\ run = NoRun /\ ledger = {} /\ filed = [p \in Candidates |-> 0]
  /\ judging = NoVerdict
  /\ torn = (\E c \in Connectors : IsTorn(source[c]))
  /\ edits = 0 /\ crashes = 0

\* The agent rewrites its memory, and may copy the gold pack into it.
SourceChanges(c) ==
  /\ edits < MaxEdits /\ edits' = edits + 1
  /\ \E text \in Entries[c], sibling \in Siblings :
       /\ sibling # "missing" => ConnectorKind[c] = "follow"
       /\ source' = [source EXCEPT ![c] = [text |-> text, sibling |-> sibling]]
  /\ source' # source
  /\ torn' = (torn \/ IsTorn(source'[c]))
  /\ UNCHANGED <<cursor, proc, inbox, curator, judging, crashes>>

\* (mutant) the cursor is saved before the candidates are written.
ScanSavesFirst(h, c) ==
  /\ proc[h].stage = "idle" /\ ~Unchanged(c, cursor[c])
  /\ proc' = [proc EXCEPT ![h] =
       [stage |-> "writing", of |-> c, todo |-> IF Matches(c) THEN Facts(c) ELSE <<>>,
        digest |-> IF Matches(c) THEN Digest(c) ELSE cursor[c]]]
  /\ cursor' = [cursor EXCEPT ![c] = proc'[h].digest]
  /\ UNCHANGED <<source, inbox, curator, judging, torn, bounds>>
\* One connector of a harvest: the cursor is loaded, the source read at once.
Scan(h, c) ==
  /\ proc[h].stage = "idle" /\ ~Unchanged(c, cursor[c])
  /\ proc' = [proc EXCEPT ![h] =
       [stage |-> "writing", of |-> c, todo |-> IF Matches(c) THEN Facts(c) ELSE <<>>,
        digest |-> IF Matches(c) THEN Digest(c) ELSE cursor[c]]]
  /\ UNCHANGED <<source, cursor, inbox, curator, judging, torn, bounds>>

\* The facts of a scan are written in the order of the source.
First(i, todo) == i \in DOMAIN todo /\ \A j \in DOMAIN todo : i <= j
Without(todo, i) == Restrict(todo, DOMAIN todo \ {i})
Candidate(h, i) == <<AgentOf[proc[h].of], proc[h].todo[i]>>
\* Inbox.write looks for a pending event of the key ...
LookUp(h) ==
  /\ proc[h].stage = "writing"
  /\ \E i \in DOMAIN proc[h].todo :
       /\ First(i, proc[h].todo)
       /\ proc' = IF inbox[Candidate(h, i)] > 0
                  THEN [proc EXCEPT ![h].todo = Without(@, i)]
                  ELSE [proc EXCEPT ![h].stage = "appending"]
  /\ UNCHANGED <<source, cursor, inbox, curator, judging, torn, bounds>>
\* ... and, having found none, appends one, whoever else has done so by now.
WriteOne(h) ==
  /\ proc[h].stage = "appending"
  /\ \E i \in DOMAIN proc[h].todo :
       /\ First(i, proc[h].todo)
       /\ inbox' = [inbox EXCEPT ![Candidate(h, i)] = @ + 1]
       /\ proc' = [proc EXCEPT ![h].stage = "writing", ![h].todo = Without(@, i)]
  /\ UNCHANGED <<source, cursor, curator, judging, torn, bounds>>
\* The cursor that was loaded is saved with the scan's digest, whatever the file
\* holds by now; its counts are telemetry and left out.
Save(h) ==
  /\ proc[h].stage = "writing" /\ DOMAIN proc[h].todo = {}
  /\ cursor' = [cursor EXCEPT ![proc[h].of] = proc[h].digest]
  /\ proc' = [proc EXCEPT ![h] = NoScan]
  /\ UNCHANGED <<source, inbox, curator, judging, torn, bounds>>
Crash(h) ==
  /\ crashes < MaxCrashes /\ proc[h].stage # "idle"
  /\ crashes' = crashes + 1
  /\ proc' = [proc EXCEPT ![h] = NoScan]
  /\ UNCHANGED <<source, cursor, inbox, curator, judging, torn, edits>>
-----------------------------------------------------------------------------
(* The curator, one run after the other; CuratorRun has the run itself.     *)
\* (mutant) the claim does not ask what finalized runs have recorded.
ClaimAnew ==
  /\ run = NoRun
  /\ LET selected == {p \in Candidates : inbox[p] > 0}
     IN /\ selected # {}
        /\ run' = [stage |-> "claimed", events |-> selected]
        /\ inbox' = [p \in Candidates |-> inbox[p] - (IF p \in selected THEN 1 ELSE 0)]
  /\ UNCHANGED <<source, cursor, proc, ledger, filed, judging, torn, bounds>>
\* Of each candidate that is not recorded the earliest event is claimed; the other
\* events stay in the inbox.
Claim ==
  /\ run = NoRun
  /\ LET selected == {p \in Candidates \ ledger : inbox[p] > 0}
     IN /\ selected # {}
        /\ run' = [stage |-> "claimed", events |-> selected]
        /\ inbox' = [p \in Candidates |-> inbox[p] - (IF p \in selected THEN 1 ELSE 0)]
  /\ UNCHANGED <<source, cursor, proc, ledger, filed, judging, torn, bounds>>
\* The run fails, or dies before its commit is published: its events return.
GiveBack ==
  /\ crashes < MaxCrashes /\ run.stage = "claimed"
  /\ crashes' = crashes + 1
  /\ inbox' = [p \in Candidates |-> inbox[p] + (IF p \in run.events THEN 1 ELSE 0)]
  /\ run' = NoRun
  /\ UNCHANGED <<source, cursor, proc, ledger, filed, judging, torn, edits>>
\* The commit is on the branch; the run has verdicts for its agents' connectors.
Publish ==
  /\ run.stage = "claimed" /\ run' = [run EXCEPT !.stage = "published"]
  /\ filed' = [p \in Candidates |-> filed[p] + (IF p \in run.events THEN 1 ELSE 0)]
  /\ judging' = [NoVerdict EXCEPT !.todo = {Charged[p[1]] : p \in run.events}]
  /\ UNCHANGED <<source, cursor, proc, inbox, ledger, torn, bounds>>
\* Finalization adds the verdicts, one connector after the other: load, save.
JudgeLoad(c) ==
  /\ c \in judging.todo /\ judging.loaded = <<>>
  /\ judging' = [todo |-> judging.todo \ {c}, of |-> c, loaded |-> <<cursor[c]>>]
  /\ UNCHANGED <<source, cursor, proc, inbox, curator, torn, bounds>>
JudgeSave ==
  /\ judging.loaded # <<>>
  /\ cursor' = [cursor EXCEPT ![judging.of] = judging.loaded[1]]
  /\ judging' = [judging EXCEPT !.of = "", !.loaded = <<>>]
  /\ UNCHANGED <<source, proc, inbox, curator, torn, bounds>>
\* Then it records the keys, which a recovery does too.
Settle ==
  /\ run.stage = "published" /\ judging = NoVerdict
  /\ ledger' = ledger \cup run.events /\ run' = NoRun
  /\ UNCHANGED <<source, cursor, proc, inbox, filed, judging, torn, bounds>>
\* The curator dies with a published run: a recovery adds no verdicts.
CuratorDies ==
  /\ crashes < MaxCrashes /\ judging # NoVerdict
  /\ crashes' = crashes + 1
  /\ judging' = NoVerdict
  /\ UNCHANGED <<source, cursor, proc, inbox, curator, torn, edits>>

HarvestStep(h) == (\E c \in Connectors : Scan(h, c)) \/ LookUp(h) \/ WriteOne(h) \/ Save(h)
CuratorStep ==
  Claim \/ Publish \/ (\E c \in Connectors : JudgeLoad(c)) \/ JudgeSave \/ Settle
Next ==
  \/ \E c \in Connectors : SourceChanges(c)
  \/ \E h \in Harvesters : HarvestStep(h) \/ Crash(h)
  \/ CuratorStep \/ GiveBack \/ CuratorDies
Spec == Init /\ [][Next]_vars
\* A timer harvests every source again and again, and the curator runs.
Fairness ==
  /\ \A h \in Harvesters : WF_vars(LookUp(h) \/ WriteOne(h) \/ Save(h))
  /\ \A c \in Connectors : SF_vars(\E h \in Harvesters : Scan(h, c))
  /\ WF_vars(CuratorStep)
FairSpec == Spec /\ Fairness
-----------------------------------------------------------------------------
(* Properties.                                                             *)
TypeOK ==
  /\ \A h \in Harvesters : proc[h].stage \in {"idle", "writing", "appending"}
  /\ inbox \in [Candidates -> Nat] /\ filed \in [Candidates -> Nat]
  /\ ledger \subseteq Candidates /\ run.events \subseteq Candidates
  /\ run.stage \in {"none", "claimed", "published"}
  /\ judging.todo \subseteq Connectors

Written(p) == p \in ledger \/ inbox[p] > 0 \/ p \in run.events

\* A source the next scan would skip as unchanged has all its facts in the inbox,
\* in a run or settled, whatever crashed, whoever else saved the cursor.
SkippedIsWritten ==
  \A c \in Connectors : Matches(c) /\ cursor[c] = Digest(c) =>
    \A key \in Range(Facts(c)) : Written(<<AgentOf[c], key>>)

\* No two published runs decide on a fact of the same agent, although its connectors
\* overlap, two harvests append it at once or while a run holds it, runs are given
\* back, and a run dies between its commit and the record of its keys.
FiledOnce == \A p \in Candidates : filed[p] <= 1

\* What the gold pack says comes back as a candidate only from a pack that was torn.
NoEcho == ~torn => \A agent \in Agents : ~Written(<<agent, "echo">>)

\* What the wiki has been told, by a scan or by its own gold pack, is not filed
\* again.
NothingFiledTwice == TypeOK /\ FiledOnce /\ NoEcho

\* A source that rests is harvested: its facts are settled in the end.
RestingIsSettled ==
  \A c \in Connectors :
    <>[](\A key \in Range(Facts(c)) : <<AgentOf[c], key>> \in ledger)
=============================================================================
