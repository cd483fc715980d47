--------------------------- MODULE HarvestProofs ---------------------------
(***************************************************************************)
(* The harvester for every set of connectors, agents, harvesting processes *)
(* and texts, any number of edits and crashes: what a scan may skip, what  *)
(* the curator files of what was scanned, and what of a gold pack it may   *)
(* be given back.                                                          *)
(***************************************************************************)
EXTENDS Harvest, WellFoundedInduction, TLAPS

SiblingTexts == Texts \cup {"echo"} \cup Bodiless
Digests == {<<>>} \cup (Seq(Tokens) \X SiblingTexts)
Todos == UNION {[D -> Keys] : D \in SUBSET Nat}
(* What a digest stands for: the facts a scan that computed it has found.   *)
FactsIn(c, digest) ==
    {<<AgentOf[c], key>> : key \in Range(FactsOf(ConnectorKind[c], digest[1], digest[2]))}
WrittenOnes == {p \in Candidates : Written(p)}
\* The facts a digest stands for are in the inbox, in a run or settled.
Settled(c, digest) == digest # <<>> => FactsIn(c, digest) \subseteq WrittenOnes
Left(scan) == {<<AgentOf[scan.of], scan.todo[i]>> : i \in DOMAIN scan.todo}

SourceOK == source \in [Connectors -> [text : Seq(Tokens), sibling : SiblingTexts]]
QueueOK ==
    /\ inbox \in [Candidates -> Nat]
    /\ run \in [stage : {"none", "claimed", "published"}, events : SUBSET Candidates]
    /\ run.stage = "none" => run.events = {}
\* A candidate is filed when it is recorded, or its run is on its way to record it;
\* and a run holds none that is recorded.
LedgerOK ==
    /\ ledger \subseteq Candidates /\ filed \in [Candidates -> Nat]
    /\ run.events \cap ledger = {}
    /\ \A p \in Candidates :
         filed[p] = IF p \in ledger \/ (run.stage = "published" /\ p \in run.events)
                    THEN 1 ELSE 0
ScanType == [stage : {"idle", "writing", "appending"}, of : Connectors \cup {""},
             digest : Digests, todo : Todos]
ProcOK ==
    /\ proc \in [Harvesters -> ScanType]
    /\ \A h \in Harvesters : proc[h].stage # "idle" => proc[h].of \in Connectors
JudgingType ==
    /\ judging \in [todo : SUBSET Connectors, of : Connectors \cup {""},
                    loaded : {<<>>} \cup {<<d>> : d \in Digests}]
    /\ judging.loaded # <<>> => judging.of \in Connectors

\* Every digest a cursor holds, now or after a save in flight, is settled.
CursorOK ==
    /\ cursor \in [Connectors -> Digests]
    /\ \A c \in Connectors : Settled(c, cursor[c])
JudgingOK == judging.loaded # <<>> => Settled(judging.of, judging.loaded[1])
\* A scan has written the facts of its digest but for those it has still to write.
Accounted(scan) ==
    scan.stage # "idle" /\ scan.digest # <<>> =>
        FactsIn(scan.of, scan.digest) \subseteq WrittenOnes \cup Left(scan)
ScanOK == \A h \in Harvesters : Accounted(proc[h])
\* While no pack was torn, no source, scan, event or record has a line of one.
WholeOK ==
    ~torn => /\ \A c \in Connectors : ~IsTorn(source[c])
             /\ \A h \in Harvesters : "echo" \notin Range(proc[h].todo)
             /\ \A agent \in Agents : <<agent, "echo">> \notin WrittenOnes
IInv ==
    /\ SourceOK /\ QueueOK /\ LedgerOK /\ ProcOK /\ JudgingType
    /\ CursorOK /\ JudgingOK /\ ScanOK /\ WholeOK

USE SourceAssumption DEF bounds, curator

LEMMA NatMin ==
    ASSUME NEW T \in SUBSET Nat, T # {}
    PROVE  \E x \in T : \A y \in T : x <= y
  <1>1. PICK x \in T : \A y \in T : ~(<<y, x>> \in OpToRel(<, Nat))
    BY NatLessThanWellFounded, WFMin
  <1>2. ASSUME NEW y \in T PROVE x <= y
    <2>1. ~(y < x)
      BY <1>1 DEF OpToRel
    <2> QED
      BY <2>1
  <1> QED
    BY <1>2

LEMMA Induct ==
    ASSUME NEW S, 0 \in S, \A n \in Nat : n \in S => n + 1 \in S
    PROVE  \A n \in Nat : n \in S
  <1>1. SUFFICES ASSUME Nat \ S # {} PROVE FALSE
    OBVIOUS
  <1>2. PICK b \in Nat \ S : \A y \in Nat \ S : b <= y
    <2>1. Nat \ S \in SUBSET Nat
      OBVIOUS
    <2> QED
      BY <1>1, <2>1, NatMin
  <1>3. b # 0 /\ b - 1 \in Nat
    BY <1>2
  <1>4. b - 1 \in S
    BY <1>2, <1>3
  <1> QED
    BY <1>2, <1>3, <1>4
-----------------------------------------------------------------------------
(* Stripping: what is left of a text are tokens of it outside every span.   *)
Outside(text, out) ==
    /\ out \in Seq(Tokens)
    /\ \A i \in DOMAIN out : \E j \in 1 .. Len(text) : out[i] = text[j] /\ ~InSpan(text, j)

LEMMA StrippedFollows ==
    ASSUME NEW text, NEW n \in Nat, Len(text) = n
    PROVE  /\ StrippedTo(text)[0] = <<>>
           /\ \A k \in 1 .. n :
                StrippedTo(text)[k] = IF InSpan(text, k) THEN StrippedTo(text)[k - 1]
                                      ELSE Append(StrippedTo(text)[k - 1], text[k])
  <1> DEFINE Then(out, k) == IF InSpan(text, k) THEN out ELSE Append(out, text[k])
             Loop(f, m) == [k \in 0 .. m |-> IF k = 0 THEN <<>> ELSE Then(f[k - 1], k)]
             S == {m \in Nat : \E f : f = Loop(f, m)}
  <1>1. 0 \in S
    <2>1. [k \in 0 .. 0 |-> <<>>] = Loop([k \in 0 .. 0 |-> <<>>], 0)
      OBVIOUS
    <2> QED
      BY <2>1
  <1>2. ASSUME NEW m \in Nat, m \in S PROVE m + 1 \in S
    <2>1. PICK f : f = Loop(f, m)
      BY <1>2
    <2> DEFINE g == [k \in 0 .. m + 1 |-> IF k <= m THEN f[k] ELSE Then(f[m], k)]
    <2> HIDE DEF Then
    <2>2. ASSUME NEW k \in 0 .. m + 1
          PROVE  g[k] = IF k = 0 THEN <<>> ELSE Then(g[k - 1], k)
      <3>1. CASE k = 0
        BY <2>1, <3>1
      <3>2. CASE k \in 1 .. m
        BY <2>1, <3>2
      <3>3. CASE k = m + 1
        BY <3>3
      <3> QED
        BY <3>1, <3>2, <3>3
    <2>3. g = Loop(g, m + 1)
      BY <2>2
    <2> HIDE DEF g
    <2> QED
      BY <2>3
  <1>3. \E f : f = Loop(f, n)
    <2> HIDE DEF Loop
    <2>1. n \in S
      <3> HIDE DEF S
      <3> QED
        BY <1>1, <1>2, Induct
    <2> QED
      BY <2>1
  <1> DEFINE out == StrippedTo(text)
  <1>4. out = Loop(out, n)
    BY <1>3 DEF StrippedTo
  <1>5. PICK h : h = out
    OBVIOUS
  <1>6. h = Loop(h, n)
    BY <1>4, <1>5
  <1> HIDE DEF out, Then
  <1>7. h[0] = <<>> /\ \A k \in 1 .. n : h[k] = Then(h[k - 1], k)
    BY <1>6
  <1> QED
    BY <1>5, <1>7 DEF out, Then

LEMMA AppendOutside ==
    ASSUME NEW text \in Seq(Tokens), NEW out, Outside(text, out),
           NEW k \in 1 .. Len(text), ~InSpan(text, k)
    PROVE  Outside(text, Append(out, text[k]))
  <1>1. text[k] \in Tokens /\ out \in Seq(Tokens)
    BY DEF Outside
  <1>2. /\ Append(out, text[k]) \in Seq(Tokens) /\ Len(out) \in Nat
        /\ DOMAIN Append(out, text[k]) = 1 .. Len(out) + 1 /\ DOMAIN out = 1 .. Len(out)
        /\ \A i \in 1 .. Len(out) : Append(out, text[k])[i] = out[i]
        /\ Append(out, text[k])[Len(out) + 1] = text[k]
    <2> HIDE DEF Tokens
    <2> QED
      BY <1>1
  <1>3. ASSUME NEW i \in 1 .. Len(out) + 1
        PROVE  \E j \in 1 .. Len(text) : Append(out, text[k])[i] = text[j] /\ ~InSpan(text, j)
    <2>1. CASE i \in 1 .. Len(out)
      BY <1>2, <2>1 DEF Outside
    <2>2. CASE i = Len(out) + 1
      BY <1>2, <2>2
    <2> QED
      BY <1>2, <2>1, <2>2
  <1> QED
    BY <1>2, <1>3 DEF Outside

LEMMA StrippedIsOutside ==
    ASSUME NEW text \in Seq(Tokens)
    PROVE  Outside(text, Stripped(text))
  <1> DEFINE n == Len(text)
             S == {k \in Nat : k <= n => Outside(text, StrippedTo(text)[k])}
  <1>1. n \in Nat
    OBVIOUS
  <1>2. 0 \in S
    <2>1. Outside(text, <<>>)
      BY DEF Outside
    <2> QED
      BY <1>1, <2>1, StrippedFollows
  <1>3. ASSUME NEW k \in Nat, k \in S PROVE k + 1 \in S
    <2> SUFFICES ASSUME k + 1 <= n PROVE Outside(text, StrippedTo(text)[k + 1])
      OBVIOUS
    <2>1. Outside(text, StrippedTo(text)[k]) /\ k + 1 \in 1 .. n /\ k + 1 - 1 = k
      BY <1>1, <1>3
    <2>2. StrippedTo(text)[k + 1] = IF InSpan(text, k + 1) THEN StrippedTo(text)[k]
                                    ELSE Append(StrippedTo(text)[k], text[k + 1])
      BY <1>1, <2>1, StrippedFollows
    <2> QED
      BY <2>1, <2>2, AppendOutside
  <1> HIDE DEF S
  <1>4. n \in S
    BY <1>1, <1>2, <1>3, Induct
  <1> QED
    BY <1>1, <1>4 DEF S, Stripped

LEMMA StrippedType ==
    ASSUME NEW text \in Seq(Tokens), NEW kind
    PROVE  ReadText(kind, text) \in Seq(Tokens) /\ Distilled(kind, text) \in Seq(Tokens)
  <1>1. Stripped(text) \in Seq(Tokens)
    BY StrippedIsOutside DEF Outside
  <1> QED
    BY <1>1 DEF ReadText, Distilled

\* Every line of a whole pack is in a span.
LEMMA WholeIsSpanned ==
    ASSUME NEW s, s.text \in Seq(Tokens), ~IsTorn(s),
           NEW i \in DOMAIN s.text, s.text[i] = "echo"
    PROVE  InSpan(s.text, i)
  <1> DEFINE t == s.text
             C == {c \in i .. Len(t) : t[c] = "close"}
  <1>1. Len(t) \in Nat /\ i \in Nat /\ i \in 1 .. Len(t)
    OBVIOUS
  <1>2. PICK o \in 1 .. i : t[o] = "open" /\ \A j \in o .. i : t[j] # "close"
    BY DEF IsTorn
  <1>3. C # {} /\ C \in SUBSET Nat
    BY <1>1 DEF IsTorn
  <1>4. PICK c \in C : \A d \in C : c <= d
    <2> HIDE DEF C
    <2> QED
      BY <1>3, NatMin
  <1>5. \A j \in o .. c - 1 : t[j] # "close"
    <2> SUFFICES ASSUME NEW j \in o .. c - 1, t[j] = "close" PROVE FALSE
      OBVIOUS
    <2>1. c \in Nat /\ o \in Nat /\ j \in Nat /\ j < c /\ c <= Len(t)
      BY <1>1, <1>4
    <2>2. j > i
      BY <1>1, <1>2, <2>1
    <2>3. j \in C
      BY <1>1, <2>1, <2>2
    <2> QED
      BY <1>4, <2>1, <2>3
  <1> QED
    BY <1>2, <1>4, <1>5 DEF InSpan

LEMMA FactsType ==
    ASSUME NEW kind, NEW read \in Seq(Tokens), NEW sibling \in SiblingTexts
    PROVE  FactsOf(kind, read, sibling) \in Todos
  <1> DEFINE text == Distilled(kind, read)
             told == {i \in DOMAIN text : text[i] \notin Markers}
             D == {j \in told : Cardinality({k \in told : k <= j}) <= MaxFacts}
  <1>1. text \in Seq(Tokens)
    BY StrippedType
  <1>2. D \subseteq told /\ told \subseteq DOMAIN text
    OBVIOUS
  <1>3. DOMAIN text \subseteq Nat /\ \A i \in DOMAIN text : text[i] \in Tokens
    <2> HIDE DEF text, Tokens
    <2> QED
      BY <1>1
  <1>4. \A i \in told : text[i] \in Keys
    BY <1>2, <1>3 DEF Tokens
  <1>5. \A i \in told : FactOf(kind, sibling, text[i]) \in Keys
    <2> HIDE DEF text, told
    <2> QED
      BY <1>4 DEF FactOf, SiblingTexts, Keys, Bodiless
  <1>6. FactsOf(kind, read, sibling) = [i \in D |-> FactOf(kind, sibling, text[i])]
    BY DEF FactsOf
  <1> HIDE DEF D, told, text
  <1>7. [i \in D |-> FactOf(kind, sibling, text[i])] \in [D -> Keys] /\ D \in SUBSET Nat
    BY <1>2, <1>3, <1>5
  <1> QED
    BY <1>6, <1>7 DEF Todos

\* Only a link makes the sibling count.
LEMMA DigestStandsForFacts ==
    ASSUME SourceOK, NEW c \in Connectors
    PROVE  /\ Facts(c) \in Todos
           /\ FactsIn(c, Digest(c)) = {<<AgentOf[c], key>> : key \in Range(Facts(c))}
           /\ Digest(c) \in Digests /\ Digest(c) # <<>>
  <1> DEFINE kind == ConnectorKind[c]
             s == source[c]
             read == ReadText(kind, s.text)
             follows == kind = "follow" /\ "link" \in Range(read)
             sib == IF follows THEN s.sibling ELSE "missing"
  <1>1. s.text \in Seq(Tokens) /\ s.sibling \in SiblingTexts
    BY DEF SourceOK
  <1>2. read \in Seq(Tokens)
    BY <1>1, StrippedType
  <1>3. Digest(c) = <<read, sib>>
    BY DEF Digest
  <1>4. sib \in SiblingTexts
    BY <1>1 DEF SiblingTexts, Bodiless
  <1>5. FactsOf(kind, read, sib) = FactsOf(kind, read, s.sibling)
    <2>1. CASE sib = s.sibling
      BY <2>1
    <2>2. CASE sib # s.sibling
      <3>1. \A token \in Range(Distilled(kind, read)) :
              FactOf(kind, sib, token) = FactOf(kind, s.sibling, token)
        BY <2>2 DEF FactOf, Distilled
      <3> HIDE DEF sib, read
      <3> QED
        BY <3>1 DEF FactsOf, Range
    <2> QED
      BY <2>1, <2>2
  <1>6. Facts(c) = FactsOf(kind, read, s.sibling) /\ Facts(c) \in Todos
    BY <1>1, <1>2, FactsType DEF Facts
  <1>7. Digest(c) \in Digests /\ Digest(c) # <<>>
    <2> HIDE DEF read, sib, Tokens, SiblingTexts
    <2> QED
      BY <1>2, <1>3, <1>4 DEF Digests
  <1>8. FactsIn(c, Digest(c)) = {<<AgentOf[c], key>> : key \in Range(FactsOf(kind, read, sib))}
    BY <1>3 DEF FactsIn
  <1> QED
    BY <1>5, <1>6, <1>7, <1>8

LEMMA WholeGivesNoEcho ==
    ASSUME SourceOK, NEW c \in Connectors, ~IsTorn(source[c])
    PROVE  "echo" \notin Range(Facts(c))
  <1> DEFINE kind == ConnectorKind[c]
             s == source[c]
             text == Distilled(kind, ReadText(kind, s.text))
  <1>1. s.text \in Seq(Tokens) /\ s.sibling # "echo"
    BY DEF SourceOK, IsTorn
  <1>2. text = Stripped(s.text)
    BY DEF Distilled, ReadText
  <1>3. Outside(s.text, text)
    BY <1>1, <1>2, StrippedIsOutside
  <1>4. \A i \in DOMAIN text : text[i] # "echo"
    <2> SUFFICES ASSUME NEW i \in DOMAIN text, text[i] = "echo" PROVE FALSE
      OBVIOUS
    <2>1. PICK j \in 1 .. Len(s.text) : text[i] = s.text[j] /\ ~InSpan(s.text, j)
      BY <1>3 DEF Outside
    <2>2. j \in DOMAIN s.text /\ s.text[j] = "echo"
      BY <1>1, <2>1
    <2> QED
      BY <1>1, <2>1, <2>2, WholeIsSpanned
  <1>5. \A i \in DOMAIN Facts(c) : i \in DOMAIN text /\ Facts(c)[i] = FactOf(kind, s.sibling, text[i])
    BY DEF Facts, FactsOf
  <1> HIDE DEF text, s
  <1>6. \A i \in DOMAIN Facts(c) : Facts(c)[i] # "echo"
    BY <1>1, <1>4, <1>5 DEF FactOf
  <1> QED
    BY <1>6 DEF Range
-----------------------------------------------------------------------------
(* What is written stays written: in the inbox, in a run, in the record.    *)
LEMMA OwnCandidate ==
    ASSUME NEW c \in Connectors, NEW key \in Keys
    PROVE  <<AgentOf[c], key>> \in Candidates
  BY DEF Candidates, Agents, Range

\* What a scan has still to write when its first fact is taken off.
LEMMA TakenOff ==
    ASSUME NEW todo \in Todos, NEW i \in DOMAIN todo
    PROVE  /\ Without(todo, i) \in Todos /\ todo[i] \in Keys
           /\ DOMAIN Without(todo, i) = DOMAIN todo \ {i}
           /\ \A j \in DOMAIN todo \ {i} : Without(todo, i)[j] = todo[j]
  <1>1. PICK D \in SUBSET Nat : todo \in [D -> Keys]
    BY DEF Todos
  <1>2. Without(todo, i) = [j \in D \ {i} |-> todo[j]]
    BY <1>1 DEF Without, Restrict
  <1>3. Without(todo, i) \in [D \ {i} -> Keys] /\ D \ {i} \in SUBSET Nat
    BY <1>1, <1>2
  <1> QED
    BY <1>1, <1>2, <1>3 DEF Todos

LEMMA CursorKept ==
    ASSUME CursorOK, UNCHANGED cursor, WrittenOnes \subseteq WrittenOnes' PROVE CursorOK'
  BY DEF CursorOK, Settled, FactsIn

LEMMA JudgingKept ==
    ASSUME JudgingType, JudgingOK, UNCHANGED judging, WrittenOnes \subseteq WrittenOnes'
    PROVE  JudgingType' /\ JudgingOK'
  BY DEF JudgingType, JudgingOK, Settled, FactsIn

LEMMA ScansKept ==
    ASSUME ProcOK, ScanOK, UNCHANGED proc, WrittenOnes \subseteq WrittenOnes'
    PROVE  ProcOK' /\ ScanOK'
  <1>1. ProcOK'
    BY DEF ProcOK, ScanType
  <1>2. ScanOK'
    BY DEF ScanOK, Accounted, FactsIn, Left
  <1> QED
    BY <1>1, <1>2

\* A step of one harvester leaves the scans of the others as they are.
LEMMA OneScanMoves ==
    ASSUME ProcOK, ScanOK, NEW h \in Harvesters, WrittenOnes \subseteq WrittenOnes',
           NEW scan \in ScanType, proc' = [proc EXCEPT ![h] = scan],
           scan.stage # "idle" => scan.of \in Connectors,
           scan.stage # "idle" /\ scan.digest # <<>> =>
             FactsIn(scan.of, scan.digest) \subseteq WrittenOnes' \cup Left(scan)
    PROVE  ProcOK' /\ ScanOK'
  <1>1. proc'[h] = scan /\ \A q \in Harvesters : q # h => proc'[q] = proc[q]
    BY DEF ProcOK
  <1>2. ProcOK'
    BY <1>1 DEF ProcOK, ScanType
  <1>3. ASSUME NEW q \in Harvesters PROVE Accounted(proc[q])'
    <2>1. CASE q = h
      BY <1>1, <2>1 DEF Accounted, FactsIn, Left
    <2>2. CASE q # h
      <3>1. proc'[q] = proc[q] /\ Accounted(proc[q])
        BY <1>1, <2>2 DEF ScanOK
      <3> QED
        BY <3>1 DEF Accounted, FactsIn, Left
    <2> QED
      BY <2>1, <2>2
  <1> QED
    BY <1>2, <1>3 DEF ScanOK

\* An echo needs a torn pack, as long as the steps bring none.
LEMMA WholeKept ==
    ASSUME IInv, UNCHANGED <<source, torn>>,
           WrittenOnes' \subseteq WrittenOnes \cup {p \in Candidates : p[2] # "echo"},
           \A h \in Harvesters : Range(proc'[h].todo) \subseteq Range(proc[h].todo) \cup (Keys \ {"echo"})
    PROVE  WholeOK'
  <1> SUFFICES ASSUME ~torn PROVE /\ \A c \in Connectors : ~IsTorn(source[c])
                                  /\ \A h \in Harvesters : "echo" \notin Range(proc'[h].todo)
                                  /\ \A agent \in Agents : <<agent, "echo">> \notin WrittenOnes'
    BY DEF WholeOK, IsTorn
  <1>1. WholeOK
    BY DEF IInv
  <1> QED
    BY <1>1 DEF WholeOK

LEMMA NothingWritten ==
    ASSUME IInv, UNCHANGED <<inbox, curator>>
    PROVE  QueueOK' /\ LedgerOK' /\ WrittenOnes' = WrittenOnes
  <1>1. QueueOK'
    BY DEF IInv, QueueOK
  <1>2. LedgerOK'
    BY DEF IInv, LedgerOK
  <1>3. WrittenOnes' = WrittenOnes
    BY DEF WrittenOnes, Written
  <1> QED
    BY <1>1, <1>2, <1>3
-----------------------------------------------------------------------------
(* The harvesters.                                                         *)
LEMMA SourceStep ==
    ASSUME IInv, NEW c \in Connectors, SourceChanges(c) PROVE IInv'
  <1>1. UNCHANGED <<cursor, proc, inbox, curator, judging>>
    BY DEF SourceChanges
  <1>2. PICK text \in Entries[c], sibling \in Siblings :
          source' = [source EXCEPT ![c] = [text |-> text, sibling |-> sibling]]
    BY DEF SourceChanges
  <1>3. text \in Seq(Tokens) /\ sibling \in SiblingTexts
    BY DEF SiblingTexts
  <1>4. SourceOK'
    BY <1>2, <1>3 DEF IInv, SourceOK
  <1>5. QueueOK' /\ LedgerOK' /\ WrittenOnes' = WrittenOnes
    BY <1>1, NothingWritten
  <1>6. WholeOK'
    <2> SUFFICES ASSUME ~torn'
                 PROVE  /\ \A q \in Connectors : ~IsTorn(source'[q])
                        /\ \A h \in Harvesters : "echo" \notin Range(proc'[h].todo)
                        /\ \A agent \in Agents : <<agent, "echo">> \notin WrittenOnes'
      BY DEF WholeOK, IsTorn
    <2>1. ~torn /\ ~IsTorn(source'[c])
      BY DEF SourceChanges
    <2>2. \A q \in Connectors : q # c => source'[q] = source[q]
      BY <1>2 DEF IInv, SourceOK
    <2>3. WholeOK
      BY DEF IInv
    <2>4. \A q \in Connectors : ~IsTorn(source'[q])
      BY <2>1, <2>2, <2>3 DEF WholeOK
    <2> QED
      BY <1>1, <1>5, <2>1, <2>3, <2>4 DEF WholeOK
  <1> QED
    BY <1>1, <1>4, <1>5, <1>6, CursorKept, JudgingKept, ScansKept DEF IInv

LEMMA ScanStep ==
    ASSUME IInv, NEW h \in Harvesters, NEW c \in Connectors, Scan(h, c) PROVE IInv'
  <1> DEFINE todo == IF Matches(c) THEN Facts(c) ELSE <<>>
             digest == IF Matches(c) THEN Digest(c) ELSE cursor[c]
             scan == [stage |-> "writing", of |-> c, todo |-> todo, digest |-> digest]
  <1>1. UNCHANGED <<source, cursor, inbox, curator, judging, torn>> /\ proc' = [proc EXCEPT ![h] = scan]
    BY DEF Scan
  <1>2. SourceOK'
    BY <1>1 DEF IInv, SourceOK
  <1>3. QueueOK' /\ LedgerOK' /\ WrittenOnes' = WrittenOnes
    BY <1>1, NothingWritten
  <1>4. SourceOK /\ CursorOK /\ ProcOK /\ ScanOK /\ WholeOK
    BY DEF IInv
  <1>5. <<>> \in Todos
    <2>1. <<>> \in [{} -> Keys]
      OBVIOUS
    <2> QED
      BY <2>1 DEF Todos
  <1>6. todo \in Todos /\ digest \in Digests
    BY <1>4, <1>5, DigestStandsForFacts DEF CursorOK
  <1>7. digest # <<>> => FactsIn(c, digest) \subseteq WrittenOnes \cup Left(scan)
    <2>1. CASE Matches(c)
      <3>1. FactsIn(c, digest) = {<<AgentOf[c], key>> : key \in Range(todo)}
        BY <2>1, <1>4, DigestStandsForFacts
      <3> HIDE DEF todo, digest
      <3> QED
        BY <3>1 DEF Left, Range
    <2>2. CASE ~Matches(c)
      BY <2>2, <1>4 DEF CursorOK, Settled
    <2> QED
      BY <2>1, <2>2
  <1>8. ~torn => "echo" \notin Range(todo)
    <2>1. Range(<<>>) = {}
      BY DEF Range
    <2> QED
      BY <1>4, <2>1, WholeGivesNoEcho DEF WholeOK
  <1> HIDE DEF todo, digest
  <1>9. scan \in ScanType
    BY <1>6 DEF ScanType
  <1>10. ProcOK' /\ ScanOK'
    <2>1. scan.of = c /\ scan.digest = digest
      OBVIOUS
    <2> HIDE DEF scan
    <2> QED
      BY <1>1, <1>3, <1>4, <1>7, <1>9, <2>1, OneScanMoves
  <1>11. WholeOK'
    <2>1. proc'[h].todo = todo /\ \A q \in Harvesters : q # h => proc'[q] = proc[q]
      BY <1>1, <1>4 DEF ProcOK
    <2> QED
      BY <1>1, <1>3, <1>4, <1>8, <2>1 DEF WholeOK
  <1> QED
    BY <1>1, <1>2, <1>3, <1>10, <1>11, CursorKept, JudgingKept DEF IInv

\* A fact is taken off a scan's list when an event of it is pending.
LEMMA TakeOff ==
    ASSUME IInv, NEW h \in Harvesters, NEW i \in DOMAIN proc[h].todo,
           proc[h].stage # "idle", Candidate(h, i) \in WrittenOnes',
           WrittenOnes \subseteq WrittenOnes', NEW stage \in {"writing", "appending"},
           proc' = [proc EXCEPT ![h].stage = stage, ![h].todo = Without(@, i)]
    PROVE  /\ ProcOK' /\ ScanOK'
           /\ \A q \in Harvesters : Range(proc'[q].todo) \subseteq Range(proc[q].todo)
  <1> DEFINE todo == proc[h].todo
             scan == [proc[h] EXCEPT !.stage = stage, !.todo = Without(todo, i)]
  <1>1. ProcOK /\ ScanOK
    BY DEF IInv
  <1>2. proc[h] \in ScanType /\ todo \in Todos /\ proc[h].of \in Connectors
    BY <1>1 DEF ProcOK, ScanType
  <1>3. /\ Without(todo, i) \in Todos /\ DOMAIN Without(todo, i) = DOMAIN todo \ {i}
        /\ \A j \in DOMAIN todo \ {i} : Without(todo, i)[j] = todo[j]
    BY <1>2, TakenOff
  <1>4. proc' = [proc EXCEPT ![h] = scan]
    BY <1>1 DEF ProcOK
  <1>5. /\ scan \in ScanType /\ scan.stage = stage /\ scan.of = proc[h].of
        /\ scan.digest = proc[h].digest /\ scan.todo = Without(todo, i)
    <2> HIDE DEF todo
    <2> QED
      BY <1>2, <1>3 DEF ScanType
  <1>6. Left(proc[h]) \subseteq Left(scan) \cup {Candidate(h, i)}
    BY <1>3, <1>5 DEF Left, Candidate
  <1>7. Accounted(proc[h])
    BY <1>1 DEF ScanOK
  <1> HIDE DEF scan
  <1>8. ProcOK' /\ ScanOK'
    <2> DEFINE facts == FactsIn(scan.of, scan.digest)
    <2>1. ASSUME scan.digest # <<>> PROVE facts \subseteq WrittenOnes' \cup Left(scan)
      <3>1. facts \subseteq WrittenOnes \cup Left(proc[h])
        BY <1>5, <1>7, <2>1 DEF Accounted
      <3> HIDE DEF facts
      <3> QED
        BY <1>6, <3>1
    <2> QED
      BY <1>1, <1>2, <1>4, <1>5, <2>1, OneScanMoves
  <1>9. ASSUME NEW q \in Harvesters PROVE Range(proc'[q].todo) \subseteq Range(proc[q].todo)
    <2>1. CASE q = h
      BY <1>1, <1>3, <1>4, <1>5, <2>1 DEF ProcOK, Range
    <2>2. CASE q # h
      BY <1>1, <1>4, <2>2 DEF ProcOK
    <2> QED
      BY <2>1, <2>2
  <1> QED
    BY <1>8, <1>9

LEMMA LookUpStep ==
    ASSUME IInv, NEW h \in Harvesters, LookUp(h) PROVE IInv'
  <1>1. UNCHANGED <<source, cursor, inbox, curator, judging, torn>> /\ proc[h].stage = "writing"
    BY DEF LookUp
  <1>2. SourceOK'
    BY <1>1 DEF IInv, SourceOK
  <1>3. QueueOK' /\ LedgerOK' /\ WrittenOnes' = WrittenOnes
    BY <1>1, NothingWritten
  <1>4. PICK i \in DOMAIN proc[h].todo :
          proc' = IF inbox[Candidate(h, i)] > 0
                  THEN [proc EXCEPT ![h].todo = Without(@, i)]
                  ELSE [proc EXCEPT ![h].stage = "appending"]
    BY DEF LookUp
  <1>5. ProcOK /\ ScanOK /\ QueueOK
    BY DEF IInv
  <1>6. proc[h] \in ScanType /\ proc[h].todo \in Todos /\ proc[h].of \in Connectors
    BY <1>1, <1>5 DEF ProcOK, ScanType
  <1>7. /\ ProcOK' /\ ScanOK'
        /\ \A q \in Harvesters : Range(proc'[q].todo) \subseteq Range(proc[q].todo)
    <2>1. CASE inbox[Candidate(h, i)] > 0
      <3>1. Candidate(h, i) \in Candidates
        BY <1>6, TakenOff, OwnCandidate DEF Candidate
      <3>2. Candidate(h, i) \in WrittenOnes'
        BY <1>3, <2>1, <3>1 DEF WrittenOnes, Written
      <3>3. proc' = [proc EXCEPT ![h].stage = "writing", ![h].todo = Without(@, i)]
        BY <1>1, <1>4, <1>5, <1>6, <2>1 DEF ProcOK, ScanType
      <3> QED
        BY <1>1, <1>3, <3>2, <3>3, TakeOff
    <2>2. CASE ~(inbox[Candidate(h, i)] > 0)
      <3> DEFINE scan == [proc[h] EXCEPT !.stage = "appending"]
      <3>1. proc' = [proc EXCEPT ![h] = scan]
        BY <1>4, <1>5, <2>2 DEF ProcOK
      <3>2. /\ scan \in ScanType /\ scan.of = proc[h].of
            /\ scan.digest = proc[h].digest /\ scan.todo = proc[h].todo
        BY <1>6 DEF ScanType
      <3>3. Accounted(proc[h]) /\ Left(scan) = Left(proc[h])
        BY <1>5, <3>2 DEF ScanOK, Left
      <3> HIDE DEF scan
      <3>4. ProcOK' /\ ScanOK'
        BY <1>1, <1>3, <1>5, <1>6, <3>1, <3>2, <3>3, OneScanMoves DEF Accounted
      <3> QED
        BY <1>5, <3>1, <3>2, <3>4 DEF ProcOK
    <2> QED
      BY <2>1, <2>2
  <1>8. WholeOK'
    BY <1>1, <1>3, <1>7, WholeKept
  <1> QED
    BY <1>1, <1>2, <1>3, <1>7, <1>8, CursorKept, JudgingKept DEF IInv

LEMMA WriteStep ==
    ASSUME IInv, NEW h \in Harvesters, WriteOne(h) PROVE IInv'
  <1>1. UNCHANGED <<source, cursor, curator, judging, torn>> /\ proc[h].stage = "appending"
    BY DEF WriteOne
  <1>2. SourceOK'
    BY <1>1 DEF IInv, SourceOK
  <1>3. PICK i \in DOMAIN proc[h].todo :
          /\ inbox' = [inbox EXCEPT ![Candidate(h, i)] = @ + 1]
          /\ proc' = [proc EXCEPT ![h].stage = "writing", ![h].todo = Without(@, i)]
    BY DEF WriteOne
  <1>4. ProcOK /\ ScanOK /\ QueueOK /\ LedgerOK /\ WholeOK
    BY DEF IInv
  <1>5. proc[h].todo \in Todos /\ proc[h].of \in Connectors
    BY <1>1, <1>4 DEF ProcOK, ScanType
  <1> DEFINE p == Candidate(h, i)
  <1>6. p \in Candidates /\ p[2] = proc[h].todo[i]
    BY <1>5, TakenOff, OwnCandidate DEF Candidate
  <1> HIDE DEF p
  <1>7. inbox' = [inbox EXCEPT ![p] = @ + 1]
    BY <1>3 DEF p
  <1>8. QueueOK' /\ LedgerOK'
    <2>1. inbox' \in [Candidates -> Nat]
      BY <1>4, <1>6, <1>7 DEF QueueOK
    <2> QED
      BY <1>1, <1>4, <2>1 DEF QueueOK, LedgerOK
  <1>9. WrittenOnes' = WrittenOnes \cup {p}
    <2>1. inbox'[p] > 0 /\ \A q \in Candidates \ {p} : inbox'[q] = inbox[q]
      BY <1>4, <1>6, <1>7 DEF QueueOK
    <2> QED
      BY <1>1, <1>6, <2>1 DEF WrittenOnes, Written
  <1>10. /\ ProcOK' /\ ScanOK'
         /\ \A q \in Harvesters : Range(proc'[q].todo) \subseteq Range(proc[q].todo)
    BY <1>1, <1>3, <1>9, TakeOff DEF p
  <1>11. WholeOK'
    <2> SUFFICES ASSUME ~torn PROVE WholeOK'
      BY <1>1 DEF WholeOK
    <2>1. p[2] # "echo"
      BY <1>4, <1>6 DEF WholeOK, Range
    <2>2. \A c \in Connectors : ~IsTorn(source'[c])
      BY <1>1, <1>4 DEF WholeOK
    <2>3. \A q \in Harvesters : "echo" \notin Range(proc'[q].todo)
      BY <1>4, <1>10 DEF WholeOK
    <2>4. \A agent \in Agents : <<agent, "echo">> \notin WrittenOnes'
      <3>1. \A agent \in Agents : p # <<agent, "echo">>
        BY <2>1
      <3> QED
        BY <1>4, <1>9, <3>1 DEF WholeOK
    <2> QED
      BY <2>2, <2>3, <2>4 DEF WholeOK
  <1> QED
    BY <1>1, <1>2, <1>8, <1>9, <1>10, <1>11, CursorKept, JudgingKept DEF IInv

LEMMA IdleScan == NoScan \in ScanType /\ NoScan.stage = "idle" /\ Range(NoScan.todo) = {}
  <1>1. <<>> \in Digests
    BY DEF Digests
  <1>2. <<>> \in [{} -> Keys]
    OBVIOUS
  <1>3. <<>> \in Todos /\ Range(<<>>) = {}
    BY <1>2 DEF Todos, Range
  <1> HIDE DEF Digests, Todos
  <1> QED
    BY <1>1, <1>3 DEF NoScan, ScanType

\* A scan that ends, or dies, leaves the others as they are.
LEMMA ScanEnds ==
    ASSUME IInv, NEW h \in Harvesters, proc' = [proc EXCEPT ![h] = NoScan],
           UNCHANGED <<source, torn, inbox, curator>>
    PROVE  ProcOK' /\ ScanOK' /\ WholeOK'
  <1>1. WrittenOnes' = WrittenOnes /\ ProcOK /\ ScanOK
    BY NothingWritten DEF IInv
  <1>2. ProcOK' /\ ScanOK'
    BY <1>1, IdleScan, OneScanMoves
  <1>3. \A q \in Harvesters : Range(proc'[q].todo) \subseteq Range(proc[q].todo)
    BY <1>1, IdleScan DEF ProcOK
  <1> QED
    BY <1>1, <1>2, <1>3, WholeKept

LEMMA SaveStep ==
    ASSUME IInv, NEW h \in Harvesters, Save(h) PROVE IInv'
  <1>1. /\ UNCHANGED <<source, inbox, curator, judging, torn>> /\ proc[h].stage = "writing"
        /\ proc' = [proc EXCEPT ![h] = NoScan] /\ DOMAIN proc[h].todo = {}
        /\ cursor' = [cursor EXCEPT ![proc[h].of] = proc[h].digest]
    BY DEF Save
  <1>2. SourceOK'
    BY <1>1 DEF IInv, SourceOK
  <1>3. QueueOK' /\ LedgerOK' /\ WrittenOnes' = WrittenOnes
    BY <1>1, NothingWritten
  <1>4. ProcOK' /\ ScanOK' /\ WholeOK'
    BY <1>1, ScanEnds
  <1>5. CursorOK'
    <2>1. ProcOK /\ ScanOK /\ CursorOK
      BY DEF IInv
    <2>2. Accounted(proc[h]) /\ Left(proc[h]) = {}
      BY <1>1, <2>1 DEF ScanOK, Left
    <2>3. proc[h].digest \in Digests /\ proc[h].of \in Connectors
      BY <1>1, <2>1 DEF ProcOK, ScanType
    <2>4. Settled(proc[h].of, proc[h].digest)
      BY <1>1, <2>2 DEF Accounted, Settled
    <2> QED
      BY <1>1, <1>3, <2>1, <2>3, <2>4 DEF CursorOK, Settled, FactsIn
  <1> QED
    BY <1>1, <1>2, <1>3, <1>4, <1>5, JudgingKept DEF IInv

LEMMA CrashStep ==
    ASSUME IInv, NEW h \in Harvesters, Crash(h) PROVE IInv'
  <1>1. /\ UNCHANGED <<source, cursor, inbox, curator, judging, torn>>
        /\ proc' = [proc EXCEPT ![h] = NoScan]
    BY DEF Crash
  <1>2. SourceOK'
    BY <1>1 DEF IInv, SourceOK
  <1>3. QueueOK' /\ LedgerOK' /\ WrittenOnes' = WrittenOnes
    BY <1>1, NothingWritten
  <1> QED
    BY <1>1, <1>2, <1>3, ScanEnds, CursorKept, JudgingKept DEF IInv
-----------------------------------------------------------------------------
(* The curator, and the verdicts it adds to the cursors.                    *)
\* A step of the curator that keeps what is written, and writes nothing new.
LEMMA CuratorKeeps ==
    ASSUME IInv, UNCHANGED <<source, cursor, proc, torn>>, WrittenOnes' = WrittenOnes
    PROVE  SourceOK' /\ CursorOK' /\ ProcOK' /\ ScanOK' /\ WholeOK'
  <1>1. SourceOK'
    BY DEF IInv, SourceOK
  <1>2. WholeOK'
    BY WholeKept
  <1> QED
    BY <1>1, <1>2, CursorKept, ScansKept DEF IInv

LEMMA ClaimStep == ASSUME IInv, Claim PROVE IInv'
  <1> DEFINE selected == {p \in Candidates \ ledger : inbox[p] > 0}
  <1>1. /\ UNCHANGED <<source, cursor, proc, ledger, filed, judging, torn>> /\ run = NoRun
        /\ run' = [stage |-> "claimed", events |-> selected]
        /\ inbox' = [p \in Candidates |-> inbox[p] - (IF p \in selected THEN 1 ELSE 0)]
    BY DEF Claim
  <1>2. QueueOK /\ LedgerOK /\ JudgingType /\ JudgingOK
    BY DEF IInv
  <1>3. \A p \in Candidates : inbox[p] \in Nat /\ (p \in selected => inbox[p] > 0)
    BY <1>2 DEF QueueOK
  <1>4. selected \subseteq Candidates /\ selected \cap ledger = {}
    OBVIOUS
  <1>5. WrittenOnes' = WrittenOnes
    <2>1. \A p \in Candidates : inbox'[p] > 0 \/ p \in selected <=> inbox[p] > 0 \/ p \in selected
      <3> HIDE DEF selected
      <3> QED
        BY <1>1, <1>3
    <2>2. \A p \in Candidates : p \in selected => inbox[p] > 0
      BY <1>3
    <2>3. run.events = {} /\ run'.events = selected
      BY <1>1 DEF NoRun
    <2> HIDE DEF selected
    <2> QED
      BY <1>1, <2>1, <2>2, <2>3 DEF WrittenOnes, Written
  <1> HIDE DEF selected
  <1>6. QueueOK'
    <2>1. inbox' \in [Candidates -> Nat]
      BY <1>1, <1>3
    <2> QED
      BY <1>1, <1>4, <2>1 DEF QueueOK
  <1>7. LedgerOK'
    <2>1. run.stage = "none" /\ run'.stage = "claimed" /\ run'.events = selected
      BY <1>1 DEF NoRun
    <2> QED
      BY <1>1, <1>2, <1>4, <2>1 DEF LedgerOK
  <1> QED
    BY <1>1, <1>2, <1>5, <1>6, <1>7, CuratorKeeps, JudgingKept DEF IInv

LEMMA GiveBackStep == ASSUME IInv, GiveBack PROVE IInv'
  <1>1. /\ UNCHANGED <<source, cursor, proc, ledger, filed, judging, torn>>
        /\ run.stage = "claimed" /\ run' = NoRun
        /\ inbox' = [p \in Candidates |-> inbox[p] + (IF p \in run.events THEN 1 ELSE 0)]
    BY DEF GiveBack
  <1>2. QueueOK /\ LedgerOK /\ JudgingType /\ JudgingOK
    BY DEF IInv
  <1>3. \A p \in Candidates : inbox[p] \in Nat
    BY <1>2 DEF QueueOK
  <1>4. QueueOK'
    <2>1. inbox' \in [Candidates -> Nat]
      BY <1>1, <1>3
    <2> QED
      BY <1>1, <2>1 DEF QueueOK, NoRun
  <1>5. LedgerOK'
    BY <1>1, <1>2 DEF LedgerOK, NoRun
  <1>6. WrittenOnes' = WrittenOnes
    <2>1. \A p \in Candidates : inbox'[p] > 0 <=> inbox[p] > 0 \/ p \in run.events
      BY <1>1, <1>3
    <2>2. run'.events = {}
      BY <1>1 DEF NoRun
    <2> QED
      BY <1>1, <2>1, <2>2 DEF WrittenOnes, Written
  <1> QED
    BY <1>1, <1>2, <1>4, <1>5, <1>6, CuratorKeeps, JudgingKept DEF IInv

LEMMA NoVerdictType ==
    /\ NoVerdict \in [todo : SUBSET Connectors, of : Connectors \cup {""},
                      loaded : {<<>>} \cup {<<d>> : d \in Digests}]
    /\ NoVerdict.loaded = <<>>
  BY DEF NoVerdict

LEMMA PublishStep == ASSUME IInv, Publish PROVE IInv'
  <1>1. /\ UNCHANGED <<source, cursor, proc, inbox, ledger, torn>>
        /\ run.stage = "claimed" /\ run' = [run EXCEPT !.stage = "published"]
        /\ filed' = [p \in Candidates |-> filed[p] + (IF p \in run.events THEN 1 ELSE 0)]
        /\ judging' = [NoVerdict EXCEPT !.todo = {Charged[p[1]] : p \in run.events}]
    BY DEF Publish
  <1>2. QueueOK /\ LedgerOK
    BY DEF IInv
  <1>3. run'.stage = "published" /\ run'.events = run.events /\ run.events \subseteq Candidates
    BY <1>1, <1>2 DEF QueueOK
  <1>4. QueueOK'
    BY <1>1, <1>2, <1>3 DEF QueueOK
  <1>5. LedgerOK'
    <2>1. \A p \in Candidates : filed[p] = IF p \in ledger THEN 1 ELSE 0
      BY <1>1, <1>2 DEF LedgerOK
    <2>2. \A p \in Candidates : filed'[p] = IF p \in ledger \/ p \in run.events THEN 1 ELSE 0
      BY <1>1, <1>2, <2>1 DEF LedgerOK
    <2>3. filed' \in [Candidates -> Nat]
      BY <1>1, <2>1
    <2> QED
      BY <1>1, <1>2, <1>3, <2>2, <2>3 DEF LedgerOK
  <1>6. WrittenOnes' = WrittenOnes
    BY <1>1, <1>3 DEF WrittenOnes, Written
  <1>7. {Charged[p[1]] : p \in run.events} \subseteq Connectors
    BY <1>3 DEF Candidates, Agents
  <1>8. JudgingType' /\ JudgingOK'
    <2> DEFINE todo == {Charged[p[1]] : p \in run.events}
    <2>1. judging' = [todo |-> todo, of |-> "", loaded |-> <<>>]
      BY <1>1 DEF NoVerdict
    <2> HIDE DEF todo
    <2>2. judging'.loaded = <<>>
      BY <2>1
    <2> QED
      BY <1>7, <2>1, <2>2 DEF JudgingType, JudgingOK, todo
  <1> QED
    BY <1>1, <1>4, <1>5, <1>6, <1>8, CuratorKeeps DEF IInv

LEMMA JudgeLoadStep == ASSUME IInv, NEW c \in Connectors, JudgeLoad(c) PROVE IInv'
  <1>1. /\ UNCHANGED <<source, cursor, proc, inbox, curator, torn>>
        /\ judging' = [todo |-> judging.todo \ {c}, of |-> c, loaded |-> <<cursor[c]>>]
    BY DEF JudgeLoad
  <1>2. QueueOK' /\ LedgerOK' /\ WrittenOnes' = WrittenOnes
    BY <1>1, NothingWritten
  <1>3. CursorOK /\ JudgingType
    BY DEF IInv
  <1>4. cursor[c] \in Digests /\ Settled(c, cursor[c]) /\ judging.todo \subseteq Connectors
    BY <1>3 DEF CursorOK, JudgingType
  <1> DEFINE d == cursor[c]
  <1>5. judging'.of = c /\ judging'.loaded = <<d>> /\ judging'.loaded[1] = d
    BY <1>1
  <1>6. JudgingType'
    <2> DEFINE loaded == <<d>>
    <2>1. loaded \in {<<e>> : e \in Digests}
      BY <1>4
    <2> HIDE DEF loaded, d
    <2> QED
      BY <1>1, <1>4, <2>1 DEF JudgingType, loaded, d
  <1>7. JudgingOK'
    BY <1>2, <1>4, <1>5 DEF JudgingOK, Settled, FactsIn
  <1> QED
    BY <1>1, <1>2, <1>6, <1>7, CuratorKeeps DEF IInv

LEMMA JudgeSaveStep == ASSUME IInv, JudgeSave PROVE IInv'
  <1>1. /\ UNCHANGED <<source, proc, inbox, curator, torn>> /\ judging.loaded # <<>>
        /\ cursor' = [cursor EXCEPT ![judging.of] = judging.loaded[1]]
        /\ judging' = [judging EXCEPT !.of = "", !.loaded = <<>>]
    BY DEF JudgeSave
  <1>2. SourceOK'
    BY <1>1 DEF IInv, SourceOK
  <1>3. QueueOK' /\ LedgerOK' /\ WrittenOnes' = WrittenOnes
    BY <1>1, NothingWritten
  <1>4. CursorOK /\ JudgingType /\ JudgingOK /\ ProcOK /\ ScanOK
    BY DEF IInv
  <1> DEFINE c == judging.of
             d == judging.loaded[1]
  <1>5. c \in Connectors /\ d \in Digests /\ Settled(c, d)
    <2>1. judging.loaded \in {<<e>> : e \in Digests} /\ c \in Connectors
      BY <1>1, <1>4 DEF JudgingType
    <2> QED
      BY <1>1, <1>4, <2>1 DEF JudgingOK
  <1> HIDE DEF c, d
  <1>6. cursor' = [cursor EXCEPT ![c] = d]
    BY <1>1 DEF c, d
  <1>7. CursorOK'
    BY <1>3, <1>4, <1>5, <1>6 DEF CursorOK, Settled, FactsIn
  <1>8. JudgingType' /\ JudgingOK'
    <2>1. judging'.loaded = <<>> /\ judging'.of = "" /\ judging'.todo = judging.todo
      BY <1>1, <1>4 DEF JudgingType
    <2> QED
      BY <1>1, <1>4, <2>1 DEF JudgingType, JudgingOK
  <1>9. WholeOK'
    BY <1>1, <1>3, WholeKept
  <1> QED
    BY <1>1, <1>2, <1>3, <1>4, <1>7, <1>8, <1>9, ScansKept DEF IInv

LEMMA SettleStep == ASSUME IInv, Settle PROVE IInv'
  <1>1. /\ UNCHANGED <<source, cursor, proc, inbox, filed, judging, torn>>
        /\ run.stage = "published" /\ ledger' = ledger \cup run.events /\ run' = NoRun
    BY DEF Settle
  <1>2. QueueOK /\ LedgerOK /\ JudgingType /\ JudgingOK
    BY DEF IInv
  <1>3. run'.events = {} /\ run'.stage = "none" /\ run.events \subseteq Candidates
    BY <1>1, <1>2 DEF NoRun, QueueOK
  <1>4. QueueOK'
    BY <1>1, <1>2 DEF QueueOK, NoRun
  <1>5. LedgerOK'
    BY <1>1, <1>2, <1>3 DEF LedgerOK
  <1>6. WrittenOnes' = WrittenOnes
    BY <1>1, <1>3 DEF WrittenOnes, Written
  <1> QED
    BY <1>1, <1>2, <1>4, <1>5, <1>6, CuratorKeeps, JudgingKept DEF IInv

LEMMA CuratorDiesStep == ASSUME IInv, CuratorDies PROVE IInv'
  <1>1. UNCHANGED <<source, cursor, proc, inbox, curator, torn>> /\ judging' = NoVerdict
    BY DEF CuratorDies
  <1>2. QueueOK' /\ LedgerOK' /\ WrittenOnes' = WrittenOnes
    BY <1>1, NothingWritten
  <1>3. JudgingType' /\ JudgingOK'
    BY <1>1, NoVerdictType DEF JudgingType, JudgingOK
  <1> QED
    BY <1>1, <1>2, <1>3, CuratorKeeps DEF IInv
-----------------------------------------------------------------------------
(* The theorems.                                                           *)
LEMMA InvInit == Init => IInv
  <1> SUFFICES ASSUME Init PROVE IInv
    OBVIOUS
  <1>1. SourceOK
    <2>1. /\ source \in [Connectors -> [text : UNION {Entries[c] : c \in Connectors},
                                        sibling : {"missing"}]]
          /\ \A c \in Connectors : source[c].text \in Entries[c]
      BY DEF Init
    <2>2. UNION {Entries[c] : c \in Connectors} \subseteq Seq(Tokens)
      OBVIOUS
    <2>3. "missing" \in SiblingTexts
      BY DEF SiblingTexts, Bodiless
    <2> HIDE DEF SiblingTexts, Tokens
    <2> QED
      BY <2>1, <2>2, <2>3 DEF SourceOK
  <1>2. QueueOK /\ LedgerOK
    BY DEF Init, QueueOK, LedgerOK, NoRun
  <1>3. \A h \in Harvesters : proc[h] = NoScan
    BY DEF Init
  <1>4. ProcOK /\ ScanOK
    BY <1>3, IdleScan DEF Init, ProcOK, ScanOK, Accounted
  <1>5. CursorOK
    BY DEF Init, CursorOK, Digests, Settled
  <1>6. JudgingType /\ JudgingOK
    BY NoVerdictType DEF Init, JudgingType, JudgingOK
  <1>7. WholeOK
    <2>1. WrittenOnes = {}
      BY DEF Init, WrittenOnes, Written, NoRun
    <2>2. torn = (\E c \in Connectors : IsTorn(source[c]))
      BY DEF Init
    <2> QED
      BY <1>3, <2>1, <2>2, IdleScan DEF WholeOK
  <1> QED
    BY <1>1, <1>2, <1>4, <1>5, <1>6, <1>7 DEF IInv

LEMMA InvStep == IInv /\ [Next]_vars => IInv'
  <1> SUFFICES ASSUME IInv, [Next]_vars PROVE IInv'
    OBVIOUS
  <1>1. ASSUME NEW c \in Connectors, SourceChanges(c) PROVE IInv'
    BY <1>1, SourceStep
  <1>2. ASSUME NEW h \in Harvesters, HarvestStep(h) PROVE IInv'
    BY <1>2, ScanStep, LookUpStep, WriteStep, SaveStep DEF HarvestStep
  <1>3. ASSUME NEW h \in Harvesters, Crash(h) PROVE IInv'
    BY <1>3, CrashStep
  <1>4. CASE CuratorStep
    BY <1>4, ClaimStep, PublishStep, JudgeLoadStep, JudgeSaveStep, SettleStep DEF CuratorStep
  <1>5. CASE GiveBack \/ CuratorDies
    BY <1>5, GiveBackStep, CuratorDiesStep
  <1>6. CASE UNCHANGED vars
    <2>1. UNCHANGED <<source, cursor, proc, inbox, curator, judging, torn>>
      BY <1>6 DEF vars
    <2>2. QueueOK' /\ LedgerOK' /\ WrittenOnes' = WrittenOnes
      BY <2>1, NothingWritten
    <2> QED
      BY <2>1, <2>2, CuratorKeeps, JudgingKept DEF IInv
  <1> QED
    BY <1>1, <1>2, <1>3, <1>4, <1>5, <1>6 DEF Next

\* The state a harvest and a curator leave at any time: every digest that is or
\* will be saved stands for facts that are written, a candidate is filed exactly
\* when it is recorded or its run is about to record it, and no part of the system
\* has a line of a gold pack while no pack was torn.
THEOREM Invariant == Spec => []IInv
  BY InvInit, InvStep, PTL DEF Spec

\* A source that the next scan skips as unchanged has lost nothing: a scan writes
\* before it saves, and a verdict only saves what a scan has saved (harvester.py).
THEOREM Skipped == Spec => []SkippedIsWritten
  <1>1. IInv => SkippedIsWritten
    <2> SUFFICES ASSUME IInv, NEW c \in Connectors, cursor[c] = Digest(c),
                        NEW key \in Range(Facts(c))
                 PROVE  Written(<<AgentOf[c], key>>)
      BY DEF SkippedIsWritten
    <2>1. SourceOK /\ CursorOK
      BY DEF IInv
    <2>2. <<AgentOf[c], key>> \in WrittenOnes
      BY <2>1, DigestStandsForFacts DEF CursorOK, Settled
    <2> QED
      BY <2>2 DEF WrittenOnes
  <1> QED
    BY <1>1, Invariant, PTL

\* For any connectors, of one agent or of several: no two published runs decide on a
\* fact of the same agent, and a line of the gold pack is a candidate only after
\* some source held a torn pack.
THEOREM FiledAtMostOnce == Spec => []NothingFiledTwice
  <1>1. IInv => NothingFiledTwice
    <2> SUFFICES ASSUME IInv PROVE NothingFiledTwice
      OBVIOUS
    <2>1. QueueOK /\ LedgerOK /\ ProcOK /\ JudgingType /\ WholeOK
      BY DEF IInv
    <2>2. TypeOK
      BY <2>1 DEF TypeOK, QueueOK, LedgerOK, ProcOK, ScanType, JudgingType
    <2>3. FiledOnce
      BY <2>1 DEF FiledOnce, LedgerOK
    <2>4. NoEcho
      BY <2>1 DEF NoEcho, WholeOK, WrittenOnes, Candidates, Keys
    <2> QED
      BY <2>2, <2>3, <2>4 DEF NothingFiledTwice
  <1> QED
    BY <1>1, Invariant, PTL
=============================================================================
