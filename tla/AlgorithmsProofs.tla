-------------------------- MODULE AlgorithmsProofs --------------------------
(***************************************************************************)
(* Of the parts of the program that are functions of their input: what an  *)
(* import, a conversion, a routed curation, an upload, a repo init, the    *)
(* brain's two passes, a query, a drawing and a gold pack promise, proved  *)
(* for every input of the shape the code admits.                           *)
(***************************************************************************)
EXTENDS Algorithms, Integers, FiniteSetTheorems, SequenceTheorems,
        WellFoundedInduction, TLAPS

(* Numbers and sequences.                                                  *)

LEMMA NatMin ==
    ASSUME NEW T \in SUBSET Nat, T # {}
    PROVE  \E x \in T : \A y \in T : x <= y
<1>1. \E x \in T : \A y \in T : ~(<<y, x>> \in OpToRel(<, Nat))
  BY NatLessThanWellFounded, WFMin
<1>2. PICK x \in T : \A y \in T : ~(<<y, x>> \in OpToRel(<, Nat))
  BY <1>1
<1>3. ASSUME NEW y \in T PROVE x <= y
  <2>1. ~(y < x)
    BY <1>2 DEF OpToRel
  <2> QED BY <2>1
<1> QED BY <1>3

LEMMA Induct ==
    ASSUME NEW S, 0 \in S, \A n \in Nat : n \in S => n + 1 \in S
    PROVE  \A n \in Nat : n \in S
<1>1. SUFFICES ASSUME Nat \ S # {} PROVE FALSE
  OBVIOUS
<1>2. PICK b \in Nat \ S : \A y \in Nat \ S : b <= y
  <2>1. Nat \ S \in SUBSET Nat
    OBVIOUS
  <2> QED BY <1>1, <2>1, NatMin
<1>3. b # 0 /\ b - 1 \in Nat
  BY <1>2
<1>4. b - 1 \in S
  BY <1>2, <1>3
<1> QED BY <1>2, <1>3, <1>4

LEMMA NatMax ==
    ASSUME NEW S, S # {}, NEW n \in Nat, S \subseteq 1 .. n
    PROVE  \E x \in S : \A y \in S : x >= y
<1> DEFINE B == {m \in Nat : \A s \in S : s <= m}
<1>1. PICK b \in B : \A m \in B : b <= m
  <2>1. n \in B /\ B \in SUBSET Nat
    OBVIOUS
  <2> HIDE DEF B
  <2> QED BY <2>1, NatMin
<1>2. b \in S
  <2>1. SUFFICES ASSUME b \notin S PROVE FALSE
    OBVIOUS
  <2>2. \A s \in S : s < b /\ s \in Nat /\ s >= 1
    BY <1>1, <2>1
  <2>3. PICK t \in S : TRUE
    OBVIOUS
  <2>4. b \in Nat /\ b - 1 \in Nat
    BY <2>2, <2>3
  <2>5. b - 1 \in B
    BY <2>2, <2>4
  <2> QED BY <1>1, <2>4, <2>5
<1> QED BY <1>1, <1>2

LEMMA AppendOne == ASSUME NEW a, NEW b PROVE Append(<<a>>, b) = <<a, b>>
<1> DEFINE S == {a, b}
<1>1. a \in S /\ b \in S
  OBVIOUS
<1> HIDE DEF S
<1>2. <<a>> \in Seq(S) /\ <<a, b>> \in Seq(S)
  BY <1>1
<1>3. PICK s \in Seq(S), u \in Seq(S) : s = <<a>> /\ u = <<a, b>>
  BY <1>2
<1>4. s[1] = a /\ u[1] = a /\ u[2] = b /\ Len(s) = 1 /\ Len(u) = 2
  BY <1>3
<1>5. PICK w : w = Append(s, b)
  OBVIOUS
<1>6. w \in Seq(S) /\ Len(w) = Len(s) + 1 /\ (\A i \in 1 .. Len(s) : w[i] = s[i]) /\ w[Len(s) + 1] = b
  BY <1>1, <1>5, AppendProperties
<1>7. Len(w) = Len(u) /\ \A i \in 1 .. Len(w) : w[i] = u[i]
  BY <1>4, <1>6
<1>8. w = u
  BY <1>6, <1>7, SeqEqual
<1> QED BY <1>3, <1>5, <1>8
LEMMA AppendTwo == ASSUME NEW a, NEW b, NEW c PROVE Append(<<a, b>>, c) = <<a, b, c>>
<1> DEFINE S == {a, b, c}
<1>1. a \in S /\ b \in S /\ c \in S
  OBVIOUS
<1> HIDE DEF S
<1>2. <<a, b>> \in Seq(S) /\ <<a, b, c>> \in Seq(S)
  BY <1>1
<1>3. PICK s \in Seq(S), u \in Seq(S) : s = <<a, b>> /\ u = <<a, b, c>>
  BY <1>2
<1>4. s[1] = a /\ s[2] = b /\ u[1] = a /\ u[2] = b /\ u[3] = c /\ Len(s) = 2 /\ Len(u) = 3
  BY <1>3
<1>5. PICK w : w = Append(s, c)
  OBVIOUS
<1>6. w \in Seq(S) /\ Len(w) = Len(s) + 1 /\ (\A i \in 1 .. Len(s) : w[i] = s[i]) /\ w[Len(s) + 1] = c
  BY <1>1, <1>5, AppendProperties
<1>7. Len(w) = Len(u) /\ \A i \in 1 .. Len(w) : w[i] = u[i]
  BY <1>4, <1>6
<1>8. w = u
  BY <1>6, <1>7, SeqEqual
<1> QED BY <1>3, <1>5, <1>8

-----------------------------------------------------------------------------
(* An import: the notes it keeps, and where they land.                     *)

LEMMA MaxIn ==
    ASSUME NEW S, S # {}, NEW n \in Nat, S \subseteq 1 .. n
    PROVE  Imports!Max(S) \in S
<1>1. \E x \in S : \A y \in S : x >= y
  BY NatMax
<1> QED BY <1>1 DEF Imports!Max

LEMMA MinIn ==
    ASSUME NEW S, S # {}, NEW n \in Nat, S \subseteq 1 .. n
    PROVE  Imports!Min(S) \in S
<1>1. S \in SUBSET Nat
  OBVIOUS
<1>2. \E x \in S : \A y \in S : x <= y
  BY <1>1, NatMin
<1> QED BY <1>2 DEF Imports!Min

\* The notes of an import.
Kept(S) ==
  /\ \E n \in Nat : DOMAIN S \subseteq 1 .. n
  /\ \A i \in DOMAIN S : S[i] \in Imports!VaultNote
  /\ \A i, j \in DOMAIN S : S[i].dirs = S[j].dirs /\ S[i].stem = S[j].stem => i = j

LEMMA ScanKept == ASSUME NEW vault, Imports!IsVault(vault) PROVE Kept(Imports!ScanNotes(vault))
<1> DEFINE S == Imports!ScanNotes(vault)
<1>1. DOMAIN S \subseteq DOMAIN vault /\ \A i \in DOMAIN S : S[i] = vault[i]
  BY DEF Imports!ScanNotes, Imports!Restrict
<1>2. Len(vault) \in Nat /\ DOMAIN vault = 1 .. Len(vault) /\ \A i \in DOMAIN vault : vault[i] \in Imports!VaultNote
  BY DEF Imports!IsVault
<1> HIDE DEF S
<1>3. \E n \in Nat : DOMAIN S \subseteq 1 .. n
  BY <1>1, <1>2
<1>4. \A i \in DOMAIN S : S[i] \in Imports!VaultNote
  BY <1>1, <1>2 DEF Imports!IsVault
<1>5. \A i, j \in DOMAIN S : S[i].dirs = S[j].dirs /\ S[i].stem = S[j].stem => i = j
  BY <1>1 DEF Imports!IsVault
<1> QED BY <1>3, <1>4, <1>5 DEF Kept, S

Plain(S, i) == Imports!InferLayout(S[i]).dest

LEMMA Root == Imports!RootIndex[1] = "." /\ Imports!RootIndex[2] = <<"index">>
  BY DEF Imports!RootIndex

\* What a note's layout can be; nothing is asked of the note.
LEMMA LayoutCases ==
    ASSUME NEW n
    PROVE  /\ \/ /\ Imports!InferLayout(n).kind = "index" /\ Imports!InferLayout(n).dest = Imports!RootIndex
                 /\ n.dirs = <<>> /\ n.stem = "index"
              \/ Imports!InferLayout(n).kind = "concept" /\ Imports!InferLayout(n).dest[1] = "concepts"
              \/ Imports!InferLayout(n).kind = "map" /\ Imports!InferLayout(n).dest[1] = "maps"
           /\ Imports!InferLayout(n).dest = <<Imports!InferLayout(n).dest[1], Imports!InferLayout(n).dest[2]>>
           /\ \/ \E a : Imports!InferLayout(n).dest[2] = <<a>>
              \/ Imports!InferLayout(n).dest[2] = <<"note", n.body>>
<1>1. \A s : (\E a : Imports!SlugOrHash(s, n) = <<a>>) \/ Imports!SlugOrHash(s, n) = <<"note", n.body>>
  BY DEF Imports!SlugOrHash
<1>2. PICK a, b : a = Imports!SlugOrHash(n.dirs[2], n) /\ b = Imports!SlugOrHash(n.stem, n)
  OBVIOUS
<1>3. /\ (\E c : a = <<c>>) \/ a = <<"note", n.body>>
      /\ (\E c : b = <<c>>) \/ b = <<"note", n.body>>
  BY <1>1, <1>2
<1>4. \/ /\ Imports!InferLayout(n) = [kind |-> "index", dest |-> Imports!RootIndex]
         /\ n.dirs = <<>> /\ n.stem = "index"
      \/ Imports!InferLayout(n) = [kind |-> "map", dest |-> <<"maps", a>>]
      \/ Imports!InferLayout(n) = [kind |-> "concept", dest |-> <<"concepts", <<n.stem>>>>]
      \/ Imports!InferLayout(n) = [kind |-> "concept", dest |-> <<"concepts", b>>]
  BY <1>2 DEF Imports!InferLayout
<1>5. PICK l, c : l = Imports!InferLayout(n) /\ c = <<n.stem>>
  OBVIOUS
<1>6. /\ \/ /\ l.kind = "index" /\ l.dest = Imports!RootIndex
            /\ n.dirs = <<>> /\ n.stem = "index"
         \/ l.kind = "concept" /\ l.dest[1] = "concepts"
         \/ l.kind = "map" /\ l.dest[1] = "maps"
      /\ l.dest = <<l.dest[1], l.dest[2]>>
      /\ l.dest[2] \in {a, b, c, <<"index">>}
  <2>1. CASE /\ l = [kind |-> "index", dest |-> Imports!RootIndex]
             /\ n.dirs = <<>> /\ n.stem = "index"
    BY <2>1 DEF Imports!RootIndex
  <2>2. ASSUME NEW k, NEW d, NEW x \in {a, b, c}, l = [kind |-> k, dest |-> <<d, x>>]
        PROVE  /\ l.kind = k /\ l.dest[1] = d /\ l.dest[2] = x
               /\ l.dest = <<l.dest[1], l.dest[2]>>
    BY <2>2
  <2> QED BY <1>4, <1>5, <2>1, <2>2
<1> QED BY <1>3, <1>5, <1>6

LEMMA SuffixOf ==
    ASSUME NEW S, NEW i
    PROVE  /\ Imports!Suffixed(S, i)[1] = Plain(S, i)[1]
           /\ Imports!Suffixed(S, i) = <<Imports!Suffixed(S, i)[1], Imports!Suffixed(S, i)[2]>>
           /\ \/ \E a : Imports!Suffixed(S, i)[2] = <<a, S[i].body>>
              \/ Imports!Suffixed(S, i)[2] = <<"note", S[i].body, S[i].body>>
           /\ \/ \E a : Plain(S, i)[2] = <<a>>
              \/ \E a : Plain(S, i)[2] = <<a, S[i].body>>
           /\ Imports!Suffixed(S, i)[2] # Plain(S, i)[2]
<1>1. PICK p, b, f : p = Plain(S, i) /\ b = S[i].body /\ f = Imports!Suffixed(S, i)
  OBVIOUS
<1>2. f = <<p[1], Append(p[2], b)>>
  BY <1>1 DEF Imports!Suffixed, Plain
<1>3. (\E a : p[2] = <<a>>) \/ p[2] = <<"note", b>>
  BY <1>1, LayoutCases DEF Plain
<1>4. CASE \E a : p[2] = <<a>>
  <2>1. PICK a : p[2] = <<a>>
    BY <1>4
  <2>2. Append(p[2], b) = <<a, b>>
    BY <2>1, AppendOne
  <2> QED BY <1>1, <1>2, <2>1, <2>2
<1>5. CASE p[2] = <<"note", b>>
  <2>1. Append(p[2], b) = <<"note", b, b>>
    BY <1>5, AppendTwo
  <2> QED BY <1>1, <1>2, <1>5, <2>1
<1> QED BY <1>3, <1>4, <1>5

LEMMA PlacedOf ==
    ASSUME NEW S, NEW i
    PROVE  Imports!Placed(S, i) \in {Plain(S, i), Imports!Suffixed(S, i)}
  BY DEF Imports!Placed, Plain

\* The first to claim a name that is not the index's is not displaced.
LEMMA FirstClaim ==
    ASSUME NEW S, Kept(S), NEW i \in DOMAIN S, Imports!Displaced(S, i), Plain(S, i)[2] # <<"index">>
    PROVE  \E k \in DOMAIN S : Plain(S, k)[2] = Plain(S, i)[2] /\ ~Imports!Displaced(S, k)
<1> DEFINE T == {k \in DOMAIN S : Plain(S, k)[2] = Plain(S, i)[2]}
           Rank(k) == Imports!Tier(Plain(S, k)[1])
           Ranks == {Rank(k) : k \in T}
<1>1. i \in T /\ T \subseteq Nat
  BY DEF Kept
<1>2. \A k \in DOMAIN S : Rank(k) \in Nat
  BY DEF Imports!Tier
<1>3. PICK t \in Ranks : \A u \in Ranks : t <= u
  <2>1. Ranks \in SUBSET Nat /\ Ranks # {}
    BY <1>1, <1>2
  <2> HIDE DEF Ranks
  <2> QED BY <2>1, NatMin
<1> DEFINE Lowest == {k \in T : Rank(k) = t}
<1>4. PICK k \in Lowest : \A l \in Lowest : k <= l
  <2>1. Lowest \in SUBSET Nat /\ Lowest # {}
    BY <1>1, <1>3
  <2> HIDE DEF Lowest
  <2> QED BY <2>1, NatMin
<1>5. ASSUME NEW j \in DOMAIN S \ {k}, Imports!ClaimsFirst(S, j, k) PROVE FALSE
  <2>1. /\ Plain(S, j)[2] = Plain(S, k)[2]
        /\ Rank(j) < Rank(k) \/ (Rank(j) = Rank(k) /\ j < k)
    BY <1>5 DEF Imports!ClaimsFirst, Plain
  <2>2. j \in T
    BY <1>4, <2>1
  <2>3. Rank(j) >= t /\ Rank(k) = t /\ Rank(j) \in Nat /\ t \in Nat
    BY <1>2, <1>3, <1>4, <2>2
  <2> HIDE DEF Rank
  <2>4. Rank(j) = t /\ j < k
    BY <2>1, <2>3
  <2>5. j \in Lowest /\ j \in Nat /\ k \in Nat
    BY <1>1, <1>4, <2>2, <2>4
  <2> QED BY <1>4, <2>4, <2>5
<1>6. Plain(S, k)[2] # Imports!RootIndex[2]
  BY <1>4 DEF Imports!RootIndex
<1> QED BY <1>4, <1>5, <1>6 DEF Imports!Displaced, Plain

\* Whoever gives way leaves its name to a note, or to the root map.
LEMMA NameBorne ==
    ASSUME NEW S, Kept(S), NEW i \in DOMAIN S, Imports!Placed(S, i) # Plain(S, i)
    PROVE  \/ Plain(S, i)[2] = <<"index">>
           \/ \E k \in DOMAIN S : Imports!Placed(S, k)[2] = Plain(S, i)[2]
<1>1. \A k \in DOMAIN S : ~Imports!Displaced(S, k) =>
        \/ Imports!Placed(S, k) = Plain(S, k)
        \/ \E j \in DOMAIN S : Imports!Displaced(S, j) /\ Imports!Suffixed(S, j)[2] = Plain(S, k)[2]
  BY DEF Imports!Placed, Plain
<1>2. \A j \in DOMAIN S : Imports!Displaced(S, j) => Imports!Placed(S, j) = Imports!Suffixed(S, j)
  BY DEF Imports!Placed
<1>3. CASE Imports!Displaced(S, i)
  <2>1. SUFFICES ASSUME Plain(S, i)[2] # <<"index">>
                 PROVE  \E k \in DOMAIN S : Imports!Placed(S, k)[2] = Plain(S, i)[2]
    OBVIOUS
  <2>2. PICK k \in DOMAIN S : Plain(S, k)[2] = Plain(S, i)[2] /\ ~Imports!Displaced(S, k)
    BY <1>3, <2>1, FirstClaim
  <2> QED BY <1>1, <1>2, <2>2
<1>4. CASE ~Imports!Displaced(S, i)
  BY <1>1, <1>2, <1>4
<1> QED BY <1>3, <1>4

\* Of two notes of one name, one has given way, and their texts are the same.
LEMMA SameName ==
    ASSUME NEW S, Kept(S), NEW i \in DOMAIN S, NEW j \in DOMAIN S, i # j,
           Imports!Placed(S, i)[2] = Imports!Placed(S, j)[2]
    PROVE  /\ S[i].body = S[j].body
           /\ \E m \in {i, j} : Imports!Placed(S, m) = Imports!Suffixed(S, m) /\ Imports!Placed(S, m) # Plain(S, m)
           /\ Len(Imports!Placed(S, i)[2]) > 1
<1>1. \A m \in {i, j} : Imports!Placed(S, m) \in {Plain(S, m), Imports!Suffixed(S, m)}
  BY PlacedOf
<1>2. ~(Imports!Placed(S, i) = Plain(S, i) /\ Imports!Placed(S, j) = Plain(S, j))
  <2>1. SUFFICES ASSUME Imports!Placed(S, i) = Plain(S, i), Imports!Placed(S, j) = Plain(S, j) PROVE FALSE
    OBVIOUS
  <2>2. Plain(S, i)[2] = Plain(S, j)[2] /\ i \in Nat /\ j \in Nat
    BY <2>1 DEF Kept
  <2>3. Imports!Tier(Plain(S, i)[1]) \in Nat /\ Imports!Tier(Plain(S, j)[1]) \in Nat
    BY DEF Imports!Tier
  <2>4. Imports!ClaimsFirst(S, i, j) \/ Imports!ClaimsFirst(S, j, i)
    BY <2>2, <2>3 DEF Imports!ClaimsFirst, Plain
  <2>5. Imports!Displaced(S, j) \/ Imports!Displaced(S, i)
    BY <2>4 DEF Imports!Displaced
  <2>6. \A m \in {i, j} : Imports!Displaced(S, m) => Imports!Placed(S, m) = Imports!Suffixed(S, m)
    BY DEF Imports!Placed
  <2>7. \A m \in {i, j} : Imports!Suffixed(S, m)[2] # Plain(S, m)[2]
    BY SuffixOf
  <2> QED BY <2>1, <2>5, <2>6, <2>7
<1>3. PICK m \in {i, j} : Imports!Placed(S, m) = Imports!Suffixed(S, m) /\ Imports!Placed(S, m) # Plain(S, m)
  BY <1>1, <1>2
<1>4. PICK o \in {i, j} : o # m /\ {m, o} = {i, j}
  OBVIOUS
<1>5. /\ S[m].body \in STRING /\ S[o].body \in STRING
      /\ m \in DOMAIN S /\ o \in DOMAIN S
  BY DEF Kept, Imports!VaultNote
<1>6. Imports!Placed(S, m)[2] = Imports!Placed(S, o)[2]
  BY <1>4
<1>7. \/ \E a : Imports!Placed(S, m)[2] = <<a, S[m].body>>
      \/ Imports!Placed(S, m)[2] = <<"note", S[m].body, S[m].body>>
  <2>1. \/ \E a : Imports!Suffixed(S, m)[2] = <<a, S[m].body>>
        \/ Imports!Suffixed(S, m)[2] = <<"note", S[m].body, S[m].body>>
    BY SuffixOf, ZenonT(20)
  <2> QED BY <1>3, <2>1, ZenonT(20)
<1>8. \/ \E a : Imports!Placed(S, o)[2] = <<a>>
      \/ \E a : Imports!Placed(S, o)[2] = <<a, S[o].body>>
      \/ Imports!Placed(S, o)[2] = <<"note", S[o].body, S[o].body>>
  <2>1. /\ \/ \E a : Imports!Suffixed(S, o)[2] = <<a, S[o].body>>
           \/ Imports!Suffixed(S, o)[2] = <<"note", S[o].body, S[o].body>>
        /\ \/ \E a : Plain(S, o)[2] = <<a>>
           \/ \E a : Plain(S, o)[2] = <<a, S[o].body>>
    BY SuffixOf, ZenonT(20)
  <2>2. Imports!Placed(S, o) = Plain(S, o) \/ Imports!Placed(S, o) = Imports!Suffixed(S, o)
    BY <1>1
  <2> QED BY <2>1, <2>2, ZenonT(20)
<1>9. S[m].body = S[o].body
  BY <1>5, <1>6, <1>7, <1>8
<1>10. Len(Imports!Placed(S, m)[2]) > 1
  <2>1. PICK f, b : f = Imports!Placed(S, m)[2] /\ b = S[m].body
    OBVIOUS
  <2>2. (\E a : f = <<a, b>>) \/ f = <<"note", b, b>>
    BY <1>7, <2>1
  <2>3. CASE \E a : f = <<a, b>>
    <3>1. PICK a : f = <<a, b>>
      BY <2>3
    <3> QED BY <2>1, <3>1
  <2>4. CASE f = <<"note", b, b>>
    BY <2>1, <2>4
  <2> QED BY <2>2, <2>3, <2>4
<1> QED BY <1>3, <1>4, <1>6, <1>9, <1>10

-----------------------------------------------------------------------------
\* The note that claims `index` at the root keeps it.
LEMMA IndexStays ==
    ASSUME NEW S, Kept(S), NEW i \in DOMAIN S, Plain(S, i) = Imports!RootIndex,
           S[i].dirs = <<>>, S[i].stem = "index"
    PROVE  Imports!Placed(S, i) = Imports!RootIndex
<1>1. ASSUME NEW j \in DOMAIN S, Plain(S, j)[1] = "." PROVE j = i
  <2>1. PICK d : d = Plain(S, j)
    OBVIOUS
  <2>2. \/ d = Imports!RootIndex /\ S[j].dirs = <<>> /\ S[j].stem = "index"
        \/ d[1] = "concepts"
        \/ d[1] = "maps"
    BY <2>1, LayoutCases DEF Plain
  <2>3. S[j].dirs = <<>> /\ S[j].stem = "index"
    BY <1>1, <2>1, <2>2
  <2> QED BY <2>3 DEF Kept
<1>2. ASSUME NEW d PROVE Imports!Tier(d) \in Nat /\ (Imports!Tier(d) = 0 => d = ".") /\ (d = "." => Imports!Tier(d) = 0)
  <2>1. \/ d = "." /\ Imports!Tier(d) = 0
        \/ d # "." /\ (Imports!Tier(d) = 1 \/ Imports!Tier(d) = 2)
    BY DEF Imports!Tier
  <2>2. PICK t : t = Imports!Tier(d)
    OBVIOUS
  <2>3. (d = "." /\ t = 0) \/ (d # "." /\ (t = 1 \/ t = 2))
    BY <2>1, <2>2
  <2>4. t \in Nat /\ (t = 0 => d = ".") /\ (d = "." => t = 0)
    <3>1. CASE t = 0
      BY <2>3, <3>1
    <3>2. CASE t = 1
      BY <2>3, <3>2
    <3>3. CASE t = 2
      BY <2>3, <3>3
    <3> QED BY <2>3, <3>1, <3>2, <3>3
  <2> QED BY <2>2, <2>4
<1>3. Plain(S, i)[1] = "."
  BY Root
<1>4. ASSUME NEW j \in DOMAIN S \ {i}, Imports!ClaimsFirst(S, j, i) PROVE FALSE
  <2>1. \/ Imports!Tier(Plain(S, j)[1]) < Imports!Tier(Plain(S, i)[1])
        \/ Imports!Tier(Plain(S, j)[1]) = Imports!Tier(Plain(S, i)[1])
    BY <1>4 DEF Imports!ClaimsFirst, Plain
  <2>2. Imports!Tier(Plain(S, j)[1]) = 0
    <3>1. Imports!Tier(Plain(S, i)[1]) = 0 /\ Imports!Tier(Plain(S, j)[1]) \in Nat
      BY <1>2, <1>3
    <3> QED BY <2>1, <3>1
  <2> QED BY <1>1, <1>2, <2>2
<1>5. ~ Imports!Displaced(S, i)
  BY <1>4 DEF Imports!Displaced, Plain
<1>6. ASSUME NEW d PROVE ~(Imports!Tier(Plain(S, i)[1]) > Imports!Tier(d))
  <2>1. Imports!Tier(Plain(S, i)[1]) = 0 /\ Imports!Tier(d) \in Nat
    BY <1>2, <1>3
  <2> QED BY <2>1
<1> QED BY <1>5, <1>6 DEF Imports!Placed, Plain

LEMMA IndexIsRoot ==
    ASSUME NEW S, Kept(S), NEW i \in DOMAIN S, Imports!Placed(S, i)[2] = <<"index">>
    PROVE  Plain(S, i) = Imports!RootIndex
<1>1. PICK p, f, b : p = Plain(S, i) /\ f = Imports!Suffixed(S, i)[2] /\ b = S[i].body
  OBVIOUS
<1>2. (\E a : f = <<a, b>>) \/ f = <<"note", b, b>>
  <2>1. \/ \E a : Imports!Suffixed(S, i)[2] = <<a, S[i].body>>
        \/ Imports!Suffixed(S, i)[2] = <<"note", S[i].body, S[i].body>>
    BY SuffixOf, ZenonT(20)
  <2> QED BY <1>1, <2>1, ZenonT(20)
<1>3. f # <<"index">>
  BY <1>2
<1>4. Imports!Placed(S, i) = p /\ ~Imports!Displaced(S, i)
  BY <1>1, <1>3, PlacedOf DEF Imports!Placed
<1> QED BY <1>1, <1>4 DEF Imports!Displaced, Plain, Imports!RootIndex

\* What the plan of an import is, note by note.
Plan(V) ==
  /\ \E n \in Nat : DOMAIN V \subseteq 1 .. n
  /\ \A i, j \in DOMAIN V : V[i].dirs = V[j].dirs /\ V[i].stem = V[j].stem => i = j
  /\ \A i \in DOMAIN V : \E n \in Nat : DOMAIN V[i].sources = 1 .. n
  /\ \A i \in DOMAIN V :
       \/ V[i].kind = "index" /\ V[i].dest = Imports!RootIndex
       \/ /\ V[i].kind = "concept" /\ V[i].dest[1] = "concepts"
          /\ V[i].dest[2] # <<"index">>
       \/ /\ V[i].kind = "map" /\ V[i].dest[1] = "maps"
          /\ V[i].dest[2] # <<"index">>
  /\ \A i \in DOMAIN V : V[i].dest = <<V[i].dest[1], V[i].dest[2]>>
  /\ \A i, j \in DOMAIN V : i # j /\ V[i].dest[2] = V[j].dest[2] =>
       V[i].body = V[j].body /\ Len(V[i].dest[2]) > 1

LEMMA PlannedFields ==
    ASSUME NEW S, NEW i \in DOMAIN S
    PROVE  /\ DOMAIN Imports!Planned(S) = DOMAIN S
           /\ Imports!Planned(S)[i].kind = Imports!InferLayout(S[i]).kind
           /\ Imports!Planned(S)[i].dest = Imports!Placed(S, i)
           /\ Imports!Planned(S)[i].dirs = S[i].dirs /\ Imports!Planned(S)[i].stem = S[i].stem
           /\ Imports!Planned(S)[i].body = S[i].body /\ Imports!Planned(S)[i].sources = S[i].sources
           /\ Imports!InferLayout(Imports!Planned(S)[i]) = Imports!InferLayout(S[i])
<1>1. PICK m, n : m = Imports!Planned(S)[i] /\ n = S[i]
  OBVIOUS
<1>2. /\ DOMAIN Imports!Planned(S) = DOMAIN S
      /\ m.kind = Imports!InferLayout(n).kind /\ m.dest = Imports!Placed(S, i)
      /\ m.dirs = n.dirs /\ m.stem = n.stem /\ m.body = n.body /\ m.sources = n.sources
  BY <1>1 DEF Imports!Planned
<1>3. Imports!InferLayout(m) = Imports!InferLayout(n)
  BY <1>2 DEF Imports!InferLayout, Imports!SlugOrHash
<1> QED BY <1>1, <1>2, <1>3

LEMMA PlannedIsPlan == ASSUME NEW S, Kept(S) PROVE Plan(Imports!Planned(S))
<1> DEFINE V == Imports!Planned(S)
<1>0. \A i \in DOMAIN S : /\ DOMAIN V = DOMAIN S
           /\ V[i].kind = Imports!InferLayout(S[i]).kind
           /\ V[i].dest = Imports!Placed(S, i)
           /\ V[i].dirs = S[i].dirs /\ V[i].stem = S[i].stem
           /\ V[i].body = S[i].body /\ V[i].sources = S[i].sources
  BY PlannedFields
<1>1. DOMAIN V = DOMAIN S
  BY DEF Imports!Planned
<1> HIDE DEF V
<1>2. \E n \in Nat : DOMAIN V \subseteq 1 .. n
  BY <1>1 DEF Kept
<1>3. \A i, j \in DOMAIN V : V[i].dirs = V[j].dirs /\ V[i].stem = V[j].stem => i = j
  BY <1>0, <1>1 DEF Kept
<1>4. ASSUME NEW i \in DOMAIN V PROVE \E n \in Nat : DOMAIN V[i].sources = 1 .. n
  <2>1. V[i].sources = S[i].sources /\ S[i] \in Imports!VaultNote
    BY <1>0, <1>1 DEF Kept
  <2>2. PICK X : S[i].sources \in Seq(X)
    BY <2>1 DEF Imports!VaultNote
  <2>3. Len(S[i].sources) \in Nat /\ DOMAIN S[i].sources = 1 .. Len(S[i].sources)
    BY <2>2
  <2> QED BY <2>1, <2>3
<1>5. ASSUME NEW i \in DOMAIN V
      PROVE  /\ \/ V[i].kind = "index" /\ V[i].dest = Imports!RootIndex
                \/ /\ V[i].kind = "concept" /\ V[i].dest[1] = "concepts"
                   /\ V[i].dest[2] # <<"index">>
                \/ /\ V[i].kind = "map" /\ V[i].dest[1] = "maps"
                   /\ V[i].dest[2] # <<"index">>
             /\ V[i].dest = <<V[i].dest[1], V[i].dest[2]>>
  <2>1. PICK k, p, f, d : /\ k = Imports!InferLayout(S[i]).kind /\ p = Plain(S, i)
                           /\ f = Imports!Suffixed(S, i) /\ d = Imports!Placed(S, i)
    OBVIOUS
  <2>2. /\ \/ k = "index" /\ p = Imports!RootIndex /\ S[i].dirs = <<>> /\ S[i].stem = "index"
           \/ k = "concept" /\ p[1] = "concepts"
           \/ k = "map" /\ p[1] = "maps"
        /\ p = <<p[1], p[2]>>
    BY <2>1, LayoutCases DEF Plain
  <2>3. f[1] = p[1] /\ f = <<f[1], f[2]>> /\ d \in {p, f}
    BY <2>1, SuffixOf, PlacedOf
  <2>4. V[i].kind = k /\ V[i].dest = d
    BY <1>0, <1>1, <2>1
  <2>5. d[2] = <<"index">> => p[1] = "."
    BY <1>1, <2>1, IndexIsRoot, Root
  <2>6. k = "index" => d = Imports!RootIndex
    BY <1>1, <2>1, <2>2, IndexStays
  <2>7. d[1] = p[1] /\ d = <<d[1], d[2]>>
    BY <2>2, <2>3
  <2> QED BY <2>2, <2>4, <2>5, <2>6, <2>7
<1>6. \A i, j \in DOMAIN V : i # j /\ V[i].dest[2] = V[j].dest[2] =>
       V[i].body = V[j].body /\ Len(V[i].dest[2]) > 1
  BY <1>0, <1>1, SameName
<1> QED BY <1>2, <1>3, <1>4, <1>5, <1>6 DEF Plan, V

\* No note is lost but a copy.
LEMMA KeepsNotes == ASSUME NEW S, Kept(S) PROVE Imports!NotesKept(Imports!Planned(S))
<1> DEFINE V == Imports!Planned(S)
<1>0. \A i \in DOMAIN S : /\ V[i].dest = Imports!Placed(S, i) /\ V[i].body = S[i].body
                          /\ Imports!InferLayout(V[i]) = Imports!InferLayout(S[i])
  BY PlannedFields
<1>1. DOMAIN V = DOMAIN S
  BY DEF Imports!Planned
<1> HIDE DEF V
<1>2. SUFFICES ASSUME NEW i \in DOMAIN V, NEW j \in DOMAIN V, i # j, V[i].dest = V[j].dest
               PROVE  /\ V[i].body = V[j].body
                      /\ \E m \in {i, j} :
                           /\ V[m].dest[2] = Append(Imports!InferLayout(V[m]).dest[2], V[m].body)
                           /\ \/ Imports!InferLayout(V[m]).dest[2] = <<"index">>
                              \/ \E k \in DOMAIN V \ {i, j} :
                                   V[k].dest[2] = Imports!InferLayout(V[m]).dest[2]
  BY DEF Imports!NotesKept, V
<1>3. /\ S[i].body = S[j].body
      /\ \E m \in {i, j} : Imports!Placed(S, m) = Imports!Suffixed(S, m) /\ Imports!Placed(S, m) # Plain(S, m)
  BY <1>0, <1>1, <1>2, SameName
<1>4. PICK m \in {i, j} : Imports!Placed(S, m) = Imports!Suffixed(S, m) /\ Imports!Placed(S, m) # Plain(S, m)
  BY <1>3
<1>5. V[m].dest[2] = Append(Imports!InferLayout(V[m]).dest[2], V[m].body)
  <2>1. PICK q, b : q = Imports!InferLayout(S[m]).dest[2] /\ b = S[m].body
    OBVIOUS
  <2>2. Imports!Suffixed(S, m)[2] = Append(q, b)
    BY <2>1 DEF Imports!Suffixed
  <2>3. V[m].dest = Imports!Suffixed(S, m) /\ Imports!InferLayout(V[m]).dest[2] = q /\ V[m].body = b
    BY <1>0, <1>1, <1>4, <2>1
  <2> QED BY <2>2, <2>3
<1>6. ASSUME NEW k \in DOMAIN V, Imports!Placed(S, k)[2] = Plain(S, m)[2] PROVE k \notin {i, j}
  <2>1. Imports!Suffixed(S, m)[2] # Plain(S, m)[2]
    BY SuffixOf
  <2>2. Imports!Placed(S, i) = Imports!Placed(S, j)
    BY <1>0, <1>1, <1>2
  <2> QED BY <1>4, <1>6, <2>1, <2>2
<1>7. \/ Plain(S, m)[2] = <<"index">>
      \/ \E k \in DOMAIN S : Imports!Placed(S, k)[2] = Plain(S, m)[2]
  BY <1>1, <1>4, NameBorne
<1>8. \/ Imports!InferLayout(V[m]).dest[2] = <<"index">>
      \/ \E k \in DOMAIN V \ {i, j} : V[k].dest[2] = Imports!InferLayout(V[m]).dest[2]
  BY <1>0, <1>1, <1>6, <1>7 DEF Plain
<1> QED BY <1>0, <1>1, <1>3, <1>5, <1>8

-----------------------------------------------------------------------------
Dests(V) == {V[i].dest : i \in DOMAIN V}
Synthesized(V) == {<<"maps", <<d>>>> : d \in Imports!SynthesizedMaps(V)}

\* A note's place gives its kind.
LEMMA PlaceGivesKind ==
    ASSUME NEW V, Plan(V), NEW i \in DOMAIN V
    PROVE  /\ V[i].dest[1] = "." => V[i].dest = Imports!RootIndex /\ V[i].kind = "index"
           /\ V[i].dest[1] = "concepts" => V[i].kind = "concept"
           /\ V[i].dest[1] = "maps" => V[i].kind = "map"
           /\ V[i].dest[1] \in {".", "concepts", "maps"}
           /\ V[i].kind = "concept" => V[i].dest[1] = "concepts"
           /\ V[i].kind = "map" => V[i].dest[1] = "maps"
           /\ V[i].dest[2] = <<"index">> => V[i].dest = Imports!RootIndex
<1>1. \/ V[i].kind = "index" /\ V[i].dest = Imports!RootIndex
      \/ /\ V[i].kind = "concept" /\ V[i].dest[1] = "concepts"
         /\ V[i].dest[2] # <<"index">>
      \/ /\ V[i].kind = "map" /\ V[i].dest[1] = "maps"
         /\ V[i].dest[2] # <<"index">>
  BY DEF Plan
<1> QED BY <1>1, Root

LEMMA MapPath == ASSUME NEW V, NEW p \in Synthesized(V)
                 PROVE  \E d \in Imports!SynthesizedMaps(V) :
                          /\ p = <<"maps", <<d>>>> /\ p[1] = "maps" /\ p[2] = <<d>> /\ p[2][1] = d
<1>1. PICK d \in Imports!SynthesizedMaps(V) : p = <<"maps", <<d>>>>
  BY DEF Synthesized
<1> QED BY <1>1

\* What is written where.
LEMMA Written ==
    ASSUME NEW V, NEW files
    PROVE  \A p : p \in DOMAIN Imports!ImportPlanned(V, files)
                    => p \in Dests(V) \/ p \in Synthesized(V) \/ p = Imports!RootIndex
  BY DEF Imports!ImportPlanned, Dests, Synthesized

LEMMA Reached ==
    ASSUME NEW V, NEW files
    PROVE  \A p : p \in Dests(V) \/ p \in Synthesized(V) \/ p = Imports!RootIndex
                    => p \in DOMAIN Imports!ImportPlanned(V, files)
  BY DEF Imports!ImportPlanned, Dests, Synthesized

ChildrenOf(V, p) == {V[i].dest[2] : i \in Imports!OfDomain(V, p[2][1])}
LastAt(V, p) == Imports!Max({i \in DOMAIN V : V[i].dest = p})
LEMMA MapWritten ==
    ASSUME NEW V, NEW files, NEW p \in Synthesized(V)
    PROVE  Imports!ImportPlanned(V, files)[p] = Imports!NavigationOut(ChildrenOf(V, p), {p[2][1]}, "map")
  BY DEF Imports!ImportPlanned, Dests, Synthesized, ChildrenOf

LEMMA NoteWritten ==
    ASSUME NEW V, NEW files, NEW p \in Dests(V), p \notin Synthesized(V)
    PROVE  Imports!ImportPlanned(V, files)[p] = Imports!NoteOut(V, LastAt(V, p), files)
  BY DEF Imports!ImportPlanned, Dests, Synthesized, LastAt

LEMMA RootWritten ==
    ASSUME NEW V, NEW files, Imports!RootIndex \notin Dests(V), Imports!RootIndex \notin Synthesized(V)
    PROVE  Imports!ImportPlanned(V, files)[Imports!RootIndex] = Imports!NavigationOut(Imports!IndexChildren(V), {}, "index")
  BY DEF Imports!ImportPlanned, Dests, Synthesized

LEMMA SynthesizedIsNew ==
    ASSUME NEW V, Plan(V)
    PROVE  Synthesized(V) \cap Dests(V) = {} /\ Imports!RootIndex \notin Synthesized(V)
<1>1. ASSUME NEW p \in Synthesized(V) PROVE p \notin Dests(V) /\ p # Imports!RootIndex
  <2>1. PICK d \in Imports!SynthesizedMaps(V) : p[1] = "maps" /\ p[2] = <<d>>
    BY MapPath
  <2>2. ~Imports!HasName(V, p[2])
    BY <2>1 DEF Imports!SynthesizedMaps
  <2> QED BY <2>1, <2>2, Root DEF Imports!HasName, Dests
<1> QED BY <1>1

\* The note at a path is one of those that landed there.
LEMMA NoteAt ==
    ASSUME NEW V, Plan(V), NEW files, NEW p \in Dests(V)
    PROVE  /\ p \in DOMAIN Imports!ImportPlanned(V, files)
           /\ \E i \in DOMAIN V : /\ V[i].dest = p
                                  /\ i = LastAt(V, p)
                                  /\ Imports!ImportPlanned(V, files)[p] = Imports!NoteOut(V, i, files)
<1> DEFINE T == {j \in DOMAIN V : V[j].dest = p}
<1>1. PICK n \in Nat : T \subseteq 1 .. n
  BY DEF Plan
<1>2. T # {}
  BY DEF Dests
<1>3. Imports!Max(T) \in T
  <2> HIDE DEF T
  <2> QED BY <1>1, <1>2, MaxIn
<1>4. p \notin Synthesized(V)
  BY SynthesizedIsNew
<1>5. Imports!Max(T) = LastAt(V, p)
  BY DEF LastAt
<1> HIDE DEF T
<1>6. p \in DOMAIN Imports!ImportPlanned(V, files)
  BY Reached
<1>7. Imports!ImportPlanned(V, files)[p] = Imports!NoteOut(V, LastAt(V, p), files)
  BY <1>4, NoteWritten
<1>8. Imports!Max(T) \in DOMAIN V /\ V[Imports!Max(T)].dest = p
  BY <1>3 DEF T
<1> QED BY <1>5, <1>6, <1>7, <1>8

\* Notes of one name have one text.
LEMMA OneText ==
    ASSUME NEW V, Plan(V), NEW files, NEW i \in DOMAIN V, NEW p \in Dests(V), p[2] = V[i].dest[2]
    PROVE  Imports!ImportPlanned(V, files)[p].body = V[i].body
<1>1. PICK k \in DOMAIN V : V[k].dest = p /\ Imports!ImportPlanned(V, files)[p] = Imports!NoteOut(V, k, files)
  BY NoteAt
<1>2. Imports!NoteOut(V, k, files).body = V[k].body
  BY DEF Imports!NoteOut
<1>3. V[k].body = V[i].body
  BY <1>1 DEF Plan
<1> QED BY <1>1, <1>2, <1>3

\* The kind of what is written at a path is its place's.
LEMMA KindAt ==
    ASSUME NEW V, Plan(V), NEW files, NEW p \in DOMAIN Imports!ImportPlanned(V, files)
    PROVE  LET kind == Imports!ImportPlanned(V, files)[p].kind
           IN /\ p[1] \in {".", "concepts", "maps"}
              /\ p[1] = "." => p = Imports!RootIndex /\ kind = "index"
              /\ p[1] = "concepts" => kind = "concept" /\ p \in Dests(V)
              /\ p[1] = "maps" => kind = "map"
              /\ p \in Dests(V) => p = <<p[1], p[2]>>
              /\ p[2] = <<"index">> => p \notin Dests(V) \/ p = Imports!RootIndex
<1> DEFINE out == Imports!ImportPlanned(V, files)
<1>1. p \in Dests(V) \/ p \in Synthesized(V) \/ (p = Imports!RootIndex /\ p \notin Dests(V))
  BY Written
<1>2. CASE p \in Dests(V)
  <2>1. PICK i \in DOMAIN V : V[i].dest = p /\ out[p] = Imports!NoteOut(V, i, files)
    BY <1>2, NoteAt
  <2>2. out[p].kind = V[i].kind
    BY <2>1 DEF Imports!NoteOut
  <2>3. p = <<p[1], p[2]>>
    BY <2>1 DEF Plan
  <2> QED BY <1>2, <2>1, <2>2, <2>3, PlaceGivesKind
<1>3. CASE p \in Synthesized(V)
  <2>1. out[p] = Imports!NavigationOut(ChildrenOf(V, p), {p[2][1]}, "map")
    BY <1>3, MapWritten
  <2>2. out[p].kind = "map"
    BY <2>1 DEF Imports!NavigationOut
  <2>3. p[1] = "maps" /\ p \notin Dests(V)
    BY <1>3, MapPath, SynthesizedIsNew
  <2> QED BY <2>2, <2>3
<1>4. CASE p = Imports!RootIndex /\ p \notin Dests(V)
  <2>1. out[p] = Imports!NavigationOut(Imports!IndexChildren(V), {}, "index")
    BY <1>4, RootWritten, SynthesizedIsNew
  <2>2. out[p].kind = "index"
    BY <2>1 DEF Imports!NavigationOut
  <2> QED BY <1>4, <2>2, Root
<1> QED BY <1>1, <1>2, <1>3, <1>4

LEMMA UniqueNames ==
    ASSUME NEW V, Plan(V), NEW files
    PROVE  Imports!ImportedNamesUnique(Imports!ImportPlanned(V, files))
<1> DEFINE out == Imports!ImportPlanned(V, files)
<1> SUFFICES ASSUME NEW p \in DOMAIN out, NEW q \in DOMAIN out, p[2] = q[2], p # q
             PROVE  \/ Len(p[2]) > 1 /\ out[p].body = out[q].body /\ "map" \in {out[p].kind, out[q].kind}
                    \/ p[2] = Imports!RootIndex[2] /\ "index" \in Imports!Range(ImportDomains)
  BY DEF Imports!ImportedNamesUnique
<1>1. CASE p \in Dests(V) /\ q \in Dests(V)
  <2>1. PICK i \in DOMAIN V, j \in DOMAIN V : V[i].dest = p /\ V[j].dest = q
    BY <1>1 DEF Dests
  <2>2. V[i].body = V[j].body /\ Len(p[2]) > 1
    BY <2>1 DEF Plan
  <2>3. out[p].body = out[q].body
    BY <1>1, <2>1, <2>2, OneText
  <2>4. p[1] # q[1] /\ p[2] # <<"index">>
    BY <1>1, <2>2, KindAt
  <2>5. "map" \in {out[p].kind, out[q].kind}
    BY <2>4, KindAt, Root
  <2> QED BY <2>2, <2>3, <2>5
<1>2. ASSUME NEW r \in Synthesized(V), NEW s \in DOMAIN out, r[2] = s[2], r # s
      PROVE  r[2] = Imports!RootIndex[2] /\ "index" \in Imports!Range(ImportDomains)
  <2>1. PICK d \in Imports!SynthesizedMaps(V) : r = <<"maps", <<d>>>> /\ r[2] = <<d>>
    BY MapPath
  <2>2. s \notin Dests(V)
    BY <1>2, <2>1 DEF Imports!SynthesizedMaps, Imports!HasName, Dests
  <2>3. ASSUME s \in Synthesized(V) PROVE FALSE
    <3>1. PICK e \in Imports!SynthesizedMaps(V) : s = <<"maps", <<e>>>> /\ s[2] = <<e>>
      BY <2>3, MapPath
    <3> QED BY <1>2, <2>1, <3>1
  <2>4. s = Imports!RootIndex
    BY <2>2, <2>3, Written
  <2>5. <<d>> = <<"index">>
    BY <1>2, <2>1, <2>4, Root
  <2>6. d = "index"
    BY <2>5
  <2> QED BY <1>2, <2>4, <2>6 DEF Imports!SynthesizedMaps
<1>3. CASE p \in Synthesized(V) \/ q \in Synthesized(V)
  BY <1>2, <1>3
<1>4. CASE p \notin Synthesized(V) /\ q \notin Synthesized(V) /\ ~(p \in Dests(V) /\ q \in Dests(V))
  <2>1. \/ p = Imports!RootIndex /\ q \in Dests(V)
        \/ q = Imports!RootIndex /\ p \in Dests(V)
    BY <1>4, Written
  <2> QED BY <2>1, KindAt, Root
<1> QED BY <1>1, <1>3, <1>4

-----------------------------------------------------------------------------
LEMMA MaxOf ==
    ASSUME NEW V, Plan(V), NEW T, T \subseteq DOMAIN V, T # {}
    PROVE  Imports!Max(T) \in T
<1>1. PICK n \in Nat : DOMAIN V \subseteq 1 .. n
  BY DEF Plan
<1>2. T \subseteq 1 .. n
  BY <1>1
<1> QED BY <1>2, MaxIn

\* A name some note has leads to a note of that name.
LEMMA PathOfName ==
    ASSUME NEW V, Plan(V), NEW name, Imports!HasName(V, name)
    PROVE  Imports!PathOf(V, name) \in Dests(V) /\ Imports!PathOf(V, name)[2] = name
<1> DEFINE T == {i \in DOMAIN V : V[i].dest[2] = name}
<1>1. T \subseteq DOMAIN V /\ T # {}
  BY DEF Imports!HasName
<1>2. Imports!Max(T) \in T
  <2> HIDE DEF T
  <2> QED BY <1>1, MaxOf
<1> QED BY <1>2 DEF Imports!PathOf, Dests

LEMMA WikiLands ==
    ASSUME NEW V, Plan(V), NEW key, NEW q \in Imports!ConvertedWiki(V, key)
    PROVE  q \in Dests(V) /\ q[2] = Imports!Renamed(V, key)
  BY PathOfName DEF Imports!ConvertedWiki

LEMMA MarkdownLands ==
    ASSUME NEW V, Plan(V), NEW path
    PROVE  /\ \A q \in Imports!Retargeted(V, path) : q \in Dests(V)
           /\ \A j \in Imports!SourceOf(V, path) : V[j].dest \in Imports!Retargeted(V, path)
<1> DEFINE T == Imports!SourceOf(V, path)
<1>1. T \subseteq DOMAIN V /\ \A i, j \in T : i = j
  BY DEF Imports!SourceOf, Plan
<1>2. T # {} => Imports!Max(T) \in T
  <2> HIDE DEF T
  <2> QED BY <1>1, MaxOf
<1>3. CASE T # {}
  <2>1. Imports!Retargeted(V, path) = {V[Imports!Max(T)].dest}
    BY <1>3 DEF Imports!Retargeted
  <2>2. \A j \in T : j = Imports!Max(T)
    BY <1>1, <1>2
  <2> QED BY <1>1, <1>2, <1>3, <2>1, <2>2 DEF Dests
<1>4. CASE T = {}
  <2>1. \/ Imports!Retargeted(V, path) = {}
        \/ /\ Imports!HasName(V, Imports!Renamed(V, path[2]))
           /\ Imports!Retargeted(V, path) = {Imports!PathOf(V, Imports!Renamed(V, path[2]))}
    BY <1>4 DEF Imports!Retargeted
  <2> QED BY <1>4, <2>1, PathOfName
<1> QED BY <1>3, <1>4

LEMMA LinksWithin ==
    ASSUME NEW V, Plan(V), NEW n, NEW q \in Imports!BodyLinks(V, n)
    PROVE  q \in Dests(V)
<1>1. \/ \E p \in n.md : q \in Imports!Retargeted(V, p)
      \/ \E k \in n.wiki : q \in Imports!ConvertedWiki(V, k)
  BY DEF Imports!BodyLinks
<1> QED BY <1>1, WikiLands, MarkdownLands

LEMMA RenamedIs ==
    ASSUME NEW V, Plan(V), NEW key
    PROVE  \/ Imports!Renamed(V, key) = <<key>>
           \/ \E i \in DOMAIN V : V[i].kind = "map" /\ Imports!Renamed(V, key) = V[i].dest[2]
<1> DEFINE T == {i \in DOMAIN V : V[i].kind = "map" /\ V[i].stem = key}
<1>1. T # {} => Imports!Max(T) \in T
  <2>1. T \subseteq DOMAIN V
    OBVIOUS
  <2> HIDE DEF T
  <2> QED BY <2>1, MaxOf
<1>2. Imports!Renamed(V, key) = IF T # {} THEN V[Imports!Max(T)].dest[2] ELSE <<key>>
  BY DEF Imports!Renamed
<1>3. T # {} => Imports!Max(T) \in DOMAIN V /\ V[Imports!Max(T)].kind = "map"
  BY <1>1
<1> HIDE DEF T
<1> QED BY <1>2, <1>3

LEMMA LinksLand ==
    ASSUME NEW V, Plan(V), NEW files
    PROVE  Imports!ImportedLinksLand(V, Imports!ImportPlanned(V, files))
<1> DEFINE out == Imports!ImportPlanned(V, files)
<1> SUFFICES ASSUME NEW i \in DOMAIN V, out[V[i].dest].from = i
             PROVE  LET n == out[V[i].dest]
                    IN /\ \A p \in V[i].md : \A j \in Imports!SourceOf(V, p) :
                            \E q \in n.links : q \in DOMAIN out /\ out[q].body = V[j].body
                       /\ n.links \subseteq DOMAIN out
                       /\ \A k \in V[i].wiki : k \in n.reported
                            \/ \E q \in n.links :
                                 \/ q[2] = <<k>>
                                 \/ \E m \in DOMAIN out : m[2] = q[2] /\ out[m].kind = "map"
  BY DEF Imports!ImportedLinksLand
<1>1. V[i].dest \in Dests(V)
  BY DEF Dests
<1>2. PICK k \in DOMAIN V : out[V[i].dest] = Imports!NoteOut(V, k, files)
  BY <1>1, NoteAt
<1>3. Imports!NoteOut(V, k, files).from = k
  BY DEF Imports!NoteOut
<1>4. out[V[i].dest] = Imports!NoteOut(V, i, files)
  BY <1>2, <1>3
<1>5. PICK n : n = out[V[i].dest]
  OBVIOUS
<1>6. n.links = Imports!BodyLinks(V, V[i]) /\ n.reported = Imports!UnresolvedLinks(V, V[i])
  BY <1>4, <1>5 DEF Imports!NoteOut
<1>7. ASSUME NEW p \in V[i].md, NEW j \in Imports!SourceOf(V, p)
      PROVE  \E q \in n.links : q \in DOMAIN out /\ out[q].body = V[j].body
  <2>1. j \in DOMAIN V /\ V[j].dest \in Dests(V)
    BY DEF Imports!SourceOf, Dests
  <2>2. V[j].dest \in n.links
    BY <1>6, MarkdownLands DEF Imports!BodyLinks
  <2>3. V[j].dest \in DOMAIN out /\ out[V[j].dest].body = V[j].body
    BY <2>1, Reached, OneText
  <2> QED BY <2>2, <2>3
<1>8. n.links \subseteq DOMAIN out
  BY <1>6, LinksWithin, Reached
<1>9. ASSUME NEW key \in V[i].wiki, key \notin n.reported
      PROVE  \E q \in n.links : \/ q[2] = <<key>>
                                 \/ \E m \in DOMAIN out : m[2] = q[2] /\ out[m].kind = "map"
  <2>1. Imports!ConvertedWiki(V, key) # {}
    BY <1>6, <1>9 DEF Imports!UnresolvedLinks
  <2>2. PICK q \in Imports!ConvertedWiki(V, key) : q \in n.links
    BY <1>6, <2>1 DEF Imports!BodyLinks
  <2>3. q[2] = Imports!Renamed(V, key)
    BY WikiLands
  <2>4. ASSUME NEW x \in DOMAIN V, V[x].kind = "map", q[2] = V[x].dest[2]
        PROVE  \E m \in DOMAIN out : m[2] = q[2] /\ out[m].kind = "map"
    <3>1. V[x].dest \in DOMAIN out
      BY Reached DEF Dests
    <3>2. out[V[x].dest].kind = "map"
      BY <2>4, <3>1, PlaceGivesKind, KindAt
    <3> QED BY <2>4, <3>1, <3>2
  <2> QED BY <2>2, <2>3, <2>4, RenamedIs
<1> QED BY <1>5, <1>7, <1>8, <1>9

-----------------------------------------------------------------------------
\* What the import writes into raw/ for a note, and what the note cites then.
LEMMA GroundOf ==
    ASSUME NEW V, Plan(V), NEW files, NEW i \in DOMAIN V, V[i].kind = "concept"
    PROVE  LET ground == Imports!SynthRawSource(V, i, files)
               own == <<"raw", Imports!Shard(V[i]), V[i].dest[2]>>
           IN \/ /\ Imports!FirstCited(V[i], files) \in ground.sources
                 /\ Imports!FirstCited(V[i], files) \in files
                 /\ ground.write = {<<Imports!FirstCited(V[i], files), "vault">>}
              \/ ground.sources = {own} /\ ground.write = {<<own, V[i].body>>}
              \/ ground.sources = {} /\ ground.write = {} /\ ground.stub
<1> DEFINE n == V[i]
           ground == Imports!SynthRawSource(V, i, files)
           own == <<"raw", Imports!Shard(n), n.dest[2]>>
           T == {k \in DOMAIN n.sources : n.sources[k] \in Imports!CitedInVault(n, files)}
<1>1. CASE Imports!CitedInVault(n, files) # {}
  <2>1. T # {}
    BY <1>1 DEF Imports!CitedInVault, Imports!RawSources, Imports!Range
  <2>2. PICK m \in Nat : DOMAIN n.sources = 1 .. m
    BY DEF Plan
  <2>3. T \subseteq 1 .. m
    BY <2>2
  <2>4. Imports!Min(T) \in T
    <3> HIDE DEF T
    <3> QED BY <2>1, <2>2, <2>3, MinIn
  <2>5. Imports!FirstCited(n, files) \in Imports!CitedInVault(n, files)
    BY <2>4 DEF Imports!FirstCited
  <2>6. Imports!FirstCited(n, files) \in Imports!RawSources(n) /\ Imports!FirstCited(n, files) \in files
    BY <2>5 DEF Imports!CitedInVault
  <2>7. ground = [write |-> {<<Imports!FirstCited(n, files), "vault">>}, sources |-> Imports!RawSources(n),
                  stub |-> FALSE]
    BY <1>1 DEF Imports!SynthRawSource
  <2> QED BY <2>6, <2>7
<1>2. CASE Imports!CitedInVault(n, files) = {} /\ n.body # Imports!NoText
  <2>1. ground = [write |-> {<<own, n.body>>}, sources |-> {own}, stub |-> FALSE]
    BY <1>2 DEF Imports!SynthRawSource
  <2> QED BY <2>1
<1>3. CASE Imports!CitedInVault(n, files) = {} /\ n.body = Imports!NoText
  <2>1. ground = [write |-> {}, sources |-> {}, stub |-> TRUE]
    BY <1>3 DEF Imports!SynthRawSource
  <2> QED BY <2>1
<1> QED BY <1>1, <1>2, <1>3

LEMMA OtherGround ==
    ASSUME NEW V, Plan(V), NEW files, NEW i \in DOMAIN V, V[i].kind # "concept"
    PROVE  Imports!SynthRawSource(V, i, files).write = {}
  BY DEF Imports!SynthRawSource

WritesTo(V, files, i, s) == \E w \in Imports!SynthRawSource(V, i, files).write : w[1] = s
LastTo(V, files, s) == Imports!Max({i \in DOMAIN V : WritesTo(V, files, i, s)})
LEMMA RawWritten ==
    ASSUME NEW V, NEW files
    PROVE  /\ \A s : s \in DOMAIN Imports!ImportedRaw(V, files)
                       => \E i \in DOMAIN V : WritesTo(V, files, i, s)
           /\ \A s : (\E i \in DOMAIN V : WritesTo(V, files, i, s))
                       => s \in DOMAIN Imports!ImportedRaw(V, files)
  BY DEF Imports!ImportedRaw, WritesTo

LEMMA RawAt ==
    ASSUME NEW V, NEW files, NEW s \in DOMAIN Imports!ImportedRaw(V, files)
    PROVE  Imports!ImportedRaw(V, files)[s] =
             (CHOOSE w \in Imports!SynthRawSource(V, LastTo(V, files, s), files).write : w[1] = s)[2]
  BY DEF Imports!ImportedRaw, WritesTo, LastTo

LEMMA RawHolds ==
    ASSUME NEW V, Plan(V), NEW files, NEW s \in DOMAIN Imports!ImportedRaw(V, files), s \notin files
    PROVE  \E k \in DOMAIN V : s[3] = V[k].dest[2] /\ Imports!ImportedRaw(V, files)[s] = V[k].body
<1> DEFINE T == {i \in DOMAIN V : WritesTo(V, files, i, s)}
<1>1. T \subseteq DOMAIN V /\ T # {}
  BY RawWritten
<1>2. Imports!Max(T) \in T
  <2> HIDE DEF T
  <2> QED BY <1>1, MaxOf
<1>3. PICK k \in DOMAIN V : k = LastTo(V, files, s) /\ WritesTo(V, files, k, s)
  BY <1>2 DEF LastTo
<1>4. PICK w \in Imports!SynthRawSource(V, k, files).write : w[1] = s
  BY <1>3 DEF WritesTo
<1>5. V[k].kind = "concept"
  BY <1>4, OtherGround
<1>6. PICK own : own = <<"raw", Imports!Shard(V[k]), V[k].dest[2]>>
  OBVIOUS
<1>7. Imports!SynthRawSource(V, k, files).write = {<<own, V[k].body>>}
  <2>1. \/ /\ Imports!SynthRawSource(V, k, files).write = {<<Imports!FirstCited(V[k], files), "vault">>}
           /\ Imports!FirstCited(V[k], files) \in files
        \/ Imports!SynthRawSource(V, k, files).write = {<<own, V[k].body>>}
        \/ Imports!SynthRawSource(V, k, files).write = {}
    BY <1>5, <1>6, GroundOf
  <2> QED BY <1>4, <2>1
<1>8. own = s /\ own[3] = V[k].dest[2]
  BY <1>4, <1>6, <1>7
<1>9. (CHOOSE x \in {<<own, V[k].body>>} : x[1] = s)[2] = V[k].body
  <2>1. PICK t, b : t = <<own, b>> /\ b = V[k].body
    OBVIOUS
  <2>2. t[1] = s /\ t[2] = b
    BY <1>8, <2>1
  <2>3. (CHOOSE x \in {t} : x[1] = s) \in {t}
    BY <2>2
  <2>4. (CHOOSE x \in {t} : x[1] = s)[2] = b
    BY <2>2, <2>3
  <2> QED BY <2>1, <2>4
<1> QED BY <1>3, <1>7, <1>8, <1>9, RawAt

LEMMA ConceptsGrounded ==
    ASSUME NEW V, Plan(V), NEW files
    PROVE  Imports!ImportedConceptsGrounded(Imports!ImportPlanned(V, files), Imports!ImportedRaw(V, files), files)
<1> DEFINE out == Imports!ImportPlanned(V, files)
           raw == Imports!ImportedRaw(V, files)
<1> SUFFICES ASSUME NEW p \in DOMAIN out, out[p].kind = "concept"
             PROVE  /\ out[p].sources # {} \/ out[p].status = "stub"
                    /\ out[p].sources # {} => out[p].sources \cap DOMAIN raw # {}
                    /\ \A s \in (out[p].sources \cap DOMAIN raw) \ files :
                         s[3] = p[2] => raw[s] = out[p].body
  BY DEF Imports!ImportedConceptsGrounded
<1>1. p \in Dests(V)
  BY KindAt
<1>2. PICK i \in DOMAIN V : V[i].dest = p /\ out[p] = Imports!NoteOut(V, i, files)
  BY <1>1, NoteAt
<1>3. PICK n, ground : n = out[p] /\ ground = Imports!SynthRawSource(V, i, files)
  OBVIOUS
<1>4. /\ n.sources = ground.sources /\ n.status = Imports!ImportedStatus(V[i], ground.stub)
      /\ n.kind = V[i].kind /\ n.body = V[i].body
  BY <1>2, <1>3 DEF Imports!NoteOut
<1>5. PICK own, first : own = <<"raw", Imports!Shard(V[i]), V[i].dest[2]>> /\ first = Imports!FirstCited(V[i], files)
  OBVIOUS
<1>6. \/ first \in ground.sources /\ ground.write = {<<first, "vault">>}
      \/ ground.sources = {own} /\ ground.write = {<<own, V[i].body>>}
      \/ ground.sources = {} /\ ground.stub
  BY <1>3, <1>4, <1>5, GroundOf
<1>7. ground.stub => n.status = "stub"
  BY <1>4 DEF Imports!ImportedStatus
<1>8. n.sources # {} \/ n.status = "stub"
  BY <1>4, <1>6, <1>7
<1>9. n.sources # {} => n.sources \cap DOMAIN raw # {}
  <2>1. ASSUME NEW s, NEW t, s \in ground.sources, ground.write = {<<s, t>>}
        PROVE  s \in n.sources \cap DOMAIN raw
    <3>1. WritesTo(V, files, i, s)
      BY <1>3, <2>1 DEF WritesTo
    <3> QED BY <1>4, <2>1, <3>1, RawWritten
  <2>2. own \in ground.sources /\ ground.write = {<<own, V[i].body>>} => own \in n.sources \cap DOMAIN raw
    BY <2>1
  <2> QED BY <1>4, <1>6, <2>1, <2>2
<1>10. ASSUME NEW s \in (n.sources \cap DOMAIN raw) \ files, s[3] = p[2]
       PROVE  raw[s] = n.body
  <2>1. PICK k \in DOMAIN V : s[3] = V[k].dest[2] /\ raw[s] = V[k].body
    BY RawHolds
  <2>2. V[k].dest[2] = V[i].dest[2]
    BY <1>2, <1>10, <2>1
  <2>3. V[k].body = V[i].body
    <3>1. CASE k = i
      BY <3>1
    <3>2. CASE k # i
      BY <2>2, <3>2 DEF Plan
    <3> QED BY <3>1, <3>2
  <2> QED BY <1>4, <2>1, <2>3
<1> QED BY <1>3, <1>8, <1>9, <1>10

-----------------------------------------------------------------------------
LEMMA RootChildren ==
    ASSUME NEW V, Plan(V), NEW files
    PROVE  /\ Imports!RootIndex \in DOMAIN Imports!ImportPlanned(V, files)
           /\ Imports!ImportPlanned(V, files)[Imports!RootIndex].children = Imports!IndexChildren(V)
<1>1. CASE Imports!RootIndex \in Dests(V)
  <2>1. PICK i \in DOMAIN V : V[i].dest = Imports!RootIndex /\ Imports!ImportPlanned(V, files)[Imports!RootIndex] = Imports!NoteOut(V, i, files)
    BY <1>1, NoteAt
  <2>2. Imports!NoteOut(V, i, files).children =
          CASE V[i].dest = Imports!RootIndex -> Imports!IndexChildren(V)
            [] V[i].kind = "map" -> Imports!SyncedChildren(V, V[i])
            [] OTHER -> {}
    BY DEF Imports!NoteOut
  <2>3. V[i].kind = "index"
    BY <2>1, PlaceGivesKind, Root
  <2>4. Imports!NoteOut(V, i, files).children = Imports!IndexChildren(V)
    <3>1. "index" # "map"
      OBVIOUS
    <3> QED BY <2>1, <2>2, <2>3, <3>1
  <2> QED BY <2>1, <2>4, Reached
<1>2. CASE Imports!RootIndex \notin Dests(V)
  <2>1. Imports!ImportPlanned(V, files)[Imports!RootIndex] = Imports!NavigationOut(Imports!IndexChildren(V), {}, "index")
    BY <1>2, RootWritten, SynthesizedIsNew
  <2>2. Imports!NavigationOut(Imports!IndexChildren(V), {}, "index").children = Imports!IndexChildren(V)
    BY DEF Imports!NavigationOut
  <2> QED BY <2>1, <2>2, Reached
<1> QED BY <1>1, <1>2

\* A child a map may list is one that was written.
LEMMA NoteIsChild ==
    ASSUME NEW V, Plan(V), NEW files, NEW i \in DOMAIN V, V[i].kind \in Imports!AdmittedChildKinds
    PROVE  \E q \in DOMAIN Imports!ImportPlanned(V, files) :
             q[2] = V[i].dest[2] /\ Imports!ImportPlanned(V, files)[q].kind \in Imports!AdmittedChildKinds
<1>1. V[i].dest \in DOMAIN Imports!ImportPlanned(V, files)
  BY Reached DEF Dests
<1>2. V[i].dest[1] \in {"concepts", "maps"}
  BY PlaceGivesKind DEF Imports!AdmittedChildKinds
<1>3. Imports!ImportPlanned(V, files)[V[i].dest].kind \in Imports!AdmittedChildKinds
  BY <1>1, <1>2, KindAt DEF Imports!AdmittedChildKinds
<1> QED BY <1>1, <1>3

LEMMA SyncedIsChild ==
    ASSUME NEW V, Plan(V), NEW files, NEW n, NEW c \in Imports!SyncedChildren(V, n)
    PROVE  \E q \in DOMAIN Imports!ImportPlanned(V, files) :
             q[2] = c /\ Imports!ImportPlanned(V, files)[q].kind \in Imports!AdmittedChildKinds
<1>1. PICK i \in DOMAIN V : V[i].dest[2] = c /\ V[i].kind \in Imports!AdmittedChildKinds
  BY DEF Imports!SyncedChildren
<1> QED BY <1>1, NoteIsChild

LEMMA MapIsChild ==
    ASSUME NEW V, Plan(V), NEW files, NEW c \in Imports!MapNames(V)
    PROVE  \E q \in DOMAIN Imports!ImportPlanned(V, files) :
             q[2] = c /\ Imports!ImportPlanned(V, files)[q].kind \in Imports!AdmittedChildKinds
<1>1. CASE \E i \in DOMAIN V : V[i].kind = "map" /\ c = V[i].dest[2]
  <2>1. PICK i \in DOMAIN V : V[i].kind = "map" /\ c = V[i].dest[2]
    BY <1>1
  <2> QED BY <2>1, NoteIsChild DEF Imports!AdmittedChildKinds
<1>2. CASE \E d \in Imports!SynthesizedMaps(V) : c = <<d>>
  <2>1. PICK d \in Imports!SynthesizedMaps(V) : c = <<d>>
    BY <1>2
  <2>2. PICK q : q = <<"maps", c>>
    OBVIOUS
  <2>3. q[1] = "maps" /\ q[2] = c /\ q \in Synthesized(V)
    BY <2>1, <2>2 DEF Synthesized
  <2>4. q \in DOMAIN Imports!ImportPlanned(V, files)
    BY <2>3, Reached
  <2>5. Imports!ImportPlanned(V, files)[q].kind = "map"
    BY <2>3, <2>4, KindAt
  <2> QED BY <2>3, <2>4, <2>5 DEF Imports!AdmittedChildKinds
<1> QED BY <1>1, <1>2 DEF Imports!MapNames

LEMMA Navigates ==
    ASSUME NEW V, Plan(V), NEW files
    PROVE  Imports!NavigationComplete(V, Imports!ImportPlanned(V, files))
<1> DEFINE out == Imports!ImportPlanned(V, files)
<1>1. ASSUME NEW p \in DOMAIN out, out[p].kind = "map" PROVE p[2] \in out[Imports!RootIndex].children
  <2>1. p[2] \in Imports!MapNames(V)
    <3>1. p # Imports!RootIndex
      BY <1>1, KindAt, Root
    <3>2. CASE p \in Dests(V)
      <4>1. PICK i \in DOMAIN V : V[i].dest = p
        BY <3>2 DEF Dests
      <4>2. V[i].kind = "map"
        BY <1>1, <4>1, KindAt, PlaceGivesKind
      <4> QED BY <4>1, <4>2 DEF Imports!MapNames
    <3>3. CASE p \in Synthesized(V)
      BY <3>3, MapPath DEF Imports!MapNames
    <3> QED BY <3>1, <3>2, <3>3, Written
  <2>2. Imports!MapNames(V) \subseteq Imports!IndexChildren(V)
    BY DEF Imports!IndexChildren
  <2> QED BY <2>1, <2>2, RootChildren
<1>2. ASSUME NEW d \in Imports!Range(ImportDomains), NEW i \in Imports!OfDomain(V, d)
      PROVE  \E p \in DOMAIN out : /\ p[2] = <<d>>
                                   /\ out[p].from = 0 => V[i].dest[2] \in out[p].children
  <2>1. CASE Imports!HasName(V, <<d>>)
    <3>1. PICK p \in Dests(V) : p[2] = <<d>>
      BY <2>1 DEF Imports!HasName, Dests
    <3>2. PICK k \in DOMAIN V : out[p] = Imports!NoteOut(V, k, files)
      BY NoteAt
    <3>3. out[p].from = k
      BY <3>2 DEF Imports!NoteOut
    <3>4. k # 0
      BY DEF Plan
    <3> QED BY <3>1, <3>3, <3>4, Reached
  <2>2. CASE ~Imports!HasName(V, <<d>>)
    <3>1. d \in Imports!SynthesizedMaps(V)
      BY <2>2 DEF Imports!SynthesizedMaps
    <3>2. PICK p : p = <<"maps", <<d>>>>
      OBVIOUS
    <3>3. p[2] = <<d>> /\ p[2][1] = d /\ p \in Synthesized(V)
      BY <3>1, <3>2 DEF Synthesized
    <3>4. out[p] = Imports!NavigationOut(ChildrenOf(V, p), {p[2][1]}, "map")
      BY <3>3, MapWritten
    <3>5. out[p].children = ChildrenOf(V, p)
      BY <3>4 DEF Imports!NavigationOut
    <3>6. V[i].dest[2] \in ChildrenOf(V, p)
      BY <3>3 DEF ChildrenOf
    <3> QED BY <3>3, <3>5, <3>6, Reached
  <2> QED BY <2>1, <2>2
<1>3. ASSUME NEW p \in DOMAIN out, NEW c \in out[p].children
      PROVE  \E q \in DOMAIN out : q[2] = c /\ out[q].kind \in Imports!AdmittedChildKinds
  <2>1. CASE p \in Synthesized(V)
    <3>1. out[p] = Imports!NavigationOut(ChildrenOf(V, p), {p[2][1]}, "map")
      BY <2>1, MapWritten
    <3>2. c \in ChildrenOf(V, p)
      BY <1>3, <3>1 DEF Imports!NavigationOut
    <3>3. PICK i \in DOMAIN V : V[i].kind = "concept" /\ c = V[i].dest[2]
      BY <3>2 DEF ChildrenOf, Imports!OfDomain
    <3> QED BY <3>3, NoteIsChild DEF Imports!AdmittedChildKinds
  <2>2. CASE p = Imports!RootIndex
    <3>1. c \in Imports!IndexChildren(V)
      BY <1>3, <2>2, RootChildren
    <3>2. c \in Imports!MapNames(V) \/ \E n : c \in Imports!SyncedChildren(V, n)
      BY <3>1 DEF Imports!IndexChildren
    <3> QED BY <3>2, MapIsChild, SyncedIsChild
  <2>3. CASE p \in Dests(V) /\ p # Imports!RootIndex
    <3>1. PICK i \in DOMAIN V : V[i].dest = p /\ out[p] = Imports!NoteOut(V, i, files)
      BY <2>3, NoteAt
    <3>2. Imports!NoteOut(V, i, files).children \subseteq Imports!SyncedChildren(V, V[i])
      BY <2>3, <3>1 DEF Imports!NoteOut
    <3> QED BY <1>3, <3>1, <3>2, SyncedIsChild
  <2> QED BY <2>1, <2>2, <2>3, Written
<1> QED BY <1>1, <1>2, <1>3 DEF Imports!NavigationComplete

\* What one import promises, of any vault and any files in its raw/.
THEOREM FaithfulImport == ASSUME NEW vault, Imports!IsVault(vault), NEW files
                          PROVE  Imports!PlanHolds(Imports!Planned(Imports!ScanNotes(vault)), files)
<1>1. PICK V : V = Imports!Planned(Imports!ScanNotes(vault))
  OBVIOUS
<1>2. Plan(V) /\ Imports!NotesKept(V)
  BY <1>1, ScanKept, PlannedIsPlan, KeepsNotes
<1> QED BY <1>1, <1>2, UniqueNames, LinksLand, ConceptsGrounded, Navigates DEF Imports!PlanHolds, Imports!ImportHolds

-----------------------------------------------------------------------------
(* A conversion of a schema-1 repo.                                        *)

LEMMA LastIn ==
    ASSUME NEW S, S # {}, NEW n \in Nat, S \subseteq 1 .. n
    PROVE  Converts!Max(S) \in S
<1>1. \E x \in S : \A y \in S : x >= y
  BY NatMax
<1> QED BY <1>1 DEF Converts!Max

KbDomainsOK == \E n \in Nat : Len(KbDomainList) = n /\ DOMAIN KbDomainList = 1 .. n
Finite(K) == \E n \in Nat : DOMAIN K = 1 .. n

\* (The module of the conversion counts with the FiniteSets it extends.)
LEMMA CardinalityIs == ASSUME NEW S PROVE Converts!Cardinality(S) = Cardinality(S)
  BY DEF Converts!Cardinality, Cardinality

LEMMA RankIsNat == ASSUME KbDomainsOK, NEW n PROVE Converts!DomainRank(n) \in Nat
<1> DEFINE T == {i \in DOMAIN KbDomainList : KbDomainList[i] = Converts!KbSubject(n)}
<1>1. PICK m \in Nat : Len(KbDomainList) = m /\ DOMAIN KbDomainList = 1 .. m
  BY DEF KbDomainsOK
<1>2. CASE T = {}
  <2> DEFINE R == Converts!Range(KbDomainList)
             s == [i \in 1 .. m |-> KbDomainList[i]]
  <2>1. IsFiniteSet(1 .. m)
    BY FS_Interval
  <2>2. s \in Surjection(1 .. m, R)
    BY <1>1 DEF Surjection, Converts!Range
  <2>3. IsFiniteSet(R)
    BY <2>1, <2>2, FS_Surjection
  <2>4. Cardinality(R) \in Nat
    BY <2>3, FS_CardinalityType
  <2>5. Converts!Cardinality(R) = Cardinality(R)
    BY CardinalityIs
  <2>6. Converts!DomainRank(n) = Converts!Cardinality(R) + 1
    BY <1>2 DEF Converts!DomainRank
  <2> HIDE DEF R
  <2> QED BY <2>4, <2>5, <2>6
<1>3. CASE T # {}
  <2>1. Converts!DomainRank(n) = Converts!Max(T)
    BY <1>3 DEF Converts!DomainRank
  <2>2. T \subseteq 1 .. m
    BY <1>1
  <2>3. Converts!Max(T) \in T
    <3> HIDE DEF T
    <3> QED BY <1>3, <2>2, LastIn
  <2> QED BY <2>1, <2>2, <2>3
<1> QED BY <1>2, <1>3

\* Of two notes one comes first, and what comes before the first comes before both.
LEMMA EarlierOrders ==
    ASSUME KbDomainsOK, NEW K, Finite(K), NEW i \in DOMAIN K, NEW j \in DOMAIN K
    PROVE  /\ ~Converts!Earlier(K, i, i)
           /\ i # j => Converts!Earlier(K, i, j) \/ Converts!Earlier(K, j, i)
           /\ \A h \in DOMAIN K : Converts!Earlier(K, h, i) /\ Converts!Earlier(K, i, j) => Converts!Earlier(K, h, j)
           /\ ~Converts!Earlier(K, j, i) => Converts!DomainRank(K[i]) <= Converts!DomainRank(K[j])
<1>1. \A h \in DOMAIN K : h \in Nat /\ Converts!DomainRank(K[h]) \in Nat
  BY RankIsNat DEF Finite
<1> QED BY <1>1 DEF Converts!Earlier

LEMMA MergedFinite ==
    ASSUME NEW K, Finite(K), NEW p, NEW T \in SUBSET Converts!Merged(K, p)
    PROVE  IsFiniteSet(T) /\ Cardinality(T) \in Nat /\ Cardinality(T) <= Cardinality(Converts!Merged(K, p))
<1>1. PICK n \in Nat : DOMAIN K = 1 .. n
  BY DEF Finite
<1>2. IsFiniteSet(1 .. n)
  BY FS_Interval
<1>3. Converts!Merged(K, p) \in SUBSET (1 .. n)
  BY <1>1 DEF Converts!Merged
<1>4. IsFiniteSet(Converts!Merged(K, p))
  BY <1>2, <1>3, FS_Subset
<1>5. IsFiniteSet(T) /\ Cardinality(T) <= Cardinality(Converts!Merged(K, p))
  BY <1>4, FS_Subset
<1> QED BY <1>5, FS_CardinalityType

LEMMA BeforeGrows ==
    ASSUME KbDomainsOK, NEW K, Finite(K), NEW p,
           NEW i \in Converts!Merged(K, p), NEW j \in Converts!Merged(K, p), Converts!Earlier(K, i, j)
    PROVE  Converts!Before(K, p, i) < Converts!Before(K, p, j)
<1> DEFINE T(m) == {h \in Converts!Merged(K, p) : Converts!Earlier(K, h, m)}
<1>1. i \in DOMAIN K /\ j \in DOMAIN K /\ Converts!Merged(K, p) \subseteq DOMAIN K
  BY DEF Converts!Merged
<1>2. T(i) \cup {i} \subseteq T(j) /\ i \notin T(i)
  BY <1>1, EarlierOrders
<1>3. T(i) \in SUBSET Converts!Merged(K, p) /\ T(j) \in SUBSET Converts!Merged(K, p)
  OBVIOUS
<1>4. Converts!Before(K, p, i) = Cardinality(T(i)) /\ Converts!Before(K, p, j) = Cardinality(T(j))
  BY CardinalityIs DEF Converts!Before
<1> HIDE DEF T
<1>5. /\ IsFiniteSet(T(i)) /\ IsFiniteSet(T(j))
      /\ Cardinality(T(i)) \in Nat /\ Cardinality(T(j)) \in Nat
  BY <1>3, MergedFinite
<1>6. Cardinality(T(i) \cup {i}) = Cardinality(T(i)) + 1
  BY <1>2, <1>5, FS_AddElement
<1>7. Cardinality(T(i) \cup {i}) <= Cardinality(T(j))
  BY <1>2, <1>5, FS_Subset
<1> QED BY <1>4, <1>5, <1>6, <1>7

LEMMA BeforeBound ==
    ASSUME KbDomainsOK, NEW K, Finite(K), NEW p, NEW i \in Converts!Merged(K, p)
    PROVE  Converts!Before(K, p, i) \in Nat /\ Converts!Before(K, p, i) < Cardinality(Converts!Merged(K, p))
<1> DEFINE T == {h \in Converts!Merged(K, p) : Converts!Earlier(K, h, i)}
<1>1. i \in DOMAIN K /\ i \notin T /\ T \in SUBSET Converts!Merged(K, p)
  BY EarlierOrders DEF Converts!Merged
<1>2. Converts!Before(K, p, i) = Cardinality(T)
  BY CardinalityIs DEF Converts!Before
<1> HIDE DEF T
<1>3. /\ IsFiniteSet(T) /\ IsFiniteSet(Converts!Merged(K, p))
      /\ Cardinality(T) \in Nat /\ Cardinality(Converts!Merged(K, p)) \in Nat
  BY <1>1, MergedFinite
<1>4. Cardinality(T \cup {i}) = Cardinality(T) + 1
  BY <1>1, <1>3, FS_AddElement
<1>5. Cardinality(T \cup {i}) <= Cardinality(Converts!Merged(K, p))
  BY <1>1, <1>3, FS_Subset
<1> QED BY <1>2, <1>3, <1>4, <1>5

\* The places are the notes, one each, in order.
LEMMA Places ==
    ASSUME KbDomainsOK, NEW K, Finite(K), NEW p
    PROVE  LET S == Converts!Merged(K, p) n == Cardinality(S)
           IN /\ n \in Nat
              /\ \A k \in 1 .. n : \E i \in S : Converts!Before(K, p, i) = k - 1
              /\ \A i, j \in S : Converts!Before(K, p, i) = Converts!Before(K, p, j) => i = j
<1> DEFINE S == Converts!Merged(K, p)
           n == Cardinality(S)
           f == [i \in S |-> Converts!Before(K, p, i) + 1]
<1>1. IsFiniteSet(S) /\ n \in Nat
  BY MergedFinite
<1>2. ASSUME NEW i \in S, NEW j \in S, Converts!Before(K, p, i) = Converts!Before(K, p, j) PROVE i = j
  <2>1. i \in DOMAIN K /\ j \in DOMAIN K
    BY DEF Converts!Merged
  <2>2. Converts!Before(K, p, i) \in Nat
    BY BeforeBound
  <2>3. ~Converts!Earlier(K, i, j) /\ ~Converts!Earlier(K, j, i)
    BY <1>2, <2>2, BeforeGrows
  <2> QED BY <2>1, <2>3, EarlierOrders
<1>3. \A i \in S : Converts!Before(K, p, i) \in Nat /\ Converts!Before(K, p, i) < n
  BY BeforeBound
<1>4. f \in [S -> 1 .. n] /\ \A i, j \in S : f[i] = f[j] => i = j
  <2> HIDE DEF S, n
  <2> QED BY <1>1, <1>2, <1>3
<1>5. f \in Injection(S, 1 .. n)
  BY <1>4 DEF Injection, IsInjective
<1>6. IsFiniteSet(1 .. n) /\ Cardinality(1 .. n) = n
  <2> HIDE DEF n
  <2> QED BY <1>1, FS_Interval
<1>7. f \in Surjection(S, 1 .. n)
  <2> HIDE DEF f
  <2> QED BY <1>5, <1>6, FS_Injection
<1>8. \A k \in 1 .. n : \E i \in S : f[i] = k
  BY <1>7 DEF Surjection
<1>9. \A k \in 1 .. n : \E i \in S : Converts!Before(K, p, i) = k - 1
  <2> HIDE DEF S, n
  <2> QED BY <1>1, <1>3, <1>8
<1> QED BY <1>1, <1>2, <1>9

\* A destination note comes from the notes of its path, each once, in order.
LEMMA ContributorsAre ==
    ASSUME KbDomainsOK, NEW K, Finite(K), NEW p
    PROVE  LET from == Converts!Contributors(K, p) n == Cardinality(Converts!Merged(K, p))
           IN /\ n \in Nat /\ DOMAIN from = 1 .. n /\ Len(from) = n
              /\ \A k \in 1 .. n : from[k] \in Converts!Merged(K, p)
              /\ \A i \in Converts!Merged(K, p) : \E k \in 1 .. n : from[k] = i
              /\ \A k \in 1 .. n - 1 : ~Converts!Earlier(K, from[k + 1], from[k])
<1> DEFINE S == Converts!Merged(K, p)
           n == Cardinality(S)
           from == Converts!Contributors(K, p)
<1>1. n \in Nat
  BY MergedFinite
<1>2. from = [k \in 1 .. n |-> CHOOSE i \in S : Converts!Before(K, p, i) = k - 1]
  BY CardinalityIs DEF Converts!Contributors
<1>3. \A k \in 1 .. n : from[k] \in S /\ Converts!Before(K, p, from[k]) = k - 1
  <2>1. \A k \in 1 .. n : \E i \in S : Converts!Before(K, p, i) = k - 1
    BY Places
  <2> HIDE DEF S, n, from
  <2> QED BY <1>2, <2>1
<1>4. DOMAIN from = 1 .. n
  <2> HIDE DEF S, n, from
  <2> QED BY <1>2
<1>5. Len(from) = n
  <2> HIDE DEF S, n, from
  <2> QED BY <1>1, <1>2
<1>6. ASSUME NEW i \in S PROVE \E k \in 1 .. n : from[k] = i
  <2>1. Converts!Before(K, p, i) \in Nat /\ Converts!Before(K, p, i) < n
    BY BeforeBound
  <2>2. PICK k \in 1 .. n : k = Converts!Before(K, p, i) + 1
    <3> HIDE DEF n
    <3> QED BY <1>1, <2>1
  <2>3. Converts!Before(K, p, from[k]) = Converts!Before(K, p, i) /\ from[k] \in S
    <3> HIDE DEF S, n, from
    <3> QED BY <1>1, <1>3, <2>1, <2>2
  <2>4. from[k] = i
    <3> HIDE DEF from
    <3> QED BY <2>3, Places
  <2> QED BY <2>4
<1>7. ASSUME NEW k \in 1 .. n - 1, Converts!Earlier(K, from[k + 1], from[k]) PROVE FALSE
  <2> HIDE DEF S, n, from
  <2>1. k \in 1 .. n /\ k + 1 \in 1 .. n
    BY <1>1
  <2>2. from[k] \in S /\ from[k + 1] \in S /\ Converts!Before(K, p, from[k]) = k - 1 /\ Converts!Before(K, p, from[k + 1]) = (k + 1) - 1
    BY <1>3, <2>1
  <2>3. Converts!Before(K, p, from[k + 1]) < Converts!Before(K, p, from[k])
    BY <1>7, <2>2, BeforeGrows DEF S
  <2> QED BY <2>1, <2>2, <2>3
<1> QED BY <1>1, <1>3, <1>4, <1>5, <1>6, <1>7

-----------------------------------------------------------------------------
OneAlone(K) == \A i, j \in DOMAIN K : i # j /\ Converts!PlanNote(K[i])[2] = Converts!PlanNote(K[j])[2]
                 => Converts!PlannedKind(K[i]) = "note" /\ Converts!PlannedKind(K[j]) = "note"
LEMMA Apart == ASSUME NEW K, ~Converts!Collides(K) PROVE OneAlone(K)
  BY DEF Converts!Collides, OneAlone

DestPaths(K) == {Converts!PlanNote(K[i]) : i \in DOMAIN K}
LEMMA Converted ==
    ASSUME NEW x, ~Converts!Refuses(x)
    PROVE  /\ DOMAIN Converts!Convert(x).notes = DestPaths(x.kb)
           /\ \A p \in DestPaths(x.kb) : Converts!Convert(x).notes[p] = Converts!DestNote(x.kb, p)
           /\ Converts!Convert(x).raw = x.raw
  BY DEF Converts!Convert, DestPaths

LEMMA RefusedWritesNothing ==
    ASSUME NEW x, Converts!Refuses(x)
    PROVE  DOMAIN Converts!Convert(x).notes = {} /\ Converts!Convert(x).raw = {}
  BY DEF Converts!Convert

\* The parts of a destination note.
LEMMA NoteParts ==
    ASSUME KbDomainsOK, NEW K, Finite(K), NEW p
    PROVE  LET note == Converts!DestNote(K, p) from == Converts!Contributors(K, p)
           IN /\ note.from = from /\ note.kind = Converts!PlannedKind(K[from[1]])
              /\ DOMAIN note.sections = DOMAIN from
              /\ \A k \in DOMAIN from :
                   /\ note.sections[k].text = K[from[k]].body
                   /\ note.sections[k].md = UNION {Converts!RetargetLink(K, l) : l \in K[from[k]].md}
                   /\ note.sections[k].wiki = {Converts!RenamedStem(K, s) : s \in K[from[k]].wiki}
              /\ \A i \in Converts!Range(from) : K[i].tags \subseteq note.tags
              /\ note.kind \in {"concept", "note"} =>
                   \A i \in Converts!Range(from) : K[i].sources \subseteq note.sources
              /\ note.kind \in {"map", "index"} =>
                   note.children = {Converts!RenamedStem(K, s) : s \in K[from[1]].children}
<1>1. PICK from : from = Converts!Contributors(K, p)
  OBVIOUS
<1>2. /\ Converts!DestNote(K, p).from = from /\ Converts!DestNote(K, p).kind = Converts!PlannedKind(K[from[1]])
      /\ Converts!DestNote(K, p).sections = [k \in DOMAIN from |-> Converts!RewriteBody(K, K[from[k]])]
      /\ Converts!DestNote(K, p).tags = UNION {K[i].tags : i \in Converts!Range(from)}
  BY <1>1 DEF Converts!DestNote
<1>3. Converts!DestNote(K, p).sources =
        IF Converts!PlannedKind(K[from[1]]) \in {"concept", "note"}
        THEN UNION {K[i].sources : i \in Converts!Range(from)} ELSE {}
  BY <1>1 DEF Converts!DestNote
<1>4. Converts!DestNote(K, p).children =
        IF Converts!PlannedKind(K[from[1]]) \in {"map", "index"}
        THEN {Converts!RenamedStem(K, s) : s \in K[from[1]].children} ELSE {}
  BY <1>1 DEF Converts!DestNote
<1>5. \A n : /\ Converts!RewriteBody(K, n).text = n.body
             /\ Converts!RewriteBody(K, n).md = UNION {Converts!RetargetLink(K, l) : l \in n.md}
             /\ Converts!RewriteBody(K, n).wiki = {Converts!RenamedStem(K, s) : s \in n.wiki}
  BY DEF Converts!RewriteBody
<1>6. PICK note : note = Converts!DestNote(K, p)
  OBVIOUS
<1>7. /\ DOMAIN note.sections = DOMAIN from
      /\ \A k \in DOMAIN from :
           /\ note.sections[k].text = K[from[k]].body
           /\ note.sections[k].md = UNION {Converts!RetargetLink(K, l) : l \in K[from[k]].md}
           /\ note.sections[k].wiki = {Converts!RenamedStem(K, s) : s \in K[from[k]].wiki}
  BY <1>2, <1>5, <1>6
<1>8. \A i \in Converts!Range(from) : K[i].tags \subseteq note.tags
  BY <1>2, <1>6
<1>9. note.kind \in {"concept", "note"} =>
        \A i \in Converts!Range(from) : K[i].sources \subseteq note.sources
  BY <1>2, <1>3, <1>6
<1>10. note.kind \in {"map", "index"} =>
         note.children = {Converts!RenamedStem(K, s) : s \in K[from[1]].children}
  BY <1>2, <1>4, <1>6
<1> QED BY <1>1, <1>2, <1>6, <1>7, <1>8, <1>9, <1>10

LEMMA RangeOfContributors ==
    ASSUME KbDomainsOK, NEW K, Finite(K), NEW p
    PROVE  /\ \A i \in Converts!Range(Converts!Contributors(K, p)) : i \in Converts!Merged(K, p)
           /\ \A i \in Converts!Merged(K, p) : i \in Converts!Range(Converts!Contributors(K, p))
  BY ContributorsAre DEF Converts!Range

LEMMA KeepsAll ==
    ASSUME KbDomainsOK, NEW x, Finite(x.kb)
    PROVE  Converts!ConversionKeepsAll(x, Converts!Convert(x))
<1>1. CASE Converts!Refuses(x)
  BY <1>1, RefusedWritesNothing DEF Converts!ConversionKeepsAll
<1>2. CASE ~Converts!Refuses(x)
  <2>1. PICK K, notes : K = x.kb /\ notes = Converts!Convert(x).notes
    OBVIOUS
  <2>2. DOMAIN notes = DestPaths(K) /\ \A p \in DestPaths(K) : notes[p] = Converts!DestNote(K, p)
    BY <1>2, <2>1, Converted
  <2>3. Converts!Convert(x).raw = x.raw
    BY <1>2, Converted
  <2>4. ASSUME NEW i \in DOMAIN K
        PROVE  \E p \in DOMAIN notes :
                 /\ \A q \in DOMAIN notes : (i \in Converts!Range(notes[q].from)) <=> (q = p)
                 /\ \E k \in DOMAIN notes[p].sections : notes[p].sections[k].text = K[i].body
                 /\ K[i].tags \subseteq notes[p].tags
                 /\ notes[p].kind \in {"concept", "note"} => K[i].sources \subseteq notes[p].sources
    <3>1. PICK p \in DOMAIN notes : p = Converts!PlanNote(K[i])
      BY <2>2 DEF DestPaths
    <3>2. ASSUME NEW q \in DOMAIN notes
          PROVE  (i \in Converts!Range(notes[q].from)) <=> (q = p)
      <4>1. notes[q].from = Converts!Contributors(K, q)
        BY <2>2 DEF Converts!DestNote
      <4>2. i \in Converts!Merged(K, q) <=> q = p
        BY <3>1 DEF Converts!Merged
      <4> QED BY <2>1, <4>1, <4>2, RangeOfContributors
    <3>3. i \in Converts!Merged(K, p) /\ i \in Converts!Range(Converts!Contributors(K, p))
      BY <2>1, <3>1, RangeOfContributors DEF Converts!Merged
    <3>4. PICK k \in DOMAIN Converts!Contributors(K, p) : Converts!Contributors(K, p)[k] = i
      BY <3>3 DEF Converts!Range
    <3>5. notes[p] = Converts!DestNote(K, p)
      BY <2>2
    <3>6. /\ k \in DOMAIN Converts!DestNote(K, p).sections /\ Converts!DestNote(K, p).sections[k].text = K[i].body
          /\ K[i].tags \subseteq Converts!DestNote(K, p).tags
          /\ Converts!DestNote(K, p).kind \in {"concept", "note"} => K[i].sources \subseteq Converts!DestNote(K, p).sources
      BY <2>1, <3>3, <3>4, NoteParts
    <3> QED BY <3>2, <3>5, <3>6
  <2> QED BY <1>2, <2>1, <2>3, <2>4 DEF Converts!ConversionKeepsAll
<1> QED BY <1>1, <1>2

\* What holds the text of a source note in the result.
LEMMA TextHeld ==
    ASSUME KbDomainsOK, NEW K, Finite(K), NEW j \in DOMAIN K
    PROVE  \E k \in DOMAIN Converts!DestNote(K, Converts!PlanNote(K[j])).sections :
             Converts!DestNote(K, Converts!PlanNote(K[j])).sections[k].text = K[j].body
<1>1. PICK p : p = Converts!PlanNote(K[j])
  OBVIOUS
<1>2. j \in Converts!Range(Converts!Contributors(K, p))
  BY <1>1, RangeOfContributors DEF Converts!Merged
<1>3. PICK k \in DOMAIN Converts!Contributors(K, p) : Converts!Contributors(K, p)[k] = j
  BY <1>2 DEF Converts!Range
<1> QED BY <1>1, <1>3, NoteParts

\* A basename only one note has leads to where that note went.
LEMMA RenamedLeads ==
    ASSUME NEW K, NEW s, NEW j \in DOMAIN K, K[j].stem = s, \A k \in DOMAIN K \ {j} : K[k].stem # s
    PROVE  Converts!RenamedStem(K, s) = Converts!PlanNote(K[j])[2]
<1>1. CASE Converts!Named(K, s) = {}
  <2>1. j \notin Converts!Named(K, s)
    BY <1>1
  <2> QED BY <1>1, <2>1 DEF Converts!RenamedStem, Converts!Named
<1>2. CASE Converts!Named(K, s) # {}
  <2>1. Converts!Named(K, s) = {j}
    BY <1>2 DEF Converts!Named
  <2>2. (CHOOSE i \in {j} : \A l \in {j} \ {i} : Converts!Earlier(K, l, i)) = j
    OBVIOUS
  <2>3. Converts!RenamedStem(K, s) =
          Converts!PlanNote(K[CHOOSE i \in Converts!Named(K, s) : \A l \in Converts!Named(K, s) \ {i} : Converts!Earlier(K, l, i)])[2]
    BY <1>2 DEF Converts!RenamedStem
  <2> QED BY <2>1, <2>2, <2>3
<1> QED BY <1>1, <1>2

LEMMA LinksLead ==
    ASSUME KbDomainsOK, NEW x, Finite(x.kb)
    PROVE  Converts!ConvertedLinksLead(x.kb, Converts!Convert(x).notes)
<1>1. CASE Converts!Refuses(x)
  BY <1>1, RefusedWritesNothing, SMTT(30) DEF Converts!ConvertedLinksLead
<1>2. CASE ~Converts!Refuses(x)
  <2>1. PICK K, notes : K = x.kb /\ notes = Converts!Convert(x).notes
    OBVIOUS
  <2>2. DOMAIN notes = DestPaths(K) /\ \A p \in DestPaths(K) : notes[p] = Converts!DestNote(K, p)
    BY <1>2, <2>1, Converted
  <2>3. Finite(K) /\ OneAlone(K)
    BY <1>2, <2>1, Apart DEF Converts!Refuses
  <2> DEFINE holds(p, j) == \E k \in DOMAIN notes[p].sections : notes[p].sections[k].text = K[j].body
             meant(s) == {j \in DOMAIN K : K[j].stem = s /\ \A k \in DOMAIN K \ {j} : K[k].stem # s}
             named(s, j) == \E p \in DOMAIN notes : p[2] = s /\ holds(p, j)
  <2>4. ASSUME NEW j \in DOMAIN K PROVE Converts!PlanNote(K[j]) \in DOMAIN notes /\ holds(Converts!PlanNote(K[j]), j)
    <3>1. PICK q : q = Converts!PlanNote(K[j])
      OBVIOUS
    <3>2. q \in DOMAIN notes /\ notes[q] = Converts!DestNote(K, q)
      BY <2>2, <3>1 DEF DestPaths
    <3>3. \E k \in DOMAIN Converts!DestNote(K, q).sections : Converts!DestNote(K, q).sections[k].text = K[j].body
      BY <2>3, <3>1, TextHeld
    <3> QED BY <3>1, <3>2, <3>3
  <2>5. ASSUME NEW s, NEW j \in meant(s) PROVE named(Converts!RenamedStem(K, s), j)
    <3>1. j \in DOMAIN K
      OBVIOUS
    <3>2. Converts!RenamedStem(K, s) = Converts!PlanNote(K[j])[2]
      BY RenamedLeads
    <3> HIDE DEF holds
    <3> QED BY <2>4, <3>1, <3>2
  <2> HIDE DEF holds, meant, named
  <2>6. ASSUME NEW p \in DOMAIN notes, NEW k \in DOMAIN notes[p].from
        PROVE  /\ \A path \in K[notes[p].from[k]].md : \A j \in Converts!At(K, path) :
                    \E q \in notes[p].sections[k].md : q \in DOMAIN notes /\ holds(q, j)
               /\ \A s \in K[notes[p].from[k]].wiki : \A j \in meant(s) :
                    \E t \in notes[p].sections[k].wiki : named(t, j)
               /\ notes[p].kind \in {"map", "index"} =>
                    \A s \in K[notes[p].from[k]].children : \A j \in meant(s) :
                      \E t \in notes[p].children : named(t, j)
    <3>1. PICK from, note : from = Converts!Contributors(K, p) /\ note = notes[p]
      OBVIOUS
    <3>2. note = Converts!DestNote(K, p)
      BY <2>2, <3>1
    <3>3. /\ note.from = from /\ note.kind = Converts!PlannedKind(K[from[1]])
          /\ \A l \in DOMAIN from :
               /\ note.sections[l].md = UNION {Converts!RetargetLink(K, m) : m \in K[from[l]].md}
               /\ note.sections[l].wiki = {Converts!RenamedStem(K, s) : s \in K[from[l]].wiki}
          /\ note.kind \in {"map", "index"} =>
               note.children = {Converts!RenamedStem(K, s) : s \in K[from[1]].children}
      BY <2>3, <3>1, <3>2, NoteParts
    <3>4. ASSUME NEW path \in K[from[k]].md, NEW j \in Converts!At(K, path)
          PROVE  \E q \in note.sections[k].md : q \in DOMAIN notes /\ holds(q, j)
      <4>1. Converts!PlanNote(K[j]) \in Converts!RetargetLink(K, path) /\ j \in DOMAIN K
        BY DEF Converts!RetargetLink, Converts!At
      <4>2. Converts!PlanNote(K[j]) \in note.sections[k].md
        BY <3>1, <3>3, <4>1
      <4> QED BY <2>4, <4>1, <4>2
    <3>5. ASSUME NEW s \in K[from[k]].wiki, NEW j \in meant(s)
          PROVE  \E t \in note.sections[k].wiki : named(t, j)
      <4>1. Converts!RenamedStem(K, s) \in note.sections[k].wiki
        BY <3>1, <3>3
      <4> QED BY <2>5, <4>1
    <3>6. ASSUME note.kind \in {"map", "index"}, NEW s \in K[from[k]].children, NEW j \in meant(s)
          PROVE  \E t \in note.children : named(t, j)
      <4>1. from[k] = from[1]
        <5>1. PICK n \in Nat : /\ DOMAIN from = 1 .. n
                               /\ \A l \in 1 .. n : from[l] \in Converts!Merged(K, p)
          BY <2>3, <3>1, ContributorsAre
        <5>2. k \in 1 .. n /\ 1 \in 1 .. n
          BY <3>1, <3>3, <5>1
        <5>3. /\ from[k] \in DOMAIN K /\ from[1] \in DOMAIN K
              /\ Converts!PlanNote(K[from[k]]) = p /\ Converts!PlanNote(K[from[1]]) = p
          BY <5>1, <5>2 DEF Converts!Merged
        <5>4. Converts!PlannedKind(K[from[1]]) # "note"
          BY <3>3, <3>6
        <5> QED BY <2>3, <5>3, <5>4 DEF OneAlone
      <4>2. Converts!RenamedStem(K, s) \in note.children
        BY <3>3, <3>6, <4>1
      <4> QED BY <2>5, <4>2
    <3> QED BY <3>1, <3>3, <3>4, <3>5, <3>6
  <2> QED BY <2>1, <2>6 DEF Converts!ConvertedLinksLead, holds, meant, named
<1> QED BY <1>1, <1>2

LEMMA NamesApart ==
    ASSUME KbDomainsOK, NEW x, Finite(x.kb)
    PROVE  Converts!ConvertedNamesUnique(x.kb, Converts!Convert(x).notes)
<1>1. CASE Converts!Refuses(x)
  BY <1>1, RefusedWritesNothing DEF Converts!ConvertedNamesUnique
<1>2. CASE ~Converts!Refuses(x)
  <2>1. PICK K, notes : K = x.kb /\ notes = Converts!Convert(x).notes
    OBVIOUS
  <2>2. DOMAIN notes = DestPaths(K) /\ \A p \in DestPaths(K) : notes[p] = Converts!DestNote(K, p)
    BY <1>2, <2>1, Converted
  <2>3. Finite(K) /\ OneAlone(K)
    BY <1>2, <2>1, Apart DEF Converts!Refuses
  <2>4. ASSUME NEW p \in DOMAIN notes, NEW q \in DOMAIN notes, p[2] = q[2] PROVE p = q
    <3>1. PICK i \in DOMAIN K, j \in DOMAIN K : Converts!PlanNote(K[i]) = p /\ Converts!PlanNote(K[j]) = q
      BY <2>2 DEF DestPaths
    <3>2. CASE i = j
      BY <3>1, <3>2
    <3>3. CASE i # j
      <4>1. Converts!PlannedKind(K[i]) = "note" /\ Converts!PlannedKind(K[j]) = "note"
        BY <2>3, <2>4, <3>1, <3>3 DEF OneAlone
      <4>2. \A n : Converts!PlannedKind(n) = "note" => Converts!PlanNote(n) = <<"notes", Converts!JournalDate(n)>>
        BY DEF Converts!PlanNote
      <4>3. PICK a, b : p = <<"notes", a>> /\ q = <<"notes", b>>
        BY <3>1, <4>1, <4>2
      <4> QED BY <2>4, <4>3
    <3> QED BY <3>2, <3>3
  <2>5. ASSUME NEW p \in DOMAIN notes, NEW k \in 1 .. Len(notes[p].from) - 1
        PROVE  Converts!DomainRank(K[notes[p].from[k]]) <= Converts!DomainRank(K[notes[p].from[k + 1]])
    <3>1. PICK from : from = Converts!Contributors(K, p)
      OBVIOUS
    <3>2. notes[p].from = from
      BY <2>2, <3>1 DEF Converts!DestNote
    <3>3. PICK n \in Nat : /\ Len(from) = n
                           /\ \A l \in 1 .. n : from[l] \in Converts!Merged(K, p)
                           /\ \A l \in 1 .. n - 1 : ~Converts!Earlier(K, from[l + 1], from[l])
      BY <2>3, <3>1, ContributorsAre
    <3>4. k \in 1 .. n - 1 /\ k \in 1 .. n /\ k + 1 \in 1 .. n
      BY <3>2, <3>3
    <3>5. from[k] \in DOMAIN K /\ from[k + 1] \in DOMAIN K /\ ~Converts!Earlier(K, from[k + 1], from[k])
      BY <3>3, <3>4 DEF Converts!Merged
    <3> QED BY <2>3, <3>2, <3>5, EarlierOrders
  <2> QED BY <2>1, <2>4, <2>5 DEF Converts!ConvertedNamesUnique
<1> QED BY <1>1, <1>2

\* What one conversion promises.
THEOREM FaithfulConversion == ASSUME KbDomainsOK, NEW x, Finite(x.kb) PROVE Converts!ConversionIsFaithful(x)
  BY KeepsAll, LinksLead, NamesApart DEF Converts!ConversionIsFaithful, Converts!ConversionHolds

-----------------------------------------------------------------------------
(* The brain of each act.                                                  *)

LEMMA IsolationIs ==
    ASSUME NEW spec, NEW host, NEW reduced
    PROVE  /\ Routes!BuildOne(spec, host, reduced) = "closed" <=>
                spec.network = "none" /\ ~reduced /\ Routes!KernelSandbox(host.os) \notin host.usable
           /\ spec.network = "none" /\ Routes!BuildOne(spec, host, reduced) = "restricted" =>
                reduced /\ Routes!KernelSandbox(host.os) \notin host.usable
<1>1. Routes!KernelSandbox(host.os) \in {"seatbelt", "bwrap", "unset"}
  BY DEF Routes!KernelSandbox, Routes!Unset
<1>2. Routes!BuildOne(spec, host, reduced) =
        IF spec.network = "none"
        THEN IF Routes!KernelSandbox(host.os) \in host.usable THEN Routes!KernelSandbox(host.os)
             ELSE IF reduced THEN "restricted" ELSE "closed"
        ELSE "open"
  BY DEF Routes!BuildOne, Routes!SelectIsolation
<1>3. PICK s, t : s = Routes!KernelSandbox(host.os) /\ t = Routes!BuildOne(spec, host, reduced)
  OBVIOUS
<1>4. s # "closed" /\ s # "restricted"
  BY <1>1, <1>3
<1> QED BY <1>2, <1>3, <1>4

\* What the routing of one curation promises, of any input.
THEOREM RoutedAsConfigured == ASSUME NEW x PROVE Routes!ActsRunWhereConfigured(x)
<1> DEFINE y == x.adapters
           built == Routes!BuildRoutedBackend(y, x.host, x.reduced, x.default, x.override)
           wanted(act) == CASE x.override # Routes!Unset -> x.override
                            [] x.override = Routes!Unset /\ act \in DOMAIN y.routing -> y.routing[act]
                            [] OTHER -> IF x.default # Routes!Unset THEN x.default ELSE y.default
           confinable == x.reduced \/ Routes!KernelSandbox(x.host.os) \in x.host.usable
           strict(act) == y.specs[wanted(act)].network = "none"
           iso(name) == Routes!BuildOne(y.specs[name], x.host, x.reduced)
<1>1. \A act : Routes!Pinned(y, act, x.default, x.override) = wanted(act)
  BY DEF Routes!Pinned, Routes!RoutedName
<1>2. PICK plan, author : plan = wanted("plan") /\ author = wanted("author")
  OBVIOUS
<1>3. built = IF ~({plan, author} \subseteq DOMAIN y.specs) THEN Routes!NotBuilt
              ELSE IF "closed" \in {iso(plan), iso(author)} THEN Routes!NotBuilt
              ELSE [plan |-> plan, author |-> author, plan_iso |-> iso(plan), author_iso |-> iso(author)]
  BY <1>1, <1>2 DEF Routes!BuildRoutedBackend
<1>4. \A name : /\ iso(name) = "closed" <=> y.specs[name].network = "none" /\ ~confinable
                /\ y.specs[name].network = "none" /\ iso(name) = "restricted" =>
                     x.reduced /\ Routes!KernelSandbox(x.host.os) \notin x.host.usable
  BY IsolationIs
<1>5. Routes!NotBuilt.plan_iso = "closed"
  BY DEF Routes!NotBuilt
<1> DEFINE fails == \/ ~({plan, author} \subseteq DOMAIN y.specs)
                    \/ "closed" \in {iso(plan), iso(author)}
<1>6. /\ fails => built = Routes!NotBuilt
      /\ ~fails => /\ built.plan = plan /\ built.author = author
                   /\ built.author_iso = iso(author) /\ built # Routes!NotBuilt
  <2> HIDE DEF iso, y, built
  <2>1. CASE fails
    BY <1>3, <2>1
  <2>2. CASE ~fails
    <3>1. built = [plan |-> plan, author |-> author, plan_iso |-> iso(plan), author_iso |-> iso(author)]
      BY <1>3, <2>2
    <3>2. built.plan_iso # "closed"
      BY <2>2, <3>1
    <3> QED BY <1>5, <2>2, <3>1, <3>2
  <2> QED BY <2>1, <2>2
<1>7. fails <=> \/ \E act \in Routes!Act : wanted(act) \notin DOMAIN y.specs
                \/ ~confinable /\ \E act \in Routes!Act : strict(act)
  <2>1. strict("plan") <=> y.specs[plan].network = "none"
    BY <1>2
  <2>2. strict("author") <=> y.specs[author].network = "none"
    BY <1>2
  <2> HIDE DEF iso, y, strict, wanted, confinable
  <2> QED BY <1>2, <1>4, <2>1, <2>2 DEF Routes!Act
<1>8. ASSUME built # Routes!NotBuilt, NEW act \in Routes!Act
      PROVE  /\ Routes!Invoked(y, built, act, x.host).name = wanted(act)
             /\ (act = "author" /\ strict(act) /\ "host" \in Routes!Invoked(y, built, act, x.host).writes)
                  => x.reduced /\ Routes!KernelSandbox(x.host.os) \notin x.host.usable
  <2>1. built.plan = plan /\ built.author = author /\ built.author_iso = iso(author)
    BY <1>6, <1>8
  <2>2. Routes!Invoked(y, built, act, x.host).name = IF act = "plan" THEN built.plan ELSE built.author
    BY DEF Routes!Invoked
  <2>3. Routes!Invoked(y, built, act, x.host).name = wanted(act)
    BY <1>2, <2>1, <2>2 DEF Routes!Act
  <2>4. ASSUME act = "author", strict(act), "host" \in Routes!Invoked(y, built, act, x.host).writes
        PROVE  x.reduced /\ Routes!KernelSandbox(x.host.os) \notin x.host.usable
    <3>1. y.specs[author].network = "none"
      BY <1>2, <2>4
    <3>2. built.author_iso = "restricted"
      <4>1. Routes!Invoked(y, built, act, x.host).writes =
              IF y.specs[built.author].network = "none" /\ built.author_iso # "restricted"
              THEN {"worktree", "scratch"} ELSE {"worktree", "scratch", "host"}
        BY <2>4 DEF Routes!Invoked
      <4> QED BY <2>1, <2>4, <3>1, <4>1
    <3> QED BY <1>4, <2>1, <3>1, <3>2
  <2> QED BY <2>3, <2>4
<1> QED BY <1>6, <1>7, <1>8 DEF Routes!ActsRunWhereConfigured

-----------------------------------------------------------------------------
(* A batch of uploads.                                                     *)

LEMMA CapturesFollow ==
    ASSUME NEW files, NEW n \in Nat, Len(files) = n, NEW policy
    PROVE  LET after == Faces!Captured(files, policy)
           IN /\ after[0] = Faces!Begun
              /\ \A k \in 1 .. n : after[k] = Faces!Capture(after[k - 1], files, policy, k)
<1> DEFINE Loop(f, m) == [k \in 0 .. m |-> IF k = 0 THEN Faces!Begun
                                            ELSE Faces!Capture(f[k - 1], files, policy, k)]
           S == {m \in Nat : \E f : f = Loop(f, m)}
<1>1. 0 \in S
  <2>1. [k \in 0 .. 0 |-> Faces!Begun] = Loop([k \in 0 .. 0 |-> Faces!Begun], 0)
    OBVIOUS
  <2> QED BY <2>1
<1>2. ASSUME NEW m \in Nat, m \in S PROVE m + 1 \in S
  <2>1. PICK f : f = Loop(f, m)
    BY <1>2
  <2> DEFINE g == [k \in 0 .. m + 1 |-> IF k <= m THEN f[k]
                                         ELSE Faces!Capture(f[m], files, policy, k)]
  <2>2. ASSUME NEW k \in 0 .. m + 1
        PROVE  g[k] = IF k = 0 THEN Faces!Begun ELSE Faces!Capture(g[k - 1], files, policy, k)
    <3>1. CASE k = 0
      BY <2>1, <3>1
    <3>2. CASE k \in 1 .. m
      BY <2>1, <3>2
    <3>3. CASE k = m + 1
      BY <3>3
    <3> QED BY <3>1, <3>2, <3>3
  <2>3. g = Loop(g, m + 1)
    BY <2>2
  <2> HIDE DEF g
  <2> QED BY <2>3
<1>3. \E f : f = Loop(f, n)
  <2> HIDE DEF Loop
  <2>1. n \in S
    <3> HIDE DEF S
    <3> QED BY <1>1, <1>2, Induct
  <2> QED BY <2>1
<1> DEFINE after == Faces!Captured(files, policy)
<1>4. after = Loop(after, n)
  BY <1>3 DEF Faces!Captured
<1>5. PICK h : h = after
  OBVIOUS
<1>6. h = Loop(h, n)
  BY <1>4, <1>5
<1>7. h[0] = Faces!Begun /\ \A k \in 1 .. n : h[k] = Faces!Capture(h[k - 1], files, policy, k)
  BY <1>6
<1> QED BY <1>5, <1>7

\* The files that would be captured, and those of them the disk refuses.
Good(files, policy) == {i \in DOMAIN files : Faces!Answer(files[i], policy) = "captured"}
Faults(files, policy) == {i \in Good(files, policy) : files[i].staged = "fault"}
\* r is the request after k files: nothing has failed and every answer is given, or
\* the first fault among them has ended it.
Fine(files, policy, k, r) ==
  /\ Faults(files, policy) \cap 1 .. k = {}
  /\ r = [status |-> 200, results |-> [i \in 1 .. k |-> Faces!Answer(files[i], policy)],
          inbox |-> Good(files, policy) \cap 1 .. k]
Ended(files, policy, k, r) ==
  \E b \in Faults(files, policy) :
    /\ b <= k
    /\ \A i \in Faults(files, policy) : b <= i
    /\ r.status = 500
    /\ r.inbox = {i \in Good(files, policy) : i < b}

LEMMA AnsweredSoFar ==
    ASSUME NEW files, NEW n \in Nat, Len(files) = n, DOMAIN files = 1 .. n, NEW policy
    PROVE  \A k \in 0 .. n : \/ Fine(files, policy, k, Faces!Captured(files, policy)[k])
                             \/ Ended(files, policy, k, Faces!Captured(files, policy)[k])
<1> DEFINE good == Good(files, policy)
           faults == Faults(files, policy)
           answers(k) == [i \in 1 .. k |-> Faces!Answer(files[i], policy)]
<1>1. PICK after : /\ after = Faces!Captured(files, policy)
                   /\ after[0] = Faces!Begun
                   /\ \A k \in 1 .. n : after[k] = Faces!Capture(after[k - 1], files, policy, k)
  BY CapturesFollow
<1> DEFINE S == {k \in Nat : k <= n => \/ Fine(files, policy, k, after[k])
                                       \/ Ended(files, policy, k, after[k])}
<1>2. 0 \in S
  <2>1. Fine(files, policy, 0, after[0])
    BY <1>1 DEF Faces!Begun, Fine
  <2> QED BY <2>1
<1>3. ASSUME NEW m \in Nat, m \in S, m + 1 <= n
      PROVE  \/ Fine(files, policy, m + 1, after[m + 1])
             \/ Ended(files, policy, m + 1, after[m + 1])
  <2> DEFINE k == m + 1
             answer == Faces!Answer(files[k], policy)
  <2>1. k \in 1 .. n /\ after[k] = Faces!Capture(after[m], files, policy, k)
    BY <1>1, <1>3
  <2>2. CASE Ended(files, policy, m, after[m])
    <3>1. after[m].status # 200
      BY <2>2 DEF Ended
    <3>2. after[k] = after[m]
      BY <2>1, <3>1 DEF Faces!Capture
    <3>3. PICK b \in faults : /\ b <= m
                              /\ \A i \in faults : b <= i
                              /\ after[m].status = 500
                              /\ after[m].inbox = {i \in good : i < b}
      BY <2>2 DEF Ended
    <3>4. b \in Nat /\ b <= k
      BY <3>3 DEF Faults, Good
    <3> QED BY <3>2, <3>3, <3>4 DEF Ended
  <2>3. CASE Fine(files, policy, m, after[m]) /\ k \in faults
    <3>1. PICK w, z : /\ w = answers(m) /\ z = good \cap 1 .. m
                      /\ after[m] = [status |-> 200, results |-> w, inbox |-> z]
      BY <2>3 DEF Fine
    <3>2. answer = "captured" /\ files[k].staged = "fault"
      BY <2>1, <2>3 DEF Good, Faults
    <3>3. after[k] = [after[m] EXCEPT !.status = 500]
      BY <2>1, <3>1, <3>2 DEF Faces!Capture
    <3>4. after[k].status = 500 /\ after[k].inbox = z
      BY <3>1, <3>3
    <3>5. \A i \in faults : k <= i
      BY <2>1, <2>3 DEF Fine, Faults, Good
    <3>6. z = {i \in good : i < k}
      BY <2>1, <3>1 DEF Good
    <3> QED BY <2>1, <2>3, <3>4, <3>5, <3>6 DEF Ended
  <2>4. CASE Fine(files, policy, m, after[m]) /\ k \notin faults
    <3>1. PICK w, z : /\ w = answers(m) /\ z = good \cap 1 .. m
                      /\ after[m] = [status |-> 200, results |-> w, inbox |-> z]
      BY <2>4 DEF Fine
    <3>2. ~(answer = "captured" /\ files[k].staged = "fault")
      BY <2>1, <2>4 DEF Good, Faults
    <3>3. PICK u, v : u = Append(w, answer) /\ v = z \cup IF answer = "captured" THEN {k} ELSE {}
      OBVIOUS
    <3>4. after[m].status = 200 /\ after[m].results = w /\ after[m].inbox = z
      BY <3>1
    <3>5. after[k] = [status |-> 200, results |-> u, inbox |-> v]
      BY <2>1, <3>2, <3>3, <3>4 DEF Faces!Capture
    <3>6. v = good \cap 1 .. k
      BY <2>1, <3>1, <3>3 DEF Good
    <3>7. u = answers(k)
      <4> DEFINE T == {Faces!Answer(files[i], policy) : i \in 1 .. k}
      <4>1. answers(m) \in Seq(T) /\ Len(answers(m)) = m /\ answer \in T
        OBVIOUS
      <4>2. PICK s \in Seq(T), e \in T : s = answers(m) /\ e = answer /\ Len(s) = m
        BY <4>1
      <4>3. \A i \in 1 .. k : Append(s, e)[i] = answers(k)[i]
        BY <4>2
      <4> QED BY <3>1, <3>3, <4>2, <4>3
    <3>8. faults \cap 1 .. k = {}
      BY <2>4 DEF Fine, Faults, Good
    <3> QED BY <3>5, <3>6, <3>7, <3>8 DEF Fine
  <2> QED BY <1>3, <2>2, <2>3, <2>4
<1>4. ASSUME NEW m \in Nat, m \in S PROVE m + 1 \in S
  <2>1. \/ ~(m + 1 <= n)
        \/ Fine(files, policy, m + 1, after[m + 1]) \/ Ended(files, policy, m + 1, after[m + 1])
    BY <1>3, <1>4
  <2> QED BY <2>1
<1>5. \A k \in Nat : k \in S
  <2> HIDE DEF S
  <2> QED BY <1>2, <1>4, Induct
<1> QED BY <1>1, <1>5

\* What one batch promises.
THEOREM AnsweredBatch ==
    ASSUME NEW x, NEW n \in Nat, Len(x.files) = n, DOMAIN x.files = 1 .. n
    PROVE  Faces!BatchIsAnswered(x)
<1>1. PICK r : r = Faces!UploadBatch(x.files, x.tagsOk, x.policy)
  OBVIOUS
<1>2. \/ r = Faces!RefusedBatch
      \/ r = Faces!Captured(x.files, x.policy)[n]
  BY <1>1 DEF Faces!UploadBatch
<1>3. CASE r = Faces!RefusedBatch
  BY <1>1, <1>3 DEF Faces!RefusedBatch, Faces!Begun, Faces!BatchIsAnswered
<1>4. CASE r = Faces!Captured(x.files, x.policy)[n]
  <2>1. Fine(x.files, x.policy, n, r) \/ Ended(x.files, x.policy, n, r)
    BY <1>4, AnsweredSoFar
  <2>2. CASE Fine(x.files, x.policy, n, r)
    <3>1. /\ Faults(x.files, x.policy) = {}
          /\ r.status = 200
          /\ r.inbox = Good(x.files, x.policy)
          /\ r.results = [i \in 1 .. n |-> Faces!Answer(x.files[i], x.policy)]
      BY <2>2 DEF Fine, Faults, Good
    <3>2. Len(r.results) = n
      BY <3>1
    <3> QED BY <1>1, <3>1, <3>2 DEF Faces!BatchIsAnswered, Faults, Good
  <2>3. CASE Ended(x.files, x.policy, n, r)
    <3>1. PICK b \in Faults(x.files, x.policy) :
                 /\ \A i \in Faults(x.files, x.policy) : b <= i
                 /\ r.status = 500
                 /\ r.inbox = {i \in Good(x.files, x.policy) : i < b}
      BY <2>3 DEF Ended
    <3>2. Faults(x.files, x.policy) \subseteq Nat
      BY DEF Faults, Good
    <3>3. Faces!Min(Faults(x.files, x.policy)) = b
      BY <3>1, <3>2 DEF Faces!Min
    <3>4. r.status # 400 /\ r.status # 200 /\ Faults(x.files, x.policy) # {}
      BY <3>1
    <3>5. {i \in Good(x.files, x.policy) : x.files[i].staged = "fault"} = Faults(x.files, x.policy)
      BY DEF Faults
    <3> DEFINE good == {i \in DOMAIN x.files : Faces!Answer(x.files[i], x.policy) = "captured"}
    <3>6. good = Good(x.files, x.policy)
      BY DEF Good
    <3>7. {i \in good : x.files[i].staged = "fault"} = Faults(x.files, x.policy)
      BY <3>5, <3>6
    <3>8. /\ r.status \notin {200, 400}
          /\ Faults(x.files, x.policy) # {}
          /\ r.inbox = {i \in good : i < Faces!Min(Faults(x.files, x.policy))}
      BY <3>1, <3>3, <3>4, <3>6
    <3> QED BY <1>1, <3>4, <3>7, <3>8 DEF Faces!BatchIsAnswered
  <2> QED BY <2>1, <2>2, <2>3
<1> QED BY <1>2, <1>3, <1>4

-----------------------------------------------------------------------------
(* A repo init.                                                            *)

IsRecord(w) == w = [f \in Founds!TreeFields |-> w[f]]
TrackedFields == {"kb", "kinds", "map", "mapKb", "notes", "attrs", "doc", "tax", "brain"}
\* What k writes of a run on t leave, file by file.
Wrote(w, t, v, id, k) ==
  LET fresh == ~Founds!Already(t)
      seeded == k >= 4 /\ fresh /\ t.map = 0
  IN /\ IsRecord(w)
     /\ w.kb = IF k >= 1 /\ v >= 2 /\ t.kb = 0 THEN id ELSE t.kb
     /\ k >= 2 /\ v >= 2 => w.kinds = TRUE
     /\ k < 2 \/ v < 2 => w.kinds = t.kinds
     /\ w.attrs = IF k >= 3 /\ fresh THEN Founds!EnsureBlobAttributes(t.attrs) ELSE t.attrs
     /\ w.map = IF seeded THEN v ELSE t.map
     /\ w.mapKb = IF seeded THEN IF v >= 2 THEN w.kb ELSE 0 ELSE t.mapKb
     /\ w.notes = t.notes
     /\ w.commits = IF k >= 5 /\ fresh THEN t.commits + 1 ELSE t.commits
     /\ w.doc = IF k >= 6 /\ t.doc = 0 THEN v ELSE t.doc
     /\ w.tax = IF k >= 7 /\ t.tax = 0 THEN v ELSE t.tax
     /\ w.mirror = IF k >= 8 THEN v ELSE t.mirror
     /\ k >= 9 => w.brain = TRUE
     /\ k < 9 => w.brain = t.brain
     /\ k < 5 \/ ~fresh => w.tracked = t.tracked
     /\ k >= 5 /\ fresh =>
          /\ DOMAIN w.tracked = TrackedFields
          /\ w.tracked.kb = w.kb /\ w.tracked.kinds = w.kinds /\ w.tracked.map = w.map
          /\ w.tracked.mapKb = w.mapKb /\ w.tracked.notes = w.notes /\ w.tracked.attrs = w.attrs
          /\ w.tracked.doc = t.doc /\ w.tracked.tax = t.tax /\ w.tracked.brain = t.brain

LEMMA OneField ==
    ASSUME NEW u, IsRecord(u), NEW g \in Founds!TreeFields, NEW e, NEW w, w = [u EXCEPT ![g] = e]
    PROVE  IsRecord(w) /\ w[g] = e /\ \A f \in Founds!TreeFields \ {g} : w[f] = u[f]
BY DEF IsRecord

LEMMA WroteNothing == ASSUME NEW t, Founds!IsTree(t), NEW v, NEW id PROVE Wrote(t, t, v, id, 0)
BY DEF Founds!IsTree, Wrote, IsRecord

LEMMA WroteNext ==
    ASSUME NEW t, Founds!IsTree(t), NEW v \in Nat, NEW id, NEW k \in 1 .. 9,
           NEW u, Wrote(u, t, v, id, k - 1),
           NEW w, w = Founds!Write(Founds!InitSteps[k], u, v, id, Founds!Already(t))
    PROVE  Wrote(w, t, v, id, k)
<1>1. IsRecord(u)
  BY DEF Wrote
<1>2. t.commits \in Nat
  BY DEF Founds!IsTree
<1>c1. CASE k = 1
  <2>1. Founds!InitSteps[1] = "identity"
    BY DEF Founds!InitSteps
  <2>2. w = u \/ w = [u EXCEPT !["kb"] = w.kb]
    BY <1>1, <1>c1, <2>1 DEF Founds!Write, Founds!LoadOrMint, IsRecord, Founds!TreeFields
  <2>3. IsRecord(w) /\ \A f \in Founds!TreeFields \ {"kb"} : w[f] = u[f]
    BY <1>1, <2>2, OneField DEF Founds!TreeFields
  <2>4. w.kb = IF v >= 2 /\ u.kb = 0 THEN id ELSE u.kb
    BY <1>1, <1>c1, <2>1 DEF Founds!Write, Founds!LoadOrMint, IsRecord, Founds!TreeFields
  <2>5. w.kinds = u.kinds /\ w.map = u.map /\ w.mapKb = u.mapKb /\ w.notes = u.notes /\
        w.attrs = u.attrs /\ w.doc = u.doc /\ w.tax = u.tax /\ w.mirror = u.mirror /\
        w.brain = u.brain /\ w.commits = u.commits /\ w.tracked = u.tracked
    BY <2>3 DEF Founds!TreeFields
  <2> QED BY <1>c1, <2>3, <2>4, <2>5 DEF Wrote
<1>c2. CASE k = 2
  <2>1. Founds!InitSteps[2] = "kinds"
    BY DEF Founds!InitSteps
  <2>2. w = u \/ w = [u EXCEPT !["kinds"] = w.kinds]
    BY <1>1, <1>c2, <2>1 DEF Founds!Write, Founds!LoadOrMint, IsRecord, Founds!TreeFields
  <2>3. IsRecord(w) /\ \A f \in Founds!TreeFields \ {"kinds"} : w[f] = u[f]
    BY <1>1, <2>2, OneField DEF Founds!TreeFields
  <2>4. (v >= 2 => w.kinds = TRUE) /\ (v < 2 => w.kinds = u.kinds)
    <3>1. v >= 2 => w = [u EXCEPT !["kinds"] = TRUE]
      BY <1>c2, <2>1 DEF Founds!Write
    <3>2. v < 2 => w = u
      BY <1>c2, <2>1 DEF Founds!Write
    <3> QED BY <1>1, <3>1, <3>2, OneField DEF Founds!TreeFields
  <2>5. w.kb = u.kb /\ w.map = u.map /\ w.mapKb = u.mapKb /\ w.notes = u.notes /\
        w.attrs = u.attrs /\ w.doc = u.doc /\ w.tax = u.tax /\ w.mirror = u.mirror /\
        w.brain = u.brain /\ w.commits = u.commits /\ w.tracked = u.tracked
    BY <2>3 DEF Founds!TreeFields
  <2> QED BY <1>c2, <2>3, <2>4, <2>5 DEF Wrote
<1>c3. CASE k = 3
  <2>1. Founds!InitSteps[3] = "attributes"
    BY DEF Founds!InitSteps
  <2>2. w = u \/ w = [u EXCEPT !["attrs"] = w.attrs]
    BY <1>1, <1>c3, <2>1 DEF Founds!Write, Founds!LoadOrMint, IsRecord, Founds!TreeFields
  <2>3. IsRecord(w) /\ \A f \in Founds!TreeFields \ {"attrs"} : w[f] = u[f]
    BY <1>1, <2>2, OneField DEF Founds!TreeFields
  <2>4. w.attrs = IF Founds!Already(t) THEN u.attrs ELSE Founds!EnsureBlobAttributes(u.attrs)
    BY <1>1, <1>c3, <2>1 DEF Founds!Write, Founds!LoadOrMint, IsRecord, Founds!TreeFields
  <2>5. w.kb = u.kb /\ w.kinds = u.kinds /\ w.map = u.map /\ w.mapKb = u.mapKb /\
        w.notes = u.notes /\ w.doc = u.doc /\ w.tax = u.tax /\ w.mirror = u.mirror /\
        w.brain = u.brain /\ w.commits = u.commits /\ w.tracked = u.tracked
    BY <2>3 DEF Founds!TreeFields
  <2> QED BY <1>c3, <2>3, <2>4, <2>5 DEF Wrote
<1>c4. CASE k = 4
  <2>1. Founds!InitSteps[4] = "map"
    BY DEF Founds!InitSteps
  <2>2. CASE Founds!Already(t) \/ u.map # 0
    <3>1. w = u
      BY <1>c4, <2>1, <2>2 DEF Founds!Write, Founds!SeedMap
    <3> QED BY <1>c4, <2>2, <3>1 DEF Wrote
  <2>3. CASE ~Founds!Already(t) /\ u.map = 0
    <3>0. PICK e : e = IF v >= 2 THEN u.kb ELSE 0
      OBVIOUS
    <3>1. w = [u EXCEPT !["map"] = v, !["mapKb"] = e]
      BY <3>0, <1>c4, <2>1, <2>3 DEF Founds!Write, Founds!SeedMap
    <3>t. "map" \in Founds!TreeFields /\ "mapKb" \in Founds!TreeFields /\ "map" # "mapKb"
      BY DEF Founds!TreeFields
    <3>y. PICK y : y = [u EXCEPT !["map"] = v]
      OBVIOUS
    <3>z. w = [y EXCEPT !["mapKb"] = e]
      BY <3>1, <3>y
    <3>p. IsRecord(y) /\ y["map"] = v /\ \A f \in Founds!TreeFields \ {"map"} : y[f] = u[f]
      BY <1>1, <3>y DEF Founds!TreeFields, IsRecord
    <3>q. IsRecord(w) /\ w["mapKb"] = e /\ \A f \in Founds!TreeFields \ {"mapKb"} : w[f] = y[f]
      BY <3>p, <3>z DEF Founds!TreeFields, IsRecord
    <3>2. /\ IsRecord(w) /\ w["map"] = v /\ w["mapKb"] = e
          /\ \A f \in Founds!TreeFields \ {"map", "mapKb"} : w[f] = u[f]
      BY <3>t, <3>p, <3>q
    <3>3. /\ w.kb = u.kb /\ w.kinds = u.kinds /\ w.notes = u.notes /\ w.attrs = u.attrs
          /\ w.doc = u.doc /\ w.tax = u.tax /\ w.mirror = u.mirror /\ w.brain = u.brain
          /\ w.commits = u.commits /\ w.tracked = u.tracked
      BY <3>2 DEF Founds!TreeFields
    <3> QED BY <1>c4, <2>3, <3>0, <3>2, <3>3 DEF Wrote
  <2> QED BY <2>2, <2>3
<1>c5. CASE k = 5
  <2>1. Founds!InitSteps[5] = "initialize"
    BY DEF Founds!InitSteps
  <2>2. CASE Founds!Already(t)
    <3>1. w = u
      BY <1>c5, <2>1, <2>2 DEF Founds!Write
    <3> QED BY <1>2, <1>c5, <2>2, <3>1 DEF Wrote, Founds!Already
  <2>3. CASE ~Founds!Already(t)
    <3>0. PICK e, d : e = u.commits + 1 /\ d = Founds!Tracked(u)
      OBVIOUS
    <3>1. w = [u EXCEPT !["commits"] = e, !["tracked"] = d]
      BY <3>0, <1>c5, <2>1, <2>3 DEF Founds!Write, Founds!Commit
    <3>t. "commits" \in Founds!TreeFields /\ "tracked" \in Founds!TreeFields /\ "commits" # "tracked"
      BY DEF Founds!TreeFields
    <3>y. PICK y : y = [u EXCEPT !["commits"] = e]
      OBVIOUS
    <3>z. w = [y EXCEPT !["tracked"] = d]
      BY <3>1, <3>y
    <3>p. IsRecord(y) /\ y["commits"] = e /\ \A f \in Founds!TreeFields \ {"commits"} : y[f] = u[f]
      BY <1>1, <3>y DEF Founds!TreeFields, IsRecord
    <3>q. IsRecord(w) /\ w["tracked"] = d /\ \A f \in Founds!TreeFields \ {"tracked"} : w[f] = y[f]
      BY <3>p, <3>z DEF Founds!TreeFields, IsRecord
    <3>2. /\ IsRecord(w) /\ w["commits"] = e /\ w["tracked"] = d
          /\ \A f \in Founds!TreeFields \ {"commits", "tracked"} : w[f] = u[f]
      BY <3>t, <3>p, <3>q
    <3>3. /\ w.kb = u.kb /\ w.kinds = u.kinds /\ w.map = u.map /\ w.mapKb = u.mapKb
          /\ w.notes = u.notes /\ w.attrs = u.attrs
          /\ w.doc = u.doc /\ w.tax = u.tax /\ w.mirror = u.mirror /\ w.brain = u.brain
      BY <3>2 DEF Founds!TreeFields
    <3>4. /\ DOMAIN w.tracked = TrackedFields
          /\ w.tracked.kb = u.kb /\ w.tracked.kinds = u.kinds /\ w.tracked.map = u.map
          /\ w.tracked.mapKb = u.mapKb /\ w.tracked.notes = u.notes /\ w.tracked.attrs = u.attrs
          /\ w.tracked.doc = u.doc /\ w.tracked.tax = u.tax /\ w.tracked.brain = u.brain
      BY <3>0, <3>2 DEF Founds!Tracked, TrackedFields
    <3> QED BY <1>2, <1>c5, <2>3, <3>0, <3>2, <3>3, <3>4 DEF Wrote
  <2> QED BY <2>2, <2>3
<1>c6. CASE k = 6
  <2>1. Founds!InitSteps[6] = "doc"
    BY DEF Founds!InitSteps
  <2>2. w = u \/ w = [u EXCEPT !["doc"] = w.doc]
    BY <1>1, <1>c6, <2>1 DEF Founds!Write, Founds!LoadOrMint, IsRecord, Founds!TreeFields
  <2>3. IsRecord(w) /\ \A f \in Founds!TreeFields \ {"doc"} : w[f] = u[f]
    BY <1>1, <2>2, OneField DEF Founds!TreeFields
  <2>4. w.doc = IF u.doc = 0 THEN v ELSE u.doc
    BY <1>1, <1>c6, <2>1 DEF Founds!Write, Founds!LoadOrMint, IsRecord, Founds!TreeFields
  <2>5. w.kb = u.kb /\ w.kinds = u.kinds /\ w.map = u.map /\ w.mapKb = u.mapKb /\
        w.notes = u.notes /\ w.attrs = u.attrs /\ w.tax = u.tax /\ w.mirror = u.mirror /\
        w.brain = u.brain /\ w.commits = u.commits /\ w.tracked = u.tracked
    BY <2>3 DEF Founds!TreeFields
  <2> QED BY <1>c6, <2>3, <2>4, <2>5 DEF Wrote
<1>c7. CASE k = 7
  <2>1. Founds!InitSteps[7] = "taxonomy"
    BY DEF Founds!InitSteps
  <2>2. w = u \/ w = [u EXCEPT !["tax"] = w.tax]
    BY <1>1, <1>c7, <2>1 DEF Founds!Write, Founds!LoadOrMint, IsRecord, Founds!TreeFields
  <2>3. IsRecord(w) /\ \A f \in Founds!TreeFields \ {"tax"} : w[f] = u[f]
    BY <1>1, <2>2, OneField DEF Founds!TreeFields
  <2>4. w.tax = IF u.tax = 0 THEN v ELSE u.tax
    BY <1>1, <1>c7, <2>1 DEF Founds!Write, Founds!LoadOrMint, IsRecord, Founds!TreeFields
  <2>5. w.kb = u.kb /\ w.kinds = u.kinds /\ w.map = u.map /\ w.mapKb = u.mapKb /\
        w.notes = u.notes /\ w.attrs = u.attrs /\ w.doc = u.doc /\ w.mirror = u.mirror /\
        w.brain = u.brain /\ w.commits = u.commits /\ w.tracked = u.tracked
    BY <2>3 DEF Founds!TreeFields
  <2> QED BY <1>c7, <2>3, <2>4, <2>5 DEF Wrote
<1>c8. CASE k = 8
  <2>1. Founds!InitSteps[8] = "mirror"
    BY DEF Founds!InitSteps
  <2>2. w = u \/ w = [u EXCEPT !["mirror"] = w.mirror]
    BY <1>1, <1>c8, <2>1 DEF Founds!Write, Founds!LoadOrMint, IsRecord, Founds!TreeFields
  <2>3. IsRecord(w) /\ \A f \in Founds!TreeFields \ {"mirror"} : w[f] = u[f]
    BY <1>1, <2>2, OneField DEF Founds!TreeFields
  <2>4. w.mirror = v
    BY <1>1, <1>c8, <2>1 DEF Founds!Write, Founds!LoadOrMint, IsRecord, Founds!TreeFields
  <2>5. w.kb = u.kb /\ w.kinds = u.kinds /\ w.map = u.map /\ w.mapKb = u.mapKb /\
        w.notes = u.notes /\ w.attrs = u.attrs /\ w.doc = u.doc /\ w.tax = u.tax /\
        w.brain = u.brain /\ w.commits = u.commits /\ w.tracked = u.tracked
    BY <2>3 DEF Founds!TreeFields
  <2> QED BY <1>c8, <2>3, <2>4, <2>5 DEF Wrote
<1>c9. CASE k = 9
  <2>1. Founds!InitSteps[9] = "brain"
    BY DEF Founds!InitSteps
  <2>2. w = u \/ w = [u EXCEPT !["brain"] = w.brain]
    BY <1>1, <1>c9, <2>1 DEF Founds!Write, Founds!LoadOrMint, IsRecord, Founds!TreeFields
  <2>3. IsRecord(w) /\ \A f \in Founds!TreeFields \ {"brain"} : w[f] = u[f]
    BY <1>1, <2>2, OneField DEF Founds!TreeFields
  <2>4. w.brain = TRUE
    BY <1>1, <1>c9, <2>1 DEF Founds!Write, Founds!LoadOrMint, IsRecord, Founds!TreeFields
  <2>5. w.kb = u.kb /\ w.kinds = u.kinds /\ w.map = u.map /\ w.mapKb = u.mapKb /\
        w.notes = u.notes /\ w.attrs = u.attrs /\ w.doc = u.doc /\ w.tax = u.tax /\
        w.mirror = u.mirror /\ w.commits = u.commits /\ w.tracked = u.tracked
    BY <2>3 DEF Founds!TreeFields
  <2> QED BY <1>c9, <2>3, <2>4, <2>5 DEF Wrote
<1> QED BY <1>c1, <1>c2, <1>c3, <1>c4, <1>c5, <1>c6, <1>c7, <1>c8, <1>c9

LEMMA WritesFollow ==
    ASSUME NEW t, NEW v, NEW id
    PROVE  LET after == Founds!Writes(t, v, id)
           IN /\ after[0] = t
              /\ \A k \in 1 .. 9 : after[k] =
                   Founds!Write(Founds!InitSteps[k], after[k - 1], v, id, Founds!Already(t))
<1> DEFINE step(u, k) == Founds!Write(Founds!InitSteps[k], u, v, id, Founds!Already(t))
           Loop(f, m) == [k \in 0 .. m |-> IF k = 0 THEN t ELSE step(f[k - 1], k)]
           S == {m \in Nat : \E f : f = Loop(f, m)}
<1> HIDE DEF step
<1>1. 0 \in S
  <2>1. [k \in 0 .. 0 |-> t] = Loop([k \in 0 .. 0 |-> t], 0)
    OBVIOUS
  <2> QED BY <2>1
<1>2. ASSUME NEW m \in Nat, m \in S PROVE m + 1 \in S
  <2>1. PICK f : f = Loop(f, m)
    BY <1>2
  <2> DEFINE g == [k \in 0 .. m + 1 |-> IF k <= m THEN f[k] ELSE step(f[m], k)]
  <2>2. ASSUME NEW k \in 0 .. m + 1
        PROVE  g[k] = IF k = 0 THEN t ELSE step(g[k - 1], k)
    <3>1. CASE k = 0
      BY <2>1, <3>1
    <3>2. CASE k \in 1 .. m
      BY <2>1, <3>2
    <3>3. CASE k = m + 1
      BY <3>3
    <3> QED BY <3>1, <3>2, <3>3
  <2>3. g = Loop(g, m + 1)
    BY <2>2
  <2> HIDE DEF g
  <2> QED BY <2>3
<1>3. \E f : f = Loop(f, 9)
  <2> HIDE DEF Loop
  <2>1. 9 \in S
    <3> HIDE DEF S
    <3> QED BY <1>1, <1>2, Induct, SMTT(30)
  <2> QED BY <2>1
<1> DEFINE after == Founds!Writes(t, v, id)
<1>4. after = Loop(after, 9)
  BY <1>3 DEF Founds!Writes, step
<1>5. PICK h : h = after
  OBVIOUS
<1>6. h = Loop(h, 9)
  BY <1>4, <1>5
<1>7. h[0] = t /\ \A k \in 1 .. 9 : h[k] = step(h[k - 1], k)
  BY <1>6
<1> QED BY <1>5, <1>7 DEF step

LEMMA WritesAre ==
    ASSUME NEW t, Founds!IsTree(t), NEW v \in Nat, NEW id
    PROVE  \A k \in 0 .. 9 : Wrote(Founds!Writes(t, v, id)[k], t, v, id, k)
<1>1. PICK after : /\ after = Founds!Writes(t, v, id)
                   /\ after[0] = t
                   /\ \A k \in 1 .. 9 : after[k] =
                        Founds!Write(Founds!InitSteps[k], after[k - 1], v, id, Founds!Already(t))
  BY WritesFollow
<1> DEFINE S == {m \in Nat : m <= 9 => Wrote(after[m], t, v, id, m)}
<1>2. 0 \in S
  BY <1>1, WroteNothing
<1>3. ASSUME NEW m \in Nat, m \in S PROVE m + 1 \in S
  <2>1. CASE m < 9
    <3>1. m + 1 \in 1 .. 9 /\ Wrote(after[m], t, v, id, m + 1 - 1)
      BY <1>3, <2>1
    <3>2. after[m + 1] = Founds!Write(Founds!InitSteps[m + 1], after[m], v, id, Founds!Already(t))
      BY <1>1, <3>1
    <3>3. Wrote(after[m + 1], t, v, id, m + 1)
      BY <3>1, <3>2, WroteNext
    <3> QED BY <3>3
  <2> QED BY <2>1
<1>4. \A m \in Nat : m \in S
  <2> HIDE DEF S
  <2> QED BY <1>2, <1>3, Induct
<1> QED BY <1>1, <1>4

Committed(w, u) ==
  /\ IsRecord(w)
  /\ w.kb = u.kb /\ w.kinds = u.kinds /\ w.map = u.map /\ w.mapKb = u.mapKb /\ w.notes = u.notes
  /\ w.attrs = u.attrs /\ w.doc = u.doc /\ w.tax = u.tax /\ w.mirror = u.mirror
  /\ w.brain = u.brain
  /\ w.commits = u.commits + 1 /\ w.tracked = Founds!Tracked(u)

LEMMA CommitIs == ASSUME NEW u, IsRecord(u) PROVE Committed(Founds!Commit(u), u)
<1>1. PICK w, e, d : w = Founds!Commit(u) /\ e = u.commits + 1 /\ d = Founds!Tracked(u)
  OBVIOUS
<1>2. PICK y : y = [u EXCEPT !["commits"] = e]
  OBVIOUS
<1>3. w = [y EXCEPT !["tracked"] = d]
  BY <1>1, <1>2 DEF Founds!Commit
<1>4. IsRecord(y) /\ y["commits"] = e /\ \A f \in Founds!TreeFields \ {"commits"} : y[f] = u[f]
  BY <1>2 DEF Founds!TreeFields, IsRecord
<1>5. IsRecord(w) /\ w["tracked"] = d /\ \A f \in Founds!TreeFields \ {"tracked"} : w[f] = y[f]
  BY <1>3, <1>4 DEF Founds!TreeFields, IsRecord
<1>6. w["commits"] = e /\ \A f \in Founds!TreeFields \ {"commits", "tracked"} : w[f] = u[f]
  BY <1>4, <1>5 DEF Founds!TreeFields
<1> QED BY <1>1, <1>5, <1>6 DEF Committed, Founds!TreeFields

\* How a run of version v that mints id may end.
Ends(r, t, run, id, v) ==
  \/ r.tree = t /\ r.ok = FALSE /\ Founds!Refused(t, run.schema)
  \/ /\ r.ok = FALSE /\ run.cut \in 0 .. 9 /\ ~Founds!Refused(t, run.schema)
     /\ Wrote(r.tree, t, v, id, run.cut)
  \/ /\ run.cut = Founds!Whole /\ ~Founds!Refused(t, run.schema)
     /\ \E u : /\ Wrote(u, t, v, id, 9)
              /\ \/ /\ Founds!Already(t) /\ r.tree = u /\ r.ok = Founds!Lints(u, v)
                 \/ /\ ~Founds!Already(t) /\ u.tracked = Founds!Tracked(u)
                    /\ r.tree = u /\ r.ok = FALSE
                 \/ /\ ~Founds!Already(t) /\ u.tracked # Founds!Tracked(u)
                    /\ Committed(r.tree, u) /\ r.ok = Founds!Lints(r.tree, v)

LEMMA VersionIsNat ==
    ASSUME NEW t, Founds!IsTree(t), NEW schema \in {0, 1, 2}
    PROVE  Founds!Declared(t) \in Nat /\ Founds!Version(t, schema) \in Nat
<1>1. t.tax \in Nat
  BY DEF Founds!IsTree
<1>2. Founds!Declared(t) \in Nat
  BY <1>1 DEF Founds!Declared
<1> QED BY <1>2 DEF Founds!Version, Founds!MaxSupported

LEMMA RunEnds ==
    ASSUME NEW t, Founds!IsTree(t), NEW run \in Founds!Run, NEW id
    PROVE  Ends(Founds!InitRun(t, run, id), t, run, id, Founds!Version(t, run.schema))
<1>1. run.schema \in {0, 1, 2} /\ (run.cut \in 0 .. 9 \/ run.cut = Founds!Whole)
  BY DEF Founds!Run
<1>2. PICK v \in Nat : v = Founds!Version(t, run.schema)
  BY <1>1, VersionIsNat
<1>3. PICK k \in 0 .. 9 : k = IF run.cut < 10 THEN run.cut ELSE 9
  BY <1>1 DEF Founds!Whole
<1>4. PICK u : u = Founds!Writes(t, v, id)[k] /\ Wrote(u, t, v, id, k)
  BY WritesAre
<1>5. PICK done : done = Founds!Write("schema", u, v, id, Founds!Already(t))
  OBVIOUS
<1>6. PICK r : r = Founds!InitRun(t, run, id)
  OBVIOUS
<1>7. CASE Founds!Refused(t, run.schema)
  <2>1. r = [tree |-> t, ok |-> FALSE]
    BY <1>6, <1>7 DEF Founds!InitRun
  <2> QED BY <1>6, <1>7, <2>1 DEF Ends
<1>8. CASE ~Founds!Refused(t, run.schema) /\ run.cut \in 0 .. 9
  <2>1. r = [tree |-> u, ok |-> FALSE]
    BY <1>2, <1>3, <1>4, <1>6, <1>8 DEF Founds!InitRun
  <2>2. k = run.cut
    BY <1>3, <1>8
  <2>3. r.tree = u /\ r.ok = FALSE
    BY <2>1
  <2>4. Wrote(u, t, v, id, run.cut)
    BY <1>4, <2>2
  <2>5. Ends(r, t, run, id, v)
    BY <1>8, <2>3, <2>4 DEF Ends
  <2> QED BY <1>2, <1>6, <2>5
<1>9. CASE ~Founds!Refused(t, run.schema) /\ run.cut = Founds!Whole
  <2>1. k = 9 /\ ~(run.cut < 10)
    BY <1>3, <1>9 DEF Founds!Whole
  <2>2. CASE Founds!Already(t)
    <3>1. done = u
      BY <1>5, <2>2 DEF Founds!Write
    <3>2. r = [tree |-> done, ok |-> Founds!Lints(done, v)]
      BY <1>2, <1>3, <1>4, <1>5, <1>6, <1>9, <2>1, <2>2 DEF Founds!InitRun
    <3>3. r.tree = u /\ r.ok = Founds!Lints(u, v)
      BY <3>1, <3>2
    <3>4. Wrote(u, t, v, id, 9)
      BY <1>4, <2>1
    <3>5. Ends(r, t, run, id, v)
      BY <1>9, <2>2, <3>3, <3>4 DEF Ends
    <3> QED BY <1>2, <1>6, <3>5
  <2>3. CASE ~Founds!Already(t) /\ u.tracked = Founds!Tracked(u)
    <3>1. r = [tree |-> u, ok |-> FALSE]
      BY <1>2, <1>3, <1>4, <1>6, <1>9, <2>3 DEF Founds!InitRun
    <3>2. r.tree = u /\ r.ok = FALSE
      BY <3>1
    <3>3. Wrote(u, t, v, id, 9)
      BY <1>4, <2>1
    <3>4. Ends(r, t, run, id, v)
      BY <1>9, <2>3, <3>2, <3>3 DEF Ends
    <3> QED BY <1>2, <1>6, <3>4
  <2>4. CASE ~Founds!Already(t) /\ u.tracked # Founds!Tracked(u)
    <3>1. done = Founds!Commit(u)
      BY <1>5, <2>4 DEF Founds!Write
    <3>2. Committed(done, u)
      BY <1>4, <3>1, CommitIs DEF Wrote
    <3>3. r = [tree |-> done, ok |-> Founds!Lints(done, v)]
      BY <1>2, <1>3, <1>4, <1>5, <1>6, <1>9, <2>1, <2>4 DEF Founds!InitRun
    <3>4. Committed(r.tree, u) /\ r.ok = Founds!Lints(r.tree, v)
      BY <3>2, <3>3
    <3>5. Wrote(u, t, v, id, 9)
      BY <1>4, <2>1
    <3>6. Ends(r, t, run, id, v)
      BY <1>9, <2>4, <3>4, <3>5 DEF Ends
    <3> QED BY <1>2, <1>6, <3>6
  <2> QED BY <2>2, <2>3, <2>4
<1> QED BY <1>1, <1>7, <1>8, <1>9

LEMMA WroteTree ==
    ASSUME NEW t, Founds!IsTree(t), NEW v \in Nat, NEW id \in Nat, NEW k \in 0 .. 9,
           NEW w, Wrote(w, t, v, id, k)
    PROVE  Founds!IsTree(w)
<1>1. /\ t.kb \in Nat /\ t.map \in Nat /\ t.mapKb \in Nat /\ t.notes \in Nat /\ t.doc \in Nat
      /\ t.tax \in Nat /\ t.mirror \in Nat /\ t.commits \in Nat /\ t.kinds \in BOOLEAN
      /\ t.brain \in BOOLEAN /\ t.attrs \in Seq(Founds!Rules)
  BY DEF Founds!IsTree
<1>2. Founds!EnsureBlobAttributes(t.attrs) \in Seq(Founds!Rules)
  <2>1. PICK a \in Seq(Founds!Rules) : a = t.attrs
    BY <1>1
  <2>2. Append(a, "blob") \in Seq(Founds!Rules)
    <3>1. PICK b \in Founds!Rules : b = "blob"
      BY DEF Founds!Rules
    <3>2. Append(a, b) \in Seq(Founds!Rules)
      BY AppendProperties
    <3> QED BY <3>1, <3>2
  <2> QED BY <2>1, <2>2 DEF Founds!EnsureBlobAttributes
<1>3. /\ w.kb \in Nat /\ w.map \in Nat /\ w.mapKb \in Nat /\ w.notes \in Nat /\ w.doc \in Nat
      /\ w.tax \in Nat /\ w.mirror \in Nat /\ w.commits \in Nat
  BY <1>1 DEF Wrote
<1>4. w.kinds \in BOOLEAN
  <2>1. w.kinds = TRUE \/ w.kinds = t.kinds
    BY DEF Wrote
  <2> QED BY <1>1, <2>1
<1>5. w.brain \in BOOLEAN
  <2>1. w.brain = TRUE \/ w.brain = t.brain
    BY DEF Wrote
  <2> QED BY <1>1, <2>1
<1>6. w.attrs \in Seq(Founds!Rules)
  <2>1. w.attrs = Founds!EnsureBlobAttributes(t.attrs) \/ w.attrs = t.attrs
    BY DEF Wrote
  <2> QED BY <1>1, <1>2, <2>1
<1>7. IsRecord(w)
  BY DEF Wrote
<1> QED BY <1>3, <1>4, <1>5, <1>6, <1>7 DEF Founds!IsTree, IsRecord

LEMMA EndsInTree ==
    ASSUME NEW t, Founds!IsTree(t), NEW v \in Nat, NEW id \in Nat, NEW run \in Founds!Run,
           NEW r, Ends(r, t, run, id, v)
    PROVE  Founds!IsTree(r.tree)
<1>1. CASE r.tree = t
  BY <1>1
<1>2. CASE \E k \in 0 .. 9 : Wrote(r.tree, t, v, id, k)
  BY <1>2, WroteTree
<1>3. CASE \E u : Wrote(u, t, v, id, 9) /\ Committed(r.tree, u)
  <2>1. PICK u : Wrote(u, t, v, id, 9) /\ Committed(r.tree, u)
    BY <1>3
  <2>2. Founds!IsTree(u)
    BY <2>1, WroteTree
  <2>3. PICK w : w = r.tree
    OBVIOUS
  <2>4. /\ u.kb \in Nat /\ u.map \in Nat /\ u.mapKb \in Nat /\ u.notes \in Nat /\ u.doc \in Nat
        /\ u.tax \in Nat /\ u.mirror \in Nat /\ u.commits \in Nat /\ u.kinds \in BOOLEAN
        /\ u.brain \in BOOLEAN /\ u.attrs \in Seq(Founds!Rules)
    BY <2>2 DEF Founds!IsTree
  <2>5. Committed(w, u)
    BY <2>1, <2>3
  <2>6. /\ w.kb \in Nat /\ w.map \in Nat /\ w.mapKb \in Nat /\ w.notes \in Nat /\ w.doc \in Nat
        /\ w.tax \in Nat /\ w.mirror \in Nat /\ w.commits \in Nat /\ w.kinds \in BOOLEAN
        /\ w.brain \in BOOLEAN /\ w.attrs \in Seq(Founds!Rules)
    <3>1. w.commits = u.commits + 1 /\ u.commits \in Nat
      BY <2>2, <2>5 DEF Committed, Founds!IsTree
    <3>2. /\ w.kb \in Nat /\ w.map \in Nat /\ w.mapKb \in Nat /\ w.notes \in Nat /\ w.doc \in Nat
          /\ w.tax \in Nat /\ w.mirror \in Nat
      BY <2>4, <2>5 DEF Committed
    <3>3. w.kinds = u.kinds /\ w.brain = u.brain /\ w.attrs = u.attrs
      BY <2>5 DEF Committed
    <3>4. w.kinds \in BOOLEAN /\ w.brain \in BOOLEAN
      BY <2>4, <3>3
    <3>5. w.attrs \in Seq(Founds!Rules)
      BY <2>4, <3>3
    <3>6. w.commits \in Nat
      BY <3>1
    <3> QED BY <3>2, <3>4, <3>5, <3>6
  <2>7. IsRecord(w)
    BY <2>5 DEF Committed
  <2>8. Founds!IsTree(w)
    BY <2>6, <2>7 DEF Founds!IsTree, IsRecord
  <2> QED BY <2>3, <2>8
<1> QED BY <1>1, <1>2, <1>3 DEF Ends

LEMMA RunsFollow ==
    ASSUME NEW x, NEW n \in Nat, Len(x.runs) = n
    PROVE  LET after == Founds!AfterRuns(x)
           IN /\ after[0] = [tree |-> x.tree, ok |-> FALSE]
              /\ \A k \in 1 .. n : after[k] = Founds!InitRun(after[k - 1].tree, x.runs[k], k)
<1> DEFINE start == [tree |-> x.tree, ok |-> FALSE]
           step(u, k) == Founds!InitRun(u.tree, x.runs[k], k)
           Loop(f, m) == [k \in 0 .. m |-> IF k = 0 THEN start ELSE step(f[k - 1], k)]
           S == {m \in Nat : \E f : f = Loop(f, m)}
<1> HIDE DEF step, start
<1>1. 0 \in S
  <2>1. [k \in 0 .. 0 |-> start] = Loop([k \in 0 .. 0 |-> start], 0)
    OBVIOUS
  <2> QED BY <2>1
<1>2. ASSUME NEW m \in Nat, m \in S PROVE m + 1 \in S
  <2>1. PICK f : f = Loop(f, m)
    BY <1>2
  <2> DEFINE g == [k \in 0 .. m + 1 |-> IF k <= m THEN f[k] ELSE step(f[m], k)]
  <2>2. ASSUME NEW k \in 0 .. m + 1
        PROVE  g[k] = IF k = 0 THEN start ELSE step(g[k - 1], k)
    <3>1. CASE k = 0
      BY <2>1, <3>1
    <3>2. CASE k \in 1 .. m
      BY <2>1, <3>2
    <3>3. CASE k = m + 1
      BY <3>3
    <3> QED BY <3>1, <3>2, <3>3
  <2>3. g = Loop(g, m + 1)
    BY <2>2
  <2> HIDE DEF g
  <2> QED BY <2>3
<1>3. \E f : f = Loop(f, n)
  <2> HIDE DEF Loop
  <2>1. n \in S
    <3> HIDE DEF S
    <3> QED BY <1>1, <1>2, Induct
  <2> QED BY <2>1
<1> DEFINE after == Founds!AfterRuns(x)
<1>4. after = Loop(after, n)
  BY <1>3 DEF Founds!AfterRuns, step, start
<1>5. PICK h : h = after
  OBVIOUS
<1>6. h = Loop(h, n)
  BY <1>4, <1>5
<1>7. h[0] = start /\ \A k \in 1 .. n : h[k] = step(h[k - 1], k)
  BY <1>6
<1> QED BY <1>5, <1>7 DEF step, start

\* Run i of x, with the trees before and after it.
Step(x, i, t, r) ==
  /\ Founds!IsTree(t) /\ Founds!IsTree(r.tree)
  /\ Founds!Version(t, x.runs[i].schema) \in Nat
  /\ Ends(r, t, x.runs[i], i, Founds!Version(t, x.runs[i].schema))

LEMMA RunsStep ==
    ASSUME NEW x, Founds!IsInit(x)
    PROVE  \E after : /\ after[0].tree = x.tree
                      /\ after[Len(x.runs)] = Founds!InitRuns(x)
                      /\ \A i \in 1 .. Len(x.runs) :
                            /\ Step(x, i, after[i - 1].tree, after[i])
                            /\ after[i] = Founds!InitRun(after[i - 1].tree, x.runs[i], i)
<1>1. PICK n \in Nat : n = Len(x.runs) /\ \A i \in 1 .. n : x.runs[i] \in Founds!Run
  BY DEF Founds!IsInit
<1>2. PICK after : /\ after = Founds!AfterRuns(x)
                   /\ after[0] = [tree |-> x.tree, ok |-> FALSE]
                   /\ \A k \in 1 .. n : after[k] = Founds!InitRun(after[k - 1].tree, x.runs[k], k)
  BY <1>1, RunsFollow
<1>3. after[0].tree = x.tree /\ Founds!IsTree(x.tree)
  BY <1>2 DEF Founds!IsInit
<1>4. ASSUME NEW i \in 1 .. n, Founds!IsTree(after[i - 1].tree)
      PROVE  Step(x, i, after[i - 1].tree, after[i])
  <2>1. x.runs[i] \in Founds!Run /\ x.runs[i].schema \in {0, 1, 2} /\ i \in Nat
    BY <1>1 DEF Founds!Run
  <2>2. PICK t, run : t = after[i - 1].tree /\ run = x.runs[i] /\ Founds!IsTree(t) /\ run \in Founds!Run
    BY <1>4, <2>1
  <2>3. PICK v \in Nat : v = Founds!Version(t, run.schema)
    BY <2>1, <2>2, VersionIsNat
  <2>4. PICK r : r = after[i] /\ r = Founds!InitRun(t, run, i)
    BY <1>2, <2>2
  <2>5. Ends(r, t, run, i, v)
    BY <2>2, <2>3, <2>4, RunEnds
  <2>6. Founds!IsTree(r.tree)
    BY <2>1, <2>2, <2>5, EndsInTree
  <2> QED BY <2>2, <2>3, <2>4, <2>5, <2>6 DEF Step
<1> DEFINE S == {m \in Nat : m <= n => Founds!IsTree(after[m].tree)}
<1>5. 0 \in S
  BY <1>3
<1>6. ASSUME NEW m \in Nat, m \in S PROVE m + 1 \in S
  <2>1. CASE m < n
    <3>1. m + 1 \in 1 .. n /\ Founds!IsTree(after[m + 1 - 1].tree)
      BY <1>6, <2>1
    <3>2. Founds!IsTree(after[m + 1].tree)
      BY <1>4, <3>1 DEF Step
    <3> QED BY <3>2
  <2> QED BY <2>1
<1>7. \A m \in Nat : m \in S
  <2> HIDE DEF S
  <2> QED BY <1>5, <1>6, Induct
<1>8. \A i \in 1 .. n : Founds!IsTree(after[i - 1].tree)
  BY <1>7
<1>9. after[n] = Founds!InitRuns(x)
  BY <1>1, <1>2 DEF Founds!InitRuns
<1> QED BY <1>1, <1>2, <1>3, <1>4, <1>8, <1>9

\* What stays true of a committed tree of schema 1.
Unconverted(t, x) ==
  /\ t.commits > 0 /\ t.kb = 0 /\ Founds!HasContent(t)
  /\ t.kinds = x.tree.kinds /\ t.mirror \in {x.tree.mirror, 1}
  /\ Founds!Declared(t) \in {Founds!Declared(x.tree), 1}

LEMMA StaysUnconverted ==
    ASSUME NEW x, NEW i, NEW t, NEW r, Step(x, i, t, r), Unconverted(t, x), x.runs[i] \in Founds!Run,
           x.runs[i].schema = 2 => Founds!Declared(x.tree) = 1
    PROVE  Unconverted(r.tree, x)
<1> DEFINE v == Founds!Version(t, x.runs[i].schema)
<1>1. x.runs[i].schema \in {0, 1, 2}
  BY DEF Founds!Run
<1>2. Founds!Already(t)
  BY DEF Unconverted, Founds!Already
<1>3. CASE r.tree = t
  BY <1>3
<1>4. CASE ~Founds!Refused(t, x.runs[i].schema)
  <2>1. v \in Nat /\ Founds!Declared(t) \in Nat
    BY <1>1, VersionIsNat DEF Step
  <2>2. v = 1
    BY <1>1, <1>2, <1>4, <2>1
       DEF Unconverted, Founds!Version, Founds!Refused, Founds!Contradicts, Founds!AheadOfTree,
           Founds!MaxSupported
  <2>3. PICK w, k : k \in 0 .. 9 /\ w = r.tree /\ Wrote(w, t, v, i, k)
    BY <1>2, <1>3, <1>4 DEF Step, Ends, Founds!Whole
  <2>4. /\ w.kb = t.kb /\ w.kinds = t.kinds /\ w.map = t.map /\ w.notes = t.notes
        /\ w.commits = t.commits /\ w.mirror \in {t.mirror, 1}
        /\ w.tax = t.tax \/ (t.tax = 0 /\ w.tax = 1)
    BY <1>2, <2>2, <2>3 DEF Wrote
  <2>5. Founds!Declared(w) \in {Founds!Declared(t), 1}
    BY <2>4 DEF Founds!Declared, Founds!Broken
  <2> QED BY <2>3, <2>4, <2>5 DEF Unconverted, Founds!HasContent
<1> QED BY <1>3, <1>4 DEF Step, Ends

LEMMA NeverConverted == ASSUME NEW x, Founds!IsInit(x) PROVE Founds!NoSilentConversion(x)
<1> SUFFICES ASSUME x.tree.commits > 0, x.tree.kb = 0, Founds!HasContent(x.tree),
                    \A i \in DOMAIN x.runs : x.runs[i].schema = 2 => Founds!Declared(x.tree) = 1
             PROVE  LET r == Founds!InitRuns(x).tree
                    IN r.kb = 0 /\ r.kinds = x.tree.kinds /\ r.mirror \in {x.tree.mirror, 1}
  BY DEF Founds!NoSilentConversion
<1>1. PICK n \in Nat : n = Len(x.runs) /\ DOMAIN x.runs = 1 .. n /\ \A i \in 1 .. n : x.runs[i] \in Founds!Run
  BY DEF Founds!IsInit
<1>2. PICK after : /\ after[0].tree = x.tree
                   /\ after[n] = Founds!InitRuns(x)
                   /\ \A i \in 1 .. n : Step(x, i, after[i - 1].tree, after[i])
  BY <1>1, RunsStep
<1> DEFINE S == {m \in Nat : m <= n => Unconverted(after[m].tree, x)}
<1>3. 0 \in S
  BY <1>2 DEF Unconverted
<1>4. ASSUME NEW m \in Nat, m \in S PROVE m + 1 \in S
  <2>1. CASE m < n
    <3>1. m + 1 \in 1 .. n /\ Unconverted(after[m + 1 - 1].tree, x)
      BY <1>4, <2>1
    <3>2. Unconverted(after[m + 1].tree, x)
      BY <1>1, <1>2, <3>1, StaysUnconverted
    <3> QED BY <3>2
  <2> QED BY <2>1
<1>5. \A m \in Nat : m \in S
  <2> HIDE DEF S
  <2> QED BY <1>3, <1>4, Induct
<1>6. Unconverted(after[n].tree, x)
  BY <1>5
<1> QED BY <1>2, <1>6 DEF Unconverted

LEMMA BlobsArePinned ==
    ASSUME NEW a \in Seq(Founds!Rules)
    PROVE  LET e == Founds!EnsureBlobAttributes(a)
           IN /\ e \in Seq(Founds!Rules) /\ Founds!Pinned(e)
              /\ Founds!EnsureBlobAttributes(e) = e
              /\ Founds!RulesKept(a, a) /\ Founds!RulesKept(a, e)
<1>1. PICK e : e = Founds!EnsureBlobAttributes(a)
  OBVIOUS
<1>2. PICK b \in Founds!Rules : b = "blob"
  BY DEF Founds!Rules
<1>3. /\ Append(a, b) \in Seq(Founds!Rules) /\ Len(Append(a, b)) = Len(a) + 1
      /\ Append(a, b)[Len(a) + 1] = b /\ Append(a, b) # <<>>
      /\ \A i \in 1 .. Len(a) : Append(a, b)[i] = a[i]
  BY AppendProperties
<1>4. e = a \/ e = Append(a, b)
  BY <1>1, <1>2 DEF Founds!EnsureBlobAttributes
<1>5. e \in Seq(Founds!Rules) /\ Len(a) <= Len(e) /\ \A i \in 1 .. Len(a) : e[i] = a[i]
  BY <1>3, <1>4
<1>6. Founds!Pinned(e)
  <2>1. CASE Founds!Pinned(a)
    BY <1>1, <2>1 DEF Founds!EnsureBlobAttributes
  <2>2. CASE ~Founds!Pinned(a)
    <3>1. e = Append(a, b)
      BY <1>1, <1>2, <2>2 DEF Founds!EnsureBlobAttributes
    <3> QED BY <1>2, <1>3, <3>1 DEF Founds!Pinned
  <2> QED BY <2>1, <2>2
<1>7. Founds!EnsureBlobAttributes(e) = e
  BY <1>6 DEF Founds!EnsureBlobAttributes
<1>8. Founds!RulesKept(a, e)
  BY <1>5 DEF Founds!RulesKept
<1>9. Founds!RulesKept(a, a)
  BY DEF Founds!RulesKept
<1> QED BY <1>1, <1>5, <1>6, <1>7, <1>8, <1>9

LEMMA WroteLast ==
    ASSUME NEW t, Founds!IsTree(t), NEW v \in Nat, NEW id \in Nat, NEW run \in Founds!Run, NEW r,
           Ends(r, t, run, id, v), r.ok
    PROVE  /\ ~Founds!Refused(t, run.schema) /\ run.cut = Founds!Whole
           /\ Founds!Lints(r.tree, v) /\ r.tree.commits > 0
           /\ r.tree.mirror = v
           /\ r.tree.tax = IF t.tax = 0 THEN v ELSE t.tax
<1>1. t.commits \in Nat
  BY DEF Founds!IsTree
<1>2. PICK u : /\ Wrote(u, t, v, id, 9)
               /\ \/ Founds!Already(t) /\ r.tree = u /\ r.ok = Founds!Lints(u, v)
                  \/ /\ ~Founds!Already(t) /\ Committed(r.tree, u) /\ r.ok = Founds!Lints(r.tree, v)
  BY DEF Ends
<1>3. Founds!Lints(r.tree, v)
  BY <1>2
<1>4. r.tree.mirror = u.mirror /\ r.tree.tax = u.tax
  BY <1>2 DEF Committed
<1>5. u.mirror = v /\ u.tax = IF t.tax = 0 THEN v ELSE t.tax
  BY <1>2 DEF Wrote
<1>6. r.tree.commits > 0
  <2>1. CASE Founds!Already(t) /\ r.tree = u
    BY <1>1, <1>2, <2>1 DEF Wrote, Founds!Already
  <2>2. CASE ~Founds!Already(t) /\ Committed(r.tree, u)
    BY <1>1, <1>2, <2>2 DEF Wrote, Committed, Founds!Already
  <2> QED BY <1>2, <2>1, <2>2
<1>7. ~Founds!Refused(t, run.schema) /\ run.cut = Founds!Whole
  BY DEF Ends
<1> QED BY <1>3, <1>4, <1>5, <1>6, <1>7

\* A tree between runs of one version v, on a directory that held a .gitattributes
\* of rules a at most.
Begun(t, a, v) ==
  /\ t.tax \in {0, v} /\ t.mirror \in {0, v} /\ t.doc \in {0, v} /\ t.map \in {0, v}
  /\ t.notes = 0
  /\ v = 1 => t.kb = 0 /\ t.kinds = FALSE
  /\ t.mapKb = IF t.map # 0 /\ v = 2 THEN t.kb ELSE 0
  /\ t.map # 0 /\ v = 2 => t.kb # 0
  /\ t.attrs \in {a, Founds!EnsureBlobAttributes(a)}
  /\ t.commits = 0 => t.doc = 0
  /\ t.commits > 0 => /\ t.map = v /\ t.attrs = Founds!EnsureBlobAttributes(a)
                      /\ v = 2 => t.kb # 0 /\ t.kinds = TRUE
\* ... and after a run of it that was not cut.
Complete(t, a, v, kb) ==
  /\ IsRecord(t)
  /\ t.kb = kb /\ (v = 2 => t.kinds = TRUE) /\ (v = 1 => t.kinds = FALSE)
  /\ t.map = v /\ t.mapKb = kb /\ t.notes = 0 /\ t.attrs = Founds!EnsureBlobAttributes(a)
  /\ t.doc = v /\ t.tax = v /\ t.mirror = v /\ t.brain = TRUE

LEMMA BegunRuns ==
    ASSUME NEW t, Founds!IsTree(t), NEW a, NEW v \in {1, 2}, Begun(t, a, v),
           NEW schema \in {0, 1, 2}, v = IF schema = 0 THEN 2 ELSE schema
    PROVE  Founds!Version(t, schema) = v /\ ~Founds!Refused(t, schema)
<1>1. t.commits \in Nat
  BY DEF Founds!IsTree
<1>2. Founds!Declared(t) \in {0, v}
  BY DEF Founds!Declared, Begun
<1>3. Founds!Version(t, schema) = v
  BY <1>2 DEF Founds!Version, Founds!MaxSupported
<1>4. Founds!MayRun(t)
  BY DEF Begun, Founds!MayRun, Founds!ReadVersion, Founds!Supported, Founds!Broken
<1>5. ~Founds!Contradicts(t, schema)
  BY <1>2 DEF Founds!Contradicts
<1>6. ~Founds!AheadOfTree(t, schema)
  BY <1>1, <1>3 DEF Founds!AheadOfTree, Founds!Already, Begun
<1> QED BY <1>3, <1>4, <1>5, <1>6 DEF Founds!Refused

LEMMA BegunWrites ==
    ASSUME NEW t, Founds!IsTree(t), NEW a \in Seq(Founds!Rules), NEW v \in {1, 2}, Begun(t, a, v),
           NEW id \in Nat, v = 2 => id # 0, NEW k \in 0 .. 9, NEW w, Wrote(w, t, v, id, k)
    PROVE  Begun(w, a, v)
<1>1. t.commits \in Nat /\ t.kb \in Nat
  BY DEF Founds!IsTree
<1>2. w.tax \in {0, v} /\ w.mirror \in {0, v} /\ w.doc \in {0, v} /\ w.map \in {0, v} /\ w.notes = 0
  BY DEF Begun, Wrote
<1>3. v = 1 => w.kb = 0 /\ w.kinds = FALSE
  BY DEF Begun, Wrote
<1>4. w.mapKb = IF w.map # 0 /\ v = 2 THEN w.kb ELSE 0
  BY DEF Begun, Wrote
<1>5. w.map # 0 /\ v = 2 => w.kb # 0
  BY DEF Begun, Wrote
<1>6. w.attrs \in {a, Founds!EnsureBlobAttributes(a)}
  BY BlobsArePinned DEF Begun, Wrote
<1>7. w.commits = 0 => w.doc = 0
  BY <1>1 DEF Begun, Wrote, Founds!Already
<1>8. ASSUME w.commits > 0
      PROVE  /\ w.map = v /\ w.attrs = Founds!EnsureBlobAttributes(a)
             /\ v = 2 => w.kb # 0 /\ w.kinds = TRUE
  <2>1. CASE Founds!Already(t)
    BY <1>1, <1>8, <2>1 DEF Begun, Wrote, Founds!Already
  <2>2. CASE ~Founds!Already(t)
    <3>1. k >= 5
      BY <1>1, <1>8, <2>2 DEF Wrote, Founds!Already
    <3>2. w.attrs = Founds!EnsureBlobAttributes(a)
      BY <2>2, <3>1, BlobsArePinned DEF Begun, Wrote
    <3>3. w.map = v /\ (v = 2 => w.kb # 0 /\ w.kinds = TRUE)
      BY <2>2, <3>1 DEF Begun, Wrote
    <3> QED BY <3>2, <3>3
  <2> QED BY <2>1, <2>2
<1> QED BY <1>2, <1>3, <1>4, <1>5, <1>6, <1>7, <1>8 DEF Begun

LEMMA BegunCommits ==
    ASSUME NEW a, NEW v \in {1, 2}, NEW u, Begun(u, a, v), u.commits \in Nat, u.commits > 0,
           NEW w, Committed(w, u)
    PROVE  Begun(w, a, v)
BY DEF Begun, Committed

LEMMA BegunEnds ==
    ASSUME NEW t, Founds!IsTree(t), NEW a \in Seq(Founds!Rules), NEW v \in {1, 2}, Begun(t, a, v),
           NEW id \in Nat, v = 2 => id # 0, NEW run \in Founds!Run, NEW r, Ends(r, t, run, id, v)
    PROVE  Begun(r.tree, a, v)
<1>1. CASE r.tree = t
  BY <1>1
<1>2. CASE \E k \in 0 .. 9 : Wrote(r.tree, t, v, id, k)
  <2>1. PICK k, w : k \in 0 .. 9 /\ w = r.tree /\ Wrote(w, t, v, id, k)
    BY <1>2
  <2>2. Begun(w, a, v)
    BY <2>1, BegunWrites
  <2> QED BY <2>1, <2>2
<1>3. CASE ~Founds!Already(t) /\ \E u : Wrote(u, t, v, id, 9) /\ Committed(r.tree, u)
  <2>1. PICK u : Wrote(u, t, v, id, 9) /\ Committed(r.tree, u)
    BY <1>3
  <2>2. u.commits = t.commits + 1 /\ t.commits \in Nat
    BY <1>3, <2>1 DEF Wrote, Founds!IsTree
  <2>3. ASSUME NEW k \in 0 .. 9, Wrote(u, t, v, id, k) PROVE Begun(u, a, v)
    BY <2>3, BegunWrites
  <2>4. Begun(u, a, v)
    BY <2>1, <2>3
  <2>5. u.commits \in Nat /\ u.commits > 0
    BY <2>2
  <2>6. PICK w : w = r.tree /\ Committed(w, u)
    BY <2>1
  <2>7. Begun(w, a, v)
    BY <2>4, <2>5, <2>6, BegunCommits
  <2> QED BY <2>6, <2>7
<1>4. \/ r.tree = t
      \/ run.cut \in 0 .. 9 /\ Wrote(r.tree, t, v, id, run.cut)
      \/ 9 \in 0 .. 9 /\ Wrote(r.tree, t, v, id, 9)
      \/ ~Founds!Already(t) /\ \E u : Wrote(u, t, v, id, 9) /\ Committed(r.tree, u)
  BY DEF Ends
<1>5. \/ r.tree = t
      \/ \E k \in 0 .. 9 : Wrote(r.tree, t, v, id, k)
      \/ ~Founds!Already(t) /\ \E u : Wrote(u, t, v, id, 9) /\ Committed(r.tree, u)
  BY <1>4
<1> QED BY <1>1, <1>2, <1>3, <1>5

LEMMA BegunCompletes ==
    ASSUME NEW t, Founds!IsTree(t), NEW a \in Seq(Founds!Rules), NEW v \in {1, 2}, Begun(t, a, v),
           NEW id \in Nat, v = 2 => id # 0, NEW run \in Founds!Run, run.cut = Founds!Whole,
           ~Founds!Refused(t, run.schema), NEW r, Ends(r, t, run, id, v)
    PROVE  /\ r.ok
           /\ Complete(r.tree, a, v, IF v = 2 THEN IF t.kb = 0 THEN id ELSE t.kb ELSE 0)
<1> DEFINE kb == IF v = 2 THEN IF t.kb = 0 THEN id ELSE t.kb ELSE 0
<1>1. t.commits \in Nat /\ t.kb \in Nat
  BY DEF Founds!IsTree
<1>2. PICK u : /\ Wrote(u, t, v, id, 9)
               /\ \/ Founds!Already(t) /\ r.tree = u /\ r.ok = Founds!Lints(u, v)
                  \/ ~Founds!Already(t) /\ u.tracked = Founds!Tracked(u)
                  \/ /\ ~Founds!Already(t) /\ Committed(r.tree, u) /\ r.ok = Founds!Lints(r.tree, v)
  BY DEF Ends, Founds!Whole
<1>3. Complete(u, a, v, kb)
  <2>1. u.doc = v /\ u.tax = v /\ u.mirror = v /\ u.brain = TRUE /\ u.notes = 0 /\ IsRecord(u)
    BY <1>2 DEF Wrote, Begun
  <2>2. u.kb = kb
    BY <1>2 DEF Wrote, Begun
  <2>3. (v = 2 => u.kinds = TRUE) /\ (v = 1 => u.kinds = FALSE)
    BY <1>2 DEF Wrote, Begun
  <2>4. u.map = v /\ u.mapKb = kb
    <3>1. CASE Founds!Already(t)
      BY <1>1, <1>2, <3>1 DEF Wrote, Begun, Founds!Already
    <3>2. CASE ~Founds!Already(t)
      BY <1>1, <1>2, <3>2 DEF Wrote, Begun
    <3> QED BY <3>1, <3>2
  <2>5. u.attrs = Founds!EnsureBlobAttributes(a)
    <3>1. CASE Founds!Already(t)
      BY <1>1, <1>2, <3>1 DEF Wrote, Begun, Founds!Already
    <3>2. CASE ~Founds!Already(t)
      BY <1>2, <3>2, BlobsArePinned DEF Wrote, Begun
    <3> QED BY <3>1, <3>2
  <2> HIDE DEF kb
  <2> QED BY <2>1, <2>2, <2>3, <2>4, <2>5 DEF Complete
<1>4. ~Founds!Already(t) => u.tracked # Founds!Tracked(u)
  <2>1. SUFFICES ASSUME ~Founds!Already(t) PROVE u.tracked # Founds!Tracked(u)
    OBVIOUS
  <2>2. t.doc = 0 /\ u.tracked.doc = t.doc
    BY <1>1, <1>2, <2>1 DEF Begun, Wrote, Founds!Already
  <2>3. Founds!Tracked(u).doc = v
    BY <1>3 DEF Complete, Founds!Tracked
  <2> QED BY <2>2, <2>3
<1>5. CASE r.tree = u /\ r.ok = Founds!Lints(u, v)
  <2>1. Founds!Lints(u, v)
    BY <1>3 DEF Complete, Founds!Lints
  <2> QED BY <1>3, <1>5, <2>1
<1>6. CASE Committed(r.tree, u) /\ r.ok = Founds!Lints(r.tree, v)
  <2>1. Complete(r.tree, a, v, kb)
    <3> HIDE DEF kb
    <3> QED BY <1>3, <1>6 DEF Complete, Committed
  <2>2. Founds!Lints(r.tree, v)
    BY <2>1 DEF Complete, Founds!Lints
  <2> QED BY <1>6, <2>1, <2>2
<1> QED BY <1>2, <1>4, <1>5, <1>6

LEMMA Converges == ASSUME NEW x, Founds!IsInit(x) PROVE Founds!RerunConverges(x)
<1>0. PICK a : a = x.tree.attrs
  OBVIOUS
<1> SUFFICES ASSUME x.tree = Founds!EmptyTree(a), Founds!SameRequest(x), Founds!LastWhole(x)
             PROVE  LET again == Founds!InitRuns(x)
                        once == Founds!InitRun(x.tree, Founds!LastRun(x), again.tree.kb)
                        files(t) == [f \in DOMAIN t \ {"commits", "tracked"} |-> t[f]]
                    IN again.ok /\ once.ok /\ files(again.tree) = files(once.tree)
  BY <1>0 DEF Founds!RerunConverges
<1>1. PICK n \in Nat : /\ n = Len(x.runs) /\ DOMAIN x.runs = 1 .. n /\ n >= 1
                       /\ \A i \in 1 .. n : x.runs[i] \in Founds!Run
  BY DEF Founds!IsInit
<1>2. PICK after : /\ after[0].tree = x.tree
                   /\ after[n] = Founds!InitRuns(x)
                   /\ \A i \in 1 .. n : Step(x, i, after[i - 1].tree, after[i])
  BY <1>1, RunsStep
<1>3. PICK schema \in {0, 1, 2} : \A i \in 1 .. n : x.runs[i].schema = schema
  BY <1>1 DEF Founds!SameRequest, Founds!Run
<1>4. PICK v \in {1, 2} : v = IF schema = 0 THEN 2 ELSE schema
  BY <1>3
<1>5. a \in Seq(Founds!Rules) /\ Founds!IsTree(x.tree)
  BY <1>0 DEF Founds!IsInit, Founds!IsTree
<1>6. Begun(x.tree, a, v)
  BY DEF Founds!EmptyTree, Begun
<1>7. ASSUME NEW i \in 1 .. n, Begun(after[i - 1].tree, a, v)
      PROVE  /\ Begun(after[i].tree, a, v)
             /\ i = n => \E kb \in Nat : after[n].ok /\ Complete(after[n].tree, a, v, kb)
                                                 /\ (v = 2 <=> kb # 0)
  <2>1. PICK t, r, run : /\ t = after[i - 1].tree /\ r = after[i]
                         /\ run = x.runs[i] /\ run \in Founds!Run /\ run.schema = schema
    BY <1>1, <1>3
  <2>2. Founds!IsTree(t) /\ t.kb \in Nat
    BY <1>2, <2>1 DEF Step, Founds!IsTree
  <2>3. Begun(t, a, v) /\ i \in Nat /\ (v = 2 => i # 0)
    BY <1>7, <2>1
  <2>4. Founds!Version(t, schema) = v /\ ~Founds!Refused(t, schema)
    BY <1>4, <2>2, <2>3, BegunRuns
  <2>5. Ends(r, t, run, i, v)
    BY <1>2, <2>1, <2>4 DEF Step
  <2>6. Begun(r.tree, a, v)
    <3>1. ASSUME NEW id \in Nat, v = 2 => id # 0, Ends(r, t, run, id, v)
          PROVE  Begun(r.tree, a, v)
      BY <1>5, <2>1, <2>2, <2>3, <3>1, BegunEnds
    <3> QED BY <2>3, <2>5, <3>1
  <2>7. ASSUME i = n
        PROVE  \E kb \in Nat : r.ok /\ Complete(r.tree, a, v, kb) /\ (v = 2 <=> kb # 0)
    <3>1. run.cut = Founds!Whole
      BY <1>1, <2>1, <2>7 DEF Founds!LastWhole, Founds!LastRun
    <3>2. PICK kb \in Nat : kb = IF v = 2 THEN IF t.kb = 0 THEN i ELSE t.kb ELSE 0
      BY <2>2, <2>3
    <3>3. r.ok /\ Complete(r.tree, a, v, kb)
      BY <1>5, <2>1, <2>2, <2>3, <2>4, <2>5, <3>1, <3>2, BegunCompletes
    <3>4. v = 2 <=> kb # 0
      BY <2>3, <3>2
    <3> QED BY <3>3, <3>4
  <2> QED BY <2>1, <2>6, <2>7
<1> DEFINE S == {m \in Nat : m <= n => Begun(after[m].tree, a, v)}
<1>8. 0 \in S
  BY <1>2, <1>6
<1>9. ASSUME NEW m \in Nat, m \in S PROVE m + 1 \in S
  <2>1. CASE m < n
    <3>1. m + 1 \in 1 .. n /\ Begun(after[m + 1 - 1].tree, a, v)
      BY <1>9, <2>1
    <3>2. Begun(after[m + 1].tree, a, v)
      BY <1>7, <3>1
    <3> QED BY <3>2
  <2> QED BY <2>1
<1>10. \A m \in Nat : m \in S
  <2> HIDE DEF S
  <2> QED BY <1>8, <1>9, Induct
<1>11. Begun(after[n - 1].tree, a, v) /\ n \in 1 .. n
  BY <1>1, <1>10
<1>12. PICK kb \in Nat : after[n].ok /\ Complete(after[n].tree, a, v, kb) /\ (v = 2 <=> kb # 0)
  BY <1>7, <1>11
<1>13. PICK again : again = Founds!InitRuns(x) /\ again.ok /\ Complete(again.tree, a, v, kb)
  BY <1>2, <1>12
<1>14. again.tree.kb = kb
  BY <1>13 DEF Complete
<1>15. PICK run \in Founds!Run : run = Founds!LastRun(x) /\ run.schema = schema /\ run.cut = Founds!Whole
  <2>1. Founds!LastRun(x) = x.runs[n]
    BY <1>1 DEF Founds!LastRun
  <2> QED BY <1>1, <1>3, <2>1 DEF Founds!LastWhole
<1>16. PICK once : once = Founds!InitRun(x.tree, run, kb)
  OBVIOUS
<1>17. once.ok /\ Complete(once.tree, a, v, kb)
  <2>1. Founds!Version(x.tree, schema) = v /\ ~Founds!Refused(x.tree, schema)
    BY <1>4, <1>5, <1>6, BegunRuns
  <2>2. Ends(once, x.tree, run, kb, v)
    BY <1>5, <1>15, <1>16, <2>1, RunEnds
  <2>3. x.tree.kb = 0
    BY DEF Founds!EmptyTree
  <2>4. once.ok /\ Complete(once.tree, a, v, IF v = 2 THEN IF x.tree.kb = 0 THEN kb ELSE x.tree.kb ELSE 0)
    BY <1>5, <1>6, <1>12, <1>15, <2>1, <2>2, BegunCompletes
  <2>5. (IF v = 2 THEN IF x.tree.kb = 0 THEN kb ELSE x.tree.kb ELSE 0) = kb
    BY <1>12, <2>3
  <2> QED BY <2>4, <2>5
<1>18. /\ DOMAIN again.tree = Founds!TreeFields /\ DOMAIN once.tree = Founds!TreeFields
      /\ \A f \in Founds!TreeFields \ {"commits", "tracked"} : again.tree[f] = once.tree[f]
  <2>1. DOMAIN again.tree = Founds!TreeFields /\ DOMAIN once.tree = Founds!TreeFields
    BY <1>13, <1>17 DEF Complete, IsRecord
  <2>2. again.tree.kinds = once.tree.kinds
    BY <1>13, <1>17 DEF Complete
  <2>3. /\ again.tree.kb = once.tree.kb /\ again.tree.map = once.tree.map
        /\ again.tree.mapKb = once.tree.mapKb /\ again.tree.notes = once.tree.notes
        /\ again.tree.attrs = once.tree.attrs /\ again.tree.doc = once.tree.doc
        /\ again.tree.tax = once.tree.tax /\ again.tree.mirror = once.tree.mirror
        /\ again.tree.brain = once.tree.brain
    BY <1>13, <1>17 DEF Complete
  <2> QED BY <2>1, <2>2, <2>3 DEF Founds!TreeFields
<1>19. [f \in DOMAIN again.tree \ {"commits", "tracked"} |-> again.tree[f]]
         = [f \in DOMAIN once.tree \ {"commits", "tracked"} |-> once.tree[f]]
  BY <1>18
<1> QED BY <1>13, <1>14, <1>15, <1>16, <1>17, <1>19

\* A tree between the runs of x, none of which was cut between its commits: what is
\* committed is all there is, and holds what a run of its version makes sure of.
TreeVersion(t, x) ==
  IF t.tax = Founds!Broken THEN Founds!Version(x.tree, x.runs[1].schema) ELSE t.tax
AllKept(t, x) ==
  /\ t.tax = Founds!Broken <=> x.tree.tax = Founds!Broken
  /\ t.commits > 0 =>
       /\ t.tracked = Founds!Tracked(t)
       /\ t.doc # 0 /\ t.tax # 0 /\ t.brain = TRUE
       /\ TreeVersion(t, x) >= 2 => t.kb # 0 /\ t.kinds = TRUE
LEMMA VersionOfRun ==
    ASSUME NEW t, Founds!IsTree(t), NEW schema \in {0, 1, 2}, ~Founds!Refused(t, schema)
    PROVE  LET v == Founds!Version(t, schema)
           IN /\ v \in {1, 2}
              /\ t.tax \in {0, Founds!Broken} => v = IF schema = 0 THEN 2 ELSE schema
              /\ t.tax \notin {0, Founds!Broken} => v = t.tax
<1>1. CASE t.tax \in {0, Founds!Broken}
  <2>1. Founds!Declared(t) = 0
    BY <1>1 DEF Founds!Declared
  <2> QED BY <1>1, <2>1 DEF Founds!Version, Founds!MaxSupported
<1>2. CASE t.tax \notin {0, Founds!Broken}
  <2>1. Founds!Declared(t) = t.tax /\ t.tax # 0
    BY <1>2 DEF Founds!Declared
  <2>2. t.tax \in {1, 2}
    BY <1>2 DEF Founds!Refused, Founds!MayRun, Founds!ReadVersion, Founds!Supported
  <2>3. Founds!Version(t, schema) = t.tax
    BY <2>1 DEF Founds!Version, Founds!Refused, Founds!Contradicts
  <2> QED BY <1>2, <2>2, <2>3
<1> QED BY <1>1, <1>2

LEMMA TrackedFieldsOf ==
    ASSUME NEW t
    PROVE  /\ Founds!Tracked(t) = [f \in TrackedFields |-> Founds!Tracked(t)[f]]
           /\ \A f \in TrackedFields : Founds!Tracked(t)[f] = t[f]
BY DEF Founds!Tracked, TrackedFields

LEMMA SameTracked ==
    ASSUME NEW w, NEW u, \A f \in TrackedFields : w[f] = u[f]
    PROVE  Founds!Tracked(w) = Founds!Tracked(u)
BY DEF Founds!Tracked, TrackedFields

LEMMA StaysKept ==
    ASSUME NEW x, NEW i \in Nat, i # 0, NEW t, NEW r, Step(x, i, t, r), AllKept(t, x),
           x.runs[i] \in Founds!Run, x.runs[i].cut \notin Founds!CutBetweenCommits,
           x.tree.tax = Founds!Broken =>
             Founds!Version(x.tree, x.runs[i].schema) = Founds!Version(x.tree, x.runs[1].schema)
    PROVE  AllKept(r.tree, x)
<1>1. PICK run \in Founds!Run, v \in Nat : /\ run = x.runs[i] /\ v = Founds!Version(t, run.schema)
  BY DEF Step
<1>2. run.schema \in {0, 1, 2} /\ Founds!IsTree(t) /\ Ends(r, t, run, i, v)
  BY <1>1 DEF Founds!Run, Step
<1>3. t.commits \in Nat /\ t.kb \in Nat
  BY <1>2 DEF Founds!IsTree
<1>4. CASE r.tree = t
  BY <1>4
<1>5. CASE r.tree # t
  <2>1. ~Founds!Refused(t, run.schema)
    BY <1>2, <1>5 DEF Ends
  <2>2. /\ v \in {1, 2}
        /\ t.tax \in {0, Founds!Broken} => v = IF run.schema = 0 THEN 2 ELSE run.schema
        /\ t.tax \notin {0, Founds!Broken} => v = t.tax
    BY <1>1, <1>2, <2>1, VersionOfRun
  <2>3. t.tax # 0 => TreeVersion(t, x) = v
    <3>1. CASE t.tax = Founds!Broken
      <4>1. x.tree.tax = Founds!Broken
        BY <3>1 DEF AllKept
      <4>2. Founds!Version(x.tree, run.schema) = v
        BY <2>2, <3>1, <4>1, <1>1 DEF Founds!Version, Founds!Declared
      <4> QED BY <1>1, <3>1, <4>1, <4>2 DEF TreeVersion
    <3>2. CASE t.tax # Founds!Broken
      BY <2>2, <3>2 DEF TreeVersion
    <3> QED BY <3>1, <3>2
  <2>4. PICK u, k : k \in 0 .. 9 /\ Wrote(u, t, v, i, k) /\ k \notin Founds!CutBetweenCommits \ {9}
               /\ \/ r.tree = u /\ (k < 5 \/ Founds!Already(t) \/ u.tracked = Founds!Tracked(u))
                  \/ ~Founds!Already(t) /\ Committed(r.tree, u) /\ k = 9
    <3>1. CASE run.cut \in 0 .. 9
      <4>1. run.cut < 5
        BY <1>1, <3>1 DEF Founds!CutBetweenCommits
      <4>2. Wrote(r.tree, t, v, i, run.cut)
        BY <1>2, <1>5, <3>1 DEF Ends, Founds!Whole
      <4> QED BY <3>1, <4>1, <4>2 DEF Founds!CutBetweenCommits
    <3>2. CASE run.cut = Founds!Whole
      <4>1. PICK u : /\ Wrote(u, t, v, i, 9)
                     /\ \/ r.tree = u /\ (Founds!Already(t) \/ u.tracked = Founds!Tracked(u))
                        \/ ~Founds!Already(t) /\ Committed(r.tree, u)
        BY <1>2, <1>5, <3>2 DEF Ends, Founds!Whole
      <4> QED BY <4>1
    <3> QED BY <3>1, <3>2 DEF Founds!Run
  <2>5. u.tax = Founds!Broken <=> x.tree.tax = Founds!Broken
    <3>1. u.tax = t.tax \/ (t.tax = 0 /\ u.tax = v)
      BY <2>4 DEF Wrote
    <3> QED BY <2>2, <3>1 DEF AllKept, Founds!Broken
  <2>6. CASE Founds!Already(t)
    <3>1. r.tree = u
      BY <2>4, <2>6
    <3>2. /\ t.tracked = Founds!Tracked(t) /\ t.doc # 0 /\ t.tax # 0 /\ t.brain = TRUE
          /\ TreeVersion(t, x) >= 2 => t.kb # 0 /\ t.kinds = TRUE
      BY <2>6 DEF AllKept, Founds!Already
    <3>3. u.tracked = t.tracked /\ u.doc = t.doc /\ u.tax = t.tax /\ u.brain = t.brain /\ u.notes = t.notes
          /\ u.map = t.map /\ u.mapKb = t.mapKb /\ u.attrs = t.attrs /\ u.commits = t.commits
      <4>1. Wrote(u, t, v, i, k) /\ k \in 0 .. 9
        BY <2>4
      <4>2. u.tracked = t.tracked /\ u.doc = t.doc /\ u.tax = t.tax /\ u.notes = t.notes
        BY <2>6, <3>2, <4>1 DEF Wrote
      <4>3. u.brain = t.brain
        <5>1. (k >= 9 => u.brain = TRUE) /\ (k < 9 => u.brain = t.brain)
          BY <4>1 DEF Wrote
        <5>2. k >= 9 \/ k < 9
          BY <4>1
        <5> QED BY <3>2, <5>1, <5>2
      <4>4. u.map = t.map /\ u.mapKb = t.mapKb /\ u.attrs = t.attrs /\ u.commits = t.commits
        BY <2>6, <4>1 DEF Wrote
      <4> QED BY <4>2, <4>3, <4>4
    <3>4. u.kb = t.kb /\ u.kinds = t.kinds
      <4>1. Wrote(u, t, v, i, k) /\ k \in 0 .. 9 /\ v \in {1, 2}
        BY <2>2, <2>4
      <4>2. v >= 2 => t.kb # 0 /\ t.kinds = TRUE
        BY <2>3, <3>2
      <4>3. u.kb = t.kb
        BY <4>1, <4>2 DEF Wrote
      <4>4. u.kinds = TRUE \/ u.kinds = t.kinds
        BY <4>1 DEF Wrote
      <4>5. v < 2 => u.kinds = t.kinds
        BY <4>1 DEF Wrote
      <4>6. CASE v >= 2
        BY <4>2, <4>3, <4>4, <4>6
      <4>7. CASE v < 2
        BY <4>3, <4>5, <4>7
      <4> QED BY <4>1, <4>6, <4>7
    <3>5. Founds!Tracked(u) = Founds!Tracked(t)
      <4>1. \A f \in TrackedFields : u[f] = t[f]
        BY <3>3, <3>4 DEF TrackedFields
      <4> QED BY <4>1, SameTracked
    <3> QED BY <2>5, <3>1, <3>2, <3>3, <3>4, <3>5 DEF AllKept, TreeVersion
  <2>7. CASE ~Founds!Already(t) /\ k < 5
    <3>1. r.tree = u /\ u.commits = 0
      BY <1>3, <2>4, <2>7 DEF Wrote, Founds!Already
    <3> QED BY <2>5, <3>1 DEF AllKept
  <2>8. CASE ~Founds!Already(t) /\ k = 9
    <3>1. u.doc # 0 /\ u.tax # 0 /\ u.brain = TRUE
      BY <2>2, <2>4, <2>8 DEF Wrote
    <3>2. v >= 2 => u.kb # 0 /\ u.kinds = TRUE
      BY <2>4, <2>8 DEF Wrote
    <3>3. u.tax = IF t.tax = 0 THEN v ELSE t.tax
      BY <2>4, <2>8 DEF Wrote
    <3>4. TreeVersion(u, x) = v
      BY <2>2, <2>3, <3>3 DEF TreeVersion, Founds!Broken
    <3>5. CASE r.tree = u
      <4>1. u.tracked = Founds!Tracked(u)
        BY <2>4, <2>8, <3>5 DEF Committed
      <4> QED BY <2>5, <3>1, <3>2, <3>4, <3>5, <4>1 DEF AllKept
    <3>6. CASE Committed(r.tree, u)
      <4>1. PICK w : w = r.tree /\ Committed(w, u)
        BY <3>6
      <4>2. \A f \in TrackedFields : w[f] = u[f]
        BY <4>1 DEF Committed, TrackedFields
      <4>3. w.tracked = Founds!Tracked(w)
        BY <4>1, <4>2, SameTracked DEF Committed
      <4>4. w.doc # 0 /\ w.tax = u.tax /\ w.tax # 0 /\ w.brain = TRUE /\ w.kb = u.kb /\ w.kinds = u.kinds
        BY <3>1, <4>1 DEF Committed
      <4>5. TreeVersion(w, x) = v
        BY <3>4, <4>4 DEF TreeVersion
      <4>6. AllKept(w, x)
        BY <2>5, <3>2, <4>3, <4>4, <4>5 DEF AllKept
      <4> QED BY <4>1, <4>6
    <3> QED BY <2>4, <2>8, <3>5, <3>6
  <2> QED BY <2>4, <2>6, <2>7, <2>8 DEF Founds!CutBetweenCommits
<1> QED BY <1>4, <1>5

\* The rules of .gitattributes, and those in the last commit.
BlobsPinned(t, a) ==
  /\ t.attrs \in {a, Founds!EnsureBlobAttributes(a)}
  /\ t.commits > 0 => Founds!Pinned(t.tracked.attrs)

LEMMA StaysPinned ==
    ASSUME NEW a \in Seq(Founds!Rules), NEW t, Founds!IsTree(t), BlobsPinned(t, a),
           NEW v \in Nat, NEW id, NEW run \in Founds!Run, NEW r, Ends(r, t, run, id, v)
    PROVE  BlobsPinned(r.tree, a)
<1>1. t.commits \in Nat
  BY DEF Founds!IsTree
<1>2. ASSUME NEW k \in 0 .. 9, NEW w, Wrote(w, t, v, id, k)
      PROVE  /\ BlobsPinned(w, a)
             /\ k = 9 /\ ~Founds!Already(t) => w.attrs = Founds!EnsureBlobAttributes(a)
  <2>1. CASE Founds!Already(t)
    <3>1. w.attrs = t.attrs /\ w.commits = t.commits /\ w.tracked = t.tracked
      BY <1>2, <2>1 DEF Wrote
    <3> QED BY <2>1, <3>1 DEF BlobsPinned
  <2>2. CASE ~Founds!Already(t)
    <3>1. Founds!EnsureBlobAttributes(t.attrs) = Founds!EnsureBlobAttributes(a)
      BY BlobsArePinned DEF BlobsPinned
    <3>2. IF k >= 3 THEN w.attrs = Founds!EnsureBlobAttributes(a) ELSE w.attrs = t.attrs
      BY <1>2, <2>2, <3>1 DEF Wrote
    <3>3. k >= 5 => w.tracked.attrs = w.attrs
      BY <1>2, <2>2 DEF Wrote
    <3>4. k < 5 => w.commits = t.commits /\ t.commits = 0
      BY <1>1, <1>2, <2>2 DEF Wrote, Founds!Already
    <3>5. k >= 3 => Founds!Pinned(w.attrs)
      BY <3>2, BlobsArePinned
    <3> QED BY <3>2, <3>3, <3>4, <3>5 DEF BlobsPinned
  <2> QED BY <2>1, <2>2
<1>3. CASE r.tree = t
  BY <1>3
<1>4. CASE \E k, w : k \in 0 .. 9 /\ w = r.tree /\ Wrote(w, t, v, id, k)
  <2>1. PICK k, w : k \in 0 .. 9 /\ w = r.tree /\ Wrote(w, t, v, id, k)
    BY <1>4
  <2>2. BlobsPinned(w, a)
    BY <1>2, <2>1
  <2> QED BY <2>1, <2>2
<1>5. CASE \E u, k, w : /\ ~Founds!Already(t) /\ k = 9 /\ Wrote(u, t, v, id, k)
                       /\ w = r.tree /\ Committed(w, u)
  <2>1. PICK u, k, w : /\ ~Founds!Already(t) /\ k = 9 /\ Wrote(u, t, v, id, k)
                       /\ w = r.tree /\ Committed(w, u)
    BY <1>5
  <2>2. k \in 0 .. 9
    BY <2>1
  <2>3. u.attrs = Founds!EnsureBlobAttributes(a)
    BY <1>2, <2>1, <2>2
  <2>4. w.attrs = u.attrs /\ w.tracked.attrs = u.attrs
    BY <2>1 DEF Committed, Founds!Tracked
  <2>5. Founds!Pinned(u.attrs)
    BY <2>3, BlobsArePinned
  <2>6. BlobsPinned(w, a)
    BY <2>3, <2>4, <2>5 DEF BlobsPinned
  <2> QED BY <2>1, <2>6
<1> QED BY <1>3, <1>4, <1>5 DEF Ends

LEMMA CommitsWhatItWrote == ASSUME NEW x, Founds!IsInit(x) PROVE Founds!SuccessIsCommitted(x)
<1>1. PICK n \in Nat : /\ n = Len(x.runs) /\ DOMAIN x.runs = 1 .. n /\ n >= 1
                       /\ \A i \in 1 .. n : x.runs[i] \in Founds!Run
  BY DEF Founds!IsInit
<1>2. PICK after : /\ after[0].tree = x.tree
                   /\ after[n] = Founds!InitRuns(x)
                   /\ \A i \in 1 .. n : Step(x, i, after[i - 1].tree, after[i])
  BY <1>1, RunsStep
<1>3. PICK r : r = after[n]
  OBVIOUS
<1>4. PICK a \in Seq(Founds!Rules) : a = x.tree.attrs /\ x.tree.commits \in Nat
  BY DEF Founds!IsInit, Founds!IsTree
<1> DEFINE cut == \E i \in DOMAIN x.runs : x.runs[i].cut \in Founds!CutBetweenCommits
           mixed == /\ x.tree.tax = Founds!Broken
                    /\ \E i, j \in DOMAIN x.runs :
                         Founds!Version(x.tree, x.runs[i].schema)
                           # Founds!Version(x.tree, x.runs[j].schema)
<1> SUFFICES ASSUME x.tree.commits = 0, r.ok
             PROVE  /\ Founds!Pinned(r.tree.tracked.attrs)
                    /\ Founds!RulesKept(x.tree.attrs, r.tree.attrs)
                    /\ r.tree.tracked # Founds!Tracked(r.tree) => cut \/ mixed
                    /\ r.tree.tax # Founds!Broken =>
                         /\ Founds!MayRun(r.tree)
                         /\ Founds!MayWrite(r.tree) <=> r.tree.mirror = 2
                         /\ Founds!ReadOnly(r.tree) <=> r.tree.mirror = 1
  BY <1>2, <1>3 DEF Founds!SuccessIsCommitted
<1>5. /\ r.tree.commits > 0 /\ BlobsPinned(r.tree, a)
  <2> DEFINE S == {m \in Nat : m <= n => BlobsPinned(after[m].tree, a)}
  <2>1. 0 \in S
    BY <1>2, <1>4 DEF BlobsPinned
  <2>2. ASSUME NEW m \in Nat, m \in S PROVE m + 1 \in S
    <3>1. CASE m < n
      <4>1. m + 1 \in 1 .. n /\ BlobsPinned(after[m + 1 - 1].tree, a)
        BY <2>2, <3>1
      <4>2. PICK i \in 1 .. n : i = m + 1
        BY <4>1
      <4>3. PICK t, q, run, v : /\ t = after[i - 1].tree /\ q = after[i] /\ run = x.runs[i]
                                /\ v = Founds!Version(t, run.schema)
        OBVIOUS
      <4>4. run \in Founds!Run /\ v \in Nat /\ Founds!IsTree(t) /\ Ends(q, t, run, i, v)
        BY <1>1, <1>2, <4>3 DEF Step
      <4>5. BlobsPinned(t, a)
        BY <4>1, <4>2, <4>3
      <4>6. BlobsPinned(q.tree, a)
        BY <4>4, <4>5, StaysPinned
      <4> QED BY <4>2, <4>3, <4>6
    <3> QED BY <3>1
  <2>3. \A m \in Nat : m \in S
    <3> HIDE DEF S
    <3> QED BY <2>1, <2>2, Induct
  <2>4. BlobsPinned(r.tree, a)
    BY <1>3, <2>3
  <2>5. PICK t, run, v : /\ t = after[n - 1].tree /\ run = x.runs[n] /\ run \in Founds!Run
                         /\ v = Founds!Version(t, run.schema) /\ v \in Nat
                         /\ Founds!IsTree(t) /\ Ends(r, t, run, n, v)
    BY <1>1, <1>2, <1>3, SMTT(30) DEF Step
  <2>6. r.tree.commits > 0
    BY <2>5, WroteLast
  <2> QED BY <2>4, <2>6
<1>6. Founds!Pinned(r.tree.tracked.attrs) /\ Founds!RulesKept(x.tree.attrs, r.tree.attrs)
  BY <1>4, <1>5, BlobsArePinned DEF BlobsPinned
<1>7. ASSUME ~cut, ~mixed PROVE r.tree.tracked = Founds!Tracked(r.tree)
  <2>1. ASSUME NEW i \in 1 .. n
        PROVE  /\ x.runs[i].cut \notin Founds!CutBetweenCommits
               /\ x.tree.tax = Founds!Broken =>
                    Founds!Version(x.tree, x.runs[i].schema) = Founds!Version(x.tree, x.runs[1].schema)
    <3>1. i \in DOMAIN x.runs /\ 1 \in DOMAIN x.runs
      BY <1>1
    <3> QED BY <1>7, <3>1
  <2> HIDE DEF cut, mixed
  <2> DEFINE S == {m \in Nat : m <= n => AllKept(after[m].tree, x)}
  <2>2. 0 \in S
    BY <1>2 DEF AllKept
  <2>3. ASSUME NEW m \in Nat, m \in S PROVE m + 1 \in S
    <3>1. CASE m < n
      <4>1. m + 1 \in 1 .. n /\ AllKept(after[m + 1 - 1].tree, x)
        BY <2>3, <3>1
      <4>2. PICK i \in Nat : i = m + 1 /\ i # 0 /\ i \in 1 .. n
        BY <4>1
      <4>3. PICK t, q : t = after[i - 1].tree /\ q = after[i] /\ Step(x, i, t, q) /\ AllKept(t, x)
        BY <1>2, <4>1, <4>2
      <4>4. AllKept(q.tree, x)
        BY <1>1, <2>1, <4>2, <4>3, StaysKept
      <4> QED BY <4>2, <4>3, <4>4
    <3> QED BY <3>1
  <2>4. \A m \in Nat : m \in S
    <3> HIDE DEF S
    <3> QED BY <2>2, <2>3, Induct
  <2> QED BY <1>3, <1>5, <2>4 DEF AllKept
<1>8. ASSUME r.tree.tax # Founds!Broken
      PROVE  /\ Founds!MayRun(r.tree)
             /\ Founds!MayWrite(r.tree) <=> r.tree.mirror = 2
             /\ Founds!ReadOnly(r.tree) <=> r.tree.mirror = 1
  <2>1. PICK t, run, v : /\ t = after[n - 1].tree /\ run = x.runs[n] /\ run \in Founds!Run
                         /\ v = Founds!Version(t, run.schema) /\ v \in Nat
                         /\ Founds!IsTree(t) /\ Ends(r, t, run, n, v)
    BY <1>1, <1>2, <1>3 DEF Step
  <2>2. /\ ~Founds!Refused(t, run.schema) /\ r.tree.mirror = v
        /\ r.tree.tax = IF t.tax = 0 THEN v ELSE t.tax
    BY <2>1, WroteLast
  <2>3. v \in {1, 2} /\ (t.tax \notin {0, Founds!Broken} => v = t.tax)
    BY <2>1, <2>2, VersionOfRun DEF Founds!Run
  <2>4. r.tree.tax = v
    BY <1>8, <2>2, <2>3
  <2>5. Founds!Declared(r.tree) = v /\ Founds!ReadVersion(r.tree) = v
    BY <2>3, <2>4 DEF Founds!Declared, Founds!ReadVersion, Founds!Broken
  <2> QED BY <2>2, <2>3, <2>5
        DEF Founds!MayRun, Founds!MayWrite, Founds!ReadOnly, Founds!Supported, Founds!MaxSupported
<1> HIDE DEF cut, mixed
<1> QED BY <1>6, <1>7, <1>8

-----------------------------------------------------------------------------
(* A plan.                                                                 *)

LEMMA SequenceIs ==
    ASSUME NEW s, Brains!IsSequence(s)
    PROVE  \E n \in Nat : Len(s) = n /\ DOMAIN s = 1 .. n /\ s = [i \in 1 .. n |-> s[i]]
  BY DEF Brains!IsSequence

Wish(x, k) == Brains!WishFor(x.cands[k].id, x.wishes)

LEMMA DispositionsFollow ==
    ASSUME NEW x, NEW n \in Nat, Len(x.cands) = n
    PROVE  LET after == Brains!Normalized(x.cands, x.wishes, x.hits)
           IN /\ after[0] = [out |-> <<>>, new |-> {}, aliases |-> {}]
              /\ \A k \in 1 .. n : after[k] =
                   Brains!Disposed(after[k - 1],
                                   Brains!Disposition(x.cands[k], Wish(x, k), x.hits, after[k - 1]))
<1> DEFINE First == [out |-> <<>>, new |-> {}, aliases |-> {}]
           Then(a, k) == Brains!Disposed(a, Brains!Disposition(x.cands[k], Wish(x, k), x.hits, a))
           Loop(f, m) == [k \in 0 .. m |-> IF k = 0 THEN First ELSE Then(f[k - 1], k)]
           S == {m \in Nat : \E f : f = Loop(f, m)}
<1>1. 0 \in S
  <2>1. [k \in 0 .. 0 |-> First] = Loop([k \in 0 .. 0 |-> First], 0)
    OBVIOUS
  <2> QED BY <2>1
<1>2. ASSUME NEW m \in Nat, m \in S PROVE m + 1 \in S
  <2>1. PICK f : f = Loop(f, m)
    BY <1>2
  <2> DEFINE g == [k \in 0 .. m + 1 |-> IF k <= m THEN f[k] ELSE Then(f[m], k)]
  <2> HIDE DEF First, Then
  <2>2. ASSUME NEW k \in 0 .. m + 1
        PROVE  g[k] = IF k = 0 THEN First ELSE Then(g[k - 1], k)
    <3>1. CASE k = 0
      BY <2>1, <3>1
    <3>2. CASE k \in 1 .. m
      BY <2>1, <3>2
    <3>3. CASE k = m + 1
      BY <3>3
    <3> QED BY <3>1, <3>2, <3>3
  <2>3. g = Loop(g, m + 1)
    BY <2>2
  <2> HIDE DEF g
  <2> QED BY <2>3
<1>3. \E f : f = Loop(f, n)
  <2> HIDE DEF Loop
  <2>1. n \in S
    <3> HIDE DEF S
    <3> QED BY <1>1, <1>2, Induct
  <2> QED BY <2>1
<1> DEFINE after == Brains!Normalized(x.cands, x.wishes, x.hits)
<1>4. after = Loop(after, n)
  BY <1>3 DEF Brains!Normalized, Wish
<1>5. PICK h : h = after
  OBVIOUS
<1>6. h = Loop(h, n)
  BY <1>4, <1>5
<1>7. h[0] = First /\ \A k \in 1 .. n : h[k] = Then(h[k - 1], k)
  <2> HIDE DEF First, Then
  <2> QED BY <1>6
<1> QED BY <1>5, <1>7

\* The names and the aliases a plan has given before its k-th disposition.
NewBefore(plan, k) == {plan[j].name : j \in {l \in 1 .. k - 1 : plan[l].op = "CREATE_THEME"}}
AliasesBefore(plan, k) == UNION {plan[j].aliases : j \in 1 .. k - 1}
\* d disposes of the k-th candidate after the dispositions of plan before it.
Disposes(x, plan, k, d) ==
  \E acc : /\ d = Brains!Disposition(x.cands[k], Wish(x, k), x.hits, acc)
           /\ acc.new = NewBefore(plan, k) /\ acc.aliases = AliasesBefore(plan, k)

LEMMA PlanIs ==
    ASSUME NEW x, NEW n \in Nat, Len(x.cands) = n
    PROVE  LET plan == Brains!RunPlan(x)
           IN Len(plan) = n /\ DOMAIN plan = 1 .. n /\ \A k \in 1 .. n : Disposes(x, plan, k, plan[k])
<1>1. PICK after : /\ after = Brains!Normalized(x.cands, x.wishes, x.hits)
                   /\ after[0] = [out |-> <<>>, new |-> {}, aliases |-> {}]
                   /\ \A k \in 1 .. n : after[k] =
                        Brains!Disposed(after[k - 1],
                                        Brains!Disposition(x.cands[k], Wish(x, k), x.hits, after[k - 1]))
  BY DispositionsFollow
<1> DEFINE D(k) == Brains!Disposition(x.cands[k], Wish(x, k), x.hits, after[k - 1])
<1>2. PICK d : d = [k \in 1 .. n |-> D(k)]
  OBVIOUS
<1>3. \A k \in 1 .. n : d[k] = D(k) /\ after[k] = Brains!Disposed(after[k - 1], d[k])
  BY <1>1, <1>2
<1> HIDE DEF D
<1> DEFINE SoFar(k) == /\ after[k].out = [i \in 1 .. k |-> d[i]]
                       /\ after[k].new = NewBefore(d, k + 1)
                       /\ after[k].aliases = AliasesBefore(d, k + 1)
           S == {k \in Nat : k <= n => SoFar(k)}
<1>4. 0 \in S
  <2>1. after[0].new = NewBefore(d, 1) /\ after[0].aliases = AliasesBefore(d, 1)
    BY <1>1 DEF NewBefore, AliasesBefore
  <2>2. after[0].out = [i \in 1 .. 0 |-> d[i]]
    BY <1>1
  <2> QED BY <2>1, <2>2
<1>5. ASSUME NEW m \in Nat, m \in S, m + 1 <= n PROVE SoFar(m + 1)
  <2> DEFINE k == m + 1
             T == {d[i] : i \in 1 .. n}
  <2>1. k \in 1 .. n /\ after[k] = Brains!Disposed(after[m], d[k])
    BY <1>3, <1>5
  <2>2. SoFar(m)
    BY <1>5
  <2>3. /\ after[k].out = Append(after[m].out, d[k])
        /\ after[k].new = IF d[k].op = "CREATE_THEME" THEN after[m].new \cup {d[k].name} ELSE after[m].new
        /\ after[k].aliases = after[m].aliases \cup d[k].aliases
    BY <2>1 DEF Brains!Disposed
  <2>4. PICK w, z : w = after[m].out /\ z = after[k].out
    OBVIOUS
  <2>5. w = [i \in 1 .. m |-> d[i]] /\ z = Append(w, d[k])
    BY <2>2, <2>3, <2>4
  <2>6. w \in Seq(T) /\ Len(w) = m /\ d[k] \in T
    BY <1>5, <2>1, <2>5
  <2>7. z \in Seq(T) /\ Len(z) = k /\ (\A i \in 1 .. m : z[i] = w[i]) /\ z[k] = d[k]
    <3> HIDE DEF T
    <3> QED BY <2>5, <2>6, AppendProperties
  <2>8. z = [i \in 1 .. k |-> d[i]]
    <3>1. DOMAIN z = 1 .. k /\ \A i \in 1 .. k : z[i] = d[i]
      BY <2>5, <2>7
    <3> HIDE DEF T
    <3> QED BY <2>7, <3>1
  <2>9. after[k].new = NewBefore(d, k + 1)
    <3>1. 1 .. k = 1 .. m \cup {k}
      BY <1>5
    <3>2. after[m].new = {d[j].name : j \in {l \in 1 .. m : d[l].op = "CREATE_THEME"}}
      BY <2>2 DEF NewBefore
    <3>3. NewBefore(d, k + 1) = {d[j].name : j \in {l \in 1 .. k : d[l].op = "CREATE_THEME"}}
      BY DEF NewBefore
    <3> HIDE DEF k
    <3> QED BY <2>3, <3>1, <3>2, <3>3
  <2>10. after[k].aliases = AliasesBefore(d, k + 1)
    <3>1. 1 .. k = 1 .. m \cup {k}
      BY <1>5
    <3>2. after[m].aliases = UNION {d[j].aliases : j \in 1 .. m}
      BY <2>2 DEF AliasesBefore
    <3>3. AliasesBefore(d, k + 1) = UNION {d[j].aliases : j \in 1 .. k}
      BY DEF AliasesBefore
    <3> HIDE DEF k
    <3> QED BY <2>3, <3>1, <3>2, <3>3
  <2> QED BY <2>4, <2>8, <2>9, <2>10
<1>6. \A k \in 0 .. n : SoFar(k)
  <2>1. \A m \in Nat : m \in S => m + 1 \in S
    BY <1>5
  <2>2. \A k \in Nat : k \in S
    <3> HIDE DEF S
    <3> QED BY <1>4, <2>1, Induct
  <2> HIDE DEF SoFar
  <2> QED BY <2>2
<1>7. PICK plan : plan = Brains!RunPlan(x)
  OBVIOUS
<1>8. plan = [i \in 1 .. n |-> d[i]]
  <2>1. plan = after[n].out
    BY <1>1, <1>7 DEF Brains!RunPlan, Brains!NormalizePlan
  <2> QED BY <1>6, <2>1
<1>9. Len(plan) = n /\ DOMAIN plan = 1 .. n
  BY <1>8
<1>10. ASSUME NEW k \in 1 .. n PROVE Disposes(x, plan, k, plan[k])
  <2>1. plan[k] = D(k) /\ \A j \in 1 .. k - 1 : plan[j] = d[j]
    BY <1>3, <1>8
  <2>2. SoFar(k - 1)
    BY <1>6
  <2>3. after[k - 1].new = NewBefore(d, k) /\ after[k - 1].aliases = AliasesBefore(d, k)
    BY <2>2
  <2>4. NewBefore(d, k) = NewBefore(plan, k) /\ AliasesBefore(d, k) = AliasesBefore(plan, k)
    BY <2>1 DEF NewBefore, AliasesBefore
  <2> QED BY <2>1, <2>3, <2>4 DEF Disposes, D
<1> QED BY <1>7, <1>9, <1>10

\* What is known of the vocabulary and of what a plan is made from.
DomainsOK == /\ \E n \in Nat : Len(BrainDomains) = n /\ DOMAIN BrainDomains = 1 .. n
             /\ Brains!Nothing \notin Brains!DomainSet
             /\ Brains!IsSafeBasename(<<BrainDate, 1>>)

LEMMA DomainsFinite == ASSUME DomainsOK PROVE IsFiniteSet(Brains!DomainNames)
<1>1. PICK n \in Nat : DOMAIN BrainDomains = 1 .. n
  BY DEF DomainsOK
<1>2. IsFiniteSet(1 .. n)
  BY FS_Interval
<1>3. Brains!DomainNames = {<<BrainDomains[i], 1>> : i \in 1 .. n}
  BY <1>1 DEF Brains!DomainNames, Brains!DomainSet, Brains!Range
<1> DEFINE f == [i \in 1 .. n |-> <<BrainDomains[i], 1>>]
<1>4. f \in Surjection(1 .. n, Brains!DomainNames)
  BY <1>3 DEF Surjection
<1> HIDE DEF f
<1> QED BY <1>2, <1>4, FS_Surjection

\* A fresh name is one that is not taken: there is always a suffix left.
LEMMA FreshIsFree ==
    ASSUME NEW slug, NEW taken, IsFiniteSet(taken)
    PROVE  \E k \in Nat : /\ k >= 1 /\ Brains!FreshName(slug, taken) = <<slug, k>>
                          /\ <<slug, k>> \notin taken
<1> DEFINE c == Cardinality(taken)
           K == 1 .. c + 1
           Free == {k \in K : <<slug, k>> \notin taken}
<1>1. c \in Nat /\ Brains!Cardinality(taken) = c
  BY FS_CardinalityType DEF Brains!Cardinality, Cardinality
<1>2. Free # {}
  <2>1. SUFFICES ASSUME Free = {} PROVE FALSE
    OBVIOUS
  <2> DEFINE f == [k \in K |-> <<slug, k>>]
  <2>2. f \in Injection(K, taken)
    <3>1. f \in [K -> taken]
      BY <2>1
    <3>2. \A a, b \in K : f[a] = f[b] => a = b
      OBVIOUS
    <3> HIDE DEF f, K
    <3> QED BY <3>1, <3>2 DEF Injection, IsInjective
  <2>3. Cardinality(K) <= c
    <3> HIDE DEF f, K, c
    <3>1. Cardinality(K) <= Cardinality(taken)
      BY <2>2, FS_Injection
    <3> QED BY <3>1 DEF c
  <2>4. Cardinality(K) = c + 1
    <3> HIDE DEF c
    <3> QED BY <1>1, FS_Interval
  <2> HIDE DEF c
  <2> QED BY <1>1, <2>3, <2>4
<1>3. PICK m \in Free : \A y \in Free : m <= y
  <2>1. Free \in SUBSET Nat
    <3> HIDE DEF c
    <3> QED BY <1>1
  <2> HIDE DEF Free
  <2> QED BY <1>2, <2>1, NatMin
<1>4. m \in K /\ <<slug, m>> \notin taken /\ \A j \in 1 .. m - 1 : <<slug, j>> \in taken
  <2> HIDE DEF c
  <2>1. m \in K /\ <<slug, m>> \notin taken
    OBVIOUS
  <2>2. ASSUME NEW j \in 1 .. m - 1 PROVE <<slug, j>> \in taken
    <3>1. j \in K /\ ~(m <= j)
      BY <1>1, <2>1
    <3> QED BY <1>3, <3>1
  <2> QED BY <2>1, <2>2
<1> DEFINE chosen == CHOOSE k \in 1 .. Brains!Cardinality(taken) + 1 :
                       /\ <<slug, k>> \notin taken
                       /\ \A j \in 1 .. k - 1 : <<slug, j>> \in taken
<1>5. chosen \in K /\ <<slug, chosen>> \notin taken
  <2> HIDE DEF c
  <2> QED BY <1>1, <1>4
<1>6. Brains!FreshName(slug, taken) = <<slug, chosen>>
  BY DEF Brains!FreshName
<1>7. chosen \in Nat /\ chosen >= 1
  <2> HIDE DEF c, chosen
  <2> QED BY <1>1, <1>5
<1> HIDE DEF chosen
<1> QED BY <1>5, <1>6, <1>7

\* A disposition, field by field.
Fields(c, w, hits, acc, d) ==
  LET new == IF d.op = "CREATE_THEME" THEN acc.new \cup {d.name} ELSE acc.new
  IN /\ d.candidate = c.id /\ d.events = c.events
     /\ d.op = Brains!FinalOp(c, w, hits)
     /\ d.name = Brains!NameOf(d.op, c, w, hits, acc)
     /\ d.domain = IF d.op \in Brains!BrainBasenameOps THEN Brains!RoutedDomain(c, w) ELSE Brains!Nothing
     /\ d.target = IF d.op \in Brains!BrainTargetOps THEN w.target ELSE Brains!NoName
     /\ d.tags = IF d.op \in {"CREATE_THEME", "MERGE_INTO_THEME"} THEN w.tags \cap BrainTags ELSE {}
     /\ d.status = Brains!StatusFor(d.op, w)
     /\ d.links = Brains!LinksFor(d.op, w, hits, new)
     /\ d.aliases = Brains!KeptAliases(d.op, w, hits, new \cup acc.aliases \cup {d.name})

LEMMA FieldsOf ==
    ASSUME NEW c, NEW w, NEW hits, NEW acc
    PROVE  Fields(c, w, hits, acc, Brains!Disposition(c, w, hits, acc))
<1>1. PICK op : op = Brains!FinalOp(c, w, hits)
  OBVIOUS
<1>2. PICK name : name = Brains!NameOf(op, c, w, hits, acc)
  OBVIOUS
<1>3. PICK d : d = Brains!Disposition(c, w, hits, acc)
  OBVIOUS
<1>4. d.op = op /\ d.name = name
  BY <1>1, <1>2, <1>3 DEF Brains!Disposition
<1>5. PICK new : new = IF op = "CREATE_THEME" THEN acc.new \cup {name} ELSE acc.new
  OBVIOUS
<1>6. /\ d.candidate = c.id /\ d.events = c.events
      /\ d.domain = IF op \in Brains!BrainBasenameOps THEN Brains!RoutedDomain(c, w) ELSE Brains!Nothing
      /\ d.target = IF op \in Brains!BrainTargetOps THEN w.target ELSE Brains!NoName
      /\ d.tags = IF op \in {"CREATE_THEME", "MERGE_INTO_THEME"} THEN w.tags \cap BrainTags ELSE {}
      /\ d.status = Brains!StatusFor(op, w)
      /\ d.links = Brains!LinksFor(op, w, hits, new)
      /\ d.aliases = Brains!KeptAliases(op, w, hits, new \cup acc.aliases \cup {name})
  BY <1>1, <1>2, <1>3, <1>5 DEF Brains!Disposition
<1> QED BY <1>1, <1>2, <1>3, <1>4, <1>5, <1>6 DEF Fields

LEMMA OpIs ==
    ASSUME DomainsOK, NEW c, NEW w, NEW hits, NEW op, op = Brains!FinalOp(c, w, hits)
    PROVE  /\ op \in Brains!BrainOps
           /\ c.gated => op \in Brains!BrainGateAllowedOps
           /\ op \in Brains!BrainBasenameOps => Brains!RoutedDomain(c, w) \in Brains!DomainSet
           /\ op \in Brains!BrainTargetOps => w.target \in Brains!RelatedThemeBasenames(hits)
           /\ Brains!DomainSet # {} /\ ~c.gated /\ w.op \in Brains!BrainBasenameOps => op = w.op
<1> DEFINE admitted == Brains!AdmittedOp(c, w)
<1>1. admitted \in Brains!BrainOps /\ (c.gated => admitted \in Brains!BrainGateAllowedOps)
  BY DEF Brains!AdmittedOp, Brains!BrainOps, Brains!BrainGateAllowedOps
<1>2. op = "DROP" \/ op = admitted
  BY DEF Brains!FinalOp
<1>3. PICK n \in Nat : Len(BrainDomains) = n /\ DOMAIN BrainDomains = 1 .. n
  BY DEF DomainsOK
<1>4. Brains!RoutedDomain(c, w) \in Brains!DomainSet \/ Brains!RoutedDomain(c, w) = Brains!CatchAllDomain
  BY DEF Brains!RoutedDomain
<1>5. /\ Brains!CatchAllDomain = Brains!Nothing \/ Brains!CatchAllDomain \in Brains!DomainSet
      /\ Brains!DomainSet # {} => Brains!CatchAllDomain \in Brains!DomainSet
  <2>1. Brains!DomainSet = {BrainDomains[i] : i \in 1 .. n}
    BY <1>3 DEF Brains!DomainSet, Brains!Range
  <2>2. CASE n = 0
    <3>1. Brains!DomainSet = {}
      BY <2>1, <2>2
    <3>2. BrainDomains = <<>>
      BY <1>3, <2>2
    <3> QED BY <3>1, <3>2 DEF Brains!CatchAllDomain
  <2>3. CASE n > 0
    <3>1. BrainDomains # <<>> /\ 1 \in 1 .. n
      BY <1>3, <2>3
    <3>2. Brains!CatchAllDomain = BrainDomains[1]
      BY <3>1 DEF Brains!CatchAllDomain
    <3> QED BY <2>1, <3>1, <3>2
  <2> QED BY <1>3, <2>2, <2>3
<1>6. op \in Brains!BrainBasenameOps => Brains!RoutedDomain(c, w) # Brains!Nothing
  BY <1>2 DEF Brains!FinalOp, Brains!BrainBasenameOps
<1>7. op \in Brains!BrainTargetOps => w.target \in Brains!RelatedThemeBasenames(hits)
  BY <1>2 DEF Brains!FinalOp, Brains!BrainTargetOps, Brains!BrainBasenameOps
<1>8. ASSUME Brains!DomainSet # {}, ~c.gated, w.op \in Brains!BrainBasenameOps PROVE op = w.op
  <2>1. admitted = w.op
    BY <1>8 DEF Brains!AdmittedOp, Brains!BrainOps, Brains!BrainContentOps
  <2>2. Brains!RoutedDomain(c, w) # Brains!Nothing
    BY <1>4, <1>5, <1>8 DEF DomainsOK
  <2>3. admitted \notin Brains!BrainTargetOps /\ admitted # "MARK_CONTESTED"
    BY <1>8, <2>1 DEF Brains!BrainBasenameOps, Brains!BrainTargetOps
  <2> HIDE DEF admitted
  <2>4. Brains!FinalOp(c, w, hits) = admitted
    BY <2>2, <2>3 DEF admitted, Brains!FinalOp
  <2> QED BY <2>1, <2>4
<1>9. "DROP" \in Brains!BrainOps /\ "DROP" \in Brains!BrainGateAllowedOps
  BY DEF Brains!BrainOps, Brains!BrainGateAllowedOps
<1> QED BY <1>1, <1>2, <1>4, <1>5, <1>6, <1>7, <1>8, <1>9

\* What a disposition may say, of the hits and of the plan before it.
Sound(c, w, hits, acc, d) ==
  /\ d.candidate = c.id /\ d.events = c.events
  /\ d.op \in Brains!BrainOps
  /\ c.gated => d.op \in Brains!BrainGateAllowedOps
  /\ d.op \in Brains!BrainBasenameOps => d.domain # Brains!Nothing /\ d.name[2] # 0
  /\ d.domain \in Brains!DomainSet \cup {Brains!Nothing}
  /\ d.op = "CREATE_THEME" =>
       d.name \notin Brains!RelatedBasenames(hits) \cup acc.new \cup Brains!DomainNames
  /\ d.op = "CREATE_THEME" => \E k \in Nat : k >= 1 /\ d.name = <<Brains!SeedSlug(c, w), k>>
  /\ d.op = "APPEND_DAILY" => d.name = <<BrainDate, 1>>
  /\ d.op \notin Brains!BrainBasenameOps => d.name[2] = 0
  /\ d.op \in Brains!BrainTargetOps => d.target \in Brains!RelatedThemeBasenames(hits)
  /\ d.tags \subseteq BrainTags
  /\ d.links \subseteq Brains!RelatedBasenames(hits) \cup acc.new
                         \cup (IF d.op = "CREATE_THEME" THEN {d.name} ELSE {})
  /\ d.status \in Brains!StatusValues \cup {"contested", Brains!Nothing}
  /\ d.status = "contested" => d.op = "MARK_CONTESTED"
  /\ d.aliases \cap (Brains!RelatedBasenames(hits) \cup acc.new \cup acc.aliases \cup {d.name}) = {}
  /\ \A a \in d.aliases : a[2] = 1
  /\ Brains!DomainSet # {} /\ ~c.gated /\ w.op \in Brains!BrainBasenameOps => d.op = w.op

LEMMA DispositionIsSound ==
    ASSUME DomainsOK, NEW c, NEW w, NEW hits, IsFiniteSet(hits), NEW acc, IsFiniteSet(acc.new)
    PROVE  Sound(c, w, hits, acc, Brains!Disposition(c, w, hits, acc))
<1>1. PICK d : d = Brains!Disposition(c, w, hits, acc)
  OBVIOUS
<1> DEFINE shown == Brains!RelatedBasenames(hits)
           new == IF d.op = "CREATE_THEME" THEN acc.new \cup {d.name} ELSE acc.new
<1>2. Fields(c, w, hits, acc, d)
  BY <1>1, FieldsOf
<1>3. /\ d.candidate = c.id /\ d.events = c.events
      /\ d.op = Brains!FinalOp(c, w, hits)
      /\ d.name = Brains!NameOf(d.op, c, w, hits, acc)
      /\ d.domain = IF d.op \in Brains!BrainBasenameOps THEN Brains!RoutedDomain(c, w) ELSE Brains!Nothing
      /\ d.target = IF d.op \in Brains!BrainTargetOps THEN w.target ELSE Brains!NoName
      /\ d.tags = IF d.op \in {"CREATE_THEME", "MERGE_INTO_THEME"} THEN w.tags \cap BrainTags ELSE {}
      /\ d.status = Brains!StatusFor(d.op, w)
      /\ d.links = Brains!LinksFor(d.op, w, hits, new)
      /\ d.aliases = Brains!KeptAliases(d.op, w, hits, new \cup acc.aliases \cup {d.name})
  BY <1>2 DEF Fields
<1>4. PICK op : op = d.op
  OBVIOUS
<1>5. /\ op \in Brains!BrainOps
      /\ c.gated => op \in Brains!BrainGateAllowedOps
      /\ op \in Brains!BrainBasenameOps => Brains!RoutedDomain(c, w) \in Brains!DomainSet
      /\ op \in Brains!BrainTargetOps => w.target \in Brains!RelatedThemeBasenames(hits)
      /\ Brains!DomainSet # {} /\ ~c.gated /\ w.op \in Brains!BrainBasenameOps => op = w.op
  BY <1>3, <1>4, OpIs
<1>6. op \in Brains!BrainBasenameOps => d.domain \in Brains!DomainSet /\ d.domain # Brains!Nothing
  BY <1>3, <1>4, <1>5 DEF DomainsOK
<1>7. op \notin Brains!BrainBasenameOps => d.domain = Brains!Nothing
  BY <1>3, <1>4
<1>8. op = "CREATE_THEME" =>
        /\ d.name \notin shown \cup acc.new \cup Brains!DomainNames /\ d.name[2] # 0
        /\ \E k \in Nat : k >= 1 /\ d.name = <<Brains!SeedSlug(c, w), k>>
  <2> DEFINE taken == shown \cup acc.new \cup Brains!DomainNames
  <2>1. IsFiniteSet(shown)
    <3> DEFINE f == [h \in hits |-> h[2]]
    <3>1. f \in Surjection(hits, shown)
      BY DEF Surjection, Brains!RelatedBasenames
    <3> HIDE DEF f, shown
    <3> QED BY <3>1, FS_Surjection
  <2>2. IsFiniteSet(taken)
    <3> HIDE DEF shown
    <3>1. IsFiniteSet(shown \cup acc.new)
      BY <2>1, FS_Union
    <3> QED BY <3>1, DomainsFinite, FS_Union
  <2>3. PICK slug : slug = Brains!SeedSlug(c, w)
    OBVIOUS
  <2>4. PICK t : t = taken
    OBVIOUS
  <2>5. PICK k \in Nat : k >= 1 /\ Brains!FreshName(slug, t) = <<slug, k>> /\ <<slug, k>> \notin t
    BY <2>2, <2>4, FreshIsFree
  <2>6. op = "CREATE_THEME" => d.name = Brains!FreshName(slug, t)
    BY <1>3, <1>4, <2>3, <2>4 DEF Brains!NameOf, Brains!Taken
  <2>7. op = "CREATE_THEME" => d.name = <<slug, k>> /\ <<slug, k>> \notin taken
    BY <2>4, <2>5, <2>6
  <2> HIDE DEF taken
  <2> QED BY <2>3, <2>5, <2>7 DEF taken
<1>9. op = "APPEND_DAILY" => d.name = <<BrainDate, 1>> /\ d.name[2] = 1
  BY <1>3, <1>4 DEF Brains!NameOf
<1>10. op \notin Brains!BrainBasenameOps => d.name[2] = 0
  <2>1. op \notin Brains!BrainBasenameOps => d.name = Brains!NoName
    BY <1>3, <1>4 DEF Brains!NameOf, Brains!BrainBasenameOps
  <2> QED BY <2>1 DEF Brains!NoName
<1>11. op \in Brains!BrainTargetOps => d.target \in Brains!RelatedThemeBasenames(hits)
  BY <1>3, <1>4, <1>5
<1>12. d.tags \subseteq BrainTags
  BY <1>3
<1>13. d.links \subseteq shown \cup acc.new \cup (IF op = "CREATE_THEME" THEN {d.name} ELSE {})
  BY <1>3, <1>4 DEF Brains!LinksFor, Brains!Competing, Brains!RelatedBasenames,
                    Brains!RelatedThemeBasenames
<1>14. /\ d.status \in Brains!StatusValues \cup {"contested", Brains!Nothing}
       /\ d.status = "contested" => op = "MARK_CONTESTED"
  BY <1>3, <1>4 DEF Brains!StatusFor, Brains!StatusValues, Brains!Nothing
<1>15. /\ d.aliases \cap (shown \cup acc.new \cup acc.aliases \cup {d.name}) = {}
       /\ \A a \in d.aliases : a[2] = 1
  BY <1>3 DEF Brains!KeptAliases
<1>16. op \in Brains!BrainBasenameOps => op = "CREATE_THEME" \/ op = "APPEND_DAILY"
  BY DEF Brains!BrainBasenameOps
<1>17. op \in Brains!BrainBasenameOps => d.domain # Brains!Nothing /\ d.name[2] # 0
  BY <1>6, <1>8, <1>9, <1>16
<1> QED
  BY <1>1, <1>3, <1>4, <1>5, <1>6, <1>7, <1>8, <1>9, <1>10, <1>11, <1>12, <1>13, <1>14, <1>15,
     <1>17 DEF Sound

LEMMA DisposesSoundly ==
    ASSUME DomainsOK, NEW x, IsFiniteSet(x.hits), NEW n \in Nat, Len(x.cands) = n
    PROVE  LET plan == Brains!RunPlan(x)
           IN /\ Len(plan) = n /\ DOMAIN plan = 1 .. n
              /\ \A k \in 1 .. n : \E acc :
                   /\ acc.new = NewBefore(plan, k) /\ acc.aliases = AliasesBefore(plan, k)
                   /\ Sound(x.cands[k], Wish(x, k), x.hits, acc, plan[k])
<1>1. PICK plan : plan = Brains!RunPlan(x)
  OBVIOUS
<1>2. Len(plan) = n /\ DOMAIN plan = 1 .. n /\ \A k \in 1 .. n : Disposes(x, plan, k, plan[k])
  BY <1>1, PlanIs
<1>3. ASSUME NEW k \in 1 .. n
      PROVE  \E acc : /\ acc.new = NewBefore(plan, k) /\ acc.aliases = AliasesBefore(plan, k)
                      /\ Sound(x.cands[k], Wish(x, k), x.hits, acc, plan[k])
  <2>1. PICK acc : /\ plan[k] = Brains!Disposition(x.cands[k], Wish(x, k), x.hits, acc)
                   /\ acc.new = NewBefore(plan, k) /\ acc.aliases = AliasesBefore(plan, k)
    BY <1>2 DEF Disposes
  <2>2. IsFiniteSet(acc.new)
    <3> DEFINE L == {l \in 1 .. k - 1 : plan[l].op = "CREATE_THEME"}
               f == [l \in L |-> plan[l].name]
    <3>1. f \in Surjection(L, acc.new)
      BY <2>1 DEF Surjection, NewBefore
    <3>2. IsFiniteSet(1 .. k - 1) /\ L \in SUBSET (1 .. k - 1)
      BY FS_Interval
    <3>3. IsFiniteSet(L)
      BY <3>2, FS_Subset
    <3> HIDE DEF f, L
    <3> QED BY <3>1, <3>3, FS_Surjection
  <2> QED BY <2>1, <2>2, DispositionIsSound
<1> QED BY <1>1, <1>2, <1>3

\* The gate refuses the name of a created note only for what it was named after: the
\* hash of a content is safe with any suffix, and so is no name of it.
LEMMA UnsafeIsSaid ==
    ASSUME NEW c, NEW w, Brains!IsSequence(w.seeds), Brains!IsSafeBasename(<<c.hash, 1>>),
           NEW k \in Nat, k >= 1, NEW name, name = <<Brains!SeedSlug(c, w), k>>,
           ~Brains!IsSafeBasename(name)
    PROVE  Brains!SeedSlug(c, w) \in {BrainSlugOf[t] : t \in Brains!Range(w.seeds) \cup {c.text}}
<1>1. PICK n \in Nat : DOMAIN w.seeds = 1 .. n
  BY SequenceIs
<1> DEFINE named == {i \in DOMAIN w.seeds : BrainSlugOf[w.seeds[i]] # Brains!NoSlug}
           first == CHOOSE i \in named : \A j \in named : i <= j
<1>2. CASE named # {}
  <2>1. \E i \in named : \A j \in named : i <= j
    <3>1. named \in SUBSET Nat
      BY <1>1
    <3> HIDE DEF named
    <3> QED BY <1>2, <3>1, NatMin
  <2>2. first \in named
    <3> HIDE DEF named
    <3> QED BY <2>1
  <2>3. Brains!SeedSlug(c, w) = BrainSlugOf[w.seeds[first]]
    BY <1>2 DEF Brains!SeedSlug
  <2>4. w.seeds[first] \in Brains!Range(w.seeds)
    BY <2>2 DEF Brains!Range
  <2> HIDE DEF first
  <2> QED BY <2>3, <2>4
<1>3. CASE named = {} /\ BrainSlugOf[c.text] # Brains!NoSlug
  <2>1. Brains!SeedSlug(c, w) = BrainSlugOf[c.text]
    BY <1>3 DEF Brains!SeedSlug
  <2> QED BY <2>1
<1>4. CASE named = {} /\ BrainSlugOf[c.text] = Brains!NoSlug
  <2>1. name = <<c.hash, k>>
    BY <1>4 DEF Brains!SeedSlug
  <2> QED BY <2>1 DEF Brains!IsSafeBasename
<1> QED BY <1>2, <1>3, <1>4

LEMMA PlanPassesGate ==
    ASSUME DomainsOK, NEW x, Brains!IsPlanInput(x) PROVE Brains!NormalizedPassesGate(x)
<1>1. PICK n \in Nat : Len(x.cands) = n /\ DOMAIN x.cands = 1 .. n
  BY SequenceIs DEF Brains!IsPlanInput
<1>2. /\ \A i \in 1 .. n :
           /\ x.cands[i].events # {} /\ Brains!IsSafeBasename(<<x.cands[i].hash, 1>>)
           /\ \A j \in 1 .. n \ {i} : /\ x.cands[i].id # x.cands[j].id
                                      /\ x.cands[i].events \cap x.cands[j].events = {}
      /\ IsFiniteSet(x.hits) /\ x.hits \subseteq Brains!Concepts(x.registry)
  <2>1. Brains!IsFiniteSet(x.hits) => IsFiniteSet(x.hits)
    BY DEF Brains!IsFiniteSet, IsFiniteSet
  <2> QED BY <1>1, <2>1 DEF Brains!IsPlanInput
<1>3. PICK plan : /\ plan = Brains!RunPlan(x)
                  /\ Len(plan) = n /\ DOMAIN plan = 1 .. n
                  /\ \A k \in 1 .. n : \E acc :
                       /\ acc.new = NewBefore(plan, k) /\ acc.aliases = AliasesBefore(plan, k)
                       /\ Sound(x.cands[k], Wish(x, k), x.hits, acc, plan[k])
  BY <1>1, <1>2, DisposesSoundly
<1> DEFINE ds == Brains!Range(plan)
           made == Brains!Created(plan)
           new == {d.name : d \in made}
           shown == Brains!RelatedBasenames(x.hits)
<1>4. ds = {plan[k] : k \in 1 .. n} /\ made = {d \in ds : d.op = "CREATE_THEME"}
  BY <1>3 DEF Brains!Range, Brains!Created
<1>5. ASSUME NEW k \in 1 .. n, NEW d, d = plan[k]
      PROVE  /\ d.candidate = x.cands[k].id /\ d.events = x.cands[k].events
             /\ d.op \in Brains!BrainOps
             /\ x.cands[k].gated => d.op \in Brains!BrainGateAllowedOps
             /\ d.op \in Brains!BrainBasenameOps => d.domain # Brains!Nothing /\ d.name # Brains!NoName
             /\ d.domain \in Brains!DomainSet \cup {Brains!Nothing}
             /\ d.op = "CREATE_THEME" => d.name \notin shown \cup NewBefore(plan, k) \cup Brains!DomainNames
             /\ d.op = "CREATE_THEME" =>
                  \E s \in Nat : s >= 1 /\ d.name = <<Brains!SeedSlug(x.cands[k], Wish(x, k)), s>>
             /\ d.op = "APPEND_DAILY" => d.name = <<BrainDate, 1>>
             /\ d.op \in Brains!BrainTargetOps => d.target \in Brains!RelatedThemeBasenames(x.hits)
             /\ d.tags \subseteq BrainTags
             /\ d.links \subseteq shown \cup new
             /\ d.status \in Brains!StatusValues \cup {"contested", Brains!Nothing}
             /\ d.status = "contested" => d.op = "MARK_CONTESTED"
  <2>1. PICK acc : /\ acc.new = NewBefore(plan, k)
                   /\ Sound(x.cands[k], Wish(x, k), x.hits, acc, plan[k])
    BY <1>3
  <2>2. d.name[2] # 0 => d.name # Brains!NoName
    BY DEF Brains!NoName
  <2>3. NewBefore(plan, k) \subseteq new
    BY <1>3, <1>4 DEF NewBefore
  <2>4. d.op = "CREATE_THEME" => d.name \in new
    BY <1>4, <1>5
  <2> HIDE DEF new, shown
  <2>5. d.links \subseteq shown \cup new
    BY <1>5, <2>1, <2>3, <2>4 DEF Sound, shown
  <2> QED BY <1>5, <2>1, <2>2, <2>5 DEF Sound, shown
<1>6. \A d \in ds : \E k \in 1 .. n : d = plan[k]
  BY <1>4
<1> DEFINE gated == {c.id : c \in {y \in Brains!Range(x.cands) : y.gated}}
           covered(e) == Brains!Cardinality({d \in ds : e \in d.events})
           blame(check, set) == {<<check, d.candidate>> : d \in set}
           live == {d \in made : d.name \in Brains!NamesOf(x.registry)}
           astray == {d \in ds : d.domain # Brains!Nothing /\ ~Brains!IsSafeBasename(<<d.domain, 1>>)}
           unsafe == {d \in ds : /\ d.op \in Brains!BrainBasenameOps /\ d.name # Brains!NoName
                                 /\ ~Brains!IsSafeBasename(d.name)}
<1>7. {e \in UNION {c.events : c \in Brains!Range(x.cands)} : covered(e) # 1} = {}
  <2> SUFFICES ASSUME NEW c \in Brains!Range(x.cands), NEW e \in c.events PROVE covered(e) = 1
    OBVIOUS
  <2>1. PICK k \in 1 .. n : c = x.cands[k]
    BY <1>1 DEF Brains!Range
  <2>2. {d \in ds : e \in d.events} = {plan[k]}
    <3>1. plan[k] \in ds /\ e \in plan[k].events
      BY <1>4, <1>5, <2>1
    <3>2. ASSUME NEW d \in ds, e \in d.events PROVE d = plan[k]
      <4>1. PICK j \in 1 .. n : d = plan[j]
        BY <1>6
      <4>2. e \in x.cands[j].events
        BY <1>5, <3>2, <4>1
      <4>3. j = k
        BY <1>2, <2>1, <4>2
      <4> QED BY <4>1, <4>3
    <3> HIDE DEF ds
    <3> QED BY <3>1, <3>2
  <2>3. Cardinality({plan[k]}) = 1
    BY FS_Singleton
  <2>4. covered(e) = Cardinality({d \in ds : e \in d.events})
    BY DEF Brains!Cardinality, Cardinality
  <2> HIDE DEF covered, ds
  <2> QED BY <2>2, <2>3, <2>4
<1>8. {d \in ds : d.op \notin Brains!BrainOps} = {}
  BY <1>5, <1>6
<1>9. {d \in ds : ~(d.tags \subseteq BrainTags) \/ d.domain \notin Brains!DomainSet \cup {Brains!Nothing}} = {}
  BY <1>5, <1>6
<1>10. {d \in ds : d.op \in Brains!BrainBasenameOps
                     /\ (d.domain = Brains!Nothing \/ d.name = Brains!NoName)} = {}
  BY <1>5, <1>6
<1>11. {d \in made : d.name \in Brains!DomainNames} = {}
  BY <1>4, <1>5, <1>6
<1>12. {d \in made : \E e \in made \ {d} : e.name = d.name} = {}
  <2> SUFFICES ASSUME NEW d \in made, NEW e \in made \ {d}, e.name = d.name PROVE FALSE
    OBVIOUS
  <2>1. PICK i \in 1 .. n : d = plan[i]
    BY <1>4, <1>6
  <2>2. PICK j \in 1 .. n : e = plan[j]
    BY <1>4, <1>6
  <2>3. d.op = "CREATE_THEME" /\ e.op = "CREATE_THEME"
    BY <1>4
  <2>4. ASSUME i < j PROVE FALSE
    <3>1. d.name \in NewBefore(plan, j)
      BY <2>1, <2>3, <2>4 DEF NewBefore
    <3> QED BY <1>5, <2>2, <2>3, <3>1
  <2>5. ASSUME j < i PROVE FALSE
    <3>1. e.name \in NewBefore(plan, i)
      BY <2>2, <2>3, <2>5 DEF NewBefore
    <3> QED BY <1>5, <2>1, <2>3, <3>1
  <2>6. i # j
    BY <2>1, <2>2
  <2> QED BY <2>4, <2>5, <2>6
<1>13. {d \in ds : d.op \in Brains!BrainTargetOps /\ d.target \notin Brains!ConceptNames(x.registry)} = {}
  <2>1. Brains!RelatedThemeBasenames(x.hits) \subseteq Brains!ConceptNames(x.registry)
    BY <1>2 DEF Brains!RelatedThemeBasenames, Brains!ConceptNames, Brains!NamesOf
  <2> QED BY <1>5, <1>6, <2>1
<1>14. {d \in ds : d.op = "APPEND_DAILY" /\ d.name # <<BrainDate, 1>>} = {}
  BY <1>5, <1>6
<1>15. {d \in ds : ~(d.links \subseteq Brains!NamesOf(x.registry) \cup new)} = {}
  <2>1. shown \subseteq Brains!NamesOf(x.registry)
    BY <1>2 DEF Brains!RelatedBasenames, Brains!NamesOf, Brains!Concepts
  <2> HIDE DEF shown, new, ds
  <2> QED BY <1>5, <1>6, <2>1
<1>16. {d \in ds : d.op \in Brains!BrainContentOps /\ d.events = {}} = {}
  <2> SUFFICES ASSUME NEW d \in ds PROVE d.events # {}
    OBVIOUS
  <2>1. PICK k \in 1 .. n : d = plan[k]
    BY <1>6
  <2>2. d.events = x.cands[k].events
    BY <1>5, <2>1
  <2> QED BY <1>2, <2>2
<1>17. {d \in ds : \/ d.status \notin Brains!StatusValues \cup {"contested", Brains!Nothing}
                   \/ d.status = "contested" /\ d.op # "MARK_CONTESTED"} = {}
  BY <1>5, <1>6
<1>18. {d \in ds : d.candidate \in gated /\ d.op \notin Brains!BrainGateAllowedOps} = {}
  <2> SUFFICES ASSUME NEW d \in ds, d.candidate \in gated PROVE d.op \in Brains!BrainGateAllowedOps
    OBVIOUS
  <2>1. PICK k \in 1 .. n : d = plan[k]
    BY <1>6
  <2>2. PICK j \in 1 .. n : x.cands[j].gated /\ x.cands[j].id = d.candidate
    BY <1>1 DEF Brains!Range
  <2>3. d.candidate = x.cands[k].id
    BY <1>5, <2>1
  <2>4. j = k
    BY <1>2, <2>2, <2>3
  <2> QED BY <1>5, <2>1, <2>2, <2>4
<1>19. ASSUME NEW err \in Brains!GateErrors(x.cands, plan, x.registry)
       PROVE  \/ \E d \in live : err = <<"BASENAME-LIVE", d.candidate>>
              \/ \E d \in astray : err = <<"PATH-DOMAIN", d.candidate>>
              \/ \E d \in unsafe : err = <<"PATH-BASENAME", d.candidate>>
  <2> HIDE DEF ds, made, new, shown, gated, live, astray, unsafe, covered
  <2>1. err \in UNION {
          {<<"COVERAGE", e>> : e \in {e \in UNION {c.events : c \in Brains!Range(x.cands)} : covered(e) # 1}},
          blame("CLOSED-VOCAB", {d \in ds : d.op \notin Brains!BrainOps}),
          blame("TAXONOMY", {d \in ds : ~(d.tags \subseteq BrainTags) \/ d.domain \notin Brains!DomainSet \cup {Brains!Nothing}}),
          blame("BASENAME", {d \in ds : d.op \in Brains!BrainBasenameOps
                               /\ (d.domain = Brains!Nothing \/ d.name = Brains!NoName)}),
          blame("BASENAME-LIVE", live),
          blame("BASENAME-RESERVED", {d \in made : d.name \in Brains!DomainNames}),
          blame("BASENAME-TWICE", {d \in made : \E e \in made \ {d} : e.name = d.name}),
          blame("TARGET", {d \in ds : d.op \in Brains!BrainTargetOps /\ d.target \notin Brains!ConceptNames(x.registry)}),
          blame("PATH-DOMAIN", astray), blame("PATH-BASENAME", unsafe),
          blame("PATH-DATE", {d \in ds : d.op = "APPEND_DAILY" /\ d.name # <<BrainDate, 1>>}),
          blame("LINK", {d \in ds : ~(d.links \subseteq Brains!NamesOf(x.registry) \cup new)}),
          blame("PROVENANCE", {d \in ds : d.op \in Brains!BrainContentOps /\ d.events = {}}),
          blame("STATUS", {d \in ds : \/ d.status \notin Brains!StatusValues \cup {"contested", Brains!Nothing}
                                      \/ d.status = "contested" /\ d.op # "MARK_CONTESTED"}),
          blame("CANDIDATE-GATE", {d \in ds : d.candidate \in gated /\ d.op \notin Brains!BrainGateAllowedOps})}
    BY <1>19 DEF Brains!GateErrors, ds, made, new, gated, live, astray, unsafe, covered
  <2>2. err \in blame("BASENAME-LIVE", live) \cup blame("PATH-DOMAIN", astray)
                 \cup blame("PATH-BASENAME", unsafe)
    BY <1>7, <1>8, <1>9, <1>10, <1>11, <1>12, <1>13, <1>14, <1>15, <1>16, <1>17, <1>18, <2>1
  <2> QED BY <2>2
<1> DEFINE said(i) == {BrainSlugOf[s] : s \in Brains!Range(Brains!WishFor(plan[i].candidate, x.wishes).seeds)
                                              \cup {x.cands[i].text}}
           Excused(err, i) ==
             /\ plan[i].candidate = err[2]
             /\ \/ /\ err[1] = "BASENAME-LIVE" /\ plan[i].op = "CREATE_THEME"
                   /\ plan[i].name \in Brains!NamesOf(x.registry) \ Brains!NamesOf(x.hits)
                \/ /\ err[1] = "PATH-BASENAME" /\ plan[i].op = "CREATE_THEME"
                   /\ plan[i].name[1] \in said(i) /\ ~Brains!IsSafeBasename(plan[i].name)
                \/ /\ err[1] = "PATH-DOMAIN" /\ plan[i].domain \in Brains!DomainSet
                   /\ ~Brains!IsSafeBasename(<<plan[i].domain, 1>>)
<1>20. ASSUME NEW err, NEW d \in live, err = <<"BASENAME-LIVE", d.candidate>>
       PROVE  \E i \in 1 .. n : Excused(err, i)
  <2>1. d \in made /\ d.name \in Brains!NamesOf(x.registry)
    OBVIOUS
  <2>2. PICK i \in 1 .. n : d = plan[i]
    BY <1>4, <1>6, <2>1
  <2>3. d.op = "CREATE_THEME" /\ d.name \notin shown
    BY <1>4, <1>5, <2>1, <2>2
  <2>4. Brains!NamesOf(x.hits) = shown
    BY DEF Brains!NamesOf, Brains!RelatedBasenames
  <2> HIDE DEF shown, made, live, said
  <2> QED BY <1>20, <2>1, <2>2, <2>3, <2>4
<1>21. ASSUME NEW err, NEW d \in astray, err = <<"PATH-DOMAIN", d.candidate>>
       PROVE  \E i \in 1 .. n : Excused(err, i)
  <2>1. PICK i \in 1 .. n : d = plan[i]
    BY <1>6
  <2>2. d.domain \in Brains!DomainSet /\ ~Brains!IsSafeBasename(<<d.domain, 1>>)
    BY <1>5, <2>1
  <2> HIDE DEF astray, said
  <2> QED BY <1>21, <2>1, <2>2
<1>22. ASSUME NEW err, NEW d \in unsafe, err = <<"PATH-BASENAME", d.candidate>>
       PROVE  \E i \in 1 .. n : Excused(err, i)
  <2>1. PICK i \in 1 .. n : d = plan[i]
    BY <1>6
  <2>2. d.op \in Brains!BrainBasenameOps /\ ~Brains!IsSafeBasename(d.name)
    OBVIOUS
  <2>3. d.op = "CREATE_THEME"
    <3>1. d.op = "APPEND_DAILY" => d.name = <<BrainDate, 1>>
      BY <1>5, <2>1
    <3>2. d.op # "APPEND_DAILY"
      BY <2>2, <3>1 DEF DomainsOK
    <3> QED BY <2>2, <3>2 DEF Brains!BrainBasenameOps
  <2>4. PICK c : c = x.cands[i]
    OBVIOUS
  <2>5. PICK w : w = Wish(x, i)
    OBVIOUS
  <2>6. PICK s \in Nat : s >= 1 /\ d.name = <<Brains!SeedSlug(c, w), s>>
    BY <1>5, <2>1, <2>3, <2>4, <2>5
  <2>7. Brains!IsSequence(w.seeds)
    <3>1. (w = x.wishes[c.id] /\ c.id \in DOMAIN x.wishes) \/ w = Brains!NoWish
      BY <2>4, <2>5 DEF Wish, Brains!WishFor
    <3>2. Brains!IsSequence(<<>>)
      BY DEF Brains!IsSequence
    <3>3. w = Brains!NoWish => w.seeds = <<>>
      BY DEF Brains!NoWish
    <3>4. \A id \in DOMAIN x.wishes : Brains!IsSequence(x.wishes[id].seeds)
      BY DEF Brains!IsPlanInput
    <3> QED BY <3>1, <3>2, <3>3, <3>4
  <2>8. Brains!IsSafeBasename(<<c.hash, 1>>)
    BY <1>2, <2>4
  <2>9. PICK slug : slug = Brains!SeedSlug(c, w)
    OBVIOUS
  <2>10. slug \in {BrainSlugOf[t] : t \in Brains!Range(w.seeds) \cup {c.text}}
    BY <2>2, <2>6, <2>7, <2>8, <2>9, UnsafeIsSaid
  <2>11. d.candidate = c.id /\ w = Brains!WishFor(d.candidate, x.wishes)
    BY <1>5, <2>1, <2>4, <2>5 DEF Wish
  <2>12. d.name[1] \in said(i)
    BY <2>1, <2>4, <2>6, <2>9, <2>10, <2>11
  <2> HIDE DEF unsafe, said
  <2> QED BY <1>22, <2>1, <2>2, <2>3, <2>12
<1>23. \A err \in Brains!GateErrors(x.cands, plan, x.registry) : \E i \in 1 .. n : Excused(err, i)
  <2> HIDE DEF Excused, live, astray, unsafe
  <2> QED BY <1>19, <1>20, <1>21, <1>22
<1> QED BY <1>3, <1>23 DEF Brains!NormalizedPassesGate

LEMMA AliasesAreApart ==
    ASSUME DomainsOK, NEW x, Brains!IsPlanInput(x) PROVE Brains!AliasesApart(x)
<1>1. PICK n \in Nat : Len(x.cands) = n /\ DOMAIN x.cands = 1 .. n
  BY SequenceIs DEF Brains!IsPlanInput
<1>2. IsFiniteSet(x.hits)
  BY DEF Brains!IsPlanInput, Brains!IsFiniteSet, IsFiniteSet
<1>3. PICK plan : /\ plan = Brains!RunPlan(x)
                  /\ Len(plan) = n /\ DOMAIN plan = 1 .. n
                  /\ \A k \in 1 .. n : \E acc :
                       /\ acc.new = NewBefore(plan, k) /\ acc.aliases = AliasesBefore(plan, k)
                       /\ Sound(x.cands[k], Wish(x, k), x.hits, acc, plan[k])
  BY <1>1, <1>2, DisposesSoundly
<1>4. ASSUME NEW k \in 1 .. n
      PROVE  /\ plan[k].aliases \cap Brains!RelatedBasenames(x.hits) = {}
             /\ plan[k].aliases \cap NewBefore(plan, k) = {}
             /\ plan[k].aliases \cap AliasesBefore(plan, k) = {}
             /\ plan[k].name \notin plan[k].aliases
             /\ \A a \in plan[k].aliases : a[2] = 1
             /\ plan[k].op \notin Brains!BrainBasenameOps => plan[k].name[2] = 0
  BY <1>3 DEF Sound
<1>5. ASSUME NEW i \in 1 .. n, NEW j \in 1 .. n, j < i
      PROVE  plan[i].aliases \cap plan[j].aliases = {}
  <2>1. plan[j].aliases \subseteq AliasesBefore(plan, i)
    BY <1>5 DEF AliasesBefore
  <2> QED BY <1>4, <2>1
<1>6. ASSUME NEW i \in 1 .. n, NEW j \in 1 .. i, plan[j].name \in plan[i].aliases
      PROVE  j # i /\ plan[j].op = "APPEND_DAILY"
  <2>1. j # i /\ j \in 1 .. n
    BY <1>4, <1>6
  <2>2. plan[j].op \in Brains!BrainBasenameOps
    <3>1. plan[j].name[2] = 1
      BY <1>4, <1>6
    <3> QED BY <1>4, <2>1, <3>1
  <2>3. plan[j].op # "CREATE_THEME"
    <3>1. SUFFICES ASSUME plan[j].op = "CREATE_THEME" PROVE FALSE
      OBVIOUS
    <3>2. plan[j].name \in NewBefore(plan, i)
      BY <2>1, <3>1 DEF NewBefore
    <3> QED BY <1>4, <1>6, <3>2
  <2> QED BY <2>1, <2>2, <2>3 DEF Brains!BrainBasenameOps
<1>7. \A i \in 1 .. n : \A j \in 1 .. n \ {i} : plan[i].aliases \cap plan[j].aliases = {}
  <2> SUFFICES ASSUME NEW i \in 1 .. n, NEW j \in 1 .. n \ {i}
               PROVE  plan[i].aliases \cap plan[j].aliases = {}
    OBVIOUS
  <2>1. i < j \/ j < i
    OBVIOUS
  <2> QED BY <1>5, <2>1
<1>8. Brains!NamesOf(x.hits) = Brains!RelatedBasenames(x.hits)
  BY DEF Brains!NamesOf, Brains!RelatedBasenames
<1> QED BY <1>3, <1>4, <1>6, <1>7, <1>8 DEF Brains!AliasesApart

LEMMA KeepsNewFacts ==
    ASSUME DomainsOK, NEW x, Brains!IsPlanInput(x) PROVE Brains!NewFactKept(x)
<1>1. PICK n \in Nat : Len(x.cands) = n /\ DOMAIN x.cands = 1 .. n
  BY SequenceIs DEF Brains!IsPlanInput
<1>2. IsFiniteSet(x.hits)
  BY DEF Brains!IsPlanInput, Brains!IsFiniteSet, IsFiniteSet
<1>3. PICK plan : /\ plan = Brains!RunPlan(x)
                  /\ Len(plan) = n /\ DOMAIN plan = 1 .. n
                  /\ \A k \in 1 .. n : \E acc : Sound(x.cands[k], Wish(x, k), x.hits, acc, plan[k])
  BY <1>1, <1>2, DisposesSoundly
<1>4. BrainDomains # <<>> => Brains!DomainSet # {}
  <2>1. PICK m \in Nat : Len(BrainDomains) = m /\ DOMAIN BrainDomains = 1 .. m
    BY DEF DomainsOK
  <2>2. Brains!DomainSet = {BrainDomains[i] : i \in 1 .. m}
    BY <2>1 DEF Brains!DomainSet, Brains!Range
  <2>3. CASE m = 0
    BY <2>1, <2>3
  <2>4. CASE m > 0
    <3>1. BrainDomains[1] \in Brains!DomainSet
      BY <2>2, <2>4
    <3> QED BY <3>1
  <2> QED BY <2>1, <2>3, <2>4
<1>5. ASSUME NEW k \in 1 .. n, BrainDomains # <<>>, ~x.cands[k].gated,
             Brains!WishFor(plan[k].candidate, x.wishes).op \in Brains!BrainBasenameOps
      PROVE  plan[k].op = Brains!WishFor(plan[k].candidate, x.wishes).op
  <2>1. PICK acc : Sound(x.cands[k], Wish(x, k), x.hits, acc, plan[k])
    BY <1>3
  <2>2. plan[k].candidate = x.cands[k].id
    BY <2>1 DEF Sound
  <2>3. Brains!WishFor(plan[k].candidate, x.wishes) = Wish(x, k)
    BY <2>2 DEF Wish
  <2> QED BY <1>4, <1>5, <2>1, <2>3 DEF Sound
<1> QED BY <1>3, <1>5 DEF Brains!NewFactKept

-----------------------------------------------------------------------------
(* PASS 2.                                                                 *)

LEMMA AuthoringFollows ==
    ASSUME NEW note, NEW sids, NEW n \in Nat, Len(sids) = n, NEW exit, NEW answers
    PROVE  LET after == Brains!Authored(note, sids, exit, answers)
           IN /\ after[0] = [note |-> note, failures |-> {}, aborted |-> FALSE]
              /\ \A k \in 1 .. n : after[k] = Brains!AuthorStep(after[k - 1], sids[k], exit, answers)
<1> DEFINE First == [note |-> note, failures |-> {}, aborted |-> FALSE]
           Then(a, k) == Brains!AuthorStep(a, sids[k], exit, answers)
           Loop(f, m) == [k \in 0 .. m |-> IF k = 0 THEN First ELSE Then(f[k - 1], k)]
           S == {m \in Nat : \E f : f = Loop(f, m)}
<1>1. 0 \in S
  <2>1. [k \in 0 .. 0 |-> First] = Loop([k \in 0 .. 0 |-> First], 0)
    OBVIOUS
  <2> QED BY <2>1
<1>2. ASSUME NEW m \in Nat, m \in S PROVE m + 1 \in S
  <2>1. PICK f : f = Loop(f, m)
    BY <1>2
  <2> DEFINE g == [k \in 0 .. m + 1 |-> IF k <= m THEN f[k] ELSE Then(f[m], k)]
  <2> HIDE DEF First, Then
  <2>2. ASSUME NEW k \in 0 .. m + 1
        PROVE  g[k] = IF k = 0 THEN First ELSE Then(g[k - 1], k)
    <3>1. CASE k = 0
      BY <2>1, <3>1
    <3>2. CASE k \in 1 .. m
      BY <2>1, <3>2
    <3>3. CASE k = m + 1
      BY <3>3
    <3> QED BY <3>1, <3>2, <3>3
  <2>3. g = Loop(g, m + 1)
    BY <2>2
  <2> HIDE DEF g
  <2> QED BY <2>3
<1>3. \E f : f = Loop(f, n)
  <2> HIDE DEF Loop
  <2>1. n \in S
    <3> HIDE DEF S
    <3> QED BY <1>1, <1>2, Induct
  <2> QED BY <2>1
<1> DEFINE after == Brains!Authored(note, sids, exit, answers)
<1>4. after = Loop(after, n)
  BY <1>3 DEF Brains!Authored
<1>5. PICK h : h = after
  OBVIOUS
<1>6. h = Loop(h, n)
  BY <1>4, <1>5
<1>7. h[0] = First /\ \A k \in 1 .. n : h[k] = Then(h[k - 1], k)
  <2> HIDE DEF First, Then
  <2> QED BY <1>6
<1> QED BY <1>5, <1>7

\* The processes a pass of k regions has started, and hung on.
HungBy(x, k) == {i \in 1 .. k : x.exit[x.sids[i]] = "hangs"}
ReachedBy(x, k) == {x.sids[i] : i \in {j \in 1 .. k : \A h \in HungBy(x, k) : j < h}}
FilledBy(x, k, i) ==
  /\ Brains!FirstOfId(x.note, i) /\ x.note[i].id \in ReachedBy(x, k)
  /\ x.exit[x.note[i].id] = "ok" /\ x.answers[x.note[i].id] # Brains!Refused
NoteBy(x, k) == [i \in DOMAIN x.note |->
                   IF FilledBy(x, k, i)
                   THEN [id |-> x.note[i].id, text |-> Brains!SanitizeProse(x.answers[x.note[i].id])]
                   ELSE x.note[i]]

\* A note with the answer to one more region, and the pass after k of them.
FilledIn(x, note, id) ==
  [i \in DOMAIN x.note |->
     IF x.note[i].id = id /\ Brains!FirstOfId(x.note, i) /\ x.answers[id] # Brains!Refused
     THEN [id |-> id, text |-> Brains!SanitizeProse(x.answers[id])] ELSE note[i]]
PassIs(x, k, pass) ==
  /\ pass.note = NoteBy(x, k)
  /\ pass.failures = {id \in ReachedBy(x, k) : x.exit[id] = "fails"}
  /\ HungBy(x, k) # {} => pass.aborted = TRUE
  /\ HungBy(x, k) = {} => pass.aborted = FALSE

\* The region of an id keeps its id, so the first one of it stays the first.
LEMMA FillsOne ==
    ASSUME NEW x, NEW n \in Nat, DOMAIN x.note = 1 .. n, NEW k \in Nat, NEW id
    PROVE  Brains!RunAuthor(NoteBy(x, k), {id}, x.answers) = FilledIn(x, NoteBy(x, k), id)
<1> DEFINE note == NoteBy(x, k)
<1>1. DOMAIN note = 1 .. n /\ \A i \in 1 .. n : note[i].id = x.note[i].id
  BY DEF NoteBy
<1> HIDE DEF note
<1>2. \A i \in 1 .. n : Brains!FirstOfId(note, i) <=> Brains!FirstOfId(x.note, i)
  BY <1>1 DEF Brains!FirstOfId
<1> DEFINE told == {t \in Brains!AuthorTargets(note, {id}) : x.answers[t] # Brains!Refused}
<1>3. \A i \in 1 .. n : note[i].id \in told <=> (x.note[i].id = id /\ x.answers[id] # Brains!Refused)
  BY <1>1 DEF Brains!AuthorTargets, Brains!PresentSentinelIds
<1>4. Brains!RunAuthor(note, {id}, x.answers) = Brains!FillSentinelRegions(note, told, x.answers)
  BY DEF Brains!RunAuthor
<1> HIDE DEF told
<1>5. \A i \in 1 .. n :
        (IF note[i].id \in told /\ Brains!FirstOfId(note, i)
         THEN [id |-> note[i].id, text |-> Brains!SanitizeProse(x.answers[note[i].id])] ELSE note[i])
        = (IF x.note[i].id = id /\ Brains!FirstOfId(x.note, i) /\ x.answers[id] # Brains!Refused
           THEN [id |-> id, text |-> Brains!SanitizeProse(x.answers[id])] ELSE note[i])
  BY <1>1, <1>2, <1>3
<1>6. Brains!RunAuthor(note, {id}, x.answers) = FilledIn(x, note, id)
  BY <1>1, <1>4, <1>5 DEF Brains!FillSentinelRegions, FilledIn
<1> QED BY <1>6 DEF note

LEMMA AuthoredSoFar ==
    ASSUME NEW x, Brains!IsAuthoring(x), NEW n \in Nat, Len(x.sids) = n,
           NEW after, after = Brains!Authored(x.note, x.sids, x.exit, x.answers)
    PROVE  \A k \in 0 .. n : PassIs(x, k, after[k])
<1>1. /\ after[0] = [note |-> x.note, failures |-> {}, aborted |-> FALSE]
      /\ \A k \in 1 .. n : after[k] = Brains!AuthorStep(after[k - 1], x.sids[k], x.exit, x.answers)
  BY AuthoringFollows
<1>2. PICK l \in Nat : DOMAIN x.note = 1 .. l /\ x.note = [i \in 1 .. l |-> x.note[i]]
  BY SequenceIs DEF Brains!IsAuthoring
<1>3. \A k \in 1 .. n : x.exit[x.sids[k]] \in {"ok", "fails", "hangs"}
  <2>1. DOMAIN x.sids = 1 .. n
    BY SequenceIs DEF Brains!IsAuthoring
  <2> QED BY <2>1 DEF Brains!IsAuthoring
<1> DEFINE S == {k \in Nat : k <= n => PassIs(x, k, after[k])}
<1>4. 0 \in S
  <2>1. HungBy(x, 0) = {} /\ ReachedBy(x, 0) = {}
    BY DEF HungBy, ReachedBy
  <2>2. after[0].note = x.note /\ after[0].failures = {} /\ after[0].aborted = FALSE
    BY <1>1
  <2>3. NoteBy(x, 0) = [i \in 1 .. l |-> x.note[i]]
    BY <1>2, <2>1 DEF NoteBy, FilledBy
  <2> QED BY <1>2, <2>1, <2>2, <2>3 DEF PassIs
<1>5. ASSUME NEW m \in Nat, m \in S, m + 1 <= n PROVE PassIs(x, m + 1, after[m + 1])
  <2> DEFINE k == m + 1
             id == x.sids[k]
  <2>1. k \in 1 .. n /\ after[k] = Brains!AuthorStep(after[m], id, x.exit, x.answers)
    BY <1>1, <1>5
  <2>2. /\ after[m].note = NoteBy(x, m)
        /\ after[m].failures = {t \in ReachedBy(x, m) : x.exit[t] = "fails"}
        /\ HungBy(x, m) # {} => after[m].aborted = TRUE
        /\ HungBy(x, m) = {} => after[m].aborted = FALSE
    BY <1>5 DEF PassIs
  <2>3. CASE HungBy(x, m) # {} \/ x.exit[id] = "hangs"
    <3>1. HungBy(x, k) # {}
      BY <1>5, <2>1, <2>3 DEF HungBy
    <3>2. ReachedBy(x, k) = ReachedBy(x, m)
      <4>1. \A j \in 1 .. k : (\A h \in HungBy(x, k) : j < h) <=> j # k /\ \A h \in HungBy(x, m) : j < h
        <5> SUFFICES ASSUME NEW j \in 1 .. k
                     PROVE  (\A h \in HungBy(x, k) : j < h) <=> j # k /\ \A h \in HungBy(x, m) : j < h
          OBVIOUS
        <5>1. HungBy(x, m) = HungBy(x, k) \ {k}
          BY <1>5 DEF HungBy
        <5>2. HungBy(x, k) \subseteq 1 .. k
          BY DEF HungBy
        <5>3. k \in HungBy(x, k) \/ \E h \in HungBy(x, m) : TRUE
          BY <2>1, <2>3 DEF HungBy
        <5> QED BY <5>1, <5>2, <5>3
      <4>2. 1 .. m = 1 .. k \ {k}
        BY <1>5
      <4>3. {j \in 1 .. k : \A h \in HungBy(x, k) : j < h} = {j \in 1 .. m : \A h \in HungBy(x, m) : j < h}
        <5> HIDE DEF k
        <5> QED BY <4>1, <4>2
      <4> QED BY <4>3 DEF ReachedBy
    <3>3. NoteBy(x, k) = NoteBy(x, m)
      BY <3>2 DEF NoteBy, FilledBy
    <3>4. /\ after[k].note = after[m].note /\ after[k].failures = after[m].failures
          /\ after[k].aborted = TRUE
      <4>1. CASE HungBy(x, m) # {}
        <5>1. after[m].aborted = TRUE
          BY <2>2, <4>1
        <5>2. after[k] = after[m]
          BY <2>1, <5>1 DEF Brains!AuthorStep
        <5> QED BY <5>1, <5>2
      <4>2. CASE HungBy(x, m) = {}
        <5>1. after[m].aborted = FALSE /\ x.exit[id] = "hangs"
          BY <2>2, <2>3, <4>2
        <5>2. after[k] = [note |-> after[m].note, failures |-> after[m].failures, aborted |-> TRUE]
          BY <2>1, <5>1 DEF Brains!AuthorStep
        <5> QED BY <5>2
      <4> QED BY <4>1, <4>2
    <3> QED BY <2>2, <3>1, <3>2, <3>3, <3>4 DEF PassIs
  <2>4. CASE HungBy(x, m) = {} /\ x.exit[id] # "hangs"
    <3>1. HungBy(x, k) = {}
      <4>1. 1 .. k = 1 .. m \cup {k}
        BY <1>5
      <4> QED BY <2>4, <4>1 DEF HungBy
    <3>2. ReachedBy(x, k) = ReachedBy(x, m) \cup {id}
      <4>1. 1 .. k = 1 .. m \cup {k}
        BY <1>5
      <4>2. ReachedBy(x, k) = {x.sids[i] : i \in 1 .. k} /\ ReachedBy(x, m) = {x.sids[i] : i \in 1 .. m}
        BY <2>4, <3>1 DEF ReachedBy
      <4> HIDE DEF k
      <4> QED BY <4>1, <4>2
    <3>3. after[m].aborted = FALSE
      BY <2>2, <2>4
    <3>4. CASE x.exit[id] = "fails"
      <4>1. after[k] = [note |-> after[m].note, failures |-> after[m].failures \cup {id}, aborted |-> FALSE]
        BY <2>1, <3>3, <3>4 DEF Brains!AuthorStep
      <4>2. NoteBy(x, k) = NoteBy(x, m)
        <5>1. \A i \in DOMAIN x.note : FilledBy(x, k, i) <=> FilledBy(x, m, i)
          BY <3>2, <3>4 DEF FilledBy
        <5> QED BY <5>1 DEF NoteBy
      <4>3. {t \in ReachedBy(x, k) : x.exit[t] = "fails"} = {t \in ReachedBy(x, m) : x.exit[t] = "fails"} \cup {id}
        BY <3>2, <3>4
      <4>4. /\ after[k].note = after[m].note /\ after[k].failures = after[m].failures \cup {id}
            /\ after[k].aborted = FALSE
        BY <4>1
      <4> QED BY <2>2, <3>1, <4>2, <4>3, <4>4 DEF PassIs
    <3>5. CASE x.exit[id] = "ok"
      <4>1. PICK note : note = after[m].note
        OBVIOUS
      <4>2. after[k] = [note |-> Brains!RunAuthor(note, {id}, x.answers),
                        failures |-> after[m].failures, aborted |-> FALSE]
        BY <2>1, <3>3, <3>5, <4>1 DEF Brains!AuthorStep
      <4>3. Brains!RunAuthor(note, {id}, x.answers) = FilledIn(x, note, id)
        <5>1. \A t : Brains!RunAuthor(NoteBy(x, m), {t}, x.answers) = FilledIn(x, NoteBy(x, m), t)
          BY <1>2, <1>5, FillsOne
        <5> QED BY <2>2, <4>1, <5>1
      <4>4. NoteBy(x, k) = FilledIn(x, note, id)
        <5>1. ASSUME NEW i \in 1 .. l
              PROVE  (IF FilledBy(x, k, i)
                      THEN [id |-> x.note[i].id, text |-> Brains!SanitizeProse(x.answers[x.note[i].id])]
                      ELSE x.note[i])
                     = (IF x.note[i].id = id /\ Brains!FirstOfId(x.note, i) /\ x.answers[id] # Brains!Refused
                        THEN [id |-> id, text |-> Brains!SanitizeProse(x.answers[id])] ELSE note[i])
          <6>1. note[i] = IF FilledBy(x, m, i)
                          THEN [id |-> x.note[i].id, text |-> Brains!SanitizeProse(x.answers[x.note[i].id])]
                          ELSE x.note[i]
            BY <1>2, <2>2, <4>1 DEF NoteBy
          <6>2. FilledBy(x, k, i) <=>
                  FilledBy(x, m, i) \/ (x.note[i].id = id /\ Brains!FirstOfId(x.note, i) /\ x.answers[id] # Brains!Refused)
            BY <3>2, <3>5 DEF FilledBy
          <6> QED BY <6>1, <6>2
        <5> QED BY <1>2, <5>1 DEF NoteBy, FilledIn
      <4>5. {t \in ReachedBy(x, k) : x.exit[t] = "fails"} = {t \in ReachedBy(x, m) : x.exit[t] = "fails"}
        BY <3>2, <3>5
      <4>6. /\ after[k].note = Brains!RunAuthor(note, {id}, x.answers)
            /\ after[k].failures = after[m].failures
            /\ after[k].aborted = FALSE
        BY <4>2
      <4> QED BY <2>2, <3>1, <4>3, <4>4, <4>5, <4>6 DEF PassIs
    <3> QED BY <1>3, <2>1, <2>4, <3>4, <3>5
  <2> QED BY <2>3, <2>4
<1>6. \A m \in Nat : m \in S => m + 1 \in S
  BY <1>5
<1>7. \A k \in Nat : k \in S
  <2> HIDE DEF S
  <2> QED BY <1>4, <1>6, Induct
<1> QED BY <1>7

\* Of the pieces of an answer only its marks are taken out, and of a split one the mark
\* it was split around closes up.
LEMMA MarksGo ==
    ASSUME NEW prose, NEW text, text = Brains!SanitizeProse(prose)
    PROVE  /\ text \ Brains!Marks = prose \ (Brains!Marks \cup DOMAIN Brains!Unsplit)
           /\ \A m \in Brains!Marks :
                m \in text <=> \E p \in prose \cap DOMAIN Brains!Unsplit : Brains!Unsplit[p] = m
<1>1. DOMAIN Brains!Unsplit = {"split_fence", "split_comment", "split_brackets"}
  BY DEF Brains!Unsplit
<1>2. /\ Brains!Unsplit["split_fence"] = "fence" /\ Brains!Unsplit["split_comment"] = "comment"
      /\ Brains!Unsplit["split_brackets"] = "brackets"
  BY DEF Brains!Unsplit
<1>3. Brains!Marks = {"fence", "comment", "brackets"}
  BY <1>1, <1>2 DEF Brains!Marks, Brains!Range
<1>4. \A p \in DOMAIN Brains!Unsplit : Brains!Unsplit[p] \in Brains!Marks
  BY <1>1, <1>2, <1>3
<1> QED BY <1>4 DEF Brains!SanitizeProse

LEMMA LeavesTheRest ==
    ASSUME NEW x, Brains!IsAuthoring(x) PROVE Brains!AuthorLeavesTheRest(x)
<1>1. PICK n \in Nat : Len(x.sids) = n /\ DOMAIN x.sids = 1 .. n
  BY SequenceIs DEF Brains!IsAuthoring
<1>2. PICK after : after = Brains!Authored(x.note, x.sids, x.exit, x.answers)
  OBVIOUS
<1>3. PICK pass : pass = Brains!AuthorPass(x.note, x.sids, x.exit, x.answers) /\ pass = after[n]
  BY <1>1, <1>2 DEF Brains!AuthorPass
<1>4. /\ pass.note = NoteBy(x, n)
      /\ pass.failures = {id \in ReachedBy(x, n) : x.exit[id] = "fails"}
      /\ HungBy(x, n) # {} => pass.aborted = TRUE
      /\ HungBy(x, n) = {} => pass.aborted = FALSE
  <2>1. n \in 0 .. n
    OBVIOUS
  <2>2. \A k \in 0 .. n : PassIs(x, k, after[k])
    BY <1>1, <1>2, AuthoredSoFar
  <2> QED BY <1>3, <2>1, <2>2 DEF PassIs
<1> DEFINE hung == {i \in DOMAIN x.sids : x.exit[x.sids[i]] = "hangs"}
           reached == {x.sids[i] : i \in {j \in DOMAIN x.sids : \A k \in hung : j < k}}
<1>5. hung = HungBy(x, n) /\ reached = ReachedBy(x, n)
  BY <1>1 DEF HungBy, ReachedBy
<1>6. pass.aborted = (hung # {})
  BY <1>4, <1>5, Zenon
<1>7. \A i \in DOMAIN x.note :
        pass.note[i] = IF FilledBy(x, n, i)
                       THEN [id |-> x.note[i].id,
                             text |-> Brains!SanitizeProse(x.answers[x.note[i].id])]
                       ELSE x.note[i]
  BY <1>4 DEF NoteBy
<1> DEFINE filled(i) == /\ \A j \in 1 .. i - 1 : x.note[j].id # x.note[i].id
                        /\ x.note[i].id \in reached
                        /\ x.exit[x.note[i].id] = "ok" /\ x.answers[x.note[i].id] # Brains!Refused
<1>8. \A i : filled(i) <=> FilledBy(x, n, i)
  BY <1>5 DEF FilledBy, Brains!FirstOfId
<1> DEFINE cleaned(text, prose) ==
             /\ text \ Brains!Marks = prose \ (Brains!Marks \cup DOMAIN Brains!Unsplit)
             /\ \A m \in Brains!Marks :
                  m \in text <=> \E p \in prose \cap DOMAIN Brains!Unsplit : Brains!Unsplit[p] = m
<1> HIDE DEF filled
<1>9. ASSUME NEW i \in DOMAIN x.note
      PROVE  IF filled(i)
             THEN /\ pass.note[i].id = x.note[i].id
                  /\ cleaned(pass.note[i].text, x.answers[x.note[i].id])
             ELSE pass.note[i] = x.note[i]
  <2>1. CASE filled(i)
    <3>1. pass.note[i] = [id |-> x.note[i].id, text |-> Brains!SanitizeProse(x.answers[x.note[i].id])]
      BY <1>7, <1>8, <2>1
    <3>2. /\ pass.note[i].id = x.note[i].id
          /\ pass.note[i].text = Brains!SanitizeProse(x.answers[x.note[i].id])
      BY <3>1
    <3>3. cleaned(pass.note[i].text, x.answers[x.note[i].id])
      BY <3>2, MarksGo
    <3> HIDE DEF cleaned
    <3> QED BY <2>1, <3>2, <3>3
  <2>2. CASE ~filled(i)
    BY <1>7, <1>8, <2>2
  <2> HIDE DEF cleaned
  <2> QED BY <2>1, <2>2
<1>10. pass.failures = {id \in reached : x.exit[id] = "fails"}
  BY <1>4, <1>5
<1> HIDE DEF hung, reached
<1> QED BY <1>3, <1>6, <1>9, <1>10 DEF Brains!AuthorLeavesTheRest, filled, hung, reached

-----------------------------------------------------------------------------
(* A query and a drawing.                                                  *)

LEMMA FilesAre ==
    ASSUME NEW s, Reads!IsSequence(s)
    PROVE  \E n \in Nat : Len(s) = n /\ DOMAIN s = 1 .. n /\ s = [i \in 1 .. n |-> s[i]]
  BY DEF Reads!IsSequence

\* The least and the largest of some numbers.
LEMMA LeastOf ==
    ASSUME NEW S \in SUBSET Nat, S # {}
    PROVE  Reads!Min(S) \in S /\ \A y \in S : Reads!Min(S) <= y
<1>1. \E x \in S : \A y \in S : x <= y
  BY NatMin
<1> QED BY <1>1 DEF Reads!Min

LEMMA LargestOf ==
    ASSUME NEW n \in Nat, NEW S \in SUBSET (0 .. n), S # {}
    PROVE  Reads!Max(S) \in S /\ \A y \in S : Reads!Max(S) >= y
<1>1. \E x \in S : \A y \in S : x >= y
  <2>1. CASE S = {0}
    BY <2>1
  <2>2. CASE S # {0}
    <3>1. S \ {0} # {} /\ S \ {0} \subseteq 1 .. n
      BY <2>2
    <3>2. PICK x \in S \ {0} : \A y \in S \ {0} : x >= y
      BY <3>1, NatMax
    <3>3. \A y \in S : x >= y
      BY <3>1, <3>2
    <3> QED BY <3>2, <3>3
  <2> QED BY <2>1, <2>2
<1> QED BY <1>1 DEF Reads!Max

LEMMA TwoOf ==
    ASSUME NEW a \in Int, NEW b \in Int
    PROVE  /\ Reads!Min({a, b}) = IF a <= b THEN a ELSE b
           /\ Reads!Max({a, b}) = IF a >= b THEN a ELSE b
<1>1. \E x \in {a, b} : \A y \in {a, b} : x <= y
  OBVIOUS
<1>2. \E x \in {a, b} : \A y \in {a, b} : x >= y
  OBVIOUS
<1>3. Reads!Min({a, b}) \in {a, b} /\ \A y \in {a, b} : Reads!Min({a, b}) <= y
  BY <1>1 DEF Reads!Min
<1>4. Reads!Max({a, b}) \in {a, b} /\ \A y \in {a, b} : Reads!Max({a, b}) >= y
  BY <1>2 DEF Reads!Max
<1> QED BY <1>3, <1>4

\* Of a strict total order R of a finite set: the place of a member is how many go
\* before it, and every place up to the last is taken by one member.
Place(S, R, i) == Cardinality({j \in S : <<j, i>> \in R})
Orders(R, S) ==
  /\ \A i \in S : <<i, i>> \notin R
  /\ \A i, j \in S : i # j => <<i, j>> \in R \/ <<j, i>> \in R
  /\ \A h, i, j \in S : <<h, i>> \in R /\ <<i, j>> \in R => <<h, j>> \in R

LEMMA PlacesOf ==
    ASSUME NEW S, IsFiniteSet(S), NEW R, Orders(R, S)
    PROVE  /\ Cardinality(S) \in Nat
           /\ \A i \in S : Place(S, R, i) \in 0 .. Cardinality(S) - 1
           /\ \A i, j \in S : <<i, j>> \in R <=> Place(S, R, i) < Place(S, R, j)
           /\ \A k \in 1 .. Cardinality(S) : \E i \in S : Place(S, R, i) = k - 1
<1> DEFINE T(m) == {j \in S : <<j, m>> \in R}
           n == Cardinality(S)
<1>1. n \in Nat /\ \A m : IsFiniteSet(T(m)) /\ Cardinality(T(m)) \in Nat
  <2>1. n \in Nat
    BY FS_CardinalityType
  <2>2. ASSUME NEW m PROVE IsFiniteSet(T(m)) /\ Cardinality(T(m)) \in Nat
    <3>1. T(m) \in SUBSET S
      OBVIOUS
    <3> HIDE DEF T
    <3>2. IsFiniteSet(T(m))
      BY <3>1, FS_Subset
    <3> QED BY <3>2, FS_CardinalityType
  <2> HIDE DEF T
  <2> QED BY <2>1, <2>2
<1>2. \A m : Place(S, R, m) = Cardinality(T(m))
  BY DEF Place
<1>3. ASSUME NEW i \in S PROVE Cardinality(T(i)) < n
  <2>1. i \notin T(i) /\ T(i) \cup {i} \in SUBSET S
    BY DEF Orders
  <2> HIDE DEF T
  <2>2. Cardinality(T(i) \cup {i}) = Cardinality(T(i)) + 1
    BY <1>1, <2>1, FS_AddElement
  <2>3. Cardinality(T(i) \cup {i}) <= n
    BY <2>1, FS_Subset
  <2> HIDE DEF n
  <2> QED BY <1>1, <2>2, <2>3
<1>4. ASSUME NEW i \in S, NEW j \in S, <<i, j>> \in R PROVE Cardinality(T(i)) < Cardinality(T(j))
  <2>1. i \notin T(i) /\ T(i) \cup {i} \in SUBSET T(j)
    BY <1>4 DEF Orders
  <2> HIDE DEF T
  <2>2. Cardinality(T(i) \cup {i}) = Cardinality(T(i)) + 1
    BY <1>1, <2>1, FS_AddElement
  <2>3. Cardinality(T(i) \cup {i}) <= Cardinality(T(j))
    BY <1>1, <2>1, FS_Subset
  <2> QED BY <1>1, <2>2, <2>3
<1>5. ASSUME NEW i \in S, NEW j \in S PROVE <<i, j>> \in R <=> Cardinality(T(i)) < Cardinality(T(j))
  <2> HIDE DEF T
  <2>1. CASE i = j
    BY <1>1, <2>1 DEF Orders
  <2>2. CASE <<i, j>> \in R
    BY <1>4, <2>2
  <2>3. CASE <<j, i>> \in R
    <3>1. Cardinality(T(j)) < Cardinality(T(i))
      BY <1>4, <2>3
    <3>2. <<i, j>> \notin R
      BY <2>3 DEF Orders
    <3> QED BY <1>1, <3>1, <3>2
  <2> QED BY <2>1, <2>2, <2>3 DEF Orders
<1> DEFINE f == [i \in S |-> Cardinality(T(i)) + 1]
<1>6. f \in Surjection(S, 1 .. n)
  <2>1. f \in [S -> 1 .. n]
    <3> HIDE DEF T, n
    <3> QED BY <1>1, <1>3
  <2>2. \A i, j \in S : f[i] = f[j] => i = j
    <3> SUFFICES ASSUME NEW i \in S, NEW j \in S, f[i] = f[j] PROVE i = j
      OBVIOUS
    <3>1. Cardinality(T(i)) = Cardinality(T(j))
      <4> HIDE DEF T
      <4> QED BY <1>1
    <3>2. <<i, j>> \notin R /\ <<j, i>> \notin R
      <4> HIDE DEF T
      <4> QED BY <1>1, <1>5, <3>1
    <3> QED BY <3>2 DEF Orders
  <2>3. f \in Injection(S, 1 .. n)
    <3> HIDE DEF f, n
    <3> QED BY <2>1, <2>2 DEF Injection, IsInjective
  <2>4. IsFiniteSet(1 .. n) /\ Cardinality(1 .. n) = n
    <3> HIDE DEF n
    <3> QED BY <1>1, FS_Interval
  <2> HIDE DEF f
  <2> QED BY <2>3, <2>4, FS_Injection
<1>7. ASSUME NEW k \in 1 .. n PROVE \E i \in S : Cardinality(T(i)) = k - 1
  <2>1. \A y \in 1 .. n : \E i \in S : f[i] = y
    <3> HIDE DEF f, n
    <3> QED BY <1>6 DEF Surjection
  <2>2. PICK i \in S : f[i] = k
    BY <2>1
  <2>3. Cardinality(T(i)) + 1 = k
    BY <2>2
  <2> HIDE DEF T, n
  <2> QED BY <1>1, <2>3
<1> HIDE DEF T
<1>8. \A i \in S : Cardinality(T(i)) \in 0 .. n - 1
  <2> HIDE DEF n
  <2> QED BY <1>1, <1>3
<1> QED BY <1>1, <1>2, <1>5, <1>7, <1>8

\* The names of the graph, its links, and the lengths of the walks to a name.
NamesIn(fs) == {fs[i].name : i \in {j \in DOMAIN fs : Reads!PathKind(fs[j]) # "person"}}
Linked(fs, m, n) == n \in NamesIn(fs) /\ n \in Reads!OutlinksOf(fs[Reads!ByBasename(fs, m)])
StartOf(fs, q, m) ==
  IF m \in Reads!MapSeeds(fs, q) THEN 0 ELSE IF m \in Reads!IndexSeeds(fs) THEN 1 ELSE 9
Walks(fs, q, n) ==
  {StartOf(fs, q, n)}
    \cup {StartOf(fs, q, m) + 1 : m \in {k \in NamesIn(fs) : Linked(fs, k, n)}}
    \cup {StartOf(fs, q, p[1]) + 2 : p \in {r \in NamesIn(fs) \X NamesIn(fs) :
                                          Linked(fs, r[1], r[2]) /\ Linked(fs, r[2], n)}}

LEMMA NamedAt ==
    ASSUME NEW fs, NEW n \in Nat, DOMAIN fs = 1 .. n, NEW m
    PROVE  /\ m \in NamesIn(fs) => /\ Reads!ByBasename(fs, m) \in 1 .. n
                                  /\ fs[Reads!ByBasename(fs, m)].name = m
                                  /\ Reads!PathKind(fs[Reads!ByBasename(fs, m)]) # "person"
           /\ m \notin NamesIn(fs) => Reads!ByBasename(fs, m) = 0
           /\ Reads!IsNamed(fs, m) <=> m \in NamesIn(fs)
<1> DEFINE at == {i \in DOMAIN fs : fs[i].name = m /\ Reads!PathKind(fs[i]) # "person"}
<1>1. Reads!ByBasename(fs, m) = IF at = {} THEN 0 ELSE Reads!Max(at)
  BY DEF Reads!ByBasename
<1>2. m \in NamesIn(fs) <=> at # {}
  BY DEF NamesIn
<1>3. at # {} => Reads!Max(at) \in at
  <2>1. at \in SUBSET (0 .. n)
    OBVIOUS
  <2> HIDE DEF at
  <2> QED BY <2>1, LargestOf
<1>4. at # {} => Reads!Max(at) \in 1 .. n
  BY <1>3
<1> QED BY <1>1, <1>2, <1>3, <1>4 DEF Reads!IsNamed

\* Every distance is the length of a walk, of two steps at most.
Walked(fs, q, d) ==
  /\ DOMAIN d \subseteq NamesIn(fs)
  /\ \A t \in DOMAIN d : d[t] \in 0 .. 2 /\ d[t] \in Walks(fs, q, t)
\* No distance is lost or grows.
Closer(d, e) == DOMAIN d \subseteq DOMAIN e /\ \A t \in DOMAIN d : e[t] <= d[t]
Within(e, t, v) == t \in DOMAIN e /\ e[t] <= v

LEMMA ExpandIs ==
    ASSUME NEW fs, NEW n \in Nat, DOMAIN fs = 1 .. n, NEW q, NEW d, Walked(fs, q, d),
           NEW m \in DOMAIN d
    PROVE  LET e == Reads!Expand(fs, d, m)
           IN /\ Walked(fs, q, e) /\ Closer(d, e)
              /\ \A t : Linked(fs, m, t) /\ d[m] < 2 => Within(e, t, d[m] + 1)
<1> DEFINE to == {t \in Reads!OutlinksOf(fs[Reads!ByBasename(fs, m)]) : Reads!IsNamed(fs, t)}
           new == {t \in to : t \notin DOMAIN d \/ d[m] + 1 < d[t]}
<1>1. PICK e : e = Reads!Expand(fs, d, m)
  OBVIOUS
<1>2. /\ DOMAIN d \subseteq NamesIn(fs) /\ m \in NamesIn(fs)
      /\ \A t \in DOMAIN d : d[t] \in 0 .. 2 /\ d[t] \in Walks(fs, q, t)
  BY DEF Walked
<1>3. \A t : t \in to <=> Linked(fs, m, t)
  BY NamedAt DEF Linked
<1>4. CASE d[m] >= 2
  <2>1. e = d
    BY <1>1, <1>4 DEF Reads!Expand, Reads!MaxHops
  <2>2. Closer(d, d)
    BY <1>2 DEF Closer
  <2>3. ~(d[m] < 2)
    BY <1>2, <1>4
  <2> QED BY <1>1, <2>1, <2>2, <2>3
<1>5. CASE d[m] < 2
  <2>1. e = [t \in DOMAIN d \cup new |-> IF t \in new THEN d[m] + 1 ELSE d[t]]
    <3>1. ~(d[m] >= 2)
      BY <1>2, <1>5
    <3> QED BY <1>1, <3>1 DEF Reads!Expand, Reads!MaxHops
  <2> HIDE DEF to
  <2>2. /\ DOMAIN e = DOMAIN d \cup new
        /\ \A t \in new : e[t] = d[m] + 1
        /\ \A t \in DOMAIN d \ new : e[t] = d[t]
    <3> HIDE DEF new
    <3> QED BY <2>1
  <2>3. \A t \in new : Linked(fs, m, t) /\ t \in NamesIn(fs)
    BY <1>3 DEF Linked
  <2>4. ASSUME NEW t \in new PROVE d[m] + 1 \in 0 .. 2 /\ d[m] + 1 \in Walks(fs, q, t)
    <3>1. Linked(fs, m, t) /\ d[m] \in {0, 1}
      BY <1>2, <1>5, <2>3
    <3>2. CASE d[m] = StartOf(fs, q, m)
      BY <1>2, <3>1, <3>2 DEF Walks
    <3>3. CASE \E k \in NamesIn(fs) : Linked(fs, k, m) /\ d[m] = StartOf(fs, q, k) + 1
      <4>1. PICK k \in NamesIn(fs) : Linked(fs, k, m) /\ d[m] = StartOf(fs, q, k) + 1
        BY <3>3
      <4>2. StartOf(fs, q, k) \in {0, 1, 9}
        BY DEF StartOf
      <4>3. d[m] + 1 = StartOf(fs, q, k) + 2
        BY <4>1, <4>2
      <4>4. <<k, m>> \in {r \in NamesIn(fs) \X NamesIn(fs) : Linked(fs, r[1], r[2]) /\ Linked(fs, r[2], t)}
        BY <1>2, <3>1, <4>1
      <4>5. d[m] + 1 \in Walks(fs, q, t)
        BY <4>3, <4>4 DEF Walks
      <4> QED BY <3>1, <4>5
    <3>4. CASE \E p \in NamesIn(fs) \X NamesIn(fs) : d[m] = StartOf(fs, q, p[1]) + 2
      <4>1. PICK p \in NamesIn(fs) \X NamesIn(fs) : d[m] = StartOf(fs, q, p[1]) + 2
        BY <3>4
      <4>2. StartOf(fs, q, p[1]) \in {0, 1, 9}
        BY DEF StartOf
      <4> QED BY <3>1, <4>1, <4>2
    <3>5. d[m] \in Walks(fs, q, m)
      BY <1>2
    <3> QED BY <3>2, <3>3, <3>4, <3>5 DEF Walks
  <2>5. Walked(fs, q, e)
    <3>1. ASSUME NEW t \in DOMAIN e PROVE e[t] \in 0 .. 2 /\ e[t] \in Walks(fs, q, t)
      <4>1. CASE t \in new
        BY <2>2, <2>4, <4>1
      <4>2. CASE t \notin new
        <5>1. t \in DOMAIN d /\ e[t] = d[t]
          BY <2>2, <4>2
        <5> QED BY <1>2, <5>1
      <4> QED BY <4>1, <4>2
    <3>2. DOMAIN e \subseteq NamesIn(fs)
      BY <1>2, <2>2, <2>3
    <3> QED BY <3>1, <3>2 DEF Walked
  <2>6. Closer(d, e)
    <3>1. ASSUME NEW t \in DOMAIN d PROVE e[t] <= d[t]
      <4>1. d[t] \in 0 .. 2 /\ d[m] \in 0 .. 2
        BY <1>2
      <4>2. CASE t \in new
        BY <2>2, <4>1, <4>2
      <4>3. CASE t \notin new
        BY <2>2, <4>1, <4>3
      <4> QED BY <4>2, <4>3
    <3> QED BY <2>2, <3>1 DEF Closer
  <2>7. ASSUME NEW t, Linked(fs, m, t) PROVE Within(e, t, d[m] + 1)
    <3>1. d[m] \in 0 .. 2 /\ t \in to
      BY <1>2, <1>3, <2>7
    <3>2. CASE t \in new
      BY <2>2, <3>1, <3>2 DEF Within
    <3>3. CASE t \notin new
      <4>1. t \in DOMAIN d /\ ~(d[m] + 1 < d[t]) /\ e[t] = d[t]
        BY <2>2, <3>1, <3>3
      <4>2. d[t] \in 0 .. 2 /\ t \in DOMAIN e
        BY <1>2, <2>2, <4>1
      <4> HIDE DEF new
      <4> QED BY <3>1, <4>1, <4>2 DEF Within
    <3> QED BY <3>2, <3>3
  <2> QED BY <1>1, <2>5, <2>6, <2>7
<1>6. d[m] >= 2 \/ d[m] < 2
  BY <1>2
<1> QED BY <1>4, <1>5, <1>6

\* The k-th file's part of a round.
Visit(fs, current, k, d) ==
  IF fs[k].name \in current /\ Reads!ByBasename(fs, fs[k].name) = k
  THEN Reads!Expand(fs, d, fs[k].name) ELSE d

LEMMA RoundFollows ==
    ASSUME NEW fs, NEW n \in Nat, Len(fs) = n, NEW before, NEW current
    PROVE  LET after == Reads!Round(fs, before, current)
           IN after[0] = before /\ \A k \in 1 .. n : after[k] = Visit(fs, current, k, after[k - 1])
<1> DEFINE Then(a, k) == Visit(fs, current, k, a)
           Loop(f, m) == [k \in 0 .. m |-> IF k = 0 THEN before ELSE Then(f[k - 1], k)]
           S == {m \in Nat : \E f : f = Loop(f, m)}
<1>1. 0 \in S
  <2>1. [k \in 0 .. 0 |-> before] = Loop([k \in 0 .. 0 |-> before], 0)
    OBVIOUS
  <2> QED BY <2>1
<1>2. ASSUME NEW m \in Nat, m \in S PROVE m + 1 \in S
  <2>1. PICK f : f = Loop(f, m)
    BY <1>2
  <2> DEFINE g == [k \in 0 .. m + 1 |-> IF k <= m THEN f[k] ELSE Then(f[m], k)]
  <2> HIDE DEF Then
  <2>2. ASSUME NEW k \in 0 .. m + 1
        PROVE  g[k] = IF k = 0 THEN before ELSE Then(g[k - 1], k)
    <3>1. CASE k = 0
      BY <2>1, <3>1
    <3>2. CASE k \in 1 .. m
      BY <2>1, <3>2
    <3>3. CASE k = m + 1
      BY <3>3
    <3> QED BY <3>1, <3>2, <3>3
  <2>3. g = Loop(g, m + 1)
    BY <2>2
  <2> HIDE DEF g
  <2> QED BY <2>3
<1>3. \E f : f = Loop(f, n)
  <2> HIDE DEF Loop
  <2>1. n \in S
    <3> HIDE DEF S
    <3> QED BY <1>1, <1>2, Induct
  <2> QED BY <2>1
<1> DEFINE after == Reads!Round(fs, before, current)
<1>4. after = Loop(after, n)
  BY <1>3 DEF Reads!Round, Visit
<1>5. PICK h : h = after
  OBVIOUS
<1>6. h = Loop(h, n)
  BY <1>4, <1>5
<1>7. h[0] = before /\ \A k \in 1 .. n : h[k] = Then(h[k - 1], k)
  <2> HIDE DEF Then
  <2> QED BY <1>6
<1> QED BY <1>5, <1>7

\* A round expands every name of current, at most at the distance it had before.
LEMMA RoundIs ==
    ASSUME NEW fs, NEW n \in Nat, Len(fs) = n, DOMAIN fs = 1 .. n, NEW q,
           NEW before, Walked(fs, q, before), NEW current \in SUBSET DOMAIN before
    PROVE  LET e == Reads!Round(fs, before, current)[n]
           IN /\ Walked(fs, q, e) /\ Closer(before, e)
              /\ \A m \in current : \A t : Linked(fs, m, t) /\ before[m] < 2 => Within(e, t, before[m] + 1)
<1>1. PICK after : /\ after = Reads!Round(fs, before, current)
                   /\ after[0] = before
                   /\ \A k \in 1 .. n : after[k] = Visit(fs, current, k, after[k - 1])
  BY RoundFollows
<1>2. DOMAIN before \subseteq NamesIn(fs) /\ \A t \in DOMAIN before : before[t] \in 0 .. 2
  BY DEF Walked
<1> DEFINE SoFar(k) ==
             /\ Walked(fs, q, after[k]) /\ Closer(before, after[k])
             /\ \A m \in current : \A t : Reads!ByBasename(fs, m) <= k /\ Linked(fs, m, t) /\ before[m] < 2
                  => Within(after[k], t, before[m] + 1)
           S == {k \in Nat : k <= n => SoFar(k)}
<1>3. 0 \in S
  <2>1. Closer(before, before)
    BY <1>2 DEF Closer
  <2>2. \A m \in current : Reads!ByBasename(fs, m) \in 1 .. n
    BY <1>2, NamedAt
  <2>3. \A m \in current : ~(Reads!ByBasename(fs, m) <= 0)
    BY <2>2
  <2> QED BY <1>1, <2>1, <2>3
<1>4. ASSUME NEW j \in Nat, j \in S, j + 1 <= n PROVE SoFar(j + 1)
  <2>1. PICK k, d, e : k = j + 1 /\ d = after[j] /\ e = after[k]
    OBVIOUS
  <2>2. k \in 1 .. n /\ e = Visit(fs, current, k, d)
    BY <1>1, <1>4, <2>1
  <2>3. /\ Walked(fs, q, d) /\ Closer(before, d)
        /\ \A m \in current : \A t : Reads!ByBasename(fs, m) <= j /\ Linked(fs, m, t) /\ before[m] < 2
             => Within(d, t, before[m] + 1)
    BY <1>4, <2>1
  <2>4. \A m \in current : Reads!ByBasename(fs, m) \in 1 .. n /\ fs[Reads!ByBasename(fs, m)].name = m
    BY <1>2, NamedAt
  <2>5. /\ \A t \in DOMAIN before : t \in DOMAIN d /\ d[t] <= before[t]
        /\ \A t \in DOMAIN d : d[t] \in 0 .. 2
    BY <2>3 DEF Closer, Walked
  <2>6. CASE ~(fs[k].name \in current /\ Reads!ByBasename(fs, fs[k].name) = k)
    <3>1. e = d
      BY <2>2, <2>6 DEF Visit
    <3>2. \A m \in current : Reads!ByBasename(fs, m) <= k => Reads!ByBasename(fs, m) <= j
      BY <1>4, <2>1, <2>4, <2>6
    <3> QED BY <2>1, <2>3, <3>1, <3>2
  <2>7. CASE fs[k].name \in current /\ Reads!ByBasename(fs, fs[k].name) = k
    <3>1. PICK m : m = fs[k].name /\ m \in current /\ m \in DOMAIN d
      BY <2>5, <2>7
    <3>2. e = Reads!Expand(fs, d, m)
      BY <2>2, <2>7, <3>1 DEF Visit
    <3>3. /\ Walked(fs, q, e) /\ Closer(d, e)
          /\ \A t : Linked(fs, m, t) /\ d[m] < 2 => Within(e, t, d[m] + 1)
      BY <2>3, <3>1, <3>2, ExpandIs
    <3>4. /\ \A t \in DOMAIN d : t \in DOMAIN e /\ e[t] <= d[t]
          /\ \A t \in DOMAIN e : e[t] \in 0 .. 2
      BY <3>3 DEF Closer, Walked
    <3>5. Closer(before, e)
      <4>1. ASSUME NEW t \in DOMAIN before PROVE t \in DOMAIN e /\ e[t] <= before[t]
        <5>1. before[t] \in 0 .. 2 /\ t \in DOMAIN d /\ d[t] <= before[t] /\ d[t] \in 0 .. 2
          BY <1>2, <2>5
        <5>2. t \in DOMAIN e /\ e[t] <= d[t] /\ e[t] \in 0 .. 2
          BY <3>4, <5>1
        <5> QED BY <5>1, <5>2
      <4> QED BY <4>1 DEF Closer
    <3>6. ASSUME NEW a \in current, NEW t, Reads!ByBasename(fs, a) <= k, Linked(fs, a, t), before[a] < 2
          PROVE  Within(e, t, before[a] + 1)
      <4>1. before[a] \in 0 .. 2 /\ a \in DOMAIN d /\ d[a] <= before[a] /\ d[a] \in 0 .. 2
        BY <1>2, <2>5
      <4>2. CASE a = m
        <5>1. d[m] < 2
          BY <3>6, <4>1, <4>2
        <5>2. Within(e, t, d[m] + 1)
          BY <3>3, <3>6, <4>2, <5>1
        <5>3. t \in DOMAIN e /\ e[t] \in 0 .. 2 /\ e[t] <= d[a] + 1
          BY <3>4, <4>2, <5>2 DEF Within
        <5> QED BY <4>1, <5>3 DEF Within
      <4>3. CASE a # m
        <5>1. Reads!ByBasename(fs, a) <= j
          <6>1. Reads!ByBasename(fs, a) # k
            BY <2>4, <3>1, <4>3
          <6> QED BY <1>4, <2>1, <2>4, <3>6, <6>1
        <5>2. Within(d, t, before[a] + 1)
          BY <2>3, <3>6, <5>1
        <5>3. t \in DOMAIN d /\ d[t] <= before[a] + 1 /\ d[t] \in 0 .. 2
          BY <2>5, <5>2 DEF Within
        <5>4. t \in DOMAIN e /\ e[t] <= d[t] /\ e[t] \in 0 .. 2
          BY <3>4, <5>3
        <5> QED BY <4>1, <5>3, <5>4 DEF Within
      <4> QED BY <4>2, <4>3
    <3> QED BY <2>1, <3>3, <3>5, <3>6
  <2> QED BY <2>6, <2>7
<1>5. \A m \in Nat : m \in S => m + 1 \in S
  <2> HIDE DEF SoFar
  <2> QED BY <1>4
<1>6. \A k \in Nat : k \in S
  <2> HIDE DEF S
  <2> QED BY <1>3, <1>5, Induct
<1>7. SoFar(n)
  <2> HIDE DEF SoFar
  <2> QED BY <1>6
<1>8. \A m \in current : Reads!ByBasename(fs, m) <= n
  <2>1. \A m \in current : Reads!ByBasename(fs, m) \in 1 .. n
    BY <1>2, NamedAt
  <2> QED BY <2>1
<1> QED BY <1>1, <1>7, <1>8

LEMMA SeedsAre ==
    ASSUME NEW fs, NEW n \in Nat, DOMAIN fs = 1 .. n, NEW q
    PROVE  LET d == Reads!Seeds(fs, q)
           IN /\ Walked(fs, q, d)
              /\ \A m \in NamesIn(fs) : StartOf(fs, q, m) <= 2 => m \in DOMAIN d /\ d[m] = StartOf(fs, q, m)
              /\ \A m \in DOMAIN d : d[m] = StartOf(fs, q, m)
<1>1. PICK d : d = Reads!Seeds(fs, q)
  OBVIOUS
<1>2. /\ DOMAIN d = Reads!MapSeeds(fs, q) \cup Reads!IndexSeeds(fs)
      /\ \A m \in DOMAIN d : d[m] = IF m \in Reads!MapSeeds(fs, q) THEN 0 ELSE 1
  BY <1>1 DEF Reads!Seeds
<1>3. \A m \in DOMAIN d : Reads!IsNamed(fs, m)
  BY <1>2 DEF Reads!MapSeeds, Reads!IndexSeeds
<1>4. DOMAIN d \subseteq NamesIn(fs)
  BY <1>3, NamedAt
<1>5. \A m \in DOMAIN d : d[m] = StartOf(fs, q, m) /\ d[m] \in 0 .. 2
  BY <1>2 DEF StartOf
<1>6. \A m \in NamesIn(fs) : StartOf(fs, q, m) <= 2 => m \in DOMAIN d
  BY <1>2 DEF StartOf
<1>7. Walked(fs, q, d)
  BY <1>4, <1>5 DEF Walked, Walks
<1> QED BY <1>1, <1>5, <1>6, <1>7

\* After two rounds a distance is the length of a walk, and no walk is shorter.
LEMMA DistancesAre ==
    ASSUME NEW fs, NEW n \in Nat, Len(fs) = n, DOMAIN fs = 1 .. n, NEW q
    PROVE  LET d == Reads!Distances(fs, q)
           IN /\ Walked(fs, q, d)
              /\ \A t \in NamesIn(fs) : \A v \in Walks(fs, q, t) : v <= 2 => Within(d, t, v)
<1>1. PICK d0 : /\ d0 = Reads!Seeds(fs, q) /\ Walked(fs, q, d0)
                /\ \A m \in NamesIn(fs) : StartOf(fs, q, m) <= 2 => m \in DOMAIN d0 /\ d0[m] = StartOf(fs, q, m)
                /\ \A m \in DOMAIN d0 : d0[m] = StartOf(fs, q, m)
  BY SeedsAre
<1>2. PICK d1 : /\ d1 = Reads!Round(fs, d0, DOMAIN d0)[n]
                /\ Walked(fs, q, d1) /\ Closer(d0, d1)
                /\ \A m \in DOMAIN d0 : \A t : Linked(fs, m, t) /\ d0[m] < 2 => Within(d1, t, d0[m] + 1)
  BY <1>1, RoundIs
<1>3. PICK current : current = {t \in DOMAIN d1 : t \notin DOMAIN d0 \/ d1[t] # d0[t]}
  OBVIOUS
<1>4. PICK d2 : /\ d2 = Reads!Round(fs, d1, current)[n]
                /\ Walked(fs, q, d2) /\ Closer(d1, d2)
                /\ \A m \in current : \A t : Linked(fs, m, t) /\ d1[m] < 2 => Within(d2, t, d1[m] + 1)
  <2>1. current \in SUBSET DOMAIN d1
    BY <1>3
  <2> QED BY <1>2, <2>1, RoundIs
<1>5. d2 = Reads!Distances(fs, q)
  <2>1. PICK acc : acc = Reads!Hop(fs, [d |-> d0, current |-> DOMAIN d0])
    OBVIOUS
  <2>2. acc.d = d1 /\ acc.current = current
    BY <1>2, <1>3, <2>1 DEF Reads!Hop, Reads!Improved
  <2>3. Reads!Hop(fs, acc).d = d2
    BY <1>4, <2>2 DEF Reads!Hop, Reads!Improved
  <2> QED BY <1>1, <2>1, <2>3 DEF Reads!Distances, Reads!TwoHops
<1>6. /\ \A t \in DOMAIN d0 : t \in DOMAIN d1 /\ d1[t] <= d0[t] /\ d0[t] \in 0 .. 2
      /\ \A t \in DOMAIN d1 : t \in DOMAIN d2 /\ d2[t] <= d1[t] /\ d1[t] \in 0 .. 2
      /\ \A t \in DOMAIN d2 : d2[t] \in 0 .. 2
  BY <1>1, <1>2, <1>4 DEF Walked, Closer
<1>7. ASSUME NEW t, NEW v \in 0 .. 2, Within(d1, t, v) PROVE Within(d2, t, v)
  <2>1. t \in DOMAIN d1 /\ d1[t] <= v
    BY <1>7 DEF Within
  <2>2. t \in DOMAIN d2 /\ d2[t] <= d1[t] /\ d1[t] \in 0 .. 2 /\ d2[t] \in 0 .. 2
    BY <1>6, <2>1
  <2> QED BY <2>1, <2>2 DEF Within
<1>8. \A m \in NamesIn(fs) : StartOf(fs, q, m) \in {0, 1, 9}
  BY DEF StartOf
<1>9. ASSUME NEW t \in NamesIn(fs), StartOf(fs, q, t) <= 2 PROVE Within(d2, t, StartOf(fs, q, t))
  <2>1. t \in DOMAIN d0 /\ d0[t] = StartOf(fs, q, t)
    BY <1>1, <1>9
  <2>2. Within(d1, t, StartOf(fs, q, t)) /\ StartOf(fs, q, t) \in 0 .. 2
    BY <1>6, <2>1 DEF Within
  <2> QED BY <1>7, <2>2
<1>10. ASSUME NEW m \in NamesIn(fs), NEW t, Linked(fs, m, t), StartOf(fs, q, m) + 1 <= 2
       PROVE  Within(d1, t, StartOf(fs, q, m) + 1)
  <2>1. StartOf(fs, q, m) \in {0, 1}
    BY <1>8, <1>10
  <2>2. m \in DOMAIN d0 /\ d0[m] = StartOf(fs, q, m) /\ d0[m] < 2
    BY <1>1, <2>1
  <2> QED BY <1>2, <1>10, <2>2
<1>11. ASSUME NEW m \in NamesIn(fs), NEW k \in NamesIn(fs), NEW t, Linked(fs, m, k), Linked(fs, k, t),
              StartOf(fs, q, m) + 2 <= 2
       PROVE  Within(d2, t, StartOf(fs, q, m) + 2)
  <2>1. StartOf(fs, q, m) = 0
    BY <1>8, <1>11
  <2>2. Within(d1, k, 1)
    BY <1>10, <1>11, <2>1
  <2>3. k \in DOMAIN d1 /\ d1[k] \in {0, 1}
    BY <1>6, <2>2 DEF Within
  <2>4. CASE k \in current
    <3>1. Within(d2, t, d1[k] + 1)
      BY <1>4, <1>11, <2>3, <2>4
    <3>2. t \in DOMAIN d2 /\ d2[t] <= d1[k] + 1 /\ d2[t] \in 0 .. 2
      BY <1>6, <3>1 DEF Within
    <3> QED BY <2>1, <2>3, <3>2 DEF Within
  <2>5. CASE k \notin current
    <3>1. k \in DOMAIN d0 /\ d0[k] = d1[k] /\ d0[k] < 2
      BY <1>3, <2>3, <2>5
    <3>2. Within(d1, t, d0[k] + 1)
      BY <1>2, <1>11, <3>1
    <3>3. d0[k] + 1 \in 0 .. 2 /\ d0[k] \in {0, 1}
      BY <2>3, <3>1
    <3>4. Within(d2, t, d0[k] + 1)
      BY <1>7, <3>2, <3>3
    <3>5. t \in DOMAIN d2 /\ d2[t] <= d0[k] + 1 /\ d2[t] \in 0 .. 2
      BY <1>6, <3>4 DEF Within
    <3> QED BY <2>1, <3>3, <3>5 DEF Within
  <2> QED BY <2>4, <2>5
<1>12. ASSUME NEW t \in NamesIn(fs), NEW v \in Walks(fs, q, t), v <= 2 PROVE Within(d2, t, v)
  <2>1. CASE v = StartOf(fs, q, t)
    BY <1>9, <1>12, <2>1
  <2>2. CASE \E m \in NamesIn(fs) : Linked(fs, m, t) /\ v = StartOf(fs, q, m) + 1
    <3>1. PICK m \in NamesIn(fs) : Linked(fs, m, t) /\ v = StartOf(fs, q, m) + 1
      BY <2>2
    <3>2. Within(d1, t, v)
      BY <1>10, <1>12, <3>1
    <3>3. v \in 0 .. 2
      BY <1>8, <1>12, <3>1
    <3> QED BY <1>7, <3>2, <3>3
  <2>3. CASE \E m, k \in NamesIn(fs) : Linked(fs, m, k) /\ Linked(fs, k, t) /\ v = StartOf(fs, q, m) + 2
    BY <1>11, <1>12, <2>3
  <2> QED BY <1>12, <2>1, <2>2, <2>3 DEF Walks
<1> QED BY <1>4, <1>5, <1>12

LEMMA WalksAreShortest ==
    ASSUME NEW x, Reads!IsQuery(x)
    PROVE  Reads!DistanceIsShortest(x.files, x.q, Reads!Distances(x.files, x.q))
<1>1. PICK fs, q, d : fs = x.files /\ q = x.q /\ d = Reads!Distances(fs, q)
  OBVIOUS
<1>2. PICK n \in Nat : Len(fs) = n /\ DOMAIN fs = 1 .. n
  BY <1>1, FilesAre DEF Reads!IsQuery
<1>3. /\ Walked(fs, q, d)
      /\ \A t \in NamesIn(fs) : \A v \in Walks(fs, q, t) : v <= 2 => Within(d, t, v)
  BY <1>1, <1>2, DistancesAre
<1>4. ASSUME NEW t \in NamesIn(fs), NEW least, least = Reads!Min(Walks(fs, q, t))
      PROVE  IF least <= 2 THEN t \in DOMAIN d /\ d[t] = least ELSE t \notin DOMAIN d
  <2>1. Walks(fs, q, t) \in SUBSET Nat /\ Walks(fs, q, t) # {}
    BY DEF Walks, StartOf
  <2>2. least \in Walks(fs, q, t) /\ \A y \in Walks(fs, q, t) : least <= y
    BY <1>4, <2>1, LeastOf
  <2>3. t \in DOMAIN d => d[t] \in 0 .. 2 /\ d[t] \in Walks(fs, q, t)
    BY <1>3 DEF Walked
  <2>4. least <= 2 => t \in DOMAIN d /\ d[t] <= least
    BY <1>3, <2>2 DEF Within
  <2>5. least \in Nat
    BY <2>1, <2>2
  <2> QED BY <2>2, <2>3, <2>4, <2>5
<1>5. Reads!DistanceIsShortest(fs, q, d)
  BY <1>4 DEF Reads!DistanceIsShortest, Walks, StartOf, Linked, NamesIn, Reads!MaxHops
<1> QED BY <1>1, <1>5

\* The scores are numbers, and there is no lexical score without a token.
LEMMA CountOf == ASSUME NEW S, IsFiniteSet(S) PROVE Reads!Cardinality(S) \in Nat /\ (S = {} => Reads!Cardinality(S) = 0)
<1>1. Reads!Cardinality(S) = Cardinality(S)
  BY DEF Reads!Cardinality, Cardinality
<1> QED BY <1>1, FS_CardinalityType, FS_EmptySet

LEMMA LexicalIs ==
    ASSUME NEW q, IsFiniteSet(q), NEW f
    PROVE  /\ Reads!Lexical(f, q) \in Nat
           /\ Reads!AllTokens(f) \cap q = {} => Reads!Lexical(f, q) = 0
<1> DEFINE weight(g) == Reads!FieldWeights[g] * Reads!Cardinality(Reads!FieldTokens(f)[g] \cap q)
           raw == weight("title") + weight("aliases") + weight("tags") + weight("headings")
                    + weight("summary") + weight("body")
           names == {"title", "aliases", "tags", "headings", "summary", "body"}
<1>1. \A g : IsFiniteSet(Reads!FieldTokens(f)[g] \cap q)
  <2> SUFFICES ASSUME NEW g PROVE IsFiniteSet(Reads!FieldTokens(f)[g] \cap q)
    OBVIOUS
  <2>1. PICK T : T = Reads!FieldTokens(f)[g] \cap q
    OBVIOUS
  <2>2. T \in SUBSET q
    BY <2>1
  <2>3. IsFiniteSet(T)
    BY <2>2, FS_Subset
  <2> QED BY <2>1, <2>3
<1>2. \A g \in names : Reads!FieldWeights[g] \in Nat
  BY DEF Reads!FieldWeights
<1>3. \A g \in names : weight(g) \in Nat
  <2>1. \A g : Reads!Cardinality(Reads!FieldTokens(f)[g] \cap q) \in Nat
    BY <1>1, CountOf
  <2> SUFFICES ASSUME NEW g \in names PROVE weight(g) \in Nat
    OBVIOUS
  <2>2. PICK a \in Nat, c \in Nat : /\ a = Reads!FieldWeights[g]
                                    /\ c = Reads!Cardinality(Reads!FieldTokens(f)[g] \cap q)
    BY <1>2, <2>1
  <2>3. a * c \in Nat
    OBVIOUS
  <2> QED BY <2>2, <2>3
<1>4. Reads!AllTokens(f) \cap q = {} => \A g \in names : weight(g) = 0
  <2> SUFFICES ASSUME Reads!AllTokens(f) \cap q = {}, NEW g \in names PROVE weight(g) = 0
    OBVIOUS
  <2>1. g \in Reads!Range(Reads!Fields)
    <3>1. PICK s : s = Reads!Fields
      OBVIOUS
    <3>2. /\ DOMAIN s = 1 .. 6
          /\ s[1] = "title" /\ s[2] = "aliases" /\ s[3] = "tags"
          /\ s[4] = "headings" /\ s[5] = "summary" /\ s[6] = "body"
      BY <3>1 DEF Reads!Fields
    <3>3. \E i \in 1 .. 6 : s[i] = g
      BY <3>2
    <3> QED BY <3>1, <3>2, <3>3 DEF Reads!Range
  <2>2. Reads!FieldTokens(f)[g] \cap q = {}
    BY <2>1 DEF Reads!AllTokens
  <2>3. Reads!Cardinality(Reads!FieldTokens(f)[g] \cap q) = 0
    BY <1>1, <2>2, CountOf
  <2> QED BY <1>2, <2>3
<1>5. Reads!Lexical(f, q) = (1000 * raw) \div (raw + 3)
  BY DEF Reads!Lexical
<1> HIDE DEF weight
<1>6. raw \in Nat /\ (Reads!AllTokens(f) \cap q = {} => raw = 0)
  BY <1>3, <1>4
<1> HIDE DEF raw
<1>7. (1000 * raw) \div (raw + 3) \in Nat /\ (raw = 0 => (1000 * raw) \div (raw + 3) = 0)
  BY <1>6
<1> QED BY <1>5, <1>6, <1>7

LEMMA IndegreeIs ==
    ASSUME NEW fs, NEW n \in Nat, DOMAIN fs = 1 .. n
    PROVE  /\ \A i : Reads!IndegreeOf(fs, i) \in 0 .. n
           /\ Reads!HighestIndegree(fs) \in 0 .. n
<1>1. ASSUME NEW i PROVE Reads!IndegreeOf(fs, i) \in 0 .. n
  <2>1. PICK S : S = {j \in DOMAIN fs : /\ Reads!PathKind(fs[j]) # "person"
                                        /\ \E t \in Reads!OutlinksOf(fs[j]) : Reads!ByBasename(fs, t) = i}
    OBVIOUS
  <2>2. IsFiniteSet(1 .. n) /\ Cardinality(1 .. n) = n
    BY FS_Interval
  <2>3. S \in SUBSET (1 .. n)
    BY <2>1
  <2>4. IsFiniteSet(S) /\ Cardinality(S) <= n
    <3>1. PICK U : U = 1 .. n
      OBVIOUS
    <3>2. IsFiniteSet(U) /\ Cardinality(U) = n /\ S \in SUBSET U
      BY <2>2, <2>3, <3>1
    <3>3. IsFiniteSet(S) /\ Cardinality(S) <= Cardinality(U)
      BY <3>2, FS_Subset
    <3> QED BY <3>2, <3>3
  <2>5. Cardinality(S) \in Nat
    BY <2>4, FS_CardinalityType
  <2>6. Reads!IndegreeOf(fs, i) = Cardinality(S)
    BY <2>1 DEF Reads!IndegreeOf, Reads!Cardinality, Cardinality
  <2> QED BY <2>4, <2>5, <2>6
<1>2. PICK S : S = {0} \cup {Reads!IndegreeOf(fs, i) : i \in DOMAIN fs}
  OBVIOUS
<1>3. S \in SUBSET (0 .. n) /\ S # {}
  BY <1>1, <1>2
<1>4. Reads!HighestIndegree(fs) = Reads!Max(S)
  BY <1>2 DEF Reads!HighestIndegree
<1>5. Reads!Max(S) \in S
  BY <1>3, LargestOf
<1> QED BY <1>1, <1>3, <1>4, <1>5

LEMMA CombinedIs ==
    ASSUME NEW fs, NEW n \in Nat, DOMAIN fs = 1 .. n, NEW q, IsFiniteSet(q), NEW d, Walked(fs, q, d), NEW i
    PROVE  /\ Reads!Combined(fs, q, d, i) \in Int
           /\ Reads!Combined(fs, q, d, i) >= Reads!Floor => Reads!AllTokens(fs[i]) \cap q # {}
<1>1. PICK lex \in Nat : /\ lex = Reads!Lexical(fs[i], q)
                         /\ Reads!AllTokens(fs[i]) \cap q = {} => lex = 0
  BY LexicalIs
<1>2. Reads!DistanceOf(fs, d, i) \in 0 .. 3
  <2>1. \A t \in DOMAIN d : d[t] \in 0 .. 2
    BY DEF Walked
  <2> QED BY <2>1 DEF Reads!DistanceOf, Reads!Reached, Reads!MaxHops
<1>3. Reads!Structural(fs, d, i) \in Nat
  <2>1. PICK a \in Nat, b \in Nat : a = Reads!IndegreeOf(fs, i) /\ b = Reads!Max({1, Reads!HighestIndegree(fs)}) /\ b >= 1
    <3>1. Reads!IndegreeOf(fs, i) \in Nat /\ Reads!HighestIndegree(fs) \in Nat
      BY IndegreeIs
    <3>2. \A a, h \in Int : Reads!Max({a, h}) = IF a >= h THEN a ELSE h
      BY TwoOf
    <3> QED BY <3>1, <3>2
  <2>2. (300 * a) \div b \in Nat
    BY <2>1
  <2>3. PICK e \in 0 .. 3 : e = Reads!DistanceOf(fs, d, i)
    BY <1>2
  <2>4. 700 \div (1 + e) \in Nat
    BY <2>3
  <2>5. Reads!Structural(fs, d, i) = 700 \div (1 + e) + (300 * a) \div b
    BY <2>1, <2>3 DEF Reads!Structural
  <2> QED BY <2>2, <2>4, <2>5
<1>4. PICK s \in Nat : s = Reads!Structural(fs, d, i)
  BY <1>3
<1>5. PICK boost \in {100, -150, 0} : boost = Reads!StatusBoost(fs[i])
  BY DEF Reads!StatusBoost
<1>6. PICK structure \in Nat : structure = IF lex > 0 THEN 350 * s ELSE 0
  OBVIOUS
<1>7. PICK v \in Int : v = (650 * lex + structure) \div 1000 + boost
  OBVIOUS
<1>8. Reads!Combined(fs, q, d, i) = Reads!Max({0, Reads!Min({1000, v})})
  BY <1>1, <1>4, <1>5, <1>6, <1>7 DEF Reads!Combined
<1>9. Reads!Min({1000, v}) = IF 1000 <= v THEN 1000 ELSE v
  BY <1>7, TwoOf
<1>10. PICK w \in Int : w = Reads!Min({1000, v}) /\ w <= v
  BY <1>7, <1>9
<1>11. Reads!Max({0, w}) = IF 0 >= w THEN 0 ELSE w
  <2>1. \A a, e \in Int : Reads!Max({a, e}) = IF a >= e THEN a ELSE e
    BY TwoOf
  <2> QED BY <2>1
<1>12. lex = 0 => v <= 100
  BY <1>5, <1>6, <1>7
<1> QED BY <1>1, <1>8, <1>10, <1>11, <1>12 DEF Reads!Floor

\* The keys of two files order them: they are five numbers, the last one their place.
LEMMA KeysOrder ==
    ASSUME NEW fs, NEW n \in Nat, DOMAIN fs = 1 .. n, NEW q, IsFiniteSet(q), NEW d, Walked(fs, q, d),
           NEW S \in SUBSET (1 .. n)
    PROVE  Orders({p \in S \X S : Reads!Before(Reads!OrderKey(fs, q, d, p[1]), Reads!OrderKey(fs, q, d, p[2]))}, S)
<1> DEFINE key(i) == Reads!OrderKey(fs, q, d, i)
           before(a, b) == \/ a[1] < b[1]
                           \/ a[1] = b[1] /\ a[2] < b[2]
                           \/ a[1] = b[1] /\ a[2] = b[2] /\ a[3] < b[3]
                           \/ a[1] = b[1] /\ a[2] = b[2] /\ a[3] = b[3] /\ a[4] < b[4]
                           \/ a[1] = b[1] /\ a[2] = b[2] /\ a[3] = b[3] /\ a[4] = b[4] /\ a[5] < b[5]
           R == {p \in S \X S : Reads!Before(key(p[1]), key(p[2]))}
<1>1. ASSUME NEW i \in S
      PROVE  /\ key(i)[1] \in Int /\ key(i)[2] \in Int /\ key(i)[3] \in Int /\ key(i)[4] \in Int
             /\ key(i)[5] = i
  <2>1. PICK c \in Int : c = Reads!Combined(fs, q, d, i)
    BY CombinedIs
  <2>2. PICK r \in Int : r = Reads!ReasonRank[Reads!Reason(fs, q, d, i)]
    <3>1. Reads!Reason(fs, q, d, i) \in {"linked-theme", "heading", "lexical"}
      BY DEF Reads!Reason
    <3>2. \A t \in {"linked-theme", "heading", "lexical"} : Reads!ReasonRank[t] \in Int
      BY DEF Reads!ReasonRank
    <3> QED BY <3>1, <3>2
  <2>3. PICK l \in Int : l = Reads!Lexical(fs[i], q)
    BY LexicalIs
  <2>4. PICK g \in Int : g = Reads!IndegreeOf(fs, i)
    BY IndegreeIs
  <2>5. key(i) = <<-c, r, -l, -g, i>>
    BY <2>1, <2>2, <2>3, <2>4 DEF Reads!OrderKey
  <2>6. -c \in Int /\ -l \in Int /\ -g \in Int
    OBVIOUS
  <2> HIDE DEF key
  <2> QED BY <2>2, <2>5, <2>6
<1>2. \A a, b : Reads!Before(a, b) <=> before(a, b)
  <2> SUFFICES ASSUME NEW a, NEW b PROVE Reads!Before(a, b) <=> before(a, b)
    OBVIOUS
  <2>1. 1 .. 5 = {1, 2, 3, 4, 5}
    OBVIOUS
  <2>2. /\ 1 .. 1 - 1 = {} /\ 1 .. 2 - 1 = {1} /\ 1 .. 3 - 1 = {1, 2} /\ 1 .. 4 - 1 = {1, 2, 3}
        /\ 1 .. 5 - 1 = {1, 2, 3, 4}
    OBVIOUS
  <2>3. Reads!Before(a, b) <=> \E k \in {1, 2, 3, 4, 5} : a[k] < b[k] /\ \A l \in 1 .. k - 1 : a[l] = b[l]
    BY <2>1 DEF Reads!Before
  <2> QED BY <2>2, <2>3
<1> HIDE DEF key
<1>3. \A i, j : <<i, j>> \in R <=> i \in S /\ j \in S /\ before(key(i), key(j))
  BY <1>2
<1>4. \A i \in S : i \in Int
  OBVIOUS
<1>5. \A i \in S : ~before(key(i), key(i))
  BY <1>1, <1>4
<1>6. \A i, j \in S : i # j => before(key(i), key(j)) \/ before(key(j), key(i))
  BY <1>1, <1>4, SMTT(30)
<1>7. ASSUME NEW h \in S, NEW i \in S, NEW j \in S, before(key(h), key(i)), before(key(i), key(j))
      PROVE  before(key(h), key(j))
  <2>1. PICK a, b, c : a = key(h) /\ b = key(i) /\ c = key(j)
    OBVIOUS
  <2>2. \A k \in {1, 2, 3, 4, 5} : a[k] \in Int /\ b[k] \in Int /\ c[k] \in Int
    BY <1>1, <1>4, <2>1
  <2>3. PICK a1, a2, a3, a4, a5, b1, b2, b3, b4, b5, c1, c2, c3, c4, c5 \in Int :
          /\ a1 = a[1] /\ a2 = a[2] /\ a3 = a[3] /\ a4 = a[4] /\ a5 = a[5]
          /\ b1 = b[1] /\ b2 = b[2] /\ b3 = b[3] /\ b4 = b[4] /\ b5 = b[5]
          /\ c1 = c[1] /\ c2 = c[2] /\ c3 = c[3] /\ c4 = c[4] /\ c5 = c[5]
    BY <2>2
  <2> DEFINE lt(p1, p2, p3, p4, p5, q1, q2, q3, q4, q5) ==
               \/ p1 < q1
               \/ p1 = q1 /\ p2 < q2
               \/ p1 = q1 /\ p2 = q2 /\ p3 < q3
               \/ p1 = q1 /\ p2 = q2 /\ p3 = q3 /\ p4 < q4
               \/ p1 = q1 /\ p2 = q2 /\ p3 = q3 /\ p4 = q4 /\ p5 < q5
  <2>4. lt(a1, a2, a3, a4, a5, b1, b2, b3, b4, b5) /\ lt(b1, b2, b3, b4, b5, c1, c2, c3, c4, c5)
    BY <1>7, <2>1, <2>3
  <2>5. lt(a1, a2, a3, a4, a5, c1, c2, c3, c4, c5)
    BY <2>4
  <2> QED BY <2>1, <2>3, <2>5
<1> HIDE DEF R, before
<1>8. Orders(R, S)
  BY <1>3, <1>5, <1>6, <1>7 DEF Orders
<1> QED BY <1>8 DEF R, key

\* The hits in the order of their keys.
Listed(key, S, limit) ==
  LET place == [i \in S |-> Reads!Cardinality({j \in S : Reads!Before(key[j], key[i])})]
  IN [k \in 1 .. Reads!Min({limit, Reads!Cardinality(S)}) |-> CHOOSE i \in S : place[i] = k - 1]
HitsIn(fs, q, d, among) ==
  {i \in among : Reads!PassesGate(fs, q, d, i) /\ Reads!Combined(fs, q, d, i) >= Reads!Floor}

LEMMA HitsAre ==
    ASSUME NEW fs, NEW n \in Nat, DOMAIN fs = 1 .. n, NEW q, IsFiniteSet(q), NEW d, Walked(fs, q, d),
           NEW among \in SUBSET (1 .. n), NEW limit \in Nat
    PROVE  LET hits == Reads!HitsAmong(fs, q, d, among, limit)
           IN \A k \in DOMAIN hits : hits[k] \in HitsIn(fs, q, d, among)
<1> DEFINE R(S) == {p \in S \X S : Reads!Before(Reads!OrderKey(fs, q, d, p[1]), Reads!OrderKey(fs, q, d, p[2]))}
<1>1. PICK S : S = HitsIn(fs, q, d, among)
  OBVIOUS
<1>2. S \in SUBSET (1 .. n)
  BY <1>1 DEF HitsIn
<1>3. IsFiniteSet(S)
  <2>1. PICK U : U = 1 .. n
    OBVIOUS
  <2>2. IsFiniteSet(U)
    BY <2>1, FS_Interval
  <2> QED BY <1>2, <2>1, <2>2, FS_Subset
<1>4. PICK r : r = R(S)
  OBVIOUS
<1>5. Orders(r, S)
  BY <1>2, <1>4, KeysOrder
<1>6. PICK m \in Nat : m = Cardinality(S) /\ m = Reads!Cardinality(S)
  BY <1>3, <1>5, PlacesOf DEF Reads!Cardinality, Cardinality
<1>7. \A k \in 1 .. m : \E i \in S : Place(S, r, i) = k - 1
  BY <1>3, <1>5, <1>6, PlacesOf
<1> DEFINE key == [i \in S |-> Reads!OrderKey(fs, q, d, i)]
           place == [i \in S |-> Reads!Cardinality({j \in S : Reads!Before(key[j], key[i])})]
<1>8. ASSUME NEW i \in S PROVE place[i] = Place(S, r, i)
  <2>1. {j \in S : Reads!Before(key[j], key[i])} = {j \in S : <<j, i>> \in r}
    BY <1>4
  <2>2. place[i] = Reads!Cardinality({j \in S : <<j, i>> \in r})
    BY <2>1
  <2> QED BY <2>2 DEF Place, Reads!Cardinality, Cardinality
<1>9. PICK hits : hits = Reads!HitsAmong(fs, q, d, among, limit)
  OBVIOUS
<1>10. hits = [k \in 1 .. Reads!Min({limit, Reads!Cardinality(S)}) |-> CHOOSE i \in S : place[i] = k - 1]
  BY <1>1, <1>9 DEF Reads!HitsAmong, HitsIn
<1> HIDE DEF place
<1>11. Reads!Min({limit, m}) = IF limit <= m THEN limit ELSE m
  <2>1. \A a, b \in Int : Reads!Min({a, b}) = IF a <= b THEN a ELSE b
    BY TwoOf
  <2> QED BY <2>1
<1>12. ASSUME NEW k \in DOMAIN hits PROVE hits[k] \in S
  <2>1. k \in 1 .. m
    BY <1>6, <1>10, <1>11, <1>12
  <2>2. \E i \in S : place[i] = k - 1
    BY <1>7, <1>8, <2>1
  <2>3. hits[k] = CHOOSE i \in S : place[i] = k - 1
    BY <1>10, <1>12
  <2> QED BY <2>2, <2>3
<1> QED BY <1>1, <1>9, <1>12

\* What a query is of.
LEMMA QueryIs ==
    ASSUME NEW x, Reads!IsQuery(x)
    PROVE  \E n \in Nat :
             /\ Len(x.files) = n /\ DOMAIN x.files = 1 .. n /\ x.files = [i \in 1 .. n |-> x.files[i]]
             /\ Walked(x.files, x.q, Reads!Distances(x.files, x.q))
             /\ IsFiniteSet(x.q) /\ x.limit \in Nat
<1>1. PICK n \in Nat : Len(x.files) = n /\ DOMAIN x.files = 1 .. n /\ x.files = [i \in 1 .. n |-> x.files[i]]
  BY FilesAre DEF Reads!IsQuery
<1>2. IsFiniteSet(x.q) /\ x.limit \in Nat
  BY DEF Reads!IsQuery, Reads!IsFiniteSet, IsFiniteSet
<1>3. PICK fs, q : fs = x.files /\ q = x.q
  OBVIOUS
<1>4. Walked(fs, q, Reads!Distances(fs, q))
  BY <1>1, <1>3, DistancesAre
<1> QED BY <1>1, <1>2, <1>3, <1>4

LEMMA HitsEvident == ASSUME NEW x, Reads!IsQuery(x) PROVE Reads!HitsHaveEvidence(x)
<1>1. PICK fs, q, limit : fs = x.files /\ q = x.q /\ limit = x.limit
  OBVIOUS
<1>2. PICK n \in Nat : /\ DOMAIN fs = 1 .. n /\ Walked(fs, q, Reads!Distances(fs, q))
                       /\ IsFiniteSet(q) /\ limit \in Nat
  BY <1>1, QueryIs
<1>3. PICK d : d = Reads!Distances(fs, q)
  OBVIOUS
<1>4. PICK among : among = Reads!Candidates(fs, q, d)
  OBVIOUS
<1>5. among \in SUBSET (1 .. n)
  BY <1>2, <1>4 DEF Reads!Candidates, Reads!LexicalCandidates
<1>6. PICK hits : hits = Reads!HitsAmong(fs, q, d, among, limit)
  OBVIOUS
<1>7. \A k \in DOMAIN hits : hits[k] \in HitsIn(fs, q, d, among)
  BY <1>2, <1>3, <1>5, <1>6, HitsAre
<1>8. \A i \in HitsIn(fs, q, d, among) : Reads!AllTokens(fs[i]) \cap q # {}
  <2>1. \A i : Reads!Combined(fs, q, d, i) >= Reads!Floor => Reads!AllTokens(fs[i]) \cap q # {}
    BY <1>2, <1>3, CombinedIs
  <2> QED BY <2>1 DEF HitsIn
<1>9. Reads!QueryLexical(fs, q, limit) = <<>> \/ Reads!QueryLexical(fs, q, limit) = hits
  BY <1>3, <1>4, <1>6 DEF Reads!QueryLexical, Reads!HitsAt
<1>10. \A i \in Reads!Range(Reads!QueryLexical(fs, q, limit)) : Reads!AllTokens(fs[i]) \cap q # {}
  BY <1>7, <1>8, <1>9 DEF Reads!Range
<1> QED BY <1>1, <1>10 DEF Reads!HitsHaveEvidence

LEMMA PrefilterExact ==
    ASSUME NEW x, Reads!IsQuery(x)
    PROVE  Reads!PrefilterIsExact(x, Reads!Distances(x.files, x.q))
<1>1. PICK fs, q, limit : fs = x.files /\ q = x.q /\ limit = x.limit
  OBVIOUS
<1>2. PICK n \in Nat : /\ Len(fs) = n /\ DOMAIN fs = 1 .. n /\ fs = [i \in 1 .. n |-> fs[i]]
                       /\ IsFiniteSet(q) /\ limit \in Nat
  BY <1>1, QueryIs
<1>3. PICK d : d = Reads!Distances(fs, q)
  OBVIOUS
<1>4. HitsIn(fs, q, d, Reads!Candidates(fs, q, d)) = HitsIn(fs, q, d, DOMAIN fs)
  <2>1. Reads!Candidates(fs, q, d) \subseteq DOMAIN fs
    BY DEF Reads!Candidates, Reads!LexicalCandidates
  <2>2. ASSUME NEW i \in DOMAIN fs, Reads!PassesGate(fs, q, d, i) PROVE i \in Reads!Candidates(fs, q, d)
    <3>1. CASE Reads!Lexical(fs[i], q) > 0
      <4>1. Reads!AllTokens(fs[i]) \cap q # {}
        <5>1. /\ Reads!Lexical(fs[i], q) \in Nat
              /\ Reads!AllTokens(fs[i]) \cap q = {} => Reads!Lexical(fs[i], q) = 0
          BY <1>2, LexicalIs
        <5> QED BY <3>1, <5>1
      <4> QED BY <4>1 DEF Reads!Candidates, Reads!LexicalCandidates
    <3>2. CASE Reads!DistanceOf(fs, d, i) = 0
      <4>1. Reads!Reached(fs, d, i)
        BY <3>2 DEF Reads!DistanceOf, Reads!MaxHops
      <4> QED BY <4>1 DEF Reads!Candidates
    <3> QED BY <2>2, <3>1, <3>2 DEF Reads!PassesGate
  <2> QED BY <2>1, <2>2 DEF HitsIn
<1>5. \A among : Reads!HitsAmong(fs, q, d, among, limit)
                   = Listed([i \in HitsIn(fs, q, d, among) |-> Reads!OrderKey(fs, q, d, i)],
                            HitsIn(fs, q, d, among), limit)
  BY DEF Reads!HitsAmong, HitsIn, Listed
<1>6. Reads!HitsAt(fs, q, d, limit) = Reads!HitsAmong(fs, q, d, DOMAIN fs, limit)
  BY <1>4, <1>5 DEF Reads!HitsAt
<1>7. CASE fs = <<>>
  <2>1. HitsIn(fs, q, d, DOMAIN fs) = {}
    BY <1>7 DEF HitsIn
  <2>2. Reads!Cardinality({}) = 0
    BY FS_EmptySet DEF Reads!Cardinality, Cardinality
  <2>3. Reads!Min({limit, 0}) = 0
    <3>1. \A a, b \in Int : Reads!Min({a, b}) = IF a <= b THEN a ELSE b
      BY TwoOf
    <3>2. Reads!Min({limit, 0}) = IF limit <= 0 THEN limit ELSE 0
      BY <1>2, <3>1
    <3> QED BY <1>2, <3>2
  <2>4. PICK hits : hits = Reads!HitsAmong(fs, q, d, DOMAIN fs, limit)
    OBVIOUS
  <2>5. DOMAIN hits = 1 .. 0 /\ hits = [k \in DOMAIN hits |-> hits[k]]
    BY <1>5, <2>1, <2>2, <2>3, <2>4, SMTT(30) DEF Listed
  <2>6. hits = <<>>
    BY <2>5
  <2> QED BY <1>1, <1>3, <1>7, <2>4, <2>6 DEF Reads!PrefilterIsExact, Reads!QueryLexical
<1>8. CASE fs # <<>>
  BY <1>1, <1>3, <1>6, <1>8 DEF Reads!PrefilterIsExact, Reads!QueryLexical
<1> QED BY <1>7, <1>8

\* A human's note without its name and links reads the same.
Alike(f, p) ==
  /\ Reads!PathKind(p) = Reads!PathKind(f) /\ (Reads!PathKind(f) # "person" => p = f)
  /\ Reads!FieldTokens(p) = Reads!FieldTokens(f) /\ p.status = f.status
AlikeAll(fs, ps) == DOMAIN ps = DOMAIN fs /\ \A i \in DOMAIN fs : Alike(fs[i], ps[i])

LEMMA NamelessIs == ASSUME NEW f, Reads!IsSequence(f.lines) PROVE Alike(f, Reads!Nameless(f))
<1>1. PICK p : p = Reads!Nameless(f)
  OBVIOUS
<1>2. CASE Reads!PathKind(f) # "person"
  BY <1>1, <1>2 DEF Reads!Nameless, Alike
<1>3. CASE Reads!PathKind(f) = "person"
  <2>1. PICK title : title = Reads!TitleTokens(f)
    OBVIOUS
  <2>2. /\ p.dirs = f.dirs /\ p.name = "somebody" /\ p.title = title /\ p.tags = f.tags
        /\ p.aliases = f.aliases /\ p.summary = f.summary /\ p.status = f.status
        /\ p.lines = [i \in DOMAIN f.lines |-> [mark |-> f.lines[i].mark, links |-> {},
                                                tokens |-> f.lines[i].tokens]]
    BY <1>1, <1>3, <2>1 DEF Reads!Nameless
  <2>3. Reads!PathKind(p) = "person"
    <3>1. f.dirs # <<>> /\ Len(f.dirs) >= 2 /\ f.dirs[1] = "wiki" /\ f.dirs[2] = "people"
      BY <1>3 DEF Reads!PathKind
    <3> QED BY <2>2, <3>1 DEF Reads!PathKind
  <2>4. PICK l \in Nat : DOMAIN f.lines = 1 .. l
    BY FilesAre
  <2>5. DOMAIN p.lines = 1 .. l /\ \A i \in 1 .. l : /\ p.lines[i].mark = f.lines[i].mark
                                                     /\ p.lines[i].tokens = f.lines[i].tokens
    BY <2>2, <2>4
  <2>6. \A i \in 1 .. l : Reads!InFence(p, i) <=> Reads!InFence(f, i)
    <3>1. ASSUME NEW i \in 1 .. l
          PROVE  {j \in 1 .. i - 1 : p.lines[j].mark = "fence"} = {j \in 1 .. i - 1 : f.lines[j].mark = "fence"}
      <4>1. \A j \in 1 .. i - 1 : j \in 1 .. l
        BY <3>1
      <4> QED BY <2>5, <4>1
    <3> QED BY <3>1 DEF Reads!InFence
  <2>7. Reads!Shown(p) = Reads!Shown(f) /\ Reads!Shown(f) \subseteq 1 .. l
    BY <2>4, <2>5, <2>6 DEF Reads!Shown
  <2>8. \A mark : Reads!Marked(p, mark) = Reads!Marked(f, mark) /\ Reads!Marked(f, mark) \subseteq 1 .. l
    BY <2>5, <2>7 DEF Reads!Marked
  <2>9. \A S \in SUBSET (1 .. l) : Reads!TokensAt(p, S) = Reads!TokensAt(f, S)
    <3>1. ASSUME NEW S \in SUBSET (1 .. l)
          PROVE  {p.lines[i].tokens : i \in S} = {f.lines[i].tokens : i \in S}
      BY <2>5
    <3> QED BY <3>1 DEF Reads!TokensAt
  <2>10. Reads!TitleTokens(p) = title
    <3>1. PICK h : h = Reads!Marked(f, "h1")
      OBVIOUS
    <3>2. h \in SUBSET (1 .. l) /\ h = Reads!Marked(p, "h1")
      BY <2>8, <3>1
    <3>3. CASE h # {}
      <4>1. h \in SUBSET Nat
        BY <3>2
      <4>2. Reads!Min(h) \in 1 .. l
        BY <3>2, <3>3, <4>1, LeastOf
      <4> QED BY <2>1, <2>5, <3>1, <3>2, <3>3, <4>2 DEF Reads!TitleTokens
    <3>4. CASE h = {}
      <4>1. title = IF f.title # {} THEN f.title ELSE {f.name}
        BY <2>1, <3>1, <3>4 DEF Reads!TitleTokens
      <4>2. title # {}
        BY <4>1
      <4> QED BY <2>2, <3>2, <3>4, <4>2 DEF Reads!TitleTokens
    <3> QED BY <3>3, <3>4
  <2>11. Reads!FieldTokens(p) = Reads!FieldTokens(f)
    <3>1. /\ Reads!TokensAt(p, Reads!Marked(p, "h2")) = Reads!TokensAt(f, Reads!Marked(f, "h2"))
          /\ Reads!TokensAt(p, Reads!Shown(p)) = Reads!TokensAt(f, Reads!Shown(f))
      BY <2>7, <2>8, <2>9
    <3> QED BY <2>1, <2>2, <2>10, <3>1 DEF Reads!FieldTokens
  <2> QED BY <1>1, <1>3, <2>2, <2>3, <2>11 DEF Alike
<1> QED BY <1>2, <1>3

\* What a query reads of the files is the same for alike ones.
LEMMA AlikeGraph ==
    ASSUME NEW fs, NEW n \in Nat, DOMAIN fs = 1 .. n, NEW ps, AlikeAll(fs, ps)
    PROVE  /\ \A m : Reads!ByBasename(ps, m) = Reads!ByBasename(fs, m)
           /\ \A i : Reads!IndegreeOf(ps, i) = Reads!IndegreeOf(fs, i)
           /\ Reads!HighestIndegree(ps) = Reads!HighestIndegree(fs)
<1>1. /\ DOMAIN ps = 1 .. n
      /\ \A i \in 1 .. n : /\ Reads!PathKind(ps[i]) = Reads!PathKind(fs[i])
                           /\ Reads!PathKind(fs[i]) # "person" => ps[i] = fs[i]
  BY DEF AlikeAll, Alike
<1>2. ASSUME NEW m PROVE Reads!ByBasename(ps, m) = Reads!ByBasename(fs, m)
  <2>1. {i \in DOMAIN ps : ps[i].name = m /\ Reads!PathKind(ps[i]) # "person"}
          = {i \in DOMAIN fs : fs[i].name = m /\ Reads!PathKind(fs[i]) # "person"}
    BY <1>1
  <2> QED BY <2>1 DEF Reads!ByBasename
<1>3. ASSUME NEW i PROVE Reads!IndegreeOf(ps, i) = Reads!IndegreeOf(fs, i)
  <2>1. {j \in DOMAIN ps : /\ Reads!PathKind(ps[j]) # "person"
                           /\ \E t \in Reads!OutlinksOf(ps[j]) : Reads!ByBasename(ps, t) = i}
          = {j \in DOMAIN fs : /\ Reads!PathKind(fs[j]) # "person"
                               /\ \E t \in Reads!OutlinksOf(fs[j]) : Reads!ByBasename(fs, t) = i}
    BY <1>1, <1>2
  <2> QED BY <2>1 DEF Reads!IndegreeOf
<1>4. {Reads!IndegreeOf(ps, i) : i \in DOMAIN ps} = {Reads!IndegreeOf(fs, i) : i \in DOMAIN fs}
  BY <1>1, <1>3
<1> QED BY <1>2, <1>3, <1>4 DEF Reads!HighestIndegree

LEMMA AlikeSeeds ==
    ASSUME NEW fs, NEW n \in Nat, DOMAIN fs = 1 .. n, NEW ps, AlikeAll(fs, ps), NEW q
    PROVE  /\ Reads!Seeds(ps, q) = Reads!Seeds(fs, q)
           /\ \A m : Reads!LinkLabels(ps, q, m) = Reads!LinkLabels(fs, q, m)
<1>1. /\ DOMAIN ps = 1 .. n
      /\ \A i \in 1 .. n : /\ Reads!PathKind(ps[i]) = Reads!PathKind(fs[i])
                           /\ Reads!PathKind(fs[i]) # "person" => ps[i] = fs[i]
  BY DEF AlikeAll, Alike
<1>2. \A m : Reads!ByBasename(ps, m) = Reads!ByBasename(fs, m) /\ (Reads!IsNamed(ps, m) <=> Reads!IsNamed(fs, m))
  BY AlikeGraph DEF Reads!IsNamed
<1>3. PICK maps : maps = {i \in DOMAIN fs : Reads!PathKind(fs[i]) = "map"}
  OBVIOUS
<1>4. maps = {i \in DOMAIN ps : Reads!PathKind(ps[i]) = "map"} /\ maps \in SUBSET (1 .. n)
  BY <1>1, <1>3
<1>5. \A i \in maps : ps[i] = fs[i]
  BY <1>1, <1>3
<1>6. PICK focused : focused = {i \in maps : fs[i].subjects \cap q # {}}
  OBVIOUS
<1>7. focused = {i \in maps : ps[i].subjects \cap q # {}}
  BY <1>5, <1>6
<1>8. Reads!InScopeMaps(ps, q) = Reads!InScopeMaps(fs, q) /\ Reads!InScopeMaps(fs, q) \subseteq maps
  <2>1. CASE focused = {}
    BY <1>3, <1>4, <1>6, <1>7, <2>1 DEF Reads!InScopeMaps
  <2>2. CASE focused # {}
    <3>1. focused \in SUBSET Nat
      BY <1>4, <1>6
    <3>2. Reads!Min(focused) \in maps
      BY <1>6, <2>2, <3>1, LeastOf
    <3>3. PICK focus : focus = CHOOSE s \in fs[Reads!Min(focused)].subjects : s \in q
      OBVIOUS
    <3>4. focus = CHOOSE s \in ps[Reads!Min(focused)].subjects : s \in q
      BY <1>5, <3>2, <3>3
    <3>5. Reads!InScopeMaps(fs, q) = {i \in maps : focus \in fs[i].subjects}
      BY <1>3, <1>6, <2>2, <3>3 DEF Reads!InScopeMaps
    <3>6. Reads!InScopeMaps(ps, q) = {i \in maps : focus \in ps[i].subjects}
      BY <1>4, <1>7, <2>2, <3>4 DEF Reads!InScopeMaps
    <3>7. {i \in maps : focus \in fs[i].subjects} = {i \in maps : focus \in ps[i].subjects}
      BY <1>5
    <3> QED BY <3>5, <3>6, <3>7
  <2> QED BY <2>1, <2>2
<1>9. \A S : (\A i \in S : ps[i] = fs[i])
         => /\ {Reads!LabelledLinks(ps[i]) : i \in S} = {Reads!LabelledLinks(fs[i]) : i \in S}
            /\ {ps[i].name : i \in S} = {fs[i].name : i \in S}
  OBVIOUS
<1>10. Reads!MapSeeds(ps, q) = Reads!MapSeeds(fs, q)
  <2>1. PICK S : S = Reads!InScopeMaps(fs, q) /\ S = Reads!InScopeMaps(ps, q)
    BY <1>8
  <2>2. /\ {Reads!LabelledLinks(ps[i]) : i \in S} = {Reads!LabelledLinks(fs[i]) : i \in S}
        /\ {ps[i].name : i \in S} = {fs[i].name : i \in S}
    BY <1>5, <1>8, <1>9, <2>1
  <2>3. Reads!Children(ps, S) = Reads!Children(fs, S)
    BY <2>2 DEF Reads!Children
  <2>4. /\ Reads!MapSeeds(fs, q) = {m \in {fs[i].name : i \in S} \cup Reads!Children(fs, S) : Reads!IsNamed(fs, m)}
        /\ Reads!MapSeeds(ps, q) = {m \in {ps[i].name : i \in S} \cup Reads!Children(ps, S) : Reads!IsNamed(ps, m)}
    BY <2>1 DEF Reads!MapSeeds
  <2> QED BY <1>2, <2>2, <2>3, <2>4
<1>11. Reads!IndexSeeds(ps) = Reads!IndexSeeds(fs)
  <2>1. PICK i : i = Reads!ByBasename(fs, "index") /\ i = Reads!ByBasename(ps, "index")
    BY <1>2
  <2>2. CASE i = 0
    BY <2>1, <2>2 DEF Reads!IndexSeeds
  <2>3. CASE i # 0
    <3>1. i \in 1 .. n /\ Reads!PathKind(fs[i]) # "person"
      BY <2>1, <2>3, NamedAt
    <3>2. ps[i] = fs[i]
      BY <1>1, <3>1
    <3>3. Reads!Children(ps, {i}) = Reads!Children(fs, {i})
      <4>1. {Reads!LabelledLinks(ps[j]) : j \in {i}} = {Reads!LabelledLinks(fs[j]) : j \in {i}}
        BY <3>2
      <4> QED BY <4>1 DEF Reads!Children
    <3>4. /\ Reads!IndexSeeds(fs) = IF Reads!PathKind(fs[i]) = "index"
                                  THEN {m \in {"index"} \cup Reads!Children(fs, {i}) : Reads!IsNamed(fs, m)} ELSE {}
          /\ Reads!IndexSeeds(ps) = IF Reads!PathKind(ps[i]) = "index"
                                  THEN {m \in {"index"} \cup Reads!Children(ps, {i}) : Reads!IsNamed(ps, m)} ELSE {}
      BY <2>1, <2>3 DEF Reads!IndexSeeds
    <3> QED BY <1>2, <3>2, <3>3, <3>4
  <2> QED BY <2>2, <2>3
<1>12. Reads!Seeds(ps, q) = Reads!Seeds(fs, q)
  BY <1>10, <1>11 DEF Reads!Seeds
<1>13. ASSUME NEW m PROVE Reads!LinkLabels(ps, q, m) = Reads!LinkLabels(fs, q, m)
  <2>1. PICK S : S = Reads!InScopeMaps(fs, q) /\ S = Reads!InScopeMaps(ps, q)
    BY <1>8
  <2>2. {Reads!LabelledLinks(ps[i]) : i \in S} = {Reads!LabelledLinks(fs[i]) : i \in S}
    BY <1>5, <1>8, <1>9, <2>1
  <2> QED BY <2>1, <2>2 DEF Reads!LinkLabels
<1> QED BY <1>12, <1>13

LEMMA AlikeRounds ==
    ASSUME NEW fs, NEW n \in Nat, Len(fs) = n, DOMAIN fs = 1 .. n, NEW ps, Len(ps) = n, AlikeAll(fs, ps),
           NEW before, NEW current
    PROVE  Reads!Round(ps, before, current)[n] = Reads!Round(fs, before, current)[n]
<1>1. PICK a : /\ a = Reads!Round(fs, before, current)
               /\ a[0] = before /\ \A k \in 1 .. n : a[k] = Visit(fs, current, k, a[k - 1])
  BY RoundFollows
<1>2. PICK b : /\ b = Reads!Round(ps, before, current)
               /\ b[0] = before /\ \A k \in 1 .. n : b[k] = Visit(ps, current, k, b[k - 1])
  BY RoundFollows
<1>3. \A m : Reads!ByBasename(ps, m) = Reads!ByBasename(fs, m) /\ (Reads!IsNamed(ps, m) <=> Reads!IsNamed(fs, m))
  BY AlikeGraph DEF Reads!IsNamed
<1>4. ASSUME NEW k \in 1 .. n, NEW d PROVE Visit(ps, current, k, d) = Visit(fs, current, k, d)
  <2>1. \A m : Reads!ByBasename(fs, m) = k => Reads!PathKind(fs[k]) # "person"
    <3> SUFFICES ASSUME NEW m, Reads!ByBasename(fs, m) = k PROVE Reads!PathKind(fs[k]) # "person"
      OBVIOUS
    <3>1. k # 0
      OBVIOUS
    <3> QED BY <3>1, NamedAt
  <2>2. CASE Reads!PathKind(fs[k]) = "person"
    BY <1>3, <2>1, <2>2 DEF Visit
  <2>3. CASE Reads!PathKind(fs[k]) # "person"
    <3>1. ps[k] = fs[k]
      BY <2>3 DEF AlikeAll, Alike
    <3>2. CASE Reads!ByBasename(fs, fs[k].name) = k
      <4>1. PICK m : m = fs[k].name
        OBVIOUS
      <4>2. {t \in Reads!OutlinksOf(ps[Reads!ByBasename(ps, m)]) : Reads!IsNamed(ps, t)}
              = {t \in Reads!OutlinksOf(fs[Reads!ByBasename(fs, m)]) : Reads!IsNamed(fs, t)}
        BY <1>3, <3>1, <3>2, <4>1
      <4>3. Reads!Expand(ps, d, m) = Reads!Expand(fs, d, m)
        BY <4>2 DEF Reads!Expand
      <4> QED BY <1>3, <3>1, <4>1, <4>3 DEF Visit
    <3>3. CASE Reads!ByBasename(fs, fs[k].name) # k
      BY <1>3, <3>1, <3>3 DEF Visit
    <3> QED BY <3>2, <3>3
  <2> QED BY <2>2, <2>3
<1> DEFINE S == {k \in Nat : k <= n => b[k] = a[k]}
<1>5. 0 \in S
  BY <1>1, <1>2
<1>6. ASSUME NEW j \in Nat, j \in S PROVE j + 1 \in S
  <2>1. CASE j + 1 <= n
    <3>1. PICK k \in 1 .. n : k = j + 1 /\ k - 1 = j
      BY <2>1
    <3>2. b[j] = a[j]
      BY <1>6, <2>1
    <3>3. b[k] = a[k]
      BY <1>1, <1>2, <1>4, <3>1, <3>2
    <3> QED BY <3>1, <3>3
  <2>2. CASE ~(j + 1 <= n)
    BY <2>2
  <2> QED BY <2>1, <2>2
<1>7. n \in S
  <2> HIDE DEF S
  <2> QED BY <1>5, <1>6, Induct
<1> QED BY <1>1, <1>2, <1>7

LEMMA AlikeDistances ==
    ASSUME NEW fs, NEW n \in Nat, Len(fs) = n, DOMAIN fs = 1 .. n, NEW ps, Len(ps) = n, AlikeAll(fs, ps), NEW q
    PROVE  Reads!Distances(ps, q) = Reads!Distances(fs, q)
<1>1. \A acc : Reads!Hop(ps, acc) = Reads!Hop(fs, acc)
  <2> SUFFICES ASSUME NEW acc PROVE Reads!Hop(ps, acc) = Reads!Hop(fs, acc)
    OBVIOUS
  <2>1. Reads!Round(ps, acc.d, acc.current)[n] = Reads!Round(fs, acc.d, acc.current)[n]
    BY AlikeRounds
  <2> QED BY <2>1 DEF Reads!Hop
<1>2. Reads!Seeds(ps, q) = Reads!Seeds(fs, q)
  BY AlikeSeeds
<1> QED BY <1>1, <1>2 DEF Reads!Distances, Reads!TwoHops

\* The parts of a hit are the same for alike files.
LEMMA AlikeHits ==
    ASSUME NEW fs, NEW n \in Nat, DOMAIN fs = 1 .. n, NEW ps, AlikeAll(fs, ps), NEW q, NEW d, NEW i \in 1 .. n
    PROVE  /\ Reads!AllTokens(ps[i]) = Reads!AllTokens(fs[i])
           /\ Reads!Reached(ps, d, i) <=> Reads!Reached(fs, d, i)
           /\ Reads!PassesGate(ps, q, d, i) <=> Reads!PassesGate(fs, q, d, i)
           /\ Reads!Combined(ps, q, d, i) = Reads!Combined(fs, q, d, i)
           /\ Reads!OrderKey(ps, q, d, i) = Reads!OrderKey(fs, q, d, i)
<1>1. /\ Reads!PathKind(ps[i]) = Reads!PathKind(fs[i])
      /\ Reads!PathKind(fs[i]) # "person" => ps[i] = fs[i]
      /\ Reads!FieldTokens(ps[i]) = Reads!FieldTokens(fs[i])
      /\ ps[i].status = fs[i].status
  BY DEF AlikeAll, Alike
<1>2. Reads!AllTokens(ps[i]) = Reads!AllTokens(fs[i])
  BY <1>1 DEF Reads!AllTokens
<1>3. Reads!Lexical(ps[i], q) = Reads!Lexical(fs[i], q)
  BY <1>1 DEF Reads!Lexical
<1>4. Reads!Reached(ps, d, i) <=> Reads!Reached(fs, d, i)
  BY <1>1 DEF Reads!Reached
<1>5. /\ Reads!Reached(fs, d, i) => ps[i].name = fs[i].name
      /\ Reads!DistanceOf(ps, d, i) = Reads!DistanceOf(fs, d, i)
  BY <1>1, <1>4 DEF Reads!DistanceOf, Reads!Reached
<1>6. Reads!LabelsOf(ps, q, d, i) = Reads!LabelsOf(fs, q, d, i)
  BY <1>4, <1>5, AlikeSeeds DEF Reads!LabelsOf
<1>7. Reads!ThemeTokens(ps, q, d, i) = Reads!ThemeTokens(fs, q, d, i)
  BY <1>1, <1>6 DEF Reads!ThemeTokens
<1>8. Reads!PassesGate(ps, q, d, i) <=> Reads!PassesGate(fs, q, d, i)
  BY <1>3, <1>5, <1>7 DEF Reads!PassesGate
<1>9. /\ Reads!IndegreeOf(ps, i) = Reads!IndegreeOf(fs, i)
      /\ Reads!HighestIndegree(ps) = Reads!HighestIndegree(fs)
  BY AlikeGraph
<1>10. Reads!Combined(ps, q, d, i) = Reads!Combined(fs, q, d, i)
  <2>1. Reads!Structural(ps, d, i) = Reads!Structural(fs, d, i)
    BY <1>5, <1>9 DEF Reads!Structural
  <2>2. Reads!StatusBoost(ps[i]) = Reads!StatusBoost(fs[i])
    BY <1>1 DEF Reads!StatusBoost
  <2> QED BY <1>3, <2>1, <2>2 DEF Reads!Combined
<1>11. Reads!Reason(ps, q, d, i) = Reads!Reason(fs, q, d, i)
  <2>1. Reads!TopMatchedField(ps[i], q) = Reads!TopMatchedField(fs[i], q)
    BY <1>1 DEF Reads!TopMatchedField
  <2> QED BY <1>5, <1>7, <2>1 DEF Reads!Reason
<1> QED BY <1>2, <1>3, <1>4, <1>8, <1>9, <1>10, <1>11 DEF Reads!OrderKey

LEMMA NoCredit == ASSUME NEW x, Reads!IsQuery(x) PROVE Reads!PeopleTakeNoCredit(x)
<1>1. PICK fs, q, limit : fs = x.files /\ q = x.q /\ limit = x.limit
  OBVIOUS
<1>2. PICK n \in Nat : Len(fs) = n /\ DOMAIN fs = 1 .. n /\ fs = [i \in 1 .. n |-> fs[i]]
  BY <1>1, QueryIs
<1>3. PICK ps : ps = [i \in DOMAIN fs |-> Reads!Nameless(fs[i])]
  OBVIOUS
<1>4. Len(ps) = n /\ DOMAIN ps = 1 .. n
  <2>1. ps = [i \in 1 .. n |-> Reads!Nameless(fs[i])]
    BY <1>2, <1>3
  <2>2. ps \in Seq({Reads!Nameless(fs[i]) : i \in 1 .. n})
    BY <2>1
  <2> QED BY <2>1, <2>2
<1>5. AlikeAll(fs, ps)
  <2>1. \A i \in DOMAIN fs : Reads!IsSequence(fs[i].lines)
    BY <1>1 DEF Reads!IsQuery
  <2>2. \A i \in DOMAIN fs : Alike(fs[i], ps[i])
    BY <1>3, <2>1, NamelessIs
  <2> QED BY <1>2, <1>4, <2>2 DEF AlikeAll
<1>6. PICK d : d = Reads!Distances(fs, q) /\ d = Reads!Distances(ps, q)
  BY <1>2, <1>4, <1>5, AlikeDistances, ZenonT(60)
<1>7. \A i \in 1 .. n : /\ Reads!AllTokens(ps[i]) = Reads!AllTokens(fs[i])
                        /\ Reads!Reached(ps, d, i) <=> Reads!Reached(fs, d, i)
                        /\ Reads!PassesGate(ps, q, d, i) <=> Reads!PassesGate(fs, q, d, i)
                        /\ Reads!Combined(ps, q, d, i) = Reads!Combined(fs, q, d, i)
                        /\ Reads!OrderKey(ps, q, d, i) = Reads!OrderKey(fs, q, d, i)
  BY <1>2, <1>5, AlikeHits
<1>8. Reads!Candidates(ps, q, d) = Reads!Candidates(fs, q, d) /\ Reads!Candidates(fs, q, d) \subseteq 1 .. n
  BY <1>2, <1>4, <1>7 DEF Reads!Candidates, Reads!LexicalCandidates
<1>9. PICK S : S = HitsIn(fs, q, d, Reads!Candidates(fs, q, d)) /\ S = HitsIn(ps, q, d, Reads!Candidates(ps, q, d))
  BY <1>7, <1>8 DEF HitsIn
<1>10. [i \in S |-> Reads!OrderKey(ps, q, d, i)] = [i \in S |-> Reads!OrderKey(fs, q, d, i)]
  <2>1. \A i \in S : i \in 1 .. n
    BY <1>8, <1>9 DEF HitsIn
  <2> QED BY <1>7, <2>1
<1>11. /\ Reads!HitsAt(fs, q, d, limit) = Listed([i \in S |-> Reads!OrderKey(fs, q, d, i)], S, limit)
       /\ Reads!HitsAt(ps, q, d, limit) = Listed([i \in S |-> Reads!OrderKey(ps, q, d, i)], S, limit)
  <2>1. \A gs, among :
          Reads!HitsAmong(gs, q, d, among, limit)
            = Listed([i \in HitsIn(gs, q, d, among) |-> Reads!OrderKey(gs, q, d, i)],
                     HitsIn(gs, q, d, among), limit)
    BY DEF Reads!HitsAmong, HitsIn, Listed
  <2> QED BY <1>9, <2>1 DEF Reads!HitsAt
<1>12. ps = <<>> <=> fs = <<>>
  <2>1. fs = <<>> <=> n = 0
    BY <1>2
  <2>2. ps = <<>> <=> n = 0
    BY <1>2, <1>3, <1>4
  <2> QED BY <2>1, <2>2
<1>13. Reads!QueryLexical(fs, q, limit) = Reads!QueryLexical(ps, q, limit)
  BY <1>6, <1>10, <1>11, <1>12 DEF Reads!QueryLexical
<1> QED BY <1>1, <1>3, <1>13 DEF Reads!PeopleTakeNoCredit

LEMMA QueryExact == ASSUME NEW x, Reads!IsQuery(x) PROVE Reads!QueryIsExact(x)
  BY WalksAreShortest, PrefilterExact, NoCredit, HitsEvident DEF Reads!QueryIsExact, Reads!QueryHolds

\* The first few of an order are as many as it is asked for, or all there are.
LEMMA FirstsOf ==
    ASSUME NEW S, IsFiniteSet(S), NEW R, Orders(R, S), NEW cap \in Nat, NEW T,
           \A i : i \in T <=> i \in S /\ Place(S, R, i) < cap
    PROVE  /\ IsFiniteSet(T)
           /\ Cardinality(T) = IF Cardinality(S) <= cap THEN Cardinality(S) ELSE cap
           /\ Cardinality(S) <= cap => T = S
<1>1. PICK m \in Nat : m = Cardinality(S)
  BY PlacesOf
<1>2. /\ \A i \in S : Place(S, R, i) \in 0 .. m - 1
      /\ \A i, j \in S : <<i, j>> \in R <=> Place(S, R, i) < Place(S, R, j)
      /\ \A k \in 1 .. m : \E i \in S : Place(S, R, i) = k - 1
  BY <1>1, PlacesOf
<1>3. CASE m <= cap
  <2>1. T = S
    <3>1. \A i \in S : Place(S, R, i) < cap
      BY <1>2, <1>3
    <3>2. \A i : i \in T <=> i \in S
      BY <3>1
    <3> QED BY <3>2
  <2> QED BY <1>1, <1>3, <2>1
<1>4. CASE ~(m <= cap)
  <2>1. PICK f : f = [i \in T |-> Place(S, R, i) + 1]
    OBVIOUS
  <2>2. f \in [T -> 1 .. cap]
    BY <1>2, <2>1
  <2>3. \A i, j \in T : f[i] = f[j] => i = j
    <3> SUFFICES ASSUME NEW i \in T, NEW j \in T, f[i] = f[j] PROVE i = j
      OBVIOUS
    <3>1. Place(S, R, i) \in Int /\ Place(S, R, j) \in Int /\ i \in S /\ j \in S
      BY <1>2
    <3>2. Place(S, R, i) = Place(S, R, j)
      BY <2>1, <3>1
    <3>3. <<i, j>> \notin R /\ <<j, i>> \notin R
      BY <1>2, <3>1, <3>2
    <3> QED BY <3>1, <3>3 DEF Orders
  <2>4. \A k \in 1 .. cap : \E i \in T : f[i] = k
    <3> SUFFICES ASSUME NEW k \in 1 .. cap PROVE \E i \in T : f[i] = k
      OBVIOUS
    <3>1. k \in 1 .. m /\ k - 1 < cap
      BY <1>1, <1>4
    <3>2. PICK i \in S : Place(S, R, i) = k - 1
      BY <1>2, <3>1
    <3> QED BY <2>1, <3>1, <3>2
  <2>5. f \in Injection(T, 1 .. cap) /\ f \in Surjection(T, 1 .. cap)
    BY <2>2, <2>3, <2>4 DEF Injection, IsInjective, Surjection
  <2>6. IsFiniteSet(1 .. cap) /\ Cardinality(1 .. cap) = cap
    BY FS_Interval
  <2>7. IsFiniteSet(T) /\ Cardinality(T) = cap
    BY <2>5, <2>6, FS_Injection
  <2> QED BY <1>1, <1>4, <2>7
<1> QED BY <1>3, <1>4

\* The rounds of a neighbourhood.
LEMMA GrowsBy ==
    ASSUME NEW fs, NEW edges, NEW c, NEW n \in Nat
    PROVE  \E g : /\ g[0] = [reached |-> {c}, frontier |-> {c}]
                  /\ \A k \in 1 .. n :
                       g[k] = Reads!Grown(g[k - 1],
                                Reads!NextFrontier(fs, edges, g[k - 1].reached, g[k - 1].frontier))
                  /\ Reads!Neighbourhood(fs, edges, c, n) = g[n].reached
<1> DEFINE Then(a) == Reads!Grown(a, Reads!NextFrontier(fs, edges, a.reached, a.frontier))
           start == [reached |-> {c}, frontier |-> {c}]
           Loop(f, m) == [k \in 0 .. m |-> IF k = 0 THEN start ELSE Then(f[k - 1])]
           S == {m \in Nat : \E f : f = Loop(f, m)}
<1>1. 0 \in S
  <2>1. [k \in 0 .. 0 |-> start] = Loop([k \in 0 .. 0 |-> start], 0)
    <3> HIDE DEF start
    <3> QED OBVIOUS
  <2> QED BY <2>1
<1>2. ASSUME NEW m \in Nat, m \in S PROVE m + 1 \in S
  <2>1. PICK f : f = Loop(f, m)
    BY <1>2
  <2> DEFINE g == [k \in 0 .. m + 1 |-> IF k <= m THEN f[k] ELSE Then(f[m])]
  <2> HIDE DEF Then, start
  <2>2. ASSUME NEW k \in 0 .. m + 1
        PROVE  g[k] = IF k = 0 THEN start ELSE Then(g[k - 1])
    <3>1. CASE k = 0
      BY <2>1, <3>1
    <3>2. CASE k \in 1 .. m
      BY <2>1, <3>2
    <3>3. CASE k = m + 1
      BY <3>3
    <3> QED BY <3>1, <3>2, <3>3
  <2>3. g = Loop(g, m + 1)
    BY <2>2
  <2> HIDE DEF g
  <2> QED BY <2>3
<1>3. \E f : f = Loop(f, n)
  <2> HIDE DEF Loop
  <2>1. n \in S
    <3> HIDE DEF S
    <3> QED BY <1>1, <1>2, Induct
  <2> QED BY <2>1
<1> DEFINE grown[k \in 0 .. n] ==
             IF k = 0 THEN start ELSE Then(grown[k - 1])
<1>4. Reads!Neighbourhood(fs, edges, c, n) = grown[n].reached
  BY SMTT(30) DEF Reads!Neighbourhood
<1>5. grown = Loop(grown, n)
  BY <1>3, ZenonT(60)
<1>6. PICK h : h = grown
  OBVIOUS
<1> HIDE DEF grown
<1>7. h = Loop(h, n)
  BY <1>5, <1>6
<1>8. h[0] = start /\ \A k \in 1 .. n : h[k] = Then(h[k - 1])
  <2> HIDE DEF Then, start
  <2> QED BY <1>7
<1> QED BY <1>4, <1>6, <1>8

\* A step along a link, either way, or none.
Nearby(edges, i, j) == i = j \/ {<<i, j>>, <<j, i>>} \cap edges # {}
AllNear(D, edges, S) == {j \in D : \E i \in S : Nearby(edges, i, j)}
\* What was reached before the last round has all its neighbours already.
Settled(D, edges, g) ==
  /\ g.reached \subseteq D /\ g.frontier \subseteq g.reached
  /\ \A i \in g.reached \ g.frontier : \A j \in D : Nearby(edges, i, j) => j \in g.reached

LEMMA OneMoreRound ==
    ASSUME NEW fs, NEW edges, NEW g, Settled(DOMAIN fs, edges, g)
    PROVE  LET h == Reads!Grown(g, Reads!NextFrontier(fs, edges, g.reached, g.frontier))
           IN Settled(DOMAIN fs, edges, h) /\ h.reached = AllNear(DOMAIN fs, edges, g.reached)
<1>1. PICK D, reached, frontier : D = DOMAIN fs /\ reached = g.reached /\ frontier = g.frontier
  OBVIOUS
<1>2. /\ reached \subseteq D /\ frontier \subseteq reached
      /\ \A i \in reached \ frontier : \A j \in D : Nearby(edges, i, j) => j \in reached
  BY <1>1 DEF Settled
<1>3. PICK next : next = Reads!NextFrontier(fs, edges, reached, frontier)
  OBVIOUS
<1>4. \A j : j \in next <=> j \in D \ reached /\ \E i \in frontier : {<<i, j>>, <<j, i>>} \cap edges # {}
  BY <1>1, <1>3 DEF Reads!NextFrontier
<1>5. PICK h : h = Reads!Grown(g, next)
  OBVIOUS
<1>6. h.reached = reached \cup next /\ h.frontier = next
  BY <1>1, <1>5 DEF Reads!Grown
<1>7. \A i \in reached : \A j \in D : Nearby(edges, i, j) => j \in reached \cup next
  <2> SUFFICES ASSUME NEW i \in reached, NEW j \in D, Nearby(edges, i, j), j \notin reached
               PROVE  j \in next
    OBVIOUS
  <2>1. i \in frontier /\ i # j
    BY <1>2
  <2> QED BY <1>4, <2>1 DEF Nearby
<1>8. \A j \in reached \cup next : j \in D /\ \E i \in reached : Nearby(edges, i, j)
  BY <1>2, <1>4 DEF Nearby
<1>9. Settled(D, edges, h)
  BY <1>2, <1>4, <1>6, <1>7 DEF Settled
<1>10. h.reached = AllNear(D, edges, reached)
  BY <1>6, <1>7, <1>8 DEF AllNear
<1> QED BY <1>1, <1>3, <1>5, <1>9, <1>10

LEMMA NeighboursAre ==
    ASSUME NEW fs, NEW edges, NEW c \in DOMAIN fs, NEW n \in 1 .. 3
    PROVE  LET D == DOMAIN fs
           IN /\ n = 1 => Reads!Neighbourhood(fs, edges, c, n) = AllNear(D, edges, {c})
              /\ n = 2 => Reads!Neighbourhood(fs, edges, c, n) = AllNear(D, edges, AllNear(D, edges, {c}))
              /\ n = 3 => Reads!Neighbourhood(fs, edges, c, n)
                            = AllNear(D, edges, AllNear(D, edges, AllNear(D, edges, {c})))
<1>1. PICK g : /\ g[0] = [reached |-> {c}, frontier |-> {c}]
               /\ \A k \in 1 .. n :
                    g[k] = Reads!Grown(g[k - 1],
                             Reads!NextFrontier(fs, edges, g[k - 1].reached, g[k - 1].frontier))
               /\ Reads!Neighbourhood(fs, edges, c, n) = g[n].reached
  BY GrowsBy
<1>2. Settled(DOMAIN fs, edges, g[0]) /\ g[0].reached = {c}
  BY <1>1 DEF Settled
<1>3. ASSUME NEW k \in 1 .. n, Settled(DOMAIN fs, edges, g[k - 1])
      PROVE  Settled(DOMAIN fs, edges, g[k]) /\ g[k].reached = AllNear(DOMAIN fs, edges, g[k - 1].reached)
  <2>1. PICK a : a = g[k - 1]
    OBVIOUS
  <2>2. Settled(DOMAIN fs, edges, a)
    BY <1>3, <2>1
  <2>3. g[k] = Reads!Grown(a, Reads!NextFrontier(fs, edges, a.reached, a.frontier))
    BY <1>1, <2>1
  <2> QED BY <2>1, <2>2, <2>3, OneMoreRound
<1>4. /\ 1 \in 1 .. n /\ 1 - 1 = 0
      /\ n >= 2 => 2 \in 1 .. n /\ 2 - 1 = 1
      /\ n >= 3 => 3 \in 1 .. n /\ 3 - 1 = 2
  OBVIOUS
<1>5. Settled(DOMAIN fs, edges, g[1]) /\ g[1].reached = AllNear(DOMAIN fs, edges, {c})
  BY <1>2, <1>3, <1>4
<1>6. n >= 2 => /\ Settled(DOMAIN fs, edges, g[2])
                /\ g[2].reached = AllNear(DOMAIN fs, edges, AllNear(DOMAIN fs, edges, {c}))
  BY <1>3, <1>4, <1>5
<1>7. n >= 3 => g[3].reached
                  = AllNear(DOMAIN fs, edges, AllNear(DOMAIN fs, edges, AllNear(DOMAIN fs, edges, {c})))
  BY <1>3, <1>4, <1>6
<1> QED BY <1>1, <1>5, <1>6, <1>7

\* The notes around one, as a set of positions.
LEMMA AroundIs ==
    ASSUME NEW fs, NEW edges, NEW c \in DOMAIN fs, NEW n \in 1 .. 3
    PROVE  Reads!Neighbourhood(fs, edges, c, n)
             = {j \in DOMAIN fs : \E a, b \in DOMAIN fs :
                  /\ Nearby(edges, c, a) /\ Nearby(edges, a, b) /\ Nearby(edges, b, j)
                  /\ n < 3 => b = j
                  /\ n < 2 => a = j}
<1> DEFINE D == DOMAIN fs
           near(i, j) == Nearby(edges, i, j)
<1>1. PICK one : one = AllNear(D, edges, {c})
  OBVIOUS
<1>2. PICK two : two = AllNear(D, edges, one)
  OBVIOUS
<1>3. PICK three : three = AllNear(D, edges, two)
  OBVIOUS
<1>4. PICK around : around = Reads!Neighbourhood(fs, edges, c, n)
  OBVIOUS
<1>5. /\ n = 1 => around = one
      /\ n = 2 => around = two
      /\ n = 3 => around = three
  BY <1>1, <1>2, <1>3, <1>4, NeighboursAre
<1>6. /\ \A j : j \in one <=> j \in D /\ near(c, j)
      /\ \A j : j \in two <=> j \in D /\ \E i \in one : near(i, j)
      /\ \A j : j \in three <=> j \in D /\ \E i \in two : near(i, j)
  BY <1>1, <1>2, <1>3 DEF AllNear
<1>7. \A i : near(i, i)
  BY DEF Nearby
<1> HIDE DEF near, D
<1> DEFINE S == {j \in D : \E a, b \in D : /\ near(c, a) /\ near(a, b) /\ near(b, j)
                                           /\ n < 3 => b = j
                                           /\ n < 2 => a = j}
<1>8. n = 1 => one = S
  BY <1>6, <1>7
<1>9. n = 2 => two = S
  BY <1>6, <1>7
<1>10. n = 3 => three = S
  BY <1>6
<1>11. around = S
  <2>1. n = 1 \/ n = 2 \/ n = 3
    OBVIOUS
  <2> HIDE DEF S
  <2> QED BY <1>5, <1>8, <1>9, <1>10, <2>1
<1> QED BY <1>4, <1>11 DEF D, near

\* A note that a shown link leads to is no orphan, unless a human's note holds it.
LEMMA OrphansAre ==
    ASSUME NEW fs, NEW n \in Nat, Len(fs) = n, DOMAIN fs = 1 .. n, NEW e \in Reads!EdgePairs(fs), NEW nodes,
           e[2] \in Reads!Orphans(fs, nodes)
    PROVE  Reads!PathKind(fs[e[1]]) = "person"
<1>1. e[1] \in 1 .. n /\ e[2] \in 1 .. n
  BY DEF Reads!EdgePairs
<1>2. PICK t \in Reads!OutlinksOf(fs[e[1]]) : Reads!GraphTarget(fs, t) = e[2]
  BY DEF Reads!EdgePairs
<1>3. PICK S : S = {n + 1} \cup {i \in Reads!Graded(fs) : fs[i].name = t}
  OBVIOUS
<1>4. S \in SUBSET Nat /\ S # {} /\ e[2] = Reads!Min(S)
  BY <1>2, <1>3 DEF Reads!GraphTarget, Reads!Graded
<1>5. e[2] \in S /\ e[2] # n + 1
  BY <1>1, <1>4, LeastOf
<1>6. fs[e[2]].name = t
  BY <1>3, <1>5
<1>7. t \notin Reads!Referenced(fs)
  BY <1>6 DEF Reads!Orphans
<1> QED BY <1>1, <1>2, <1>7 DEF Reads!Referenced, Reads!Graded

LEMMA DrawnIs ==
    ASSUME NEW fs, NEW edges, NEW nodes, NEW all
    PROVE  LET g == Reads!Drawn(fs, edges, nodes, all)
           IN /\ g.nodes = nodes /\ g.edges = Reads!InducedEdges(edges, nodes)
              /\ g.orphans = Reads!Orphans(fs, nodes)
              /\ g.node_total = Reads!Cardinality(all)
              /\ g.edge_total = Reads!Cardinality(Reads!InducedEdges(edges, all))
              /\ g.truncated <=> Reads!Cardinality(nodes) < Reads!Cardinality(all)
<1>1. PICK cut \in BOOLEAN : cut <=> Reads!Cardinality(nodes) < Reads!Cardinality(all)
  OBVIOUS
<1> QED BY <1>1 DEF Reads!Drawn

\* The files of the whole picture: the first ones that are kept.
Cut(kept, cap) == {i \in kept : Reads!Cardinality({j \in kept : j <= i}) <= cap}

LEMMA CutIs ==
    ASSUME NEW n \in Nat, NEW kept \in SUBSET (1 .. n), NEW cap \in Nat, NEW T, T = Cut(kept, cap)
    PROVE  /\ Reads!Cardinality(kept) \in Nat
           /\ Reads!Cardinality(T) = IF Reads!Cardinality(kept) <= cap THEN Reads!Cardinality(kept) ELSE cap
           /\ Reads!Cardinality(kept) <= cap => T = kept
<1>1. PICK R : R = {p \in kept \X kept : p[1] < p[2]}
  OBVIOUS
<1>2. IsFiniteSet(kept)
  <2>1. PICK U : U = 1 .. n
    OBVIOUS
  <2>2. IsFiniteSet(U)
    BY <2>1, FS_Interval
  <2> QED BY <2>1, <2>2, FS_Subset
<1>3. \A i, j : <<i, j>> \in R <=> i \in kept /\ j \in kept /\ i < j
  BY <1>1
<1>4. \A i \in kept : i \in Int
  OBVIOUS
<1>5. Orders(R, kept)
  BY <1>3, <1>4 DEF Orders
<1>6. \A S : Reads!Cardinality(S) = Cardinality(S)
  BY DEF Reads!Cardinality, Cardinality
<1>7. ASSUME NEW i \in kept
      PROVE  Reads!Cardinality({j \in kept : j <= i}) <= cap <=> Place(kept, R, i) < cap
  <2>1. PICK B : B = {j \in kept : <<j, i>> \in R}
    OBVIOUS
  <2>2. IsFiniteSet(B)
    BY <1>2, <2>1, FS_Subset
  <2>3. i \notin B /\ {j \in kept : j <= i} = B \cup {i}
    <3>1. \A j : j \in B <=> j \in kept /\ j < i
      BY <1>3, <2>1
    <3>2. \A j \in kept : j <= i <=> j < i \/ j = i
      BY <1>4
    <3>3. ~(i < i)
      BY <1>4
    <3> QED BY <3>1, <3>2, <3>3
  <2>4. Cardinality(B \cup {i}) = Cardinality(B) + 1
    BY <2>2, <2>3, FS_AddElement
  <2>5. Cardinality(B) \in Nat
    BY <2>2, FS_CardinalityType
  <2>6. Place(kept, R, i) = Cardinality(B)
    BY <2>1 DEF Place
  <2> QED BY <1>6, <2>3, <2>4, <2>5, <2>6
<1>8. \A i : i \in T <=> i \in kept /\ Place(kept, R, i) < cap
  BY <1>7 DEF Cut
<1>9. Cardinality(kept) \in Nat
  BY <1>2, FS_CardinalityType
<1>10. /\ Cardinality(T) = IF Cardinality(kept) <= cap THEN Cardinality(kept) ELSE cap
       /\ Cardinality(kept) <= cap => T = kept
  BY <1>2, <1>5, <1>8, FirstsOf
<1> QED BY <1>6, <1>9, <1>10

LEMMA WholeIs ==
    ASSUME NEW fs, NEW edges, NEW subject, NEW cap
    PROVE  \E kept \in SUBSET (DOMAIN fs) :
             Reads!GlobalGraph(fs, edges, subject, cap)
               = Reads!Drawn(fs, edges, Cut(kept, cap), kept)
  BY DEF Reads!GlobalGraph, Cut

LEMMA PicturesTrue == ASSUME NEW x, Reads!IsDrawing(x) PROVE Reads!GraphIsTrue(x)
<1>1. PICK fs, cap, center, edges : /\ fs = x.files /\ cap = x.cap /\ center = x.center
                                    /\ edges = Reads!EdgePairs(fs)
  OBVIOUS
<1>2. PICK n \in Nat : Len(fs) = n /\ DOMAIN fs = 1 .. n
  BY <1>1, FilesAre DEF Reads!IsDrawing
<1>3. cap \in Nat /\ x.depth \in Nat
  BY <1>1 DEF Reads!IsDrawing
<1>4. PICK steps \in 1 .. 3 : steps = Reads!Max({1, Reads!Min({x.depth, 3})})
  <2>1. PICK v \in Nat : v = Reads!Min({x.depth, 3}) /\ v <= 3
    <3>1. \A a, b \in Int : Reads!Min({a, b}) = IF a <= b THEN a ELSE b
      BY TwoOf
    <3> QED BY <1>3, <3>1
  <2>2. \A a, b \in Int : Reads!Max({a, b}) = IF a >= b THEN a ELSE b
    BY TwoOf
  <2>3. Reads!Max({1, v}) = IF 1 >= v THEN 1 ELSE v
    BY <2>2
  <2> QED BY <2>1, <2>3
<1> DEFINE Honest(g) == \A e \in g.edges : e[2] \in g.orphans => Reads!PathKind(fs[e[1]]) = "person"
<1>5. ASSUME NEW nodes, NEW all PROVE Honest(Reads!Drawn(fs, edges, nodes, all))
  <2>1. PICK g : g = Reads!Drawn(fs, edges, nodes, all)
    OBVIOUS
  <2>2. g.edges \subseteq Reads!EdgePairs(fs) /\ g.orphans = Reads!Orphans(fs, nodes)
    <3>1. g.edges = Reads!InducedEdges(edges, nodes) /\ g.orphans = Reads!Orphans(fs, nodes)
      BY <2>1, DrawnIs
    <3> QED BY <1>1, <3>1 DEF Reads!InducedEdges
  <2>3. \A e \in g.edges : e[2] \in Reads!Orphans(fs, nodes) => Reads!PathKind(fs[e[1]]) = "person"
    BY <1>2, <2>2, OrphansAre
  <2> QED BY <2>1, <2>2, <2>3
<1>6. PICK local : local = Reads!LocalGraph(fs, edges, center, x.depth)
  OBVIOUS
<1>7. center \in DOMAIN fs => local = Reads!Drawn(fs, edges, Reads!Neighbourhood(fs, edges, center, steps),
                                                  Reads!Neighbourhood(fs, edges, center, steps))
  BY <1>4, <1>6 DEF Reads!LocalGraph, Reads!Whole, Reads!MaxGraphDepth
<1>8. \E nodes : local = Reads!Drawn(fs, edges, nodes, nodes)
  BY <1>6 DEF Reads!LocalGraph, Reads!Whole
<1>9. Honest(local)
  BY <1>5, <1>8
<1> DEFINE Near(i, j) == i = j \/ {<<i, j>>, <<j, i>>} \cap edges # {}
           Reaches(j) == \E a, b \in DOMAIN fs :
                           /\ Near(center, a) /\ Near(a, b) /\ Near(b, j)
                           /\ steps < 3 => b = j
                           /\ steps < 2 => a = j
<1>10. center \in DOMAIN fs => local.nodes = {j \in DOMAIN fs : Reaches(j)} /\ ~local.truncated
  <2> SUFFICES ASSUME center \in DOMAIN fs
               PROVE  local.nodes = {j \in DOMAIN fs : Reaches(j)} /\ ~local.truncated
    OBVIOUS
  <2>1. PICK nodes : nodes = Reads!Neighbourhood(fs, edges, center, steps)
    OBVIOUS
  <2>2. nodes = {j \in DOMAIN fs : Reaches(j)}
    BY <2>1, AroundIs, SMTT(30) DEF Nearby
  <2>3. Reads!Cardinality(nodes) \in Nat
    <3>1. nodes \in SUBSET (1 .. n)
      BY <1>2, <2>2
    <3> QED BY <3>1, CutIs
  <2>4. local.nodes = nodes /\ (local.truncated <=> Reads!Cardinality(nodes) < Reads!Cardinality(nodes))
    BY <1>7, <2>1, DrawnIs
  <2> QED BY <2>2, <2>3, <2>4
<1>11. PICK whole : whole = Reads!GlobalGraph(fs, edges, x.subject, cap)
  OBVIOUS
<1>12. PICK kept \in SUBSET (1 .. n) :
          whole = Reads!Drawn(fs, edges, Cut(kept, cap), kept)
  <2>1. \E kept \in SUBSET (DOMAIN fs) :
          whole = Reads!Drawn(fs, edges, Cut(kept, cap), kept)
    BY <1>11, WholeIs
  <2> QED BY <1>2, <2>1
<1>13. PICK T : T = Cut(kept, cap)
  OBVIOUS
<1>14. PICK m \in Nat : /\ m = Reads!Cardinality(kept)
                        /\ Reads!Cardinality(T) = IF m <= cap THEN m ELSE cap
                        /\ m <= cap => T = kept
  <2>1. /\ Reads!Cardinality(kept) \in Nat
        /\ Reads!Cardinality(T) = IF Reads!Cardinality(kept) <= cap THEN Reads!Cardinality(kept) ELSE cap
        /\ Reads!Cardinality(kept) <= cap => T = kept
    BY <1>3, <1>13, CutIs
  <2> QED BY <2>1
<1>15. /\ whole.nodes = T /\ whole.edges = Reads!InducedEdges(edges, T) /\ whole.node_total = m
       /\ whole.edge_total = Reads!Cardinality(Reads!InducedEdges(edges, kept))
       /\ whole.truncated <=> Reads!Cardinality(T) < m
  <2>1. whole = Reads!Drawn(fs, edges, T, kept)
    BY <1>12, <1>13
  <2> HIDE <1>13
  <2>2. /\ whole.nodes = T /\ whole.edges = Reads!InducedEdges(edges, T)
        /\ whole.node_total = Reads!Cardinality(kept)
        /\ whole.edge_total = Reads!Cardinality(Reads!InducedEdges(edges, kept))
        /\ whole.truncated <=> Reads!Cardinality(T) < Reads!Cardinality(kept)
    BY <2>1, DrawnIs
  <2> QED BY <1>14, <2>2
<1>16. whole.truncated <=> m > cap
  BY <1>3, <1>14, <1>15
<1>17. Reads!Min({m, cap}) = IF m <= cap THEN m ELSE cap
  <2>1. \A a, b \in Int : Reads!Min({a, b}) = IF a <= b THEN a ELSE b
    BY TwoOf
  <2> QED BY <1>3, <2>1
<1>18. ~whole.truncated => Reads!Cardinality(whole.edges) = whole.edge_total
  BY <1>3, <1>14, <1>15, <1>16
<1>19. Honest(whole)
  BY <1>5, <1>12
<1>20. Reads!PicturesAreTrue(x, edges, local, whole)
  BY <1>1, <1>4, <1>9, <1>10, <1>14, <1>15, <1>16, <1>17, <1>18, <1>19, ZenonT(60) DEF Reads!PicturesAreTrue
<1> QED BY <1>1, <1>6, <1>11, <1>20 DEF Reads!GraphIsTrue, Reads!GraphHolds

-----------------------------------------------------------------------------
(* A gold pack.                                                            *)

\* A recursive function over 0 .. n, of which each value is a step from the one before.
Stepping(h, n, A) == h \in [1 .. n -> [A -> A]]
Follows(f, n, A, s, h) ==
  f \in [0 .. n -> A] /\ f[0] = s /\ \A k \in 1 .. n : f[k] = h[k][f[k - 1]]

LEMMA Iterates ==
    ASSUME NEW n \in Nat, NEW A, NEW s \in A, NEW h, Stepping(h, n, A)
    PROVE  \E f : Follows(f, n, A, s, h)
<1> USE DEF Stepping
<1> DEFINE Steps(f, m) == f[0] = s /\ \A k \in 1 .. m : f[k] = h[k][f[k - 1]]
           S == {m \in Nat : m <= n => \E f \in [0 .. m -> A] : Steps(f, m)}
<1>1. 0 \in S
  <2>1. PICK f : f = [k \in 0 .. 0 |-> s]
    OBVIOUS
  <2>2. f \in [0 .. 0 -> A] /\ Steps(f, 0)
    BY <2>1
  <2> QED BY <2>2
<1>2. ASSUME NEW m \in Nat, m \in S PROVE m + 1 \in S
  <2>1. CASE m + 1 <= n
    <3>1. PICK f \in [0 .. m -> A] : Steps(f, m)
      BY <1>2, <2>1
    <3>2. m + 1 \in 1 .. n /\ f[m] \in A
      BY <2>1
    <3>3. PICK v \in A : v = h[m + 1][f[m]]
      BY <3>2
    <3>4. PICK g : g = [k \in 0 .. m + 1 |-> IF k <= m THEN f[k] ELSE v]
      OBVIOUS
    <3>5. g \in [0 .. m + 1 -> A]
      BY <3>4
    <3>6. ASSUME NEW k \in 1 .. m + 1 PROVE g[k] = h[k][g[k - 1]]
      <4>1. CASE k <= m
        BY <3>1, <3>4, <4>1
      <4>2. CASE k = m + 1
        <5>1. ~(m + 1 <= m) /\ m + 1 - 1 = m /\ m + 1 \in 0 .. m + 1 /\ m \in 0 .. m + 1
          OBVIOUS
        <5>2. g[m + 1] = v /\ g[m] = f[m]
          BY <3>4, <5>1
        <5> QED BY <3>3, <4>2, <5>1, <5>2
      <4> QED BY <4>1, <4>2
    <3>7. g[0] = s
      BY <3>1, <3>4
    <3>8. Steps(g, m + 1)
      BY <3>6, <3>7
    <3> HIDE DEF Steps
    <3> QED BY <3>5, <3>8
  <2>2. CASE ~(m + 1 <= n)
    BY <2>2
  <2> QED BY <2>1, <2>2
<1>3. n \in S
  <2> HIDE DEF S
  <2> QED BY <1>1, <1>2, Induct
<1> QED BY <1>3 DEF Follows

\* A sum of numbers, one by one.
LEMMA SumsOf ==
    ASSUME NEW n \in Nat, NEW s \in Int, NEW w \in [1 .. n -> Int]
    PROVE  \E f \in [0 .. n -> Int] : f[0] = s /\ \A k \in 1 .. n : f[k] = f[k - 1] + w[k]
<1>1. PICK A : A = Int
  OBVIOUS
<1>2. PICK h : h = [k \in 1 .. n |-> [v \in A |-> v + w[k]]]
  OBVIOUS
<1>3. Stepping(h, n, A)
  BY <1>1, <1>2 DEF Stepping
<1>4. PICK f : Follows(f, n, A, s, h)
  BY <1>1, <1>3, Iterates
<1>5. f \in [0 .. n -> Int] /\ f[0] = s /\ \A k \in 1 .. n : f[k] = h[k][f[k - 1]]
  BY <1>1, <1>4 DEF Follows
<1>6. ASSUME NEW k \in 1 .. n PROVE f[k] = f[k - 1] + w[k]
  <2>1. PICK v \in A : v = f[k - 1]
    BY <1>1, <1>5
  <2>2. h[k][v] = v + w[k]
    BY <1>2, <2>1
  <2> QED BY <1>5, <2>1, <2>2
<1> QED BY <1>5, <1>6

LEMMA SizeOf == ASSUME NEW m \in Nat PROVE Golds!Cardinality(1 .. m) = m
<1>1. Cardinality(1 .. m) = m
  BY FS_Interval
<1> QED BY <1>1 DEF Golds!Cardinality, Cardinality

\* The population: no human's notes, in path order.
LEMMA PopulationIs ==
    ASSUME NEW notes, NEW n \in Nat, DOMAIN notes = 1 .. n
    PROVE  LET pop == Golds!Population(notes)
           IN \E m \in Nat : /\ Len(pop) = m /\ DOMAIN pop = 1 .. m /\ pop = [k \in 1 .. m |-> pop[k]]
                             /\ \A k \in 1 .. m : pop[k].kind # "person" /\ \E i \in 1 .. n : pop[k] = notes[i]
<1>1. PICK S : S = {i \in DOMAIN notes : notes[i].kind # "person"}
  OBVIOUS
<1>2. PICK R : R = {p \in S \X S : p[1] < p[2]}
  OBVIOUS
<1>3. IsFiniteSet(S)
  <2>1. PICK U : U = 1 .. n
    OBVIOUS
  <2>2. IsFiniteSet(U)
    BY <2>1, FS_Interval
  <2> QED BY <1>1, <2>1, <2>2, FS_Subset
<1>4. \A i, j : <<i, j>> \in R <=> i \in S /\ j \in S /\ i < j
  BY <1>2
<1>5. \A i \in S : i \in 1 .. n /\ i \in Int
  BY <1>1
<1>6. Orders(R, S)
  BY <1>4, <1>5 DEF Orders
<1>7. PICK m \in Nat : m = Cardinality(S) /\ m = Golds!Cardinality(S)
  BY <1>3, <1>6, PlacesOf DEF Golds!Cardinality, Cardinality
<1>8. \A k \in 1 .. m : \E i \in S : Place(S, R, i) = k - 1
  BY <1>3, <1>6, <1>7, PlacesOf
<1>9. \A i \in S : Golds!Cardinality({j \in S : j < i}) = Place(S, R, i)
  <2> SUFFICES ASSUME NEW i \in S PROVE Golds!Cardinality({j \in S : j < i}) = Place(S, R, i)
    OBVIOUS
  <2>1. {j \in S : j < i} = {j \in S : <<j, i>> \in R}
    BY <1>4
  <2> QED BY <2>1 DEF Place, Golds!Cardinality, Cardinality
<1> DEFINE nth(k) == CHOOSE i \in S : Golds!Cardinality({j \in S : j < i}) = k - 1
<1>10. ASSUME NEW k \in 1 .. m PROVE nth(k) \in S
  <2>1. \E i \in S : Golds!Cardinality({j \in S : j < i}) = k - 1
    BY <1>8, <1>9
  <2> QED BY <2>1
<1>11. PICK pop : pop = Golds!Population(notes)
  OBVIOUS
<1>12. pop = [k \in 1 .. m |-> notes[nth(k)]]
  BY <1>1, <1>7, <1>11 DEF Golds!Population
<1> HIDE DEF nth
<1>13. pop \in Seq({notes[nth(k)] : k \in 1 .. m})
  BY <1>12
<1>14. Len(pop) = m /\ DOMAIN pop = 1 .. m /\ pop = [k \in 1 .. m |-> pop[k]]
  BY <1>12, <1>13
<1>15. \A k \in 1 .. m : pop[k].kind # "person" /\ \E i \in 1 .. n : pop[k] = notes[i]
  BY <1>1, <1>5, <1>10, <1>12
<1> QED BY <1>11, <1>14, <1>15

\* Without human notes it is what it was.
LEMMA PopulationStays ==
    ASSUME NEW pop, NEW m \in Nat, DOMAIN pop = 1 .. m, pop = [k \in 1 .. m |-> pop[k]],
           \A k \in 1 .. m : pop[k].kind # "person"
    PROVE  Golds!Population(pop) = pop
<1>1. PICK S : S = {i \in DOMAIN pop : pop[i].kind # "person"}
  OBVIOUS
<1>2. S = 1 .. m /\ Golds!Cardinality(S) = m
  <2>1. S = 1 .. m
    BY <1>1
  <2> QED BY <2>1, SizeOf
<1> DEFINE nth(k) == CHOOSE i \in S : Golds!Cardinality({j \in S : j < i}) = k - 1
<1>3. ASSUME NEW i \in S PROVE Golds!Cardinality({j \in S : j < i}) = i - 1
  <2>1. {j \in S : j < i} = 1 .. i - 1 /\ i - 1 \in Nat
    BY <1>2
  <2> QED BY <2>1, SizeOf
<1>4. ASSUME NEW k \in 1 .. m PROVE nth(k) = k
  <2>1. k \in S /\ Golds!Cardinality({j \in S : j < k}) = k - 1
    BY <1>2, <1>3
  <2>2. nth(k) \in S /\ Golds!Cardinality({j \in S : j < nth(k)}) = k - 1
    BY <2>1
  <2> HIDE DEF nth
  <2>3. nth(k) - 1 = k - 1
    BY <1>3, <2>2
  <2> QED BY <1>2, <2>2, <2>3
<1>5. Golds!Population(pop) = [k \in 1 .. m |-> pop[nth(k)]]
  BY <1>1, <1>2 DEF Golds!Population
<1> HIDE DEF nth
<1>6. [k \in 1 .. m |-> pop[nth(k)]] = [k \in 1 .. m |-> pop[k]]
  BY <1>4
<1> QED BY <1>5, <1>6

LEMMA PeopleDoNotCount == ASSUME NEW x, Golds!IsPacking(x) PROVE Golds!PeopleNeverCount(x)
<1>1. PICK notes : notes = x.notes
  OBVIOUS
<1>2. PICK n \in Nat : DOMAIN notes = 1 .. n
  BY <1>1 DEF Golds!IsPacking
<1>3. PICK pop : pop = Golds!Population(notes)
  OBVIOUS
<1>4. PICK m \in Nat : /\ DOMAIN pop = 1 .. m /\ pop = [k \in 1 .. m |-> pop[k]]
                       /\ \A k \in 1 .. m : pop[k].kind # "person"
  BY <1>2, <1>3, PopulationIs
<1>5. Golds!Population(pop) = pop
  BY <1>4, PopulationStays
<1>6. Golds!Assemble(notes, x.budget, x.frame) = Golds!Assemble(pop, x.budget, x.frame)
  BY <1>3, <1>5 DEF Golds!Assemble
<1> QED BY <1>1, <1>3, <1>6 DEF Golds!PeopleNeverCount

LEMMA SameNumbers ==
    /\ \A S : Golds!Min(S) = Reads!Min(S) /\ Golds!Max(S) = Reads!Max(S)
    /\ \A S : Golds!Cardinality(S) = Cardinality(S)
<1>1. \A S : Golds!Min(S) = Reads!Min(S) /\ Golds!Max(S) = Reads!Max(S)
  BY DEF Golds!Min, Reads!Min, Golds!Max, Reads!Max
<1> QED BY <1>1 DEF Golds!Cardinality, Cardinality

LEMMA HalvedIs ==
    ASSUME NEW n, n.age \in Nat
    PROVE  Golds!Recency(n) \in Int
<1>1. PICK age \in Nat : age = n.age
  OBVIOUS
<1> DEFINE Half(v) == v \div 2
           halved[h \in 0 .. age] == IF h = 0 THEN 15000 ELSE Half(halved[h - 1])
<1>2. Golds!Recency(n) = IF age = Golds!Undated THEN 0 ELSE halved[age]
  BY <1>1 DEF Golds!Recency
<1>3. PICK A : A = Int
  OBVIOUS
<1>4. PICK h : h = [k \in 1 .. age |-> [v \in A |-> Half(v)]]
  OBVIOUS
<1> HIDE DEF Half
<1>0. PICK full \in A : full = 15000
  BY <1>3
<1>5. Stepping(h, age, A)
  BY <1>3, <1>4 DEF Stepping, Half
<1>6. PICK f : Follows(f, age, A, full, h)
  BY <1>5, Iterates
<1>7. f \in [0 .. age -> Int] /\ f[0] = 15000 /\ \A k \in 1 .. age : f[k] = Half(f[k - 1])
  <2>1. f \in [0 .. age -> A] /\ f[0] = full /\ \A k \in 1 .. age : f[k] = h[k][f[k - 1]]
    BY <1>6 DEF Follows
  <2>2. ASSUME NEW k \in 1 .. age PROVE f[k] = Half(f[k - 1])
    <3>1. PICK v \in A : v = f[k - 1]
      BY <2>1
    <3>2. h[k][v] = Half(v)
      BY <1>4, <3>1
    <3> QED BY <2>1, <3>1, <3>2
  <2> QED BY <1>0, <1>3, <2>1, <2>2
<1> DEFINE Body(y) == [k \in 0 .. age |-> IF k = 0 THEN 15000 ELSE Half(y[k - 1])]
<1>8. \E y : y = Body(y)
  <2>1. f = Body(f)
    BY <1>7
  <2> HIDE DEF Body
  <2> QED BY <2>1
<1>9. halved = Body(halved)
  BY <1>8, SMTT(30)
<1>10. PICK g : g = halved
  OBVIOUS
<1> HIDE DEF halved
<1>11. g = Body(g)
  BY <1>9, <1>10
<1> DEFINE S == {k \in Nat : k <= age => g[k] \in Int}
<1>12. 0 \in S
  BY <1>11
<1>13. ASSUME NEW k \in Nat, k \in S PROVE k + 1 \in S
  <2>1. CASE k + 1 <= age
    <3>1. PICK v \in Int : v = g[k]
      BY <1>13, <2>1
    <3>2. g[k + 1] = Half(v)
      BY <1>11, <2>1, <3>1
    <3> QED BY <3>2 DEF Half
  <2>2. CASE ~(k + 1 <= age)
    BY <2>2
  <2> QED BY <2>1, <2>2
<1>14. age \in S
  <2> HIDE DEF S
  <2> QED BY <1>12, <1>13, Induct
<1> QED BY <1>2, <1>10, <1>14

LEMMA ScoreIs ==
    ASSUME NEW pop, NEW m \in Nat, Len(pop) = m, DOMAIN pop = 1 .. m,
           NEW n, n.age \in Nat, Len(n.sources) \in Nat
    PROVE  Golds!Score(pop, n) \in Int
<1>1. PICK depth \in Nat : depth = Golds!Depth(pop, n.name)
  <2>1. PICK near : near = {d \in 0 .. Len(pop) + 1 : n.name \in Golds!Within(pop)[d]}
    OBVIOUS
  <2>2. near \in SUBSET Nat
    BY <2>1
  <2>3. near # {} => Golds!Min(near) \in near
    BY <2>2, LeastOf, SameNumbers
  <2>4. Golds!Depth(pop, n.name) = IF near = {} THEN Golds!Unreached ELSE Golds!Min(near)
    BY <2>1 DEF Golds!Depth
  <2>5. Golds!Unreached \in Nat
    BY SMT DEF Golds!Unreached
  <2> QED BY <2>2, <2>3, <2>4, <2>5
<1>2. \A name : Golds!Indegree(pop, name) \in 0 .. m
  <2> SUFFICES ASSUME NEW name PROVE Golds!Indegree(pop, name) \in 0 .. m
    OBVIOUS
  <2>1. PICK S : S = {i \in DOMAIN pop : name \in Golds!Outlinks(pop[i])}
    OBVIOUS
  <2>2. PICK U : U = 1 .. m
    OBVIOUS
  <2>3. IsFiniteSet(U) /\ Cardinality(U) = m
    <3>1. IsFiniteSet(1 .. m) /\ Cardinality(1 .. m) = m
      BY FS_Interval
    <3> QED BY <2>2, <3>1
  <2>4. S \in SUBSET U
    BY <2>1, <2>2
  <2>5. IsFiniteSet(S) /\ Cardinality(S) <= Cardinality(U)
    BY <2>3, <2>4, FS_Subset
  <2>6. Cardinality(S) \in Nat
    BY <2>5, FS_CardinalityType
  <2>7. Golds!Indegree(pop, name) = Cardinality(S)
    BY <2>1, SameNumbers DEF Golds!Indegree
  <2> QED BY <2>3, <2>5, <2>6, <2>7
<1>3. PICK most \in Nat : most = Golds!MaxIndegree(pop)
  <2>1. PICK S : S = {0} \cup {Golds!Indegree(pop, name) : name \in Golds!NameSet(pop)}
    OBVIOUS
  <2>2. S \in SUBSET (0 .. m) /\ S # {}
    BY <1>2, <2>1
  <2>3. Golds!Max(S) \in S
    BY <2>2, LargestOf, SameNumbers
  <2>4. Golds!MaxIndegree(pop)
          = Golds!Max({0} \cup {Golds!Indegree(pop, name) : name \in Golds!NameSet(pop)})
    BY DEF Golds!MaxIndegree
  <2>5. S \in SUBSET Nat
    BY <2>2
  <2> QED BY <2>1, <2>3, <2>4, <2>5
<1>4. PICK most1 \in Nat : most1 = Golds!Max({1, most}) /\ most1 >= 1
  <2>1. \A a, b \in Int : Reads!Max({a, b}) = IF a >= b THEN a ELSE b
    BY TwoOf
  <2>2. Reads!Max({1, most}) = IF 1 >= most THEN 1 ELSE most
    BY <2>1
  <2>3. Golds!Max({1, most}) = IF 1 >= most THEN 1 ELSE most
    BY <2>2, SameNumbers
  <2> QED BY <2>3
<1>5. PICK indegree \in Nat : indegree = Golds!Indegree(pop, n.name)
  BY <1>2
<1>6. Golds!Structure(pop, n) \in Int
  <2>1. 14700 \div (1 + depth) \in Int
    OBVIOUS
  <2>2. (6300 * indegree) \div most1 \in Int
    BY <1>4
  <2>3. Golds!Structure(pop, n) = 14700 \div (1 + depth) + (6300 * indegree) \div most1
    BY <1>1, <1>3, <1>4, <1>5 DEF Golds!Structure
  <2> QED BY <2>1, <2>2, <2>3
<1>7. Golds!ProvenanceDensity(n) \in Int
  <2>1. PICK l \in Nat : l = Len(n.sources)
    OBVIOUS
  <2>2. \A a, b \in Int : Reads!Min({a, b}) = IF a <= b THEN a ELSE b
    BY TwoOf
  <2>3. Reads!Min({5, l}) = IF 5 <= l THEN 5 ELSE l
    BY <2>2
  <2>4. PICK v \in Int : v = Golds!Min({5, l})
    BY <2>3, SameNumbers
  <2> QED BY <2>1, <2>4 DEF Golds!ProvenanceDensity
<1>8. Golds!ConfidenceBucket(n) \in Int
  BY DEF Golds!ConfidenceBucket
<1>9. Golds!Recency(n) \in Int
  BY HalvedIs
<1> QED BY <1>6, <1>7, <1>8, <1>9 DEF Golds!Score

\* The rank of the eligible notes: each once, the better before the worse.
BetterIn(pop, i, j) == \E a, b \in Golds!Scored(pop) : a.at = i /\ b.at = j /\ Golds!Better(a, b)
RankedWell(pop, r, n) ==
  /\ Len(r) = n /\ DOMAIN r = 1 .. n /\ r = [k \in 1 .. n |-> r[k]]
  /\ \A k \in 1 .. n : r[k] \in DOMAIN pop /\ Golds!Eligible(pop[r[k]])
  /\ \A i \in DOMAIN pop : Golds!Eligible(pop[i]) => \E k \in 1 .. n : r[k] = i
  /\ \A k, l \in 1 .. n : BetterIn(pop, r[k], r[l]) <=> k < l

LEMMA RankedIs ==
    ASSUME NEW pop, NEW m \in Nat, DOMAIN pop = 1 .. m, \A i \in 1 .. m : Golds!Score(pop, pop[i]) \in Int
    PROVE  \E n \in Nat : RankedWell(pop, Golds!Ranked(pop), n)
<1> DEFINE rec(i) == [at |-> i, score |-> Golds!Score(pop, pop[i])]
<1>1. PICK S : S = Golds!Scored(pop)
  OBVIOUS
<1>2. PICK fit : fit = {j \in DOMAIN pop : Golds!Eligible(pop[j])}
  OBVIOUS
<1>3. S = {rec(i) : i \in fit} /\ fit \subseteq 1 .. m
  BY <1>1, <1>2 DEF Golds!Scored
<1>4. \A i \in fit : rec(i).at = i /\ rec(i).score \in Int /\ i \in Int
  BY <1>3
<1> HIDE DEF rec
<1>5. \A a \in S : a.at \in fit /\ a = rec(a.at) /\ a.score \in Int /\ a.at \in Int
  BY <1>3, <1>4
<1>6. IsFiniteSet(S)
  <2>1. PICK f : f = [a \in S |-> a.at]
    OBVIOUS
  <2>2. f \in [S -> 1 .. m]
    BY <1>3, <1>5, <2>1
  <2>3. \A a, b \in S : f[a] = f[b] => a = b
    BY <1>5, <2>1
  <2>4. f \in Injection(S, 1 .. m)
    BY <2>2, <2>3 DEF Injection, IsInjective
  <2>5. IsFiniteSet(1 .. m)
    BY FS_Interval
  <2> QED BY <2>4, <2>5, FS_Injection
<1>7. PICK R : R = {p \in S \X S : Golds!Better(p[1], p[2])}
  OBVIOUS
<1>8. \A a, b : <<a, b>> \in R <=> a \in S /\ b \in S /\ Golds!Better(a, b)
  BY <1>7
<1>9. \A a, b \in S : Golds!Better(a, b) <=> a.score > b.score \/ (a.score = b.score /\ a.at < b.at)
  BY DEF Golds!Better
<1>10. Orders(R, S)
  <2>1. \A a \in S : <<a, a>> \notin R
    BY <1>5, <1>8, <1>9
  <2>2. \A a, b \in S : a # b => <<a, b>> \in R \/ <<b, a>> \in R
    <3> SUFFICES ASSUME NEW a \in S, NEW b \in S, a # b PROVE <<a, b>> \in R \/ <<b, a>> \in R
      OBVIOUS
    <3>1. a.at # b.at
      BY <1>5
    <3> QED BY <1>5, <1>8, <1>9, <3>1
  <2>3. \A a, b, c \in S : <<a, b>> \in R /\ <<b, c>> \in R => <<a, c>> \in R
    <3> SUFFICES ASSUME NEW a \in S, NEW b \in S, NEW c \in S, Golds!Better(a, b), Golds!Better(b, c)
                 PROVE  Golds!Better(a, c)
      BY <1>8
    <3> QED BY <1>5, <1>9
  <2> QED BY <2>1, <2>2, <2>3 DEF Orders
<1>11. PICK n \in Nat : n = Cardinality(S)
  BY <1>6, <1>10, PlacesOf
<1>12. /\ \A a \in S : Place(S, R, a) \in 0 .. n - 1
       /\ \A a, b \in S : <<a, b>> \in R <=> Place(S, R, a) < Place(S, R, b)
       /\ \A k \in 1 .. n : \E a \in S : Place(S, R, a) = k - 1
  BY <1>6, <1>10, <1>11, PlacesOf
<1>13. \A a \in S : Golds!Cardinality({b \in S : Golds!Better(b, a)}) = Place(S, R, a)
  <2> SUFFICES ASSUME NEW a \in S PROVE Golds!Cardinality({b \in S : Golds!Better(b, a)}) = Place(S, R, a)
    OBVIOUS
  <2>1. {b \in S : Golds!Better(b, a)} = {b \in S : <<b, a>> \in R}
    BY <1>8
  <2> QED BY <2>1, SameNumbers DEF Place
<1> DEFINE nth(k) == CHOOSE a \in S : Golds!Cardinality({b \in S : Golds!Better(b, a)}) = k - 1
<1>14. ASSUME NEW k \in 1 .. n PROVE nth(k) \in S /\ Place(S, R, nth(k)) = k - 1
  <2>1. \E a \in S : Golds!Cardinality({b \in S : Golds!Better(b, a)}) = k - 1
    BY <1>12, <1>13
  <2>2. nth(k) \in S /\ Golds!Cardinality({b \in S : Golds!Better(b, nth(k))}) = k - 1
    BY <2>1
  <2> HIDE DEF nth
  <2> QED BY <1>13, <2>2
<1>15. PICK r : r = Golds!Ranked(pop)
  OBVIOUS
<1>16. r = [k \in 1 .. n |-> nth(k).at]
  <2>1. n = Golds!Cardinality(S)
    BY <1>11, SameNumbers
  <2> QED BY <1>1, <1>15, <2>1 DEF Golds!Ranked
<1> HIDE DEF nth
<1>17. \A k \in 1 .. n : r[k] \in fit /\ rec(r[k]) = nth(k)
  BY <1>5, <1>14, <1>16
<1>18. Len(r) = n /\ DOMAIN r = 1 .. n /\ r = [k \in 1 .. n |-> r[k]]
  <2>1. r \in Seq(fit)
    BY <1>16, <1>17
  <2> QED BY <1>16, <2>1
<1>19. \A i \in DOMAIN pop : Golds!Eligible(pop[i]) => \E k \in 1 .. n : r[k] = i
  <2> SUFFICES ASSUME NEW i \in fit PROVE \E k \in 1 .. n : r[k] = i
    BY <1>2
  <2>1. rec(i) \in S /\ rec(i).at = i
    BY <1>3, <1>4
  <2>2. PICK k \in 1 .. n : Place(S, R, rec(i)) = k - 1
    <3>1. PICK p : p = Place(S, R, rec(i))
      OBVIOUS
    <3>2. p \in 0 .. n - 1
      BY <1>12, <2>1, <3>1
    <3>3. p + 1 \in 1 .. n /\ p = (p + 1) - 1
      BY <3>2
    <3> QED BY <3>1, <3>3
  <2>3. nth(k) \in S /\ Place(S, R, nth(k)) = Place(S, R, rec(i))
    BY <1>14, <2>2
  <2>4. Place(S, R, rec(i)) \in Int
    BY <2>2
  <2>5. <<nth(k), rec(i)>> \notin R /\ <<rec(i), nth(k)>> \notin R
    BY <1>12, <2>1, <2>3, <2>4
  <2>6. nth(k) = rec(i)
    BY <1>10, <2>1, <2>3, <2>5 DEF Orders
  <2> QED BY <1>16, <2>1, <2>6
<1>20. \A k, l \in 1 .. n : BetterIn(pop, r[k], r[l]) <=> k < l
  <2> SUFFICES ASSUME NEW k \in 1 .. n, NEW l \in 1 .. n PROVE BetterIn(pop, r[k], r[l]) <=> k < l
    OBVIOUS
  <2>1. nth(k) \in S /\ nth(l) \in S /\ Place(S, R, nth(k)) = k - 1 /\ Place(S, R, nth(l)) = l - 1
    BY <1>14
  <2>2. nth(k).at = r[k] /\ nth(l).at = r[l]
    BY <1>16
  <2>3. \A a \in S : (a.at = r[k] => a = nth(k)) /\ (a.at = r[l] => a = nth(l))
    BY <1>5, <2>1, <2>2
  <2>4. BetterIn(pop, r[k], r[l]) <=> Golds!Better(nth(k), nth(l))
    BY <1>1, <2>1, <2>2, <2>3 DEF BetterIn
  <2>5. Golds!Better(nth(k), nth(l)) <=> k - 1 < l - 1
    BY <1>8, <1>12, <2>1
  <2> QED BY <2>4, <2>5
<1>21. RankedWell(pop, r, n)
  BY <1>2, <1>17, <1>18, <1>19, <1>20 DEF RankedWell
<1> QED BY <1>15, <1>21

\* No eligible note is harvested: the share is as it is.
LEMMA ShareStays ==
    ASSUME NEW pop, NEW r, NEW n \in Nat, RankedWell(pop, r, n)
    PROVE  Golds!CapHarvestShare(pop, r) = r
<1>1. Len(r) = n /\ DOMAIN r = 1 .. n /\ r = [k \in 1 .. n |-> r[k]]
  BY DEF RankedWell
<1>2. PICK harvested : harvested = {k \in DOMAIN r : Golds!IsHarvestProvenance(pop[r[k]])}
  OBVIOUS
<1>3. harvested = {}
  BY <1>1, <1>2 DEF RankedWell, Golds!Eligible
<1>4. PICK clean : clean = Len(r) - Golds!Cardinality(harvested)
  OBVIOUS
<1> DEFINE kept(k) == k \in harvested => Golds!Cardinality({h \in harvested : h <= k}) <= clean
<1>5. \A k : kept(k)
  BY <1>3
<1> DEFINE nth(k) == CHOOSE i \in DOMAIN r : kept(i) /\ Golds!Cardinality({l \in 1 .. i : kept(l)}) = k
<1>6. Golds!CapHarvestShare(pop, r)
        = [k \in 1 .. Golds!Cardinality({k \in DOMAIN r : kept(k)}) |-> r[nth(k)]]
  BY <1>2, <1>4 DEF Golds!CapHarvestShare
<1> HIDE DEF kept
<1>7. Golds!Cardinality({k \in DOMAIN r : kept(k)}) = n
  <2>1. {k \in DOMAIN r : kept(k)} = 1 .. n
    BY <1>1, <1>5
  <2> QED BY <2>1, SizeOf
<1>8. \A i \in 1 .. n : Golds!Cardinality({l \in 1 .. i : kept(l)}) = i
  <2> SUFFICES ASSUME NEW i \in 1 .. n PROVE Golds!Cardinality({l \in 1 .. i : kept(l)}) = i
    OBVIOUS
  <2>1. {l \in 1 .. i : kept(l)} = 1 .. i /\ i \in Nat
    BY <1>5
  <2> QED BY <2>1, SizeOf
<1>9. ASSUME NEW k \in 1 .. n PROVE nth(k) = k
  <2>1. \E i \in DOMAIN r : kept(i) /\ Golds!Cardinality({l \in 1 .. i : kept(l)}) = k
    BY <1>1, <1>5, <1>8
  <2>2. nth(k) \in DOMAIN r /\ Golds!Cardinality({l \in 1 .. nth(k) : kept(l)}) = k
    BY <2>1
  <2> HIDE DEF nth
  <2> QED BY <1>1, <1>8, <2>2
<1> HIDE DEF nth
<1>10. [k \in 1 .. n |-> r[nth(k)]] = [k \in 1 .. n |-> r[k]]
  BY <1>9
<1> QED BY <1>1, <1>6, <1>7, <1>10

\* The fill, note by note.
Filling(pop, budget, frame, r, n, sel, run) ==
  /\ sel[0] = <<>> /\ run[0] = Golds!EstimateTokens(frame)
  /\ \A k \in 1 .. n :
       LET cost == Golds!EstimateTokens(pop[r[k]].bytes)
       IN IF run[k - 1] + cost > budget THEN sel[k] = sel[k - 1] /\ run[k] = run[k - 1]
          ELSE sel[k] = Append(sel[k - 1], r[k]) /\ run[k] = run[k - 1] + cost

PackFill(pop, m, budget, frame, r, n, F) ==
  \E sel \in [0 .. n -> Seq(1 .. m)], run \in [0 .. n -> Nat] :
    Filling(pop, budget, frame, r, n, sel, run) /\ F = sel[n]

LEMMA EstimateIs ==
    /\ \A b \in Nat : Golds!EstimateTokens(b) \in Nat /\ 4 * Golds!EstimateTokens(b) >= b
    /\ \A b, t \in Int : b <= 4 * t => Golds!EstimateTokens(b + 1) <= t + 1
BY DEF Golds!EstimateTokens

LEMMA FillFollows ==
    ASSUME NEW pop, NEW m \in Nat, DOMAIN pop = 1 .. m, \A i \in 1 .. m : pop[i].bytes \in Nat,
           NEW budget \in Nat, NEW frame \in Nat, NEW r, NEW n \in Nat, Len(r) = n,
           \A k \in 1 .. n : r[k] \in 1 .. m
    PROVE  PackFill(pop, m, budget, frame, r, n, Golds!BudgetFill(pop, budget, frame, r))
<1>1. PICK N : N = 1 .. m
  OBVIOUS
<1>2. PICK A : A = [selected : Seq(N), running : Nat]
  OBVIOUS
<1>3. PICK start : start = [selected |-> <<>>, running |-> Golds!EstimateTokens(frame)]
  OBVIOUS
<1>4. start \in A
  BY <1>2, <1>3, EstimateIs
<1> DEFINE Then(acc, k) == Golds!Filled(pop, budget, acc, r[k])
<1>5. ASSUME NEW acc \in A, NEW k \in 1 .. n PROVE Then(acc, k) \in A
  <2>1. PICK cost \in Nat : cost = Golds!EstimateTokens(pop[r[k]].bytes)
    BY EstimateIs
  <2>2. r[k] \in N /\ acc.selected \in Seq(N) /\ acc.running \in Nat
    BY <1>1, <1>2
  <2>3. Append(acc.selected, r[k]) \in Seq(N) /\ acc.running + cost \in Nat
    BY <2>2
  <2>4. Then(acc, k) = IF acc.running + cost > budget THEN acc
                       ELSE [selected |-> Append(acc.selected, r[k]), running |-> acc.running + cost]
    BY <2>1 DEF Golds!Filled
  <2> QED BY <1>2, <2>3, <2>4
<1> HIDE DEF Then
<1>6. PICK h : h = [k \in 1 .. n |-> [acc \in A |-> Then(acc, k)]]
  OBVIOUS
<1>7. Stepping(h, n, A)
  BY <1>5, <1>6 DEF Stepping
<1>8. PICK f : Follows(f, n, A, start, h)
  BY <1>4, <1>7, Iterates
<1> DEFINE Body(y) == [k \in 0 .. n |-> IF k = 0 THEN start ELSE Then(y[k - 1], k)]
<1>9. \E y : y = Body(y)
  <2>1. f \in [0 .. n -> A] /\ f[0] = start /\ \A k \in 1 .. n : f[k] = h[k][f[k - 1]]
    BY <1>8 DEF Follows
  <2>2. ASSUME NEW k \in 1 .. n PROVE f[k] = Then(f[k - 1], k)
    <3>1. PICK acc \in A : acc = f[k - 1]
      BY <2>1
    <3>2. h[k][acc] = Then(acc, k)
      BY <1>6
    <3> QED BY <2>1, <3>1, <3>2
  <2>3. f = Body(f)
    BY <2>1, <2>2
  <2> HIDE DEF Body
  <2> QED BY <2>3
<1> DEFINE after[k \in 0 .. n] == IF k = 0 THEN start ELSE Then(after[k - 1], k)
<1>10. Golds!BudgetFill(pop, budget, frame, r) = after[n].selected
  BY <1>3 DEF Golds!BudgetFill, Then
<1>11. after = Body(after)
  BY <1>9
<1>12. PICK g : g = after
  OBVIOUS
<1> HIDE DEF after
<1>13. g = Body(g)
  BY <1>11, <1>12
<1>14. g[0] = start /\ \A k \in 1 .. n : g[k] = Then(g[k - 1], k)
  BY <1>13
<1> HIDE DEF Body
<1> DEFINE S == {k \in Nat : k <= n => g[k] \in A}
<1>15. 0 \in S
  BY <1>4, <1>14
<1>16. ASSUME NEW k \in Nat, k \in S PROVE k + 1 \in S
  <2>1. CASE k + 1 <= n
    <3>1. PICK acc \in A : acc = g[k]
      BY <1>16, <2>1
    <3>2. k + 1 \in 1 .. n /\ k + 1 - 1 = k
      BY <2>1
    <3>3. g[k + 1] = Then(acc, k + 1)
      BY <1>14, <3>1, <3>2
    <3>4. g[k + 1] \in A
      BY <1>5, <3>2, <3>3
    <3> QED BY <3>4
  <2>2. CASE ~(k + 1 <= n)
    BY <2>2
  <2> QED BY <2>1, <2>2
<1>17. ASSUME NEW k \in 0 .. n PROVE g[k] \in A
  <2>1. \A j \in Nat : j \in S
    <3> HIDE DEF S
    <3> QED BY <1>15, <1>16, Induct
  <2> QED BY <2>1
<1>18. PICK sel : sel = [k \in 0 .. n |-> g[k].selected]
  OBVIOUS
<1>19. PICK run : run = [k \in 0 .. n |-> g[k].running]
  OBVIOUS
<1>20. sel \in [0 .. n -> Seq(1 .. m)] /\ run \in [0 .. n -> Nat]
  BY <1>1, <1>2, <1>17, <1>18, <1>19
<1>21. sel[0] = <<>> /\ run[0] = Golds!EstimateTokens(frame)
  BY <1>3, <1>14, <1>18, <1>19
<1>22. ASSUME NEW k \in 1 .. n, NEW cost \in Nat, cost = Golds!EstimateTokens(pop[r[k]].bytes)
       PROVE  IF run[k - 1] + cost > budget THEN sel[k] = sel[k - 1] /\ run[k] = run[k - 1]
              ELSE sel[k] = Append(sel[k - 1], r[k]) /\ run[k] = run[k - 1] + cost
  <2>1. k - 1 \in 0 .. n /\ k \in 0 .. n
    OBVIOUS
  <2>2. PICK acc \in A : acc = g[k - 1]
    BY <1>17, <2>1
  <2>3. g[k] = IF acc.running + cost > budget THEN acc
               ELSE [selected |-> Append(acc.selected, r[k]), running |-> acc.running + cost]
    BY <1>14, <1>22, <2>2 DEF Golds!Filled, Then
  <2>4. sel[k - 1] = acc.selected /\ run[k - 1] = acc.running /\ sel[k] = g[k].selected /\ run[k] = g[k].running
    BY <1>18, <1>19, <2>1, <2>2
  <2> QED BY <2>3, <2>4
<1>23. \A k \in 1 .. n : Golds!EstimateTokens(pop[r[k]].bytes) \in Nat
  BY EstimateIs
<1>24. Filling(pop, budget, frame, r, n, sel, run)
  BY <1>21, <1>22, <1>23 DEF Filling
<1>25. Golds!BudgetFill(pop, budget, frame, r) = sel[n]
  BY <1>10, <1>12, <1>18
<1> QED BY <1>20, <1>24, <1>25 DEF PackFill

\* A fill of the lines r[1], r[2], .. of the costs c[1], c[2], ..
Fills(N, n, r, c, budget, sel, run) ==
  /\ r \in [1 .. n -> N] /\ c \in [1 .. n -> Nat] /\ budget \in Nat
  /\ sel \in [0 .. n -> Seq(N)] /\ run \in [0 .. n -> Nat]
  /\ sel[0] = <<>>
  /\ \A k \in 1 .. n : IF run[k - 1] + c[k] > budget THEN sel[k] = sel[k - 1] /\ run[k] = run[k - 1]
                       ELSE sel[k] = Append(sel[k - 1], r[k]) /\ run[k] = run[k - 1] + c[k]

\* A line is added at the end, or none is.
Adds(s, t, v) ==
  Len(t) = Len(s) + 1 /\ t[Len(s) + 1] = v /\ \A l \in 1 .. Len(s) : t[l] = s[l]
FillStep(s, t, x, y, budget, cost, v) ==
  /\ Len(s) \in Nat /\ Len(t) \in Nat /\ x \in Nat /\ y \in Nat /\ cost \in Nat /\ budget \in Nat
  /\ \/ x + cost > budget /\ t = s /\ y = x
     \/ x + cost <= budget /\ y = x + cost /\ Adds(s, t, v)
LEMMA FillSteps ==
    ASSUME NEW N, NEW n \in Nat, NEW r, NEW c, NEW budget, NEW sel, NEW run,
           Fills(N, n, r, c, budget, sel, run), NEW k \in Nat, k + 1 <= n
    PROVE  FillStep(sel[k], sel[k + 1], run[k], run[k + 1], budget, c[k + 1], r[k + 1])
<1>1. k \in 0 .. n /\ k + 1 \in 0 .. n /\ k + 1 \in 1 .. n /\ (k + 1) - 1 = k
  OBVIOUS
<1>2. PICK s \in Seq(N), t \in Seq(N) : s = sel[k] /\ t = sel[k + 1]
  BY <1>1 DEF Fills
<1>3. PICK x \in Nat, y \in Nat, cost \in Nat : x = run[k] /\ y = run[k + 1] /\ cost = c[k + 1]
  BY <1>1 DEF Fills
<1>4. PICK v \in N : v = r[k + 1]
  BY <1>1 DEF Fills
<1>5. budget \in Nat /\ IF x + cost > budget THEN t = s /\ y = x ELSE t = Append(s, v) /\ y = x + cost
  BY <1>1, <1>2, <1>3, <1>4 DEF Fills
<1>6. Adds(s, Append(s, v), v) /\ Len(s) \in Nat /\ Len(t) \in Nat
  BY DEF Adds
<1>7. FillStep(s, t, x, y, budget, cost, v)
  <2>1. CASE x + cost > budget
    BY <1>5, <1>6, <2>1 DEF FillStep
  <2>2. CASE x + cost <= budget
    <3>1. t = Append(s, v) /\ y = x + cost
      BY <1>5, <2>2
    <3>2. Adds(s, t, v)
      BY <1>6, <3>1
    <3> QED BY <1>5, <1>6, <2>2, <3>1, <3>2 DEF FillStep
  <2> QED BY <1>5, <2>1, <2>2
<1> QED BY <1>2, <1>3, <1>4, <1>7

\* What has been selected and spent so far are a sequence and a number.
LEMMA FillTyped ==
    ASSUME NEW N, NEW n \in Nat, NEW r, NEW c, NEW budget, NEW sel, NEW run,
           Fills(N, n, r, c, budget, sel, run), NEW k \in 0 .. n
    PROVE  Len(sel[k]) \in Nat /\ run[k] \in Nat
BY SMTT(30) DEF Fills

Prefixed(s, t) == Len(s) <= Len(t) /\ \A l \in 1 .. Len(s) : t[l] = s[l]
LEMMA FillGrows ==
    ASSUME NEW N, NEW n \in Nat, NEW r, NEW c, NEW budget, NEW sel, NEW run,
           Fills(N, n, r, c, budget, sel, run),
           NEW j \in 0 .. n
    PROVE  Prefixed(sel[j], sel[n])
<1> DEFINE P(k) == Len(sel[j]) <= Len(sel[k]) /\ \A l \in 1 .. Len(sel[j]) : sel[k][l] = sel[j][l]
           S == {k \in Nat : j <= k /\ k <= n => P(k)}
<1>1. 0 \in S
  <2>1. Len(sel[j]) \in Nat
    BY FillTyped
  <2>2. j <= 0 => j = 0
    OBVIOUS
  <2> QED BY <2>1, <2>2
<1>2. ASSUME NEW k \in Nat, k \in S PROVE k + 1 \in S
  <2>1. CASE j = k + 1
    <3>1. Len(sel[j]) \in Nat
      BY FillTyped
    <3> QED BY <2>1, <3>1
  <2>2. CASE j <= k /\ k + 1 <= n
    <3>1. k + 1 \in 1 .. n /\ (k + 1) - 1 = k /\ P(k)
      BY <1>2, <2>2
    <3>2. FillStep(sel[k], sel[k + 1], run[k], run[k + 1], budget, c[k + 1], r[k + 1])
      BY <2>2, FillSteps
    <3>3. PICK s, t, u : s = sel[k] /\ t = sel[k + 1] /\ u = sel[j]
      OBVIOUS
    <3>4. Len(s) \in Nat /\ Len(t) \in Nat /\ (t = s \/ Adds(s, t, r[k + 1]))
      BY <3>2, <3>3 DEF FillStep
    <3>5. Len(s) <= Len(t) /\ \A l \in 1 .. Len(s) : t[l] = s[l]
      BY <3>4 DEF Adds
    <3>6. Len(u) \in Nat
      BY <3>3, FillTyped
    <3>7. Len(u) <= Len(s) /\ \A l \in 1 .. Len(u) : s[l] = u[l]
      BY <3>1, <3>3
    <3>8. Len(u) <= Len(t) /\ \A l \in 1 .. Len(u) : t[l] = u[l]
      BY <3>4, <3>5, <3>6, <3>7
    <3>9. P(k + 1)
      BY <3>3, <3>8
    <3> HIDE DEF P
    <3> QED BY <2>2, <3>9
  <2>3. CASE ~(j <= k + 1 /\ k + 1 <= n)
    BY <2>3
  <2> HIDE DEF P
  <2> QED BY <2>1, <2>2, <2>3
<1>3. n \in S
  <2> HIDE DEF S
  <2> QED BY <1>1, <1>2, Induct
<1> QED BY <1>3 DEF Prefixed

\* What is filled so far.
FilledWell(r, budget, s, run, k) ==
  /\ Len(s) > 0 => run <= budget
  /\ \A l \in 1 .. Len(s) : \E q \in 1 .. k : s[l] = r[q]
  /\ \A i, l \in 1 .. Len(s) : i < l => \E p, q \in 1 .. k : p < q /\ s[i] = r[p] /\ s[l] = r[q]
LEMMA FillHolds ==
    ASSUME NEW N, NEW n \in Nat, NEW r, NEW c, NEW budget, NEW sel, NEW run,
           Fills(N, n, r, c, budget, sel, run)
    PROVE  FilledWell(r, budget, sel[n], run[n], n)
<1> DEFINE S == {k \in Nat : k <= n => FilledWell(r, budget, sel[k], run[k], k)}
<1>1. 0 \in S
  <2>1. sel[0] = <<>> /\ Len(<<>>) = 0
    BY DEF Fills
  <2>2. FilledWell(r, budget, sel[0], run[0], 0)
    BY <2>1 DEF FilledWell
  <2> QED BY <2>2
<1>2. ASSUME NEW k \in Nat, k \in S PROVE k + 1 \in S
  <2>1. CASE k + 1 <= n
    <3>1. k + 1 \in 1 .. n /\ (k + 1) - 1 = k /\ FilledWell(r, budget, sel[k], run[k], k)
      BY <1>2, <2>1
    <3>2. PICK s, t, x, y, cost : /\ s = sel[k] /\ t = sel[k + 1] /\ x = run[k] /\ y = run[k + 1]
                                  /\ cost = c[k + 1]
      OBVIOUS
    <3>3. FillStep(s, t, x, y, budget, cost, r[k + 1])
      BY <2>1, <3>2, FillSteps
    <3>4. Len(s) \in Nat /\ Len(t) \in Nat /\ ((t = s /\ y = x) \/ (y <= budget /\ Adds(s, t, r[k + 1])))
      BY <3>3 DEF FillStep
    <3>5. CASE t = s /\ y = x
      <4>1. \A q \in 1 .. k : q \in 1 .. k + 1
        OBVIOUS
      <4>2. FilledWell(r, budget, s, x, k + 1)
        BY <3>1, <3>2, <3>5, <4>1 DEF FilledWell
      <4>3. FilledWell(r, budget, sel[k + 1], run[k + 1], k + 1)
        BY <3>2, <3>5, <4>2
      <4> QED BY <4>3
    <3>6. CASE y <= budget /\ Adds(s, t, r[k + 1])
      <4>1. \A l \in 1 .. Len(t) : l = Len(s) + 1 \/ (l \in 1 .. Len(s) /\ t[l] = s[l])
        BY <3>4, <3>6 DEF Adds
      <4>2. t[Len(s) + 1] = r[k + 1] /\ k + 1 \in 1 .. k + 1
        BY <3>6 DEF Adds
      <4>3. \A q \in 1 .. k : q \in 1 .. k + 1 /\ q < k + 1
        OBVIOUS
      <4>4. \A l \in 1 .. Len(s) : \E q \in 1 .. k : s[l] = r[q]
        BY <3>1, <3>2 DEF FilledWell
      <4>5. ASSUME NEW l \in 1 .. Len(t) PROVE \E q \in 1 .. k + 1 : t[l] = r[q]
        BY <4>1, <4>2, <4>3, <4>4
      <4>6. ASSUME NEW i \in 1 .. Len(t), NEW l \in 1 .. Len(t), i < l
            PROVE  \E p, q \in 1 .. k + 1 : p < q /\ t[i] = r[p] /\ t[l] = r[q]
        <5>1. i \in 1 .. Len(s) /\ t[i] = s[i]
          BY <3>4, <3>6, <4>1, <4>6 DEF Adds
        <5>2. CASE l = Len(s) + 1
          <6>1. PICK p \in 1 .. k : s[i] = r[p]
            BY <4>4, <5>1
          <6> QED BY <4>2, <4>3, <5>1, <5>2, <6>1
        <5>3. CASE l \in 1 .. Len(s) /\ t[l] = s[l]
          <6>1. PICK p \in 1 .. k, q \in 1 .. k : p < q /\ s[i] = r[p] /\ s[l] = r[q]
            BY <3>1, <3>2, <4>6, <5>1, <5>3 DEF FilledWell
          <6> QED BY <4>3, <5>1, <5>3, <6>1
        <5> QED BY <4>1, <5>2, <5>3
      <4>7. FilledWell(r, budget, t, y, k + 1)
        BY <3>6, <4>5, <4>6 DEF FilledWell
      <4> QED BY <3>2, <4>7
    <3> QED BY <3>4, <3>5, <3>6
  <2>2. CASE ~(k + 1 <= n)
    BY <2>2
  <2> QED BY <2>1, <2>2
<1>3. n \in S
  <2> HIDE DEF S
  <2> QED BY <1>1, <1>2, Induct
<1> QED BY <1>3

\* A sum that the filled lines move, each by its own amount.
Moves(t, s, r, n, b) ==
  /\ t \in [0 .. Len(s) -> Int]
  /\ \A k \in 1 .. n, l \in 1 .. Len(s) : s[l] = r[k] => t[l] = t[l - 1] + b[k]
\* A number that only a filled line moves, from run to run.
LEMMA FillSums ==
    ASSUME NEW N, NEW n \in Nat, NEW r, NEW c, NEW budget, NEW sel, NEW run,
           Fills(N, n, r, c, budget, sel, run),
           NEW b \in [1 .. n -> Nat], \A k \in 1 .. n : b[k] <= 4 * c[k],
           NEW t, Moves(t, sel[n], r, n, b), t[0] <= 4 * run[0]
    PROVE  t[Len(sel[n])] <= 4 * run[n]
<1>0. /\ t \in [0 .. Len(sel[n]) -> Int]
      /\ \A k \in 1 .. n, l \in 1 .. Len(sel[n]) : sel[n][l] = r[k] => t[l] = t[l - 1] + b[k]
  BY DEF Moves
<1> DEFINE S == {k \in Nat : k <= n => t[Len(sel[k])] <= 4 * run[k]}
<1>1. 0 \in S
  <2>1. sel[0] = <<>> /\ Len(<<>>) = 0
    BY DEF Fills
  <2> QED BY <2>1
<1>2. ASSUME NEW k \in Nat, k \in S PROVE k + 1 \in S
  <2>1. CASE k + 1 <= n
    <3>1. k + 1 \in 1 .. n /\ (k + 1) - 1 = k /\ t[Len(sel[k])] <= 4 * run[k]
      BY <1>2, <2>1
    <3>2. FillStep(sel[k], sel[k + 1], run[k], run[k + 1], budget, c[k + 1], r[k + 1])
      BY <2>1, FillSteps
    <3>0. /\ Len(sel[k + 1]) \in Nat /\ Len(sel[k]) \in Nat /\ run[k] \in Nat /\ run[k + 1] \in Nat
          /\ c[k + 1] \in Nat
          /\ \/ sel[k + 1] = sel[k] /\ run[k + 1] = run[k]
             \/ run[k + 1] = run[k] + c[k + 1] /\ Adds(sel[k], sel[k + 1], r[k + 1])
      BY <3>2 DEF FillStep
    <3>3. CASE sel[k + 1] = sel[k] /\ run[k + 1] = run[k]
      BY <3>1, <3>3
    <3>4. CASE run[k + 1] = run[k] + c[k + 1] /\ Adds(sel[k], sel[k + 1], r[k + 1])
      <4>1. PICK l \in Nat : l = Len(sel[k])
        BY <3>0
      <4>2. Len(sel[k + 1]) = l + 1 /\ sel[k + 1][l + 1] = r[k + 1]
        BY <3>4, <4>1 DEF Adds
      <4>3. /\ Len(sel[k + 1]) <= Len(sel[n]) /\ k + 1 \in 0 .. n
            /\ \A i \in 1 .. Len(sel[k + 1]) : sel[n][i] = sel[k + 1][i]
        <5>1. k + 1 \in 0 .. n
          BY <3>1
        <5>2. Prefixed(sel[k + 1], sel[n])
          BY <5>1, FillGrows
        <5> QED BY <5>1, <5>2 DEF Prefixed
      <4>4. Len(sel[n]) \in Nat
        BY FillTyped
      <4>5. l + 1 \in 1 .. Len(sel[n]) /\ l \in 0 .. Len(sel[n]) /\ (l + 1) - 1 = l /\ sel[n][l + 1] = r[k + 1]
        BY <4>2, <4>3, <4>4
      <4>6. t[l + 1] = t[l] + b[k + 1]
        BY <1>0, <3>1, <4>5
      <4>7. t[l] \in Int /\ t[l] <= 4 * run[k] /\ b[k + 1] \in Nat /\ c[k + 1] \in Nat /\ b[k + 1] <= 4 * c[k + 1]
        BY <1>0, <3>0, <3>1, <4>1, <4>5
      <4>8. t[l + 1] <= 4 * run[k + 1]
        <5>1. PICK x \in Int : x = run[k]
          BY <3>0
        <5>2. PICK cost \in Int : cost = c[k + 1]
          BY <3>0
        <5>3. PICK d \in Int : d = b[k + 1]
          BY <4>7
        <5>4. PICK z \in Int : z = t[l]
          BY <4>7
        <5>5. z <= 4 * x /\ d <= 4 * cost
          BY <4>7, <5>1, <5>2, <5>3, <5>4
        <5>6. z + d <= 4 * (x + cost)
          BY <5>5
        <5>7. t[l + 1] = z + d /\ run[k + 1] = x + cost
          BY <3>4, <4>6, <5>1, <5>2, <5>3, <5>4
        <5> QED BY <5>6, <5>7
      <4> QED BY <4>2, <4>8
    <3> QED BY <3>0, <3>3, <3>4
  <2>2. CASE ~(k + 1 <= n)
    BY <2>2
  <2> QED BY <2>1, <2>2
<1>3. n \in S
  <2> HIDE DEF S
  <2> QED BY <1>1, <1>2, Induct
<1> QED BY <1>3

\* What the lines before a place cost is what was spent when the fill came to it.
Earlier(b, c, n, place) == \A k \in 1 .. n : b[k] = IF k < place THEN c[k] ELSE 0
StartsAs(t, run) == t[0] = run[0]
SpentAt(t, s, run, place) == t[Len(s)] = run[place - 1]
LEMMA FillSpent ==
    ASSUME NEW N, NEW n \in Nat, NEW r, NEW c, NEW budget, NEW sel, NEW run,
           Fills(N, n, r, c, budget, sel, run),
           NEW place \in 1 .. n, NEW b, Earlier(b, c, n, place),
           NEW t, Moves(t, sel[n], r, n, b), StartsAs(t, run)
    PROVE  SpentAt(t, sel[n], run, place)
<1>0. /\ t \in [0 .. Len(sel[n]) -> Int]
      /\ \A k \in 1 .. n, l \in 1 .. Len(sel[n]) :
           sel[n][l] = r[k] => t[l] = t[l - 1] + (IF k < place THEN c[k] ELSE 0)
  BY DEF Moves, Earlier
<1> DEFINE S == {k \in Nat : k <= n => t[Len(sel[k])] = run[IF k < place THEN k ELSE place - 1]}
<1>1. 0 \in S
  <2>1. sel[0] = <<>> /\ Len(<<>>) = 0
    BY DEF Fills
  <2> QED BY <2>1 DEF StartsAs
<1>2. ASSUME NEW k \in Nat, k \in S PROVE k + 1 \in S
  <2>1. CASE k + 1 <= n
    <3>1. /\ k + 1 \in 1 .. n /\ (k + 1) - 1 = k
          /\ t[Len(sel[k])] = run[IF k < place THEN k ELSE place - 1]
      BY <1>2, <2>1
    <3>2. FillStep(sel[k], sel[k + 1], run[k], run[k + 1], budget, c[k + 1], r[k + 1])
      BY <2>1, FillSteps
    <3>0. /\ Len(sel[k + 1]) \in Nat /\ Len(sel[k]) \in Nat /\ run[k] \in Nat /\ run[k + 1] \in Nat
          /\ c[k + 1] \in Nat
          /\ \/ sel[k + 1] = sel[k] /\ run[k + 1] = run[k]
             \/ run[k + 1] = run[k] + c[k + 1] /\ Adds(sel[k], sel[k + 1], r[k + 1])
      BY <3>2 DEF FillStep
    <3>3. k < place /\ ~(k + 1 < place) => place - 1 = k
      OBVIOUS
    <3>4. CASE sel[k + 1] = sel[k] /\ run[k + 1] = run[k]
      BY <3>1, <3>3, <3>4
    <3>5. CASE run[k + 1] = run[k] + c[k + 1] /\ Adds(sel[k], sel[k + 1], r[k + 1])
      <4>1. PICK l \in Nat : l = Len(sel[k])
        BY <3>0
      <4>2. Len(sel[k + 1]) = l + 1 /\ sel[k + 1][l + 1] = r[k + 1]
        BY <3>5, <4>1 DEF Adds
      <4>3. /\ Len(sel[k + 1]) <= Len(sel[n]) /\ k + 1 \in 0 .. n
            /\ \A i \in 1 .. Len(sel[k + 1]) : sel[n][i] = sel[k + 1][i]
        <5>1. k + 1 \in 0 .. n
          BY <3>1
        <5>2. Prefixed(sel[k + 1], sel[n])
          BY <5>1, FillGrows
        <5> QED BY <5>1, <5>2 DEF Prefixed
      <4>4. Len(sel[n]) \in Nat
        BY FillTyped
      <4>5. l + 1 \in 1 .. Len(sel[n]) /\ l \in 0 .. Len(sel[n]) /\ (l + 1) - 1 = l /\ sel[n][l + 1] = r[k + 1]
        BY <4>2, <4>3, <4>4
      <4>6. t[l + 1] = t[l] + (IF k + 1 < place THEN c[k + 1] ELSE 0)
        BY <1>0, <3>1, <4>5
      <4>7. t[l] \in Int /\ t[l] = run[IF k < place THEN k ELSE place - 1] /\ c[k + 1] \in Nat
        BY <1>0, <3>0, <3>1, <4>1, <4>5
      <4>8. t[l + 1] = run[IF k + 1 < place THEN k + 1 ELSE place - 1]
        <5>1. CASE k + 1 < place
          BY <3>5, <4>6, <4>7, <5>1
        <5>2. CASE ~(k + 1 < place)
          BY <3>3, <4>6, <4>7, <5>2
        <5> QED BY <5>1, <5>2
      <4> QED BY <4>2, <4>8
    <3> QED BY <3>0, <3>4, <3>5
  <2>2. CASE ~(k + 1 <= n)
    BY <2>2
  <2> QED BY <2>1, <2>2
<1>3. n \in S
  <2> HIDE DEF S
  <2> QED BY <1>1, <1>2, Induct
<1> QED BY <1>3 DEF SpentAt

Sums(t, n, s, w) == t = [k \in 0 .. n |-> IF k = 0 THEN s ELSE t[k - 1] + w[k]]
Summed(t, n, s, w) ==
  t \in [0 .. n -> Int] /\ t[0] = s /\ \A k \in 1 .. n : t[k] = t[k - 1] + w[k]
LEMMA SumsAre ==
    ASSUME NEW n \in Nat, NEW s \in Int, NEW w \in [1 .. n -> Int], NEW t, Sums(t, n, s, w)
    PROVE  Summed(t, n, s, w)
<1>1. t[0] = s /\ \A k \in 1 .. n : t[k] = t[k - 1] + w[k]
  BY DEF Sums
<1> DEFINE S == {k \in Nat : k <= n => t[k] \in Int}
<1>2. 0 \in S
  BY <1>1
<1>3. ASSUME NEW k \in Nat, k \in S PROVE k + 1 \in S
  <2>1. CASE k + 1 <= n
    <3>1. k + 1 \in 1 .. n /\ (k + 1) - 1 = k /\ t[k] \in Int
      BY <1>3, <2>1
    <3>2. t[k + 1] = t[k] + w[k + 1] /\ w[k + 1] \in Int
      BY <1>1, <3>1
    <3>3. t[k + 1] \in Int
      BY <3>1, <3>2
    <3> QED BY <3>3
  <2>2. CASE ~(k + 1 <= n)
    BY <2>2
  <2> QED BY <2>1, <2>2
<1>4. \A k \in Nat : k \in S
  <2> HIDE DEF S
  <2> QED BY <1>2, <1>3, Induct
<1>5. DOMAIN t = 0 .. n /\ t = [k \in 0 .. n |-> t[k]]
  BY DEF Sums
<1>6. ASSUME NEW k \in 0 .. n PROVE t[k] \in Int
  <2>1. k \in S
    <3> HIDE DEF S
    <3> QED BY <1>4
  <2> QED BY <2>1
<1> QED BY <1>1, <1>5, <1>6 DEF Summed

Rendering(pop, frame, lines, n, w) ==
  \E t : /\ Summed(t, n, frame, w)
         /\ Golds!RenderedBytes(pop, frame, lines) = t[n] + (IF lines # <<>> THEN 1 ELSE 0)
LEMMA RenderedIs ==
    ASSUME NEW pop, NEW frame \in Nat, NEW lines, NEW n \in Nat, Len(lines) = n,
           NEW w \in [1 .. n -> Int], \A l \in 1 .. n : w[l] = pop[lines[l]].bytes
    PROVE  Rendering(pop, frame, lines, n, w)
<1> DEFINE W(k) == pop[lines[k]].bytes
           Body(y) == [k \in 0 .. n |-> IF k = 0 THEN frame ELSE y[k - 1] + W(k)]
           sum[k \in 0 .. n] == IF k = 0 THEN frame ELSE sum[k - 1] + W(k)
<1>1. Golds!RenderedBytes(pop, frame, lines) = sum[n] + (IF lines # <<>> THEN 1 ELSE 0)
  BY DEF Golds!RenderedBytes
<1>8. \A k \in 1 .. n : w[k] = W(k)
  OBVIOUS
<1> HIDE DEF W
<1>0. PICK s \in Int : s = frame
  OBVIOUS
<1>2. \E y : y = Body(y)
  <2>1. PICK f \in [0 .. n -> Int] : f[0] = s /\ \A k \in 1 .. n : f[k] = f[k - 1] + w[k]
    BY SumsOf
  <2>2. f = Body(f)
    BY <1>0, <1>8, <2>1
  <2> HIDE DEF Body
  <2> QED BY <2>2
<1>3. sum = Body(sum)
  BY <1>2
<1>4. PICK t : t = sum
  OBVIOUS
<1> HIDE DEF sum
<1>5. t = Body(t)
  BY <1>3, <1>4
<1>6. Sums(t, n, s, w)
  BY <1>0, <1>5, <1>8 DEF Sums
<1>7. Summed(t, n, s, w)
  BY <1>6, SumsAre
<1> QED BY <1>0, <1>1, <1>4, <1>7 DEF Rendering

\* What the frame and the lines better than a note take.
SpentFor(pop, frame, lines, i) ==
  LET sum[k \in 0 .. Len(lines)] ==
        IF k = 0 THEN Golds!EstimateTokens(frame)
        ELSE sum[k - 1] + (IF BetterIn(pop, lines[k], i) THEN Golds!EstimateTokens(pop[lines[k]].bytes) ELSE 0)
  IN sum[Len(lines)]
LEMMA SpentIs ==
    ASSUME NEW pop, NEW frame \in Nat, NEW lines, NEW n \in Nat, Len(lines) = n, NEW i,
           NEW w \in [1 .. n -> Int],
           \A l \in 1 .. n : w[l] = IF BetterIn(pop, lines[l], i)
                                    THEN Golds!EstimateTokens(pop[lines[l]].bytes) ELSE 0
    PROVE  \E t : /\ Summed(t, n, Golds!EstimateTokens(frame), w)
                  /\ SpentFor(pop, frame, lines, i) = t[n]
<1> DEFINE W(k) == IF BetterIn(pop, lines[k], i) THEN Golds!EstimateTokens(pop[lines[k]].bytes) ELSE 0
           Body(y) == [k \in 0 .. n |-> IF k = 0 THEN Golds!EstimateTokens(frame) ELSE y[k - 1] + W(k)]
           sum[k \in 0 .. n] == IF k = 0 THEN Golds!EstimateTokens(frame) ELSE sum[k - 1] + W(k)
<1>1. SpentFor(pop, frame, lines, i) = sum[n]
  BY DEF SpentFor
<1> HIDE DEF W
<1>2. \A k \in 1 .. n : w[k] = W(k)
  BY DEF W
<1>0. PICK s \in Int : s = Golds!EstimateTokens(frame)
  BY EstimateIs
<1>3. \E y : y = Body(y)
  <2>1. PICK f \in [0 .. n -> Int] : f[0] = s /\ \A k \in 1 .. n : f[k] = f[k - 1] + w[k]
    BY SumsOf, ZenonT(60)
  <2>2. f = Body(f)
    BY <1>0, <1>2, <2>1
  <2> HIDE DEF Body
  <2> QED BY <2>2
<1>4. sum = Body(sum)
  BY <1>3
<1>5. PICK t : t = sum
  OBVIOUS
<1> HIDE DEF sum
<1>6. t = Body(t)
  BY <1>4, <1>5
<1>7. Sums(t, n, s, w)
  BY <1>0, <1>2, <1>6 DEF Sums
<1>8. Summed(t, n, s, w)
  BY <1>7, SumsAre
<1> QED BY <1>0, <1>1, <1>5, <1>8

\* The population of a pack: each note with its length, its age and its sources.
PopulationTyped(pop, m) ==
  /\ Len(pop) = m /\ DOMAIN pop = 1 .. m
  /\ \A i \in 1 .. m : /\ pop[i].bytes \in Nat /\ pop[i].age \in Nat
                       /\ pop[i].sources \in Seq({"captured", "harvest"})
LEMMA PopulationHas ==
    ASSUME NEW x, Golds!IsPacking(x)
    PROVE  \E m \in Nat : PopulationTyped(Golds!Population(x.notes), m)
<1>1. PICK notes : notes = x.notes
  OBVIOUS
<1>2. PICK n \in Nat : DOMAIN notes = 1 .. n
  BY <1>1 DEF Golds!IsPacking
<1>3. PICK pop : pop = Golds!Population(notes)
  OBVIOUS
<1>4. PICK m \in Nat : Len(pop) = m /\ DOMAIN pop = 1 .. m /\ \A k \in 1 .. m : \E i \in 1 .. n : pop[k] = notes[i]
  BY <1>2, <1>3, PopulationIs
<1>5. \A i \in 1 .. n : /\ notes[i].bytes \in Nat /\ notes[i].age \in Nat
                        /\ notes[i].sources \in Seq({"captured", "harvest"})
  BY <1>1, <1>2 DEF Golds!IsPacking
<1>6. PopulationTyped(pop, m)
  BY <1>4, <1>5 DEF PopulationTyped
<1> QED BY <1>1, <1>3, <1>6

\* What is injected may be injected.
LEMMA EligibleSays ==
    ASSUME NEW n, n.sources \in Seq({"captured", "harvest"}), Golds!Eligible(n)
    PROVE  /\ n.kind \in Golds!GoldKinds /\ n.status = "active" /\ n.confidence # "low"
           /\ ~n.derived /\ n.origin # "harvest"
           /\ n.sources = <<>> \/ "captured" \in Golds!Range(n.sources)
<1>1. /\ n.kind \in Golds!GoldKinds /\ n.status = "active" /\ n.confidence # "low"
      /\ ~n.derived /\ n.origin # "harvest" /\ ~(n.sources # <<>> /\ Golds!Range(n.sources) = {"harvest"})
  BY DEF Golds!Eligible, Golds!IsHarvestProvenance
<1>2. n.sources = <<>> \/ "captured" \in Golds!Range(n.sources)
  <2> SUFFICES ASSUME n.sources # <<>>, "captured" \notin Golds!Range(n.sources) PROVE FALSE
    OBVIOUS
  <2>1. PICK s \in Seq({"captured", "harvest"}) : s = n.sources
    OBVIOUS
  <2>2. PICK U : U = Golds!Range(s)
    OBVIOUS
  <2>3. \A v : v \in U <=> \E l \in DOMAIN s : s[l] = v
    BY <2>2 DEF Golds!Range
  <2>4. \A l \in DOMAIN s : s[l] \in {"captured", "harvest"}
    OBVIOUS
  <2>5. 1 \in DOMAIN s
    BY <2>1
  <2>6. \A v \in U : v = "harvest"
    BY <2>1, <2>2, <2>3, <2>4
  <2>7. s[1] \in U
    BY <2>3, <2>5
  <2>8. U = {"harvest"}
    BY <2>6, <2>7
  <2> QED BY <1>1, <2>1, <2>2, <2>8
<1> QED BY <1>1, <1>2

\* The rank and the fill of one pack.
Packed(pop, m, budget, frame, r, n, c, sel, run, F) ==
  /\ RankedWell(pop, r, n) /\ Fills(1 .. m, n, r, c, budget, sel, run)
  /\ \A k \in 1 .. n : c[k] = Golds!EstimateTokens(pop[r[k]].bytes)
  /\ run[0] = Golds!EstimateTokens(frame) /\ F = sel[n]
LEMMA PackIs ==
    ASSUME NEW pop, NEW m \in Nat, PopulationTyped(pop, m), NEW budget \in Nat, NEW frame \in Nat
    PROVE  \E n, r, c, sel, run : n \in Nat /\
             Packed(pop, m, budget, frame, r, n, c, sel, run,
                    Golds!BudgetFill(pop, budget, frame, Golds!CapHarvestShare(pop, Golds!Ranked(pop))))
<1>1. Len(pop) = m /\ DOMAIN pop = 1 .. m /\ \A i \in 1 .. m : pop[i].bytes \in Nat
  BY DEF PopulationTyped
<1>2. \A i \in 1 .. m : Golds!Score(pop, pop[i]) \in Int
  <2> SUFFICES ASSUME NEW i \in 1 .. m PROVE Golds!Score(pop, pop[i]) \in Int
    OBVIOUS
  <2>1. PICK v : v = pop[i]
    OBVIOUS
  <2>2. v.age \in Nat /\ v.sources \in Seq({"captured", "harvest"})
    BY <2>1 DEF PopulationTyped
  <2>3. Len(v.sources) \in Nat
    BY <2>2
  <2> QED BY <1>1, <2>1, <2>2, <2>3, ScoreIs
<1>3. PICK r : r = Golds!Ranked(pop)
  OBVIOUS
<1>4. PICK n \in Nat : RankedWell(pop, r, n)
  BY <1>1, <1>2, <1>3, RankedIs
<1>5. Golds!CapHarvestShare(pop, r) = r
  BY <1>4, ShareStays
<1>6. Len(r) = n /\ r \in [1 .. n -> 1 .. m]
  BY <1>1, <1>4 DEF RankedWell
<1>7. PICK F : F = Golds!BudgetFill(pop, budget, frame, r)
  OBVIOUS
<1>8. PICK sel \in [0 .. n -> Seq(1 .. m)], run \in [0 .. n -> Nat] :
        Filling(pop, budget, frame, r, n, sel, run) /\ F = sel[n]
  <2>1. \A k \in 1 .. n : r[k] \in 1 .. m
    BY <1>6
  <2>2. PackFill(pop, m, budget, frame, r, n, F)
    BY <1>1, <1>6, <1>7, <2>1, FillFollows
  <2> QED BY <2>2 DEF PackFill
<1>9. PICK c : c = [k \in 1 .. n |-> Golds!EstimateTokens(pop[r[k]].bytes)]
  OBVIOUS
<1>10. c \in [1 .. n -> Nat] /\ \A k \in 1 .. n : c[k] = Golds!EstimateTokens(pop[r[k]].bytes)
  <2>1. \A k \in 1 .. n : Golds!EstimateTokens(pop[r[k]].bytes) \in Nat
    BY <1>1, <1>6, EstimateIs
  <2> QED BY <1>9, <2>1
<1>11. Fills(1 .. m, n, r, c, budget, sel, run) /\ run[0] = Golds!EstimateTokens(frame)
  BY <1>6, <1>8, <1>10 DEF Filling, Fills
<1>12. Packed(pop, m, budget, frame, r, n, c, sel, run, F)
  BY <1>4, <1>8, <1>10, <1>11 DEF Packed
<1> QED BY <1>3, <1>5, <1>7, <1>12

\* The recorded estimate is within a token of the budget.
LEMMA PackWithin ==
    ASSUME NEW pop, NEW m \in Nat, PopulationTyped(pop, m), NEW budget \in Nat, NEW frame \in Nat,
           NEW r, NEW n \in Nat, NEW c, NEW sel, NEW run, NEW F,
           Packed(pop, m, budget, frame, r, n, c, sel, run, F), F # <<>>
    PROVE  Golds!EstimateTokens(Golds!RenderedBytes(pop, frame, F)) <= budget + 1
<1>1. Fills(1 .. m, n, r, c, budget, sel, run) /\ F = sel[n] /\ run[0] = Golds!EstimateTokens(frame)
  BY DEF Packed
<1>2. r \in [1 .. n -> 1 .. m] /\ F \in Seq(1 .. m) /\ run[n] \in Nat
  <2>1. r \in [1 .. n -> 1 .. m] /\ sel \in [0 .. n -> Seq(1 .. m)] /\ run \in [0 .. n -> Nat]
    BY <1>1 DEF Fills
  <2>2. n \in 0 .. n
    OBVIOUS
  <2> QED BY <1>1, <2>1, <2>2
<1>3. PICK l \in Nat : l = Len(F) /\ l > 0
  BY <1>2
<1>4. PICK b : b = [k \in 1 .. n |-> pop[r[k]].bytes]
  OBVIOUS
<1>5. b \in [1 .. n -> Nat] /\ \A k \in 1 .. n : b[k] = pop[r[k]].bytes
  BY <1>2, <1>4 DEF PopulationTyped
<1>6. \A k \in 1 .. n : b[k] <= 4 * c[k]
  <2> SUFFICES ASSUME NEW k \in 1 .. n PROVE b[k] <= 4 * c[k]
    OBVIOUS
  <2>1. PICK v \in Nat : v = b[k]
    BY <1>5
  <2>2. 4 * Golds!EstimateTokens(v) >= v /\ Golds!EstimateTokens(v) \in Nat
    BY EstimateIs
  <2>3. c[k] = Golds!EstimateTokens(v)
    BY <1>5, <2>1 DEF Packed
  <2> QED BY <2>1, <2>2, <2>3
<1>7. PICK w : w = [i \in 1 .. l |-> pop[F[i]].bytes]
  OBVIOUS
<1>8. w \in [1 .. l -> Int] /\ \A i \in 1 .. l : w[i] = pop[F[i]].bytes
  <2>1. \A i \in 1 .. l : F[i] \in 1 .. m
    BY <1>2, <1>3
  <2>2. \A i \in 1 .. m : pop[i].bytes \in Int
    BY DEF PopulationTyped
  <2> QED BY <1>7, <2>1, <2>2
<1>9. PICK t : /\ Summed(t, l, frame, w)
               /\ Golds!RenderedBytes(pop, frame, F) = t[l] + (IF F # <<>> THEN 1 ELSE 0)
  <2>1. Rendering(pop, frame, F, l, w)
    BY <1>3, <1>8, RenderedIs
  <2> QED BY <2>1 DEF Rendering
<1>10. t[0] <= 4 * run[0]
  <2>1. frame <= 4 * Golds!EstimateTokens(frame) /\ Golds!EstimateTokens(frame) \in Nat
    BY EstimateIs
  <2> QED BY <1>1, <1>9, <2>1 DEF Summed
<1>11. Moves(t, F, r, n, b)
  BY <1>3, <1>5, <1>8, <1>9, ZenonT(60) DEF Moves, Summed
<1>12. t[l] <= 4 * run[n]
  <2>1. Moves(t, sel[n], r, n, b)
    BY <1>1, <1>11
  <2>2. t[Len(sel[n])] <= 4 * run[n]
    BY <1>1, <1>5, <1>6, <1>10, <2>1, FillSums
  <2> QED BY <1>1, <1>3, <2>2
<1>13. run[n] <= budget
  <2>1. FilledWell(r, budget, sel[n], run[n], n)
    BY <1>1, FillHolds
  <2> QED BY <1>1, <1>3, <2>1 DEF FilledWell
<1>14. PICK v \in Int, y \in Nat : v = t[l] /\ y = run[n] /\ v <= 4 * y /\ y <= budget
  <2>1. t[l] \in Int
    BY <1>3, <1>9 DEF Summed
  <2> QED BY <1>2, <1>12, <1>13, <2>1
<1>15. Golds!EstimateTokens(v + 1) <= y + 1
  <2>1. v \in Int /\ y \in Int /\ v <= 4 * y
    BY <1>14
  <2> QED BY <2>1, EstimateIs
<1>16. Golds!EstimateTokens(v + 1) \in Int
  BY <1>14 DEF Golds!EstimateTokens
<1>17. Golds!RenderedBytes(pop, frame, F) = v + 1
  BY <1>9, <1>14
<1> QED BY <1>14, <1>15, <1>16, <1>17

\* A claim that is left out does not fit beside the better ones.
LEMMA PackLeaves ==
    ASSUME NEW pop, NEW m \in Nat, PopulationTyped(pop, m), NEW budget \in Nat, NEW frame \in Nat,
           NEW r, NEW n \in Nat, NEW c, NEW sel, NEW run, NEW F,
           Packed(pop, m, budget, frame, r, n, c, sel, run, F),
           NEW i \in DOMAIN pop, Golds!Eligible(pop[i]), \A l \in 1 .. Len(F) : F[l] # i
    PROVE  SpentFor(pop, frame, F, i) + Golds!EstimateTokens(pop[i].bytes) > budget
<1>1. Fills(1 .. m, n, r, c, budget, sel, run) /\ F = sel[n] /\ run[0] = Golds!EstimateTokens(frame)
  BY DEF Packed
<1>2. r \in [1 .. n -> 1 .. m] /\ F \in Seq(1 .. m) /\ c \in [1 .. n -> Nat] /\ run \in [0 .. n -> Nat]
  <2>1. /\ r \in [1 .. n -> 1 .. m] /\ sel \in [0 .. n -> Seq(1 .. m)] /\ run \in [0 .. n -> Nat]
        /\ c \in [1 .. n -> Nat]
    BY <1>1 DEF Fills
  <2>2. n \in 0 .. n
    OBVIOUS
  <2> QED BY <1>1, <2>1, <2>2
<1>3. PICK l \in Nat : l = Len(F)
  BY <1>2
<1>4. PICK place \in 1 .. n : r[place] = i
  BY DEF Packed, RankedWell
<1>5. PICK w : w = [j \in 1 .. l |-> IF BetterIn(pop, F[j], i)
                                     THEN Golds!EstimateTokens(pop[F[j]].bytes) ELSE 0]
  OBVIOUS
<1>6. w \in [1 .. l -> Int]
      /\ \A j \in 1 .. l : w[j] = IF BetterIn(pop, F[j], i)
                                  THEN Golds!EstimateTokens(pop[F[j]].bytes) ELSE 0
  <2>1. \A j \in 1 .. l : Golds!EstimateTokens(pop[F[j]].bytes) \in Int
    <3> SUFFICES ASSUME NEW j \in 1 .. l PROVE Golds!EstimateTokens(pop[F[j]].bytes) \in Int
      OBVIOUS
    <3>1. F[j] \in 1 .. m
      BY <1>2, <1>3
    <3>2. pop[F[j]].bytes \in Nat
      BY <3>1 DEF PopulationTyped
    <3> QED BY <3>2, EstimateIs
  <2> QED BY <1>5, <2>1
<1>7. PICK t : Summed(t, l, Golds!EstimateTokens(frame), w) /\ SpentFor(pop, frame, F, i) = t[l]
  BY <1>3, <1>6, SpentIs
<1>15. PICK b : b = [k \in 1 .. n |-> IF k < place THEN c[k] ELSE 0]
  OBVIOUS
<1>8. ASSUME NEW k \in 1 .. n, NEW j \in 1 .. l, F[j] = r[k]
      PROVE  t[j] = t[j - 1] + b[k]
  <2>1. BetterIn(pop, F[j], i) <=> k < place
    BY <1>4, <1>8 DEF Packed, RankedWell
  <2>2. c[k] = Golds!EstimateTokens(pop[F[j]].bytes)
    BY <1>8 DEF Packed
  <2>3. w[j] = b[k]
    BY <1>6, <1>15, <2>1, <2>2
  <2> QED BY <1>7, <2>3 DEF Summed
<1>9. t[l] = run[place - 1]
  <2>1. Moves(t, sel[n], r, n, b)
    BY <1>1, <1>3, <1>7, <1>8 DEF Moves, Summed
  <2>2. StartsAs(t, run)
    BY <1>1, <1>7 DEF Summed, StartsAs
  <2>3. Earlier(b, c, n, place)
    BY <1>15 DEF Earlier
  <2>4. SpentAt(t, sel[n], run, place)
    BY <1>1, <2>1, <2>2, <2>3, FillSpent
  <2> QED BY <1>1, <1>3, <2>4 DEF SpentAt
<1>10. PICK k \in Nat : k = place - 1 /\ k + 1 = place /\ k + 1 <= n /\ k + 1 \in 0 .. n
  OBVIOUS
<1>11. FillStep(sel[k], sel[k + 1], run[k], run[k + 1], budget, c[k + 1], r[k + 1])
  BY <1>1, <1>10, FillSteps
<1>12. ~Adds(sel[k], sel[k + 1], r[k + 1])
  <2> SUFFICES ASSUME Adds(sel[k], sel[k + 1], r[k + 1]) PROVE FALSE
    OBVIOUS
  <2>1. PICK s, u : s = sel[k] /\ u = sel[k + 1]
    OBVIOUS
  <2>2. Len(s) \in Nat /\ Len(u) = Len(s) + 1 /\ u[Len(s) + 1] = i
    BY <1>4, <1>10, <1>11, <2>1 DEF FillStep, Adds
  <2>3. Len(u) <= Len(sel[n]) /\ \A j \in 1 .. Len(u) : sel[n][j] = u[j]
    <3>1. Prefixed(sel[k + 1], sel[n])
      BY <1>1, <1>10, FillGrows
    <3> QED BY <2>1, <3>1 DEF Prefixed
  <2>4. Len(s) + 1 \in 1 .. Len(u) /\ Len(s) + 1 \in 1 .. Len(F)
    BY <1>1, <1>3, <2>2, <2>3
  <2>5. F[Len(s) + 1] = i
    BY <1>1, <2>2, <2>3, <2>4
  <2> QED BY <2>4, <2>5
<1>13. run[k] + c[k + 1] > budget
  BY <1>11, <1>12 DEF FillStep
<1>14. c[k + 1] = Golds!EstimateTokens(pop[i].bytes)
  BY <1>4, <1>10 DEF Packed
<1> QED BY <1>7, <1>9, <1>10, <1>13, <1>14

LEMMA PackIsBest == ASSUME NEW x, Golds!IsPacking(x) PROVE Golds!BestClaimsFit(x)
<1> DEFINE pop == Golds!Population(x.notes)
           out == Golds!Assemble(x.notes, x.budget, x.frame)
           scored == Golds!Scored(pop)
           better(i, j) == \E a, b \in scored : a.at = i /\ b.at = j /\ Golds!Better(a, b)
           cost(i) == Golds!EstimateTokens(pop[i].bytes)
           spent(i) ==
             LET sum[k \in 0 .. Len(out.lines)] ==
                   IF k = 0 THEN Golds!EstimateTokens(x.frame)
                   ELSE sum[k - 1] + (IF better(out.lines[k], i) THEN cost(out.lines[k]) ELSE 0)
             IN sum[Len(out.lines)]
           F == Golds!BudgetFill(pop, x.budget, x.frame, Golds!CapHarvestShare(pop, Golds!Ranked(pop)))
<1>1. \A i, j : better(i, j) <=> BetterIn(pop, i, j)
  BY DEF BetterIn
<1>2. \A i : spent(i) = SpentFor(pop, x.frame, out.lines, i)
  BY DEF SpentFor, BetterIn
<1>3. out.lines = F /\ out.tokens = Golds!EstimateTokens(Golds!RenderedBytes(pop, x.frame, F))
  BY DEF Golds!Assemble
<1>4. Golds!BestClaimsFit(x) <=>
        /\ out.lines # <<>> => out.tokens <= x.budget + 1
        /\ \A k \in DOMAIN out.lines :
             LET n == pop[out.lines[k]]
             IN /\ n.kind \in Golds!GoldKinds /\ n.status = "active" /\ n.confidence # "low"
                /\ ~n.derived /\ n.origin # "harvest"
                /\ (n.sources = <<>> \/ "captured" \in Golds!Range(n.sources))
        /\ \A k, l \in DOMAIN out.lines : k < l => better(out.lines[k], out.lines[l])
        /\ \A i \in DOMAIN pop \ Golds!Range(out.lines) :
             Golds!Eligible(pop[i]) => spent(i) + cost(i) > x.budget
  BY DEF Golds!BestClaimsFit
<1> HIDE DEF spent, better
<1>5. PICK m \in Nat : PopulationTyped(pop, m)
  BY PopulationHas
<1>6. x.budget \in Nat /\ x.frame \in Nat
  BY DEF Golds!IsPacking
<1>7. PICK p, lines, tokens, budget, frame :
        p = pop /\ lines = out.lines /\ tokens = out.tokens /\ budget = x.budget /\ frame = x.frame
  OBVIOUS
<1>8. PICK n, r, c, sel, run : n \in Nat /\ Packed(p, m, budget, frame, r, n, c, sel, run, lines)
  <2>1. \E n, r, c, sel, run : n \in Nat /\ Packed(pop, m, x.budget, x.frame, r, n, c, sel, run, F)
    BY <1>5, <1>6, PackIs
  <2> HIDE DEF F, out, pop
  <2> QED BY <1>3, <1>7, <2>1
<1>9. tokens = Golds!EstimateTokens(Golds!RenderedBytes(p, frame, lines))
  BY <1>3, <1>7
<1>10. \A i : cost(i) = Golds!EstimateTokens(p[i].bytes)
  BY <1>7
<1>11. \A i : spent(i) = SpentFor(p, frame, lines, i)
  BY <1>2, <1>7
<1>12. \A i, j : better(i, j) <=> BetterIn(p, i, j)
  BY <1>1, <1>7
<1>13. PopulationTyped(p, m) /\ budget \in Nat /\ frame \in Nat
  BY <1>5, <1>6, <1>7
<1> HIDE DEF cost, out, pop, scored, F
<1>14. /\ RankedWell(p, r, n) /\ Fills(1 .. m, n, r, c, budget, sel, run) /\ lines = sel[n]
  BY <1>8 DEF Packed
<1>15. FilledWell(r, budget, lines, run[n], n)
  BY <1>8, <1>14, FillHolds
<1>16. lines \in Seq(1 .. m)
  <2>1. sel \in [0 .. n -> Seq(1 .. m)] /\ n \in 0 .. n
    BY <1>8, <1>14 DEF Fills
  <2> QED BY <1>14, <2>1
<1>17. DOMAIN lines = 1 .. Len(lines)
  BY <1>16
<1>18. lines # <<>> => tokens <= budget + 1
  BY <1>8, <1>9, <1>13, PackWithin
<1>19. ASSUME NEW k \in DOMAIN lines
       PROVE  LET v == p[lines[k]]
              IN /\ v.kind \in Golds!GoldKinds /\ v.status = "active" /\ v.confidence # "low"
                 /\ ~v.derived /\ v.origin # "harvest"
                 /\ (v.sources = <<>> \/ "captured" \in Golds!Range(v.sources))
  <2>1. lines[k] \in 1 .. m
    BY <1>16
  <2>2. PICK v : v = p[lines[k]]
    OBVIOUS
  <2>3. v.sources \in Seq({"captured", "harvest"})
    BY <1>13, <2>1, <2>2 DEF PopulationTyped
  <2>4. Golds!Eligible(v)
    BY <1>14, <1>15, <1>17, <2>2 DEF RankedWell, FilledWell
  <2>5. /\ v.kind \in Golds!GoldKinds /\ v.status = "active" /\ v.confidence # "low"
        /\ ~v.derived /\ v.origin # "harvest"
        /\ (v.sources = <<>> \/ "captured" \in Golds!Range(v.sources))
    BY <2>3, <2>4, EligibleSays
  <2> QED BY <2>2, <2>5
<1>20. ASSUME NEW k \in DOMAIN lines, NEW l \in DOMAIN lines, k < l
       PROVE  better(lines[k], lines[l])
  <2>1. PICK i \in 1 .. n, j \in 1 .. n : i < j /\ lines[k] = r[i] /\ lines[l] = r[j]
    <3>1. \A f, g \in 1 .. Len(lines) :
            f < g => \E i, j \in 1 .. n : i < j /\ lines[f] = r[i] /\ lines[g] = r[j]
      BY <1>15 DEF FilledWell
    <3>2. k \in 1 .. Len(lines) /\ l \in 1 .. Len(lines)
      BY <1>17
    <3> QED BY <1>20, <3>1, <3>2
  <2>2. BetterIn(p, r[i], r[j])
    BY <1>14, <2>1 DEF RankedWell
  <2> QED BY <1>12, <2>1, <2>2
<1>21. ASSUME NEW i \in DOMAIN p, i \notin Golds!Range(lines), Golds!Eligible(p[i])
       PROVE  spent(i) + cost(i) > budget
  <2>1. \A l \in 1 .. Len(lines) : lines[l] # i
    BY <1>17, <1>21 DEF Golds!Range
  <2>2. SpentFor(p, frame, lines, i) + Golds!EstimateTokens(p[i].bytes) > budget
    BY <1>8, <1>13, <1>21, <2>1, PackLeaves
  <2> QED BY <1>10, <1>11, <2>2
<1> QED BY <1>4, <1>7, <1>18, <1>19, <1>20, <1>21

-----------------------------------------------------------------------------
(* The calls.                                                              *)

InputsOK ==
    /\ call.of = "pack" => call.in \in Packings
    /\ call.of = "query" => call.in \in Queries
    /\ call.of = "draw" => call.in \in Drawings
    /\ call.of = "author" => call.in \in Authorings
    /\ call.of = "plan" => call.in \in Plans
    /\ call.of = "init" => call.in \in Inits
    /\ call.of = "import" => call.in \in Vaults
    /\ call.of = "convert" => call.in \in Kbs
    /\ call.of = "upload" => call.in \in Batches

LEMMA CallsAreOfInputs == Spec => []InputsOK
<1>1. Init => InputsOK
  BY DEF Init, InputsOK
<1>2. InputsOK /\ [Next]_call => InputsOK'
  BY DEF InputsOK, Next, PlanCall, AuthorCall, RouteCall, ImportCall, ConvertCall, PackCall,
         QueryCall, DrawCall, InitCall, UploadCall
<1> QED BY <1>1, <1>2, PTL DEF Spec

\* ImportIsFaithful, of every vault: no note is lost but a copy, each basename has one
\* path, every link leads where it led or is reported, every concept cites a source or
\* is a stub, and the maps and the index reach every concept (vault_import.py).
THEOREM ImportsAreFaithful == Spec => []ImportIsFaithful
<1>1. InputsOK => ImportIsFaithful
  BY VaultsAssumption, FaithfulImport DEF InputsOK, ImportIsFaithful, Imports!ImportIsFaithful
<1> QED BY <1>1, CallsAreOfInputs, PTL

\* ConversionIsFaithful, of every schema-1 repo: a conversion keeps every note, source
\* and tag or writes nothing, and every link leads to the text it led to (kb_convert.py).
THEOREM ConversionsAreFaithful == Spec => []ConversionIsFaithful
<1>1. KbDomainsOK
  BY KbsAssumption DEF KbDomainsOK
<1>2. \A x \in Kbs : Finite(x.kb)
  BY KbsAssumption DEF Converts!IsKb, Finite
<1>3. InputsOK => ConversionIsFaithful
  BY <1>1, <1>2, FaithfulConversion DEF InputsOK, ConversionIsFaithful
<1> QED BY <1>3, CallsAreOfInputs, PTL

\* ActsRunWhereConfigured, of every adapters.yaml and every host: each act runs under
\* the brain and in the sandbox configured for it, or no brain is built (isolation.py).
THEOREM ActsAreRouted == Spec => []ActsRunWhereConfigured
<1>1. ActsRunWhereConfigured
  BY RoutedAsConfigured DEF ActsRunWhereConfigured
<1> QED BY <1>1, PTL

\* BatchIsAnswered, of every batch and every policy: a refused batch has captured
\* nothing, an answered one names file by file what was captured, and only a disk
\* fault leaves captures unnamed, those of the files before it (faces/web/app.py).
THEOREM BatchesAreAnswered == Spec => []BatchIsAnswered
<1>1. ASSUME NEW x \in Batches PROVE Faces!BatchIsAnswered(x)
  <2>1. x.files \in Seq(Faces!BatchFile)
    BY BatchesAssumption DEF Faces!IsBatch
  <2>2. Len(x.files) \in Nat /\ DOMAIN x.files = 1 .. Len(x.files)
    BY <2>1
  <2> QED BY <2>2, AnsweredBatch
<1>2. InputsOK => BatchIsAnswered
  BY <1>1 DEF InputsOK, BatchIsAnswered
<1> QED BY <1>2, CallsAreOfInputs, PTL

\* InitIsRepeatable, of every tree and every sequence of runs: a repo init that is cut
\* and run again ends where one run ends, one that succeeds has committed what it
\* wrote, but in the two cases named, and no schema-1 repo is converted unasked (cli.py).
THEOREM InitsAreRepeatable == Spec => []InitIsRepeatable
<1>1. InputsOK => InitIsRepeatable
  BY InitsAssumption, Converges, CommitsWhatItWrote, NeverConverted DEF InputsOK, InitIsRepeatable
<1> QED BY <1>1, CallsAreOfInputs, PTL

\* BrainIsTamed, of every wiki, every taxonomy and whatever a model answers: a plan fails
\* the gate only for a created name that the bundle did not show or that is an unsafe slug
\* of what was said, and for an unsafe domain the taxonomy declares; its aliases are its
\* own, a new fact gets its note, and PASS 2 fills the regions asked for and answered
\* (ollama_brain.py, plan.py).
THEOREM BrainsAreTamed == Spec => []BrainIsTamed
<1>1. DomainsOK
  BY PlansAssumption DEF DomainsOK
<1>2. \A x \in Plans : Brains!NormalizedPassesGate(x) /\ Brains!AliasesApart(x) /\ Brains!NewFactKept(x)
  BY <1>1, PlansAssumption, PlanPassesGate, AliasesAreApart, KeepsNewFacts
<1>3. \A x \in Authorings : Brains!AuthorLeavesTheRest(x)
  BY AuthoringsAssumption, LeavesTheRest
<1>4. InputsOK => BrainIsTamed
  BY <1>2, <1>3 DEF InputsOK, BrainIsTamed
<1> QED BY <1>4, CallsAreOfInputs, PTL

\* ReaderIsExact, of every wiki, query and drawing: a query walks the shortest way over
\* the links, its prefilter drops no hit, a human's note lends no credit, a hit has a
\* query token of its own, and a picture shows what was asked for (wiki.py, graph.py).
THEOREM QueriesAreExact == Spec => []ReaderIsExact
<1>1. \A x \in Queries : Reads!QueryIsExact(x)
  BY QueriesAssumption, QueryExact
<1>2. \A x \in Drawings : Reads!GraphIsTrue(x)
  BY DrawingsAssumption, PicturesTrue
<1>3. InputsOK => ReaderIsExact
  BY <1>1, <1>2 DEF InputsOK, ReaderIsExact
<1> QED BY <1>3, CallsAreOfInputs, PTL

\* PackIsBestFit, of every set of notes and every budget: a pack holds the best of the
\* claims that may be injected, none that fits beside the better ones is left out, and
\* no note of a human moves it (core/gold.py).
THEOREM PacksAreBestFit == Spec => []PackIsBestFit
<1>1. \A x \in Packings : Golds!BestClaimsFit(x) /\ Golds!PeopleNeverCount(x)
  BY PackingsAssumption, PackIsBest, PeopleDoNotCount
<1>2. InputsOK => PackIsBestFit
  BY <1>1 DEF InputsOK, PackIsBestFit
<1> QED BY <1>2, CallsAreOfInputs, PTL
=============================================================================
