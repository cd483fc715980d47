---------------------------- MODULE Algorithms ----------------------------
(***************************************************************************)
(* The parts of the program that are functions of their input: one run of  *)
(* any of them, on any of the inputs given, in one step.  Nothing of what  *)
(* they read changes while they run: a bundle, a vault, a configuration    *)
(* and the files of a checkout are read once.                              *)
(***************************************************************************)
EXTENDS Sequences

CONSTANTS
  BrainSlugOf, BrainTags, BrainDomains, BrainDate, BrainDotted, BrainUnsafe,  \* see Brain
  ImportSlug, ImportMocStem, ImportDomains, ImportTags,  \* see VaultImport
  KbDomainList, KbMapStem, KbDateOfStem,                 \* see KbConvert
  Plans, Authorings, Routings, Vaults, Kbs, Packings, Queries,
  Drawings, Inits, Batches  \* sets of inputs, as those in the line before

VARIABLE
  call    \* the call that was made: what was called, and its input

Brains == INSTANCE Brain WITH SlugOf <- BrainSlugOf, AllowedTags <- BrainTags,
                              DomainList <- BrainDomains, RunDate <- BrainDate,
                              DottedSlugs <- BrainDotted, UnsafeSlugs <- BrainUnsafe
Routes == INSTANCE Backends
Imports == INSTANCE VaultImport WITH VaultSlug <- ImportSlug, MocStem <- ImportMocStem,
                                     VaultDomains <- ImportDomains, VaultTags <- ImportTags
Converts == INSTANCE KbConvert WITH KbDomains <- KbDomainList, MapStem <- KbMapStem,
                                    DateOfStem <- KbDateOfStem
Golds == INSTANCE Gold
Reads == INSTANCE Reader
Founds == INSTANCE RepoInit
Faces == INSTANCE Uploads

\* What is imported or converted is a sequence of notes, and what is uploaded one of
\* files.
ASSUME VaultsAssumption == \A x \in Vaults : Imports!IsVault(x.vault)
ASSUME KbsAssumption ==
  KbDomainList \in Seq(STRING) /\ \A x \in Kbs : Converts!IsKb(x.kb)
ASSUME BatchesAssumption == \A x \in Batches : Faces!IsBatch(x.files)
ASSUME InitsAssumption == \A x \in Inits : Founds!IsInit(x)
\* A domain has a name of its own, the date is a safe name, and see the module of the
\* call for its input.
ASSUME PlansAssumption ==
  /\ BrainDomains \in Seq(STRING) /\ Brains!Nothing \notin Brains!DomainSet
  /\ Brains!IsSafeBasename(<<BrainDate, 1>>)
  /\ \A x \in Plans : Brains!IsPlanInput(x)
ASSUME AuthoringsAssumption == \A x \in Authorings : Brains!IsAuthoring(x)
ASSUME PackingsAssumption == \A x \in Packings : Golds!IsPacking(x)
ASSUME QueriesAssumption == \A x \in Queries : Reads!IsQuery(x)
ASSUME DrawingsAssumption == \A x \in Drawings : Reads!IsDrawing(x)

Idle == call.of = "none"

Init == call = [of |-> "none", in |-> {}]
PlanCall == Idle /\ \E x \in Plans : call' = [of |-> "plan", in |-> x]
AuthorCall == Idle /\ \E x \in Authorings : call' = [of |-> "author", in |-> x]
RouteCall == Idle /\ \E x \in Routings : call' = [of |-> "route", in |-> x]
ImportCall == Idle /\ \E x \in Vaults : call' = [of |-> "import", in |-> x]
ConvertCall == Idle /\ \E x \in Kbs : call' = [of |-> "convert", in |-> x]
PackCall == Idle /\ \E x \in Packings : call' = [of |-> "pack", in |-> x]
QueryCall == Idle /\ \E x \in Queries : call' = [of |-> "query", in |-> x]
DrawCall == Idle /\ \E x \in Drawings : call' = [of |-> "draw", in |-> x]
InitCall == Idle /\ \E x \in Inits : call' = [of |-> "init", in |-> x]
UploadCall == Idle /\ \E x \in Batches : call' = [of |-> "upload", in |-> x]
Next ==
  \/ PlanCall \/ AuthorCall \/ RouteCall \/ ImportCall \/ ConvertCall \/ PackCall
  \/ QueryCall \/ DrawCall \/ InitCall \/ UploadCall
Spec == Init /\ [][Next]_call

-----------------------------------------------------------------------------
(* Properties; the parts are defined, and explained, in the module of the  *)
(* call.                                                                   *)

\* Whatever the model answers: only a created name that the bundle did not show or that
\* is no safe name, and a declared domain that is none, can fail the gate, no alias is another note's name, a candidate that asks for a note gets one
\* while the taxonomy has a domain, and the prose of PASS 2 goes into the regions
\* it was asked for and answers.
BrainIsTamed ==
  /\ call.of = "plan" =>
       /\ Brains!NormalizedPassesGate(call.in)
       /\ Brains!AliasesApart(call.in)
       /\ Brains!NewFactKept(call.in)
  /\ call.of = "author" => Brains!AuthorLeavesTheRest(call.in)
\* Each act of a curation runs under the brain and the sandbox configured for it.
ActsRunWhereConfigured == call.of = "route" => Routes!ActsRunWhereConfigured(call.in)
\* An import loses no note but a copy of one it keeps, gives each basename one path,
\* lets every link lead where it led or reports it, grounds every concept that is no
\* stub in a source, and reaches every concept from the maps and the index.
ImportIsFaithful ==
  call.of = "import" => Imports!ImportIsFaithful(call.in)
\* A conversion keeps every note, source and tag or writes nothing, lets every link
\* lead to the text it led to, and gives each basename one path.
ConversionIsFaithful ==
  call.of = "convert" => Converts!ConversionIsFaithful(call.in)
\* A pack holds the best claims that may be injected and fit, whatever a person
\* writes in notes of his own.
PackIsBestFit ==
  call.of = "pack" => Golds!BestClaimsFit(call.in) /\ Golds!PeopleNeverCount(call.in)
\* A query scores with the shortest walk, loses no hit to its prefilter, gives a
\* person's links and names no credit and returns no hit without a query token in a
\* field of its own; a drawing shows what its request asks for, or says less.
ReaderIsExact ==
  /\ call.of = "query" => Reads!QueryIsExact(call.in)
  /\ call.of = "draw" => Reads!GraphIsTrue(call.in)
\* repo init, cut anywhere and run again, ends where one run ends, has committed what
\* it wrote but after a cut between its commits, and converts no schema-1 repo unasked.
InitIsRepeatable ==
  call.of = "init" =>
    /\ Founds!RerunConverges(call.in)
    /\ Founds!SuccessIsCommitted(call.in)
    /\ Founds!NoSilentConversion(call.in)
\* A batch of uploads is refused whole or answered file by file.
BatchIsAnswered == call.of = "upload" => Faces!BatchIsAnswered(call.in)
=============================================================================
