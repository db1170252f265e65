---------------------------- MODULE CampaignSuite ----------------------------
(***************************************************************************)
(* The verifier of a published suite of campaigns (prospect-cli,           *)
(* kv_campaign_suite.rs): a suite manifest, and for every retained count a *)
(* campaign pack and its published verification, read file by file from a  *)
(* directory under one budget of bytes (input.rs).  Every campaign's       *)
(* specification is pinned by its digest.  The specifications and the      *)
(* records are read twice.  Meanwhile an exporter may replace files, one   *)
(* by one, by those of another export.                                     *)
(***************************************************************************)
EXTENDS KvObserved

CONSTANTS
  Generation,    \* the contract the caller asks for: "r1" or "r2"
  Policies,      \* the policies of a campaign, in order
  RetainCounts,  \* the retained counts of the suite, in order
  InputTokens,   \* the length of the input
  PerFile,       \* the most bytes read of one file
  Totals,        \* budgets a caller may set for all the reading
  Exports,       \* what the exports of one contract observed: policy |-> metrics
  Rewrites,      \* <<published, target>>: which export another one replaces
  Damages        \* how a file may be damaged before the verifier starts

VARIABLES
  disk,     \* the directory: entry |-> its file
  target,   \* the export the exporter is writing
  at,       \* the verifier's next step
  budget,   \* the read budget
  got,      \* what it has read of the present pack
  again,    \* the records it has read again
  closed,   \* the packs it has finished with
  verdict,
  total,    \* history: the budget it was given
  consumed, \* history: every read that took bytes, <<entry, bytes, bytes so far>>
  written,  \* history: a file was replaced while it ran...
  torn      \* ... after that file had been read

vars == <<disk, target, at, budget, got, again, closed, verdict,
          total, consumed, written, torn>>

Campaigns == DOMAIN RetainCounts

\* Sizes and limits are counts of bytes; a suite has campaigns, and those policies.
\* Exports are numbered from 1; a damaged file is not empty (that is no JSON), nor does
\* it become the file of another export.
ASSUME SuiteAssumption ==
  /\ RetainCounts \in Seq(Nat) /\ RetainCounts # << >>
  /\ Policies \in Seq(STRING) /\ Policies # << >>
  /\ PerFile \in Nat /\ Totals \subseteq Nat
  /\ \A what \in Damages :
       /\ "version" \notin DOMAIN what
       /\ "size" \in DOMAIN what => what["size"] \in Nat \ {0}
       /\ "advertised" \in DOMAIN what => what["advertised"] \in Nat
  /\ 1 \in DOMAIN Exports /\ DOMAIN Exports \subseteq Nat \ {0}
  /\ Rewrites \subseteq (DOMAIN Exports \cup {0}) \X (DOMAIN Exports \cup {0})

-----------------------------------------------------------------------------
(* What the two contracts pin.                                             *)

BytesPerToken == 1

Input == [i \in 1..InputTokens |-> i]

\* The first policy keeps the last tokens, the second the first ones.
PositionsKept(c, i) ==
  LET n == RetainCounts[c]
  IN  [k \in 1..n |-> IF i = 1 THEN InputTokens - n + k - 1 ELSE k - 1]

Specification(g, c) ==
  [form |-> "good", context |-> <<g, RetainCounts[c]>>, revision |-> "hex",
   bytesPerToken |-> BytesPerToken, input |-> Input, evaluation |-> <<1>>,
   selections |-> [i \in DOMAIN Policies |->
                     [policy |-> Policies[i], positions |-> PositionsKept(c, i)]]]

\* SuiteContract: R1_CONTRACT and R2_CONTRACT.
Contract(g) ==
  [schema |-> g, provenance |-> g, root |-> g,
   digests |-> [c \in Campaigns |-> Sha256(Specification(g, c))]]

PreregisteredTrace == TraceDigest(Specification(Generation, 1))

-----------------------------------------------------------------------------
(* The files.  An export of a contract is told by its version; a name is a *)
(* campaign, 0 for the suite itself, and a role in it.                     *)

Versions == DOMAIN Exports \cup {0}   \* 0: a suite of the other contract

GenerationOf(v) == IF v # 0 THEN Generation ELSE IF Generation = "r2" THEN "r1" ELSE "r2"

SuiteFile    == <<0, "suite", 0>>
SuiteExtra   == <<0, "extra", 0>>
Pack(c)      == <<c, "pack", 0>>
Published(c) == <<c, "verification", 0>>
Manifest(c)  == <<c, "manifest", 0>>
Campaign(c)  == <<c, "campaign", 0>>
Record(c, i) == <<c, "selection", i - 1>>
PackExtra(c) == <<c, "extra", 0>>

Records(c)   == {Record(c, i) : i \in DOMAIN Policies}
PackFiles(c) == Records(c) \cup {Manifest(c), Campaign(c)}
Files        == {SuiteFile} \cup UNION {PackFiles(c) \cup {Published(c)} : c \in Campaigns}
Extras       == {SuiteExtra} \cup {PackExtra(c) : c \in Campaigns}
Entries      == Files \cup Extras \cup {Pack(c) : c \in Campaigns}

MetricsOf(v) == Exports[IF v = 0 THEN 1 ELSE v]

\* The suite manifest of an export.
SuiteText(g) ==
  [form |-> "good", schema |-> g, provenance |-> g, bytesPerToken |-> BytesPerToken,
   campaigns |-> [c \in Campaigns |->
     [retained |-> RetainCounts[c], path |-> <<g, RetainCounts[c]>>,
      output |-> RetainCounts[c], verification |-> RetainCounts[c],
      digest |-> Sha256(Specification(g, c)),
      trace |-> TraceDigest(Specification(g, c)),
      count |-> Len(Policies), policies |-> Policies]]]

PublishedText(c, v) ==
  LET spec == Specification(GenerationOf(v), c)
  IN  [form |-> "good",
       summary |-> PackSummary(VerifiedPack(ExportedManifest(spec, MetricsOf(v)),
                                            ExportedFiles(spec, MetricsOf(v))))]

TextOf(name, v) ==
  LET c    == name[1]
      spec == Specification(GenerationOf(v), c)
  IN  CASE name[2] = "suite"        -> SuiteText(GenerationOf(v))
        [] name[2] = "manifest"     -> ExportedManifest(spec, MetricsOf(v))
        [] name[2] = "campaign"     -> spec
        [] name[2] = "selection"    -> ExportedRecord(spec, name[3] + 1,
                                                      MetricsOf(v)[name[3] + 1])
        [] name[2] = "verification" -> PublishedText(c, v)

Texts == [name \in Files |-> [v \in Versions |-> TextOf(name, v)]]

\* Exports that write a file alike are the same version of it.
SameTexts == [name \in Files |-> [v \in Versions |->
  LowestOf({u \in Versions : Texts[name][u] = Texts[name][v]})]]

VersionOf(name, v) == SameTexts[name][v]

Plain(name, v) ==
  [type |-> "file", size |-> 1, advertised |-> 1, version |-> VersionOf(name, v),
   form |-> "good"]

Absent == [type |-> "absent", size |-> 0, advertised |-> 0, version |-> 0, form |-> "good"]

Directory == [Absent EXCEPT !.type = "dir"]

Fresh(v) ==
  [name \in Entries |->
     IF name \in Files THEN Plain(name, v)
     ELSE IF name \in Extras THEN Absent ELSE Directory]

\* The text of a file as it was read.
Text(name, file) == [Texts[name][file.version] EXCEPT !.form = file.form]

\* A damaged file differs from it in some fields.
Damaged(file, what) ==
  [f \in DOMAIN file |-> IF f \in DOMAIN what THEN what[f] ELSE file[f]]

-----------------------------------------------------------------------------
(* input.rs: the budget.                                                   *)

NewBudget(bytes) == [perFile |-> PerFile, remaining |-> bytes, failed |-> FALSE]

Allowed == LowestOf({budget.perFile, budget.remaining})

\* The metadata is looked at before the file is opened...
MetadataOk(file) == file.type = "file" /\ file.advertised <= Allowed

\* ... and at most one byte more than allowed is read of it.
StreamedBytes(file) == LowestOf({file.size, Allowed + 1})

\* Fault: the metadata is believed.
ReadErrorByMetadata(file) ==
  FirstError(<< <<budget.failed, "Closed">>, <<~MetadataOk(file), "Metadata">>,
                <<file.form = "binary", "NotUtf8">> >>)

ReadError(file) ==
  FirstError(<< <<budget.failed, "Closed">>,
                <<file.type = "absent", "NotFound">>,
                <<file.type # "file", "NotRegular">>,
                <<file.advertised > Allowed, "Limit">>,
                <<file.size > Allowed, "Limit">>,
                <<file.form = "binary", "NotUtf8">> >>)

\* What the reads have taken, up to the k-th.
Spent(k) == IF k = 0 THEN 0 ELSE consumed[k][3]

ReadText(name) ==
  LET file  == disk[name]
      bytes == IF ~budget.failed /\ MetadataOk(file) THEN StreamedBytes(file) ELSE 0
  IN  /\ budget' = [budget EXCEPT
                      !.remaining = IF @ > bytes THEN @ - bytes ELSE 0,
                      !.failed = @ \/ ReadError(file) # NoError]
      /\ consumed' = IF bytes = 0 THEN consumed
                     ELSE Append(consumed, <<name, bytes, Spent(Len(consumed)) + bytes>>)

\* kv_campaign_suite.rs asks for a regular file before it spends any budget.
RegularFileError(file) ==
  FirstError(<< <<file.type = "absent", "Io">>, <<file.type # "file", "EntryTypeMismatch">> >>)

SuiteReadError(file) ==
  FirstOf(<<RegularFileError(file), IF ReadError(file) # NoError THEN "Io" ELSE NoError>>)

SuiteRead(name) ==
  IF RegularFileError(disk[name]) # NoError THEN UNCHANGED <<budget, consumed>>
  ELSE ReadText(name)

-----------------------------------------------------------------------------
(* The checks of kv_campaign_suite.rs.                                     *)

SuiteErrors ==
  {"Io", "Json", "NonCanonicalManifest", "UnsupportedSchema", "ProvenanceMismatch",
   "InvalidManifest", "UnexpectedEntry", "EntryTypeMismatch", "CampaignVerification",
   "PublishedVerificationMismatch", "ComparisonInvalid", "BudgetMismatch",
   "CrossCampaignTraceMismatch", "CrossCampaignBaselineMismatch"}

\* validate_manifest
ManifestEntryChecks(manifest, c) ==
  LET entry == manifest.campaigns[c]
      root  == Contract(Generation).root
  IN  << <<entry.retained # RetainCounts[c], "InvalidManifest">>,
         <<\/ entry.digest # Contract(Generation).digests[c]
           \/ entry.trace # PreregisteredTrace, "ProvenanceMismatch">>,
         <<\/ entry.path # <<root, RetainCounts[c]>>
           \/ entry.output # RetainCounts[c]
           \/ entry.verification # RetainCounts[c], "InvalidManifest">>,
         <<entry.count # Len(Policies) \/ entry.policies # Policies, "InvalidManifest">> >>

SuiteManifestError(manifest) ==
  FirstOf(
    <<FirstError(
        << <<manifest.form = "noncanonical", "NonCanonicalManifest">>,
           <<manifest.form = "shape", "Json">>,
           <<manifest.form = "schema" \/ manifest.schema # Contract(Generation).schema,
             "UnsupportedSchema">>,
           <<manifest.provenance # Contract(Generation).provenance, "ProvenanceMismatch">>,
           <<manifest.bytesPerToken # BytesPerToken, "ProvenanceMismatch">>,
           <<Len(manifest.campaigns) # Len(RetainCounts), "InvalidManifest">> >>)>>
    \o [c \in Campaigns |-> FirstError(ManifestEntryChecks(manifest, c))])

\* validate_directory_entries.  (Which of several strange entries is named
\* first depends on the order the directory is listed in.)
DirectoryError ==
  LET dirs  == {Pack(c) : c \in Campaigns}
      files == {SuiteFile} \cup {Published(c) : c \in Campaigns}
  IN  FirstError(
        << <<disk[SuiteExtra].type # "absent", "UnexpectedEntry">>,
           <<\/ \E d \in dirs : disk[d].type \notin {"dir", "absent"}
             \/ \E f \in files : disk[f].type \notin {"file", "absent"},
             "EntryTypeMismatch">>,
           <<\E e \in dirs \cup files : disk[e].type = "absent", "InvalidManifest">> >>)

\* The entries of a pack's directory.
Listed(c) == {e \in PackFiles(c) \cup {PackExtra(c)} : disk[e].type # "absent"}

\* validate_campaign_entry_types
EntryTypesError(c) ==
  FirstError(
    << <<Cardinality(Listed(c)) > Len(Policies) + 2, "InvalidManifest">>,
       <<\E e \in Listed(c) : disk[e].type # "file", "EntryTypeMismatch">> >>)

\* What was read of a pack, as the pack's verifier gets it.
PackManifest(c, files) == Text(Manifest(c), files[Manifest(c)])
PackCampaign(c, files) == Text(Campaign(c), files[Campaign(c)])
PackRecords(c, files) ==
  [name \in {<<f[2], f[3]>> : f \in DOMAIN files \ {Manifest(c), Campaign(c)}} |->
     Text(<<c, name[1], name[2]>>, files[<<c, name[1], name[2]>>])]

SummaryOf(c, files) ==
  PackSummary(VerifiedPack(PackManifest(c, files), PackRecords(c, files)))

\* Fault: the summary is not held against the suite manifest.
PackVerdictAlone(c, files) ==
  IF PackError(PackManifest(c, files), PackCampaign(c, files), PackRecords(c, files)) # NoError
  THEN "CampaignVerification" ELSE NoError

\* verify_kv_campaign_directory_with_budget, once all is read, and
\* verify_manifest_campaign_summary against the suite manifest, which by then
\* says what the contract says.
PackVerdict(c, files) ==
  LET error == PackError(PackManifest(c, files), PackCampaign(c, files),
                         PackRecords(c, files))
      summary == SummaryOf(c, files)
  IN  IF \/ error # NoError
         \/ summary.campaignDigest # Contract(Generation).digests[c]
         \/ summary.traceDigest # PreregisteredTrace
         \/ summary.recordCount # Len(Policies)
         \/ summary.policies # Policies
      THEN "CampaignVerification" ELSE NoError

\* Fault: the published verification is compared by its values only.
PublishedErrorByValue(c, file) ==
  IF Text(Published(c), file).summary # SummaryOf(c, got)
  THEN "PublishedVerificationMismatch" ELSE NoError

\* verify_published_summary, which reads any JSON value and compares it: a field
\* too many or of another type is a mismatch too.  (A text that is no JSON at all,
\* which it refuses as Json, is none of the forms.)
PublishedError(c, file) ==
  LET published == Text(Published(c), file)
  IN  IF published.form # "good" \/ published.summary # SummaryOf(c, got)
      THEN "PublishedVerificationMismatch" ELSE NoError

\* verify_campaign_context, on the second reading of campaign.json
ContextError(c, file) ==
  LET campaign == Text(Campaign(c), file)
  IN  FirstError(
        << <<campaign.form = "shape", "Json">>,
           <<\/ campaign.form = "schema"
             \/ campaign.bytesPerToken # BytesPerToken
             \/ Len(campaign.input) # InputTokens
             \/ campaign.evaluation = << >>
             \/ Len(campaign.selections) # Len(Policies)
             \/ campaign.context # <<Generation, RetainCounts[c]>>,
             "CampaignVerification">>,
           <<\E i \in DOMAIN campaign.selections :
               \/ campaign.selections[i].policy # Policies[i]
               \/ Len(campaign.selections[i].positions) # RetainCounts[c],
             "BudgetMismatch">> >>)

\* load_observed_comparison, on the second reading of the records
ObservedRecords(c, files) ==
  [i \in DOMAIN files |-> PositionRecord(Text(Record(c, i), files[i]))]

RecordAgainError(c, i, file) ==
  IF PositionRecordError(Text(Record(c, i), file)) # NoError
  THEN "ComparisonInvalid" ELSE NoError

\* BaselineIdentity, which two campaigns of a suite must share to the bit: the
\* baseline of a comparison without the fingerprint of the record it is read from.
BaselineIdentity(c, files) ==
  LET baseline == PositionBaseline(ObservedRecords(c, files)[1])
  IN  [output |-> baseline.output, bytes |-> baseline.bytes,
       positions |-> baseline.positions, retained |-> baseline.retained,
       metrics |-> baseline.metrics]

SuiteBaseline == BaselineIdentity(1, closed[1].again)

\* Fault: campaigns are not compared with each other.
CloseErrorAlone(c) ==
  IF PositionComparisonError(ObservedRecords(c, again)) # NoError
  THEN "ComparisonInvalid" ELSE NoError

\* The end of the loop over the campaigns.
CloseError(c) ==
  LET comparison == ObservedRecords(c, again)
      kept == RetainCounts[c] * BytesPerToken
      gone == (InputTokens - RetainCounts[c]) * BytesPerToken
      summary == SummaryOf(c, got)
  IN  FirstError(
        << <<PositionComparisonError(comparison) # NoError, "ComparisonInvalid">>,
           <<\/ comparison[1].candidateBytes # kept
             \/ BaselineIdentity(c, again).bytes # InputTokens * BytesPerToken,
             "BudgetMismatch">>,
           <<closed # << >> /\ SuiteBaseline # BaselineIdentity(c, again),
             "CrossCampaignBaselineMismatch">>,
           <<closed # << >> /\ closed[1].traceDigest # summary.traceDigest,
             "CrossCampaignTraceMismatch">>,
           <<\E i \in DOMAIN summary.observations :
               \/ Len(summary.observations[i].positions) # RetainCounts[c]
               \/ summary.observations[i].retainedBytes # kept
               \/ summary.observations[i].evictedBytes # gone, "BudgetMismatch">> >>)

-----------------------------------------------------------------------------
(* The verifier.  A step is a phase in a campaign, with a record's number  *)
(* where records are read one by one.                                      *)

Step(phase, c) == [phase |-> phase, campaign |-> c, record |-> 0]

\* An export as it was published, or with one entry damaged.
Init ==
  /\ \/ \E pair \in Rewrites : disk = Fresh(pair[1]) /\ target = pair[2]
     \/ /\ target = 1
        /\ \E name \in Entries, what \in Damages :
             disk = [Fresh(1) EXCEPT ![name] = Damaged(@, what)]
  /\ at = Step("suite", 0)
  /\ total \in Totals
  /\ budget = NewBudget(total)
  /\ got = << >> /\ again = << >> /\ closed = << >>
  /\ verdict = "running"
  /\ consumed = << >> /\ written = FALSE /\ torn = FALSE

\* An error ends the verification; otherwise it goes on.
Judge(error, next) ==
  IF error # NoError
  THEN verdict' = error /\ at' = Step("done", 0)
  ELSE verdict' = verdict /\ at' = next

In(phase) == verdict = "running" /\ at.phase = phase

ReadSuiteManifest ==
  /\ In("suite")
  /\ SuiteRead(SuiteFile)
  /\ Judge(FirstOf(<<SuiteReadError(disk[SuiteFile]),
                     SuiteManifestError(Text(SuiteFile, disk[SuiteFile]))>>),
           Step("list", 0))
  /\ UNCHANGED <<disk, target, got, again, closed, total, written, torn>>

ListSuite ==
  /\ In("list")
  /\ Judge(DirectoryError, Step("types", 1))
  /\ UNCHANGED <<disk, target, budget, got, again, closed, consumed, total, written, torn>>

CheckEntryTypes ==
  /\ In("types")
  /\ Judge(EntryTypesError(at.campaign), Step("manifest", at.campaign))
  /\ UNCHANGED <<disk, target, budget, got, again, closed, consumed, total, written, torn>>

\* A file of the pack is read, whatever it says.
PackRead(name, next) ==
  /\ ReadText(name)
  /\ Judge(IF ReadError(disk[name]) # NoError THEN "CampaignVerification" ELSE NoError, next)
  /\ got' = IF ReadError(disk[name]) # NoError THEN got
            ELSE [n \in DOMAIN got \cup {name} |-> IF n = name THEN disk[name] ELSE got[n]]
  /\ UNCHANGED <<disk, target, again, closed, total, written, torn>>

ReadPackManifest ==
  /\ In("manifest")
  /\ PackRead(Manifest(at.campaign), Step("campaign", at.campaign))

ReadPackCampaign ==
  /\ In("campaign")
  /\ PackRead(Campaign(at.campaign), Step("evidence", at.campaign))

\* The evidence is read in the order the directory is listed in.
ReadEvidence ==
  /\ In("evidence")
  /\ \E name \in Listed(at.campaign) \ (DOMAIN got \cup {Manifest(at.campaign), Campaign(at.campaign)}) :
       PackRead(name, at)

VerifyPack ==
  /\ In("evidence")
  /\ Listed(at.campaign) \subseteq DOMAIN got
  /\ Judge(PackVerdict(at.campaign, got), Step("published", at.campaign))
  /\ UNCHANGED <<disk, target, budget, got, again, closed, consumed, total, written, torn>>

ReadPublished ==
  /\ In("published")
  /\ LET c    == at.campaign
         file == disk[Published(c)]
         error == SuiteReadError(file)
     IN  /\ SuiteRead(Published(c))
         /\ Judge(IF error # NoError THEN error ELSE PublishedError(c, file),
                  Step("context", c))
  /\ UNCHANGED <<disk, target, got, again, closed, total, written, torn>>

ReadContext ==
  /\ In("context")
  /\ LET c    == at.campaign
         file == disk[Campaign(c)]
         error == SuiteReadError(file)
     IN  /\ SuiteRead(Campaign(c))
         /\ Judge(IF error # NoError THEN error ELSE ContextError(c, file),
                  [Step("records", c) EXCEPT !.record = 1])
  /\ UNCHANGED <<disk, target, got, again, closed, total, written, torn>>

ReadRecordAgain ==
  /\ In("records")
  /\ LET c    == at.campaign
         i    == at.record
         file == disk[Record(c, i)]
         error == SuiteReadError(file)
     IN  /\ SuiteRead(Record(c, i))
         /\ Judge(IF error # NoError THEN error ELSE RecordAgainError(c, i, file),
                  IF i < Len(Policies) THEN [at EXCEPT !.record = i + 1]
                  ELSE Step("close", c))
         /\ again' = IF error # NoError THEN again ELSE Append(again, file)
  /\ UNCHANGED <<disk, target, got, closed, total, written, torn>>

CloseCampaign ==
  /\ In("close")
  /\ LET c == at.campaign
     IN  /\ Judge(CloseError(c),
                  IF c < Len(RetainCounts) THEN Step("types", c + 1) ELSE Step("accept", 0))
         /\ closed' = Append(closed, [again |-> again, got |-> got,
                                      traceDigest |-> SummaryOf(c, got).traceDigest])
  /\ got' = << >> /\ again' = << >>
  /\ UNCHANGED <<disk, target, budget, consumed, total, written, torn>>

Accept ==
  /\ In("accept")
  /\ verdict' = "accepted"
  /\ at' = Step("done", 0)
  /\ UNCHANGED <<disk, target, budget, got, again, closed, consumed, total, written, torn>>

\* The exporter replaces one file (after the verdict nobody looks).
WasRead(name) == \E k \in DOMAIN consumed : consumed[k][1] = name

\* It writes one pack before it begins another.
Whole(c) ==
  \E v \in Versions : \A name \in PackFiles(c) \cup {Published(c)} :
    disk[name].version = VersionOf(name, v)

Rewrite ==
  /\ verdict = "running"
  /\ \E name \in Files :
       /\ disk[name].version # VersionOf(name, target)
       /\ \A c \in Campaigns \ {name[1]} : Whole(c)
       /\ disk' = [disk EXCEPT ![name] = Plain(name, target)]
       /\ torn' = (torn \/ WasRead(name))
  /\ written' = (written \/ at.phase # "suite")
  /\ UNCHANGED <<target, at, budget, got, again, closed, verdict, total, consumed>>

Verify ==
  \/ ReadSuiteManifest \/ ListSuite \/ CheckEntryTypes
  \/ ReadPackManifest \/ ReadPackCampaign \/ ReadEvidence \/ VerifyPack
  \/ ReadPublished \/ ReadContext \/ ReadRecordAgain \/ CloseCampaign \/ Accept

Next == Verify \/ Rewrite

Spec == Init /\ [][Next]_vars

-----------------------------------------------------------------------------
(* Properties.                                                             *)

\* What the summary of an accepted suite says of a campaign.
Reported(c) == SummaryOf(c, closed[c].got)

\* Whatever is written to the directory meanwhile, an accepted suite reports the
\* preregistered specifications: every retained count once and in order, every
\* policy with the pinned positions and bytes.  And what it reports of a campaign
\* was observed in one export, although its records were read one by one.
\* (PREREGISTERED_CAMPAIGN_SHA256 and the chain of digests below it.)
AcceptedSuiteIsPreregistered ==
  verdict = "accepted" =>
    /\ Len(closed) = Len(RetainCounts)
    /\ \A c \in Campaigns :
         LET observations == Reported(c).observations
         IN  /\ Reported(c).campaignDigest = Sha256(Specification(Generation, c))
             /\ \E v \in Versions \ {0} :
                  observations = PackSummary(VerifiedPack(
                    ExportedManifest(Specification(Generation, c), MetricsOf(v)),
                    ExportedFiles(Specification(Generation, c), MetricsOf(v)))).observations

\* An accepted suite names one baseline.  It is taken from the second reading of
\* the records; as long as no file was replaced after it had been read, it is the
\* baseline of every observation the suite reports, which came from the first.
BaselineIsShared ==
  verdict = "accepted" /\ ~torn =>
    \A c \in Campaigns : \A o \in Elements(Reported(c).observations) :
      [i \in DOMAIN o.metrics |-> Side(o.metrics[i], o.metrics[i].baseline)]
        = SuiteBaseline.metrics

\* The directory as it stands is a suite of this contract.
Intact ==
  /\ \A name \in Files : disk[name].type = "file" /\ disk[name].form = "good"
                          /\ disk[name].size <= PerFile
  /\ \A name \in Extras : disk[name].type = "absent"
  /\ \A c \in Campaigns : disk[Pack(c)].type = "dir"
  /\ \E v \in [Campaigns -> Versions \ {0}] :
       /\ \A c \in Campaigns :
            /\ \A name \in PackFiles(c) \cup {Published(c)} :
                 disk[name].version = VersionOf(name, v[c])
            /\ \A i \in DOMAIN MetricsOf(v[c]) : \A k \in DOMAIN MetricsOf(v[c])[i] :
                 MetricsOf(v[c])[i][k].baseline = MetricsOf(v[1])[1][k].baseline
       /\ disk[SuiteFile].version = VersionOf(SuiteFile, v[1])

\* What reading it takes: specifications and records are read twice.
BytesNeeded ==
  LET times(name) == IF name[2] \in {"campaign", "selection"} THEN 2 ELSE 1
  IN  MapThenSumSet(LAMBDA name : times(name) * disk[name].size, Files)

\* If nothing is written once the verification has begun, the verdict is right: a
\* suite is accepted exactly when it is the intact export of this contract, or a
\* mixture of exports that agree on the baseline, and the budget pays for every
\* reading of it.
VerdictIsRight ==
  verdict # "running" /\ ~written =>
    /\ verdict = "accepted" <=> Intact /\ BytesNeeded <= total
    /\ verdict # "accepted" => verdict \in SuiteErrors

\* The budget bounds the work whatever the files' metadata promised: a read goes
\* at most one byte beyond what was allowed, and then it is the last one; what an
\* accepted suite cost was within the budget, each file as often as it was read.
BudgetBoundsReading ==
  /\ \A k \in DOMAIN consumed : consumed[k][2] <= PerFile + 1
  /\ Spent(Len(consumed)) <= total + 1
  /\ (\E k \in DOMAIN consumed : consumed[k][2] > PerFile \/ Spent(k) > total)
       => budget.failed /\ verdict # "accepted"
  /\ budget.failed => verdict # "running" /\ verdict # "accepted"
=============================================================================
