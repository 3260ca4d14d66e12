--------------------------- MODULE PublicExportProofs ---------------------------
(****************************************************************************)
(* The exporter, for any number of cases and of suites that write to the    *)
(* run directory while it reads.  The inductive invariant says that every   *)
(* content the exporter holds was written whole by some suite, that a       *)
(* stream was compared with its record when it was read, and that what is   *)
(* published is what was read and has been validated.                       *)
(****************************************************************************)
EXTENDS PublicExport, TLAPS

Positions == {"idle", "results", "summary", "environment", "streams",
              "source_files", "validate", "written", "refused"}
HasRecords == {"summary", "environment", "streams", "source_files", "validate",
               "written"}
HasSummary == HasRecords \ {"summary"}
HasEnvironment == HasSummary \ {"environment"}
HasStreams == {"source_files", "validate", "written"}
HasFiles   == {"validate", "written"}
NoStreams  == {"idle", "results", "summary", "environment"}
NoFiles    == NoStreams \cup {"streams"}

TornDigest == [form |-> "torn", flags |-> {}]
Contents   == {Content(suites[s], f) : s \in Suites, f \in File}

Seen == [records : Seq(Contents), summary : Contents \cup {NoValue},
         environment : Contents \cup {NoValue}, streams : Seq(Contents),
         files : Seq(Contents \cup {TornDigest})]

(* How far the reads have come. *)
Progress ==
    /\ Len(seen.records) <= Cases
    /\ Len(seen.streams) <= Cases
    /\ Len(seen.files) <= Cases
    /\ pc = "idle"         => Len(seen.records) = 0
    /\ pc = "results"      => Len(seen.records) < Cases
    /\ pc = "streams"      => Len(seen.streams) < Cases
    /\ pc = "source_files" => Len(seen.files) < Cases
    /\ pc \in NoStreams => Len(seen.streams) = 0
    /\ pc \in NoFiles => Len(seen.files) = 0
    /\ pc \in HasRecords => Len(seen.records) = Cases
    /\ pc \in HasStreams => Len(seen.streams) = Cases
    /\ pc \in HasFiles => Len(seen.files) = Cases
    /\ Len(seen.files) > 0 =>
          Len(seen.records) = Cases /\ Len(seen.streams) = Cases

(* Every result is one of some suite's, and so is the summary. *)
RecordsAreOnes ==
    \A c \in 1..Len(seen.records) :
        \E s \in Suites : seen.records[c] = Content(suites[s], result(c))

SummaryIsOnes ==
    pc \in HasSummary => \E s \in Suites : seen.summary = Content(suites[s], summary)

StreamsMatchRecords ==
    \A c \in 1..Len(seen.streams) :
        seen.streams[c] = seen.records[c].case.raw.stdout

PublishedIsValid ==
    published # NoValue =>
        published = seen /\ pc = "written" /\ Valid(seen)

ExportInv ==
    /\ pc \in Positions
    /\ seen \in Seen
    /\ Progress
    /\ RecordsAreOnes
    /\ SummaryIsOnes
    /\ StreamsMatchRecords
    /\ PublishedIsValid

LEMMA ExportInit == Init => ExportInv
<1> SUFFICES ASSUME Init PROVE ExportInv
  OBVIOUS
<1>1. /\ pc = "idle" /\ published = NoValue
      /\ seen = [records |-> << >>, summary |-> NoValue, environment |-> NoValue,
                 streams |-> << >>, files |-> << >>]
  BY DEF Init, NothingRead
<1>2. seen \in Seen
  BY <1>1 DEF Seen
<1>3. Len(seen.records) = 0 /\ Len(seen.streams) = 0 /\ Len(seen.files) = 0
  BY <1>1
<1>4. Progress
  BY <1>1, <1>3, CasesAssumption DEF Progress, HasRecords, HasStreams, HasFiles, NoStreams, NoFiles
<1>5. RecordsAreOnes /\ SummaryIsOnes /\ StreamsMatchRecords /\ PublishedIsValid
  BY <1>1, <1>3 DEF RecordsAreOnes, SummaryIsOnes, StreamsMatchRecords,
                    PublishedIsValid, HasSummary, HasRecords
<1> QED
  BY <1>1, <1>2, <1>4, <1>5 DEF ExportInv, Positions

(* A step that reads nothing and does not write the artifact. *)
LEMMA QuietStep ==
  ASSUME ExportInv, UNCHANGED <<suites, seen, published>>,
         pc' = pc \/ (pc' = "refused" /\ pc # "written")
         \/ (pc = "idle" /\ pc' = "results")
  PROVE  ExportInv'
<1>1. pc' \in Positions /\ seen' \in Seen'
  BY DEF ExportInv, Positions, Seen, Contents
<1>2. Progress'
  BY CasesAssumption
     DEF ExportInv, Progress, Positions, HasRecords, HasStreams, HasFiles, NoStreams, NoFiles
<1>3. RecordsAreOnes' /\ StreamsMatchRecords'
  BY DEF ExportInv, RecordsAreOnes, StreamsMatchRecords
<1>4. SummaryIsOnes'
  BY DEF ExportInv, SummaryIsOnes, HasSummary, HasRecords
<1>5. PublishedIsValid'
  BY DEF ExportInv, PublishedIsValid
<1> QED
  BY <1>1, <1>2, <1>3, <1>4, <1>5 DEF ExportInv

(* What the exporter finds whole in a file was written by some suite. *)
LEMMA ReadIsContent ==
  ASSUME NEW f \in File, Holds(f)
  PROVE  /\ Read(f) \in Contents
         /\ \E s \in Suites : Read(f) = Content(suites[s], f)
BY DEF Holds, Read, Contents

LEMMA ReadResultStep ==
  ASSUME ExportInv, ReadResult
  PROVE  ExportInv'
<1> DEFINE c == Len(seen.records) + 1
<1>1. pc = "results" /\ UNCHANGED suites
  BY DEF ReadResult, Environment
<1>2. CASE /\ Holds(result(c))
           /\ seen' = [seen EXCEPT !.records = Append(@, Read(result(c)))]
           /\ pc' = IF c = Cases THEN "summary" ELSE pc
           /\ UNCHANGED published
  <2>1. /\ seen \in Seen /\ Len(seen.records) \in Nat /\ c <= Cases
        /\ Len(seen.streams) \in Nat /\ Len(seen.files) \in Nat
    BY <1>1, CasesAssumption DEF ExportInv, Progress, Seen
  <2>2. c \in Case /\ result(c) \in File
    BY <2>1, CasesAssumption DEF Case, File
  <2>3. PICK s \in Suites : Read(result(c)) = Content(suites[s], result(c))
    BY <1>2, <2>2, ReadIsContent
  <2>4. Read(result(c)) \in Contents
    BY <1>2, <2>2, ReadIsContent
  <2>5. /\ seen'.records = Append(seen.records, Read(result(c)))
        /\ UNCHANGED <<seen.streams, seen.files, seen.summary>>
        /\ seen' \in Seen
    <3>1. Append(seen.records, Read(result(c))) \in Seq(Contents)
      BY <2>1, <2>4 DEF Seen
    <3> HIDE DEF c
    <3> QED
      BY <1>2, <2>1, <3>1 DEF Seen
  <2>6. seen' \in Seen' /\ pc' \in {"summary", "results"}
    <3>1. Seen' = Seen
      BY <1>1 DEF Seen, Contents
    <3> HIDE DEF c
    <3>2. pc' \in {"summary", "results"}
      BY <1>1, <1>2
    <3> QED
      BY <2>5, <3>1, <3>2
  <2>7. Len(seen'.records) = c
    BY <2>1, <2>5 DEF Seen
  <2>8. Len(seen.streams) = 0 /\ Len(seen.files) = 0
    BY <1>1, <2>1 DEF ExportInv, Progress, NoStreams, NoFiles
  <2>9. Progress'
    <3>1. pc' = "results" => c < Cases
      BY <1>1, <1>2, <2>1, CasesAssumption
    <3>2. pc' = "summary" => c = Cases
      BY <1>1, <1>2
    <3>3. Len(seen'.streams) = 0 /\ Len(seen'.files) = 0
      BY <2>5, <2>8
    <3>4. pc' \notin HasStreams /\ pc' \notin HasFiles
      BY <2>6 DEF HasStreams, HasFiles, NoStreams, NoFiles
    <3> QED
      BY <2>1, <2>6, <2>7, <3>1, <3>2, <3>3, <3>4, CasesAssumption
         DEF Progress, HasRecords
  <2>10. RecordsAreOnes'
    <3> SUFFICES ASSUME NEW k \in 1..Len(seen'.records)
                 PROVE  \E t \in Suites : seen'.records[k] = Content(suites[t], result(k))
      BY <1>1 DEF RecordsAreOnes
    <3>1. CASE k = c
      BY <2>1, <2>3, <2>5, <3>1 DEF Seen
    <3>2. CASE k # c
      BY <2>1, <2>5, <2>7, <3>2 DEF ExportInv, RecordsAreOnes, Seen
    <3> QED
      BY <3>1, <3>2
  <2>11. SummaryIsOnes' /\ StreamsMatchRecords'
    BY <2>5, <2>6, <2>8 DEF SummaryIsOnes, StreamsMatchRecords, HasSummary, HasRecords
  <2>12. PublishedIsValid'
    BY <1>1, <1>2 DEF ExportInv, PublishedIsValid
  <2>13. pc' \in Positions
    BY <2>6 DEF Positions
  <2> QED
    BY <2>6, <2>9, <2>10, <2>11, <2>12, <2>13 DEF ExportInv
<1>3. CASE Refuse
  BY <1>1, <1>3, QuietStep DEF Refuse
<1> QED
  BY <1>1, <1>2, <1>3 DEF ReadResult

(* A step that reads the summary or the environment. *)
LEMMA ReadSummaryStep ==
  ASSUME ExportInv, ReadSummary
  PROVE  ExportInv'
<1>1. pc = "summary" /\ UNCHANGED suites
  BY DEF ReadSummary, Environment
<1>2. CASE /\ Holds(summary)
           /\ seen' = [seen EXCEPT !.summary = Read(summary)]
           /\ pc' = "environment"
           /\ UNCHANGED published
  <2>1. summary \in File
    BY DEF File
  <2>2. /\ Read(summary) \in Contents
        /\ \E s \in Suites : Read(summary) = Content(suites[s], summary)
    BY <1>2, <2>1, ReadIsContent
  <2>3. /\ seen'.summary = Read(summary)
        /\ UNCHANGED <<seen.records, seen.streams, seen.files>>
        /\ seen' \in Seen
    BY <1>2, <2>2 DEF ExportInv, Seen
  <2>4. seen' \in Seen'
    BY <1>1, <2>3 DEF Seen, Contents
  <2>5. Progress'
    BY <1>1, <1>2, <2>3 DEF ExportInv, Progress, HasRecords, HasStreams, HasFiles, NoStreams, NoFiles
  <2>6. RecordsAreOnes' /\ StreamsMatchRecords' /\ SummaryIsOnes'
    BY <1>1, <2>2, <2>3
       DEF ExportInv, RecordsAreOnes, StreamsMatchRecords, SummaryIsOnes
  <2>7. PublishedIsValid'
    BY <1>1, <1>2 DEF ExportInv, PublishedIsValid
  <2> QED
    BY <1>2, <2>4, <2>5, <2>6, <2>7 DEF ExportInv, Positions
<1>3. CASE Refuse
  BY <1>1, <1>3, QuietStep DEF Refuse
<1> QED
  BY <1>1, <1>2, <1>3 DEF ReadSummary

LEMMA ReadEnvironmentStep ==
  ASSUME ExportInv, ReadEnvironment
  PROVE  ExportInv'
<1>1. pc = "environment" /\ UNCHANGED suites
  BY DEF ReadEnvironment, Environment
<1>2. CASE /\ Holds(environment)
           /\ seen' = [seen EXCEPT !.environment = Read(environment)]
           /\ pc' = "streams"
           /\ UNCHANGED published
  <2>1. environment \in File
    BY DEF File
  <2>2. Read(environment) \in Contents
    BY <1>2, <2>1, ReadIsContent
  <2>3. /\ UNCHANGED <<seen.summary, seen.records, seen.streams, seen.files>>
        /\ seen' \in Seen
    BY <1>2, <2>2 DEF ExportInv, Seen
  <2>4. seen' \in Seen'
    BY <1>1, <2>3 DEF Seen, Contents
  <2>5. Progress'
    BY <1>1, <1>2, <2>3, CasesAssumption
       DEF ExportInv, Progress, HasRecords, HasStreams, HasFiles, NoStreams, NoFiles
  <2>6. RecordsAreOnes' /\ StreamsMatchRecords' /\ SummaryIsOnes'
    BY <1>1, <2>3 DEF ExportInv, RecordsAreOnes, StreamsMatchRecords,
                      SummaryIsOnes, HasSummary, HasRecords
  <2>7. PublishedIsValid'
    BY <1>1, <1>2 DEF ExportInv, PublishedIsValid
  <2> QED
    BY <1>2, <2>4, <2>5, <2>6, <2>7 DEF ExportInv, Positions
<1>3. CASE Refuse
  BY <1>1, <1>3, QuietStep DEF Refuse
<1> QED
  BY <1>1, <1>2, <1>3 DEF ReadEnvironment

LEMMA ReadStreamStep ==
  ASSUME ExportInv, ReadStream
  PROVE  ExportInv'
<1> DEFINE c == Len(seen.streams) + 1
<1>1. pc = "streams" /\ UNCHANGED suites
  BY DEF ReadStream, Environment
<1>2. CASE /\ Holds(raw(c))
           /\ PublicStream(Read(raw(c)), seen.records[c].case.raw.stdout,
                           candidate_dependent)
           /\ seen' = [seen EXCEPT !.streams = Append(@, Read(raw(c)))]
           /\ pc' = IF c = Cases THEN "source_files" ELSE pc
           /\ UNCHANGED published
  <2>1. /\ seen \in Seen /\ Len(seen.streams) \in Nat /\ c <= Cases
        /\ Len(seen.records) = Cases /\ Len(seen.files) = 0
    BY <1>1, CasesAssumption
       DEF ExportInv, Progress, Seen, HasRecords, NoFiles
  <2>2. c \in Case /\ raw(c) \in File
    BY <2>1, CasesAssumption DEF Case, File
  <2>3. Read(raw(c)) \in Contents
    BY <1>2, <2>2, ReadIsContent
  <2>4. Read(raw(c)) = seen.records[c].case.raw.stdout
    BY <1>2 DEF PublicStream
  <2>5. /\ seen'.streams = Append(seen.streams, Read(raw(c)))
        /\ UNCHANGED <<seen.records, seen.files, seen.summary>>
        /\ seen' \in Seen
    <3>1. Append(seen.streams, Read(raw(c))) \in Seq(Contents)
      BY <2>1, <2>3 DEF Seen
    <3> HIDE DEF c
    <3> QED
      BY <1>2, <2>1, <3>1 DEF Seen
  <2>6. seen' \in Seen' /\ pc' \in {"source_files", "streams"}
    <3>1. Seen' = Seen
      BY <1>1 DEF Seen, Contents
    <3> HIDE DEF c
    <3>2. pc' \in {"source_files", "streams"}
      BY <1>1, <1>2
    <3> QED
      BY <2>5, <3>1, <3>2
  <2>7. Len(seen'.streams) = c
    BY <2>1, <2>5 DEF Seen
  <2>8. Progress'
    <3>1. pc' = "streams" => c < Cases
      BY <1>1, <1>2, <2>1, CasesAssumption
    <3>2. pc' = "source_files" => c = Cases
      BY <1>1, <1>2
    <3>3. Len(seen'.files) = 0 /\ Len(seen'.records) = Cases
      BY <2>1, <2>5
    <3> QED
      BY <2>1, <2>6, <2>7, <3>1, <3>2, <3>3, CasesAssumption
         DEF Progress, HasRecords, HasStreams, HasFiles, NoStreams, NoFiles
  <2>9. StreamsMatchRecords'
    <3> SUFFICES ASSUME NEW k \in 1..Len(seen'.streams)
                 PROVE  seen'.streams[k] = seen'.records[k].case.raw.stdout
      BY DEF StreamsMatchRecords
    <3>1. CASE k = c
      BY <2>1, <2>4, <2>5, <3>1 DEF Seen
    <3>2. CASE k # c
      BY <2>1, <2>5, <2>7, <3>2 DEF ExportInv, StreamsMatchRecords, Seen
    <3> QED
      BY <3>1, <3>2
  <2>10. RecordsAreOnes' /\ SummaryIsOnes'
    BY <1>1, <2>5, <2>6
       DEF ExportInv, RecordsAreOnes, SummaryIsOnes, HasSummary, HasRecords
  <2>11. PublishedIsValid'
    BY <1>1, <1>2 DEF ExportInv, PublishedIsValid
  <2> QED
    BY <2>6, <2>8, <2>9, <2>10, <2>11 DEF ExportInv, Positions
<1>3. CASE Refuse
  BY <1>1, <1>3, QuietStep DEF Refuse
<1> QED
  BY <1>1, <1>2, <1>3 DEF ReadStream

LEMMA DigestFileStep ==
  ASSUME ExportInv, DigestFile
  PROVE  ExportInv'
<1> DEFINE c == Len(seen.files) + 1
           digest == IF Holds(raw(c)) THEN Read(raw(c)) ELSE TornDigest
<1>1. /\ pc = "source_files" /\ UNCHANGED <<suites, published>>
      /\ seen' = [seen EXCEPT !.files = Append(@, digest)]
      /\ pc' = IF c = Cases THEN "validate" ELSE pc
  BY DEF DigestFile, Environment, TornDigest
<1>2. /\ seen \in Seen /\ Len(seen.files) \in Nat /\ c <= Cases
      /\ Len(seen.records) = Cases /\ Len(seen.streams) = Cases
  BY <1>1, CasesAssumption DEF ExportInv, Progress, Seen, HasRecords, HasStreams
<1>3. c \in Case /\ raw(c) \in File
  BY <1>2, CasesAssumption DEF Case, File
<1>4. digest \in Contents \cup {TornDigest}
  BY <1>3, ReadIsContent
<1>5. /\ seen'.files = Append(seen.files, digest)
      /\ UNCHANGED <<seen.records, seen.streams, seen.summary>>
      /\ seen' \in Seen
  <2>1. Append(seen.files, digest) \in Seq(Contents \cup {TornDigest})
    BY <1>2, <1>4 DEF Seen
  <2> HIDE DEF c, digest
  <2> QED
    BY <1>1, <1>2, <2>1 DEF Seen
<1>6. seen' \in Seen' /\ pc' \in {"source_files", "validate"}
  <2>1. Seen' = Seen
    BY <1>1 DEF Seen, Contents
  <2> HIDE DEF c, digest
  <2> QED
    BY <1>1, <1>5, <2>1
<1> HIDE DEF digest
<1>7. Len(seen'.files) = c
  BY <1>2, <1>4, <1>5 DEF Seen
<1>8. Progress'
  <2>1. pc' = "source_files" => c < Cases
    BY <1>1, <1>2, CasesAssumption
  <2>2. pc' = "validate" => c = Cases
    BY <1>1
  <2> QED
    BY <1>2, <1>5, <1>6, <1>7, <2>1, <2>2, CasesAssumption
       DEF Progress, HasRecords, HasStreams, HasFiles, NoStreams, NoFiles
<1>9. RecordsAreOnes' /\ SummaryIsOnes' /\ StreamsMatchRecords'
  BY <1>1, <1>5, <1>6
     DEF ExportInv, RecordsAreOnes, SummaryIsOnes, StreamsMatchRecords,
         HasSummary, HasRecords
<1>10. PublishedIsValid'
  BY <1>1 DEF ExportInv, PublishedIsValid
<1> QED
  BY <1>6, <1>8, <1>9, <1>10 DEF ExportInv, Positions

LEMMA ValidateStep ==
  ASSUME ExportInv, Validate
  PROVE  ExportInv'
<1>1. pc = "validate" /\ UNCHANGED suites
  BY DEF Validate, Environment
<1>2. CASE Valid(seen) /\ published' = seen /\ pc' = "written" /\ UNCHANGED seen
  <2>1. seen' \in Seen'
    BY <1>1, <1>2 DEF ExportInv, Seen, Contents
  <2>2. Progress'
    BY <1>1, <1>2
       DEF ExportInv, Progress, HasRecords, HasStreams, HasFiles, NoStreams, NoFiles
  <2>3. RecordsAreOnes' /\ SummaryIsOnes' /\ StreamsMatchRecords'
    BY <1>1, <1>2
       DEF ExportInv, RecordsAreOnes, SummaryIsOnes, StreamsMatchRecords,
           HasSummary, HasRecords
  <2>4. PublishedIsValid'
    BY <1>2 DEF PublishedIsValid
  <2> QED
    BY <1>2, <2>1, <2>2, <2>3, <2>4 DEF ExportInv, Positions
<1>3. CASE Refuse
  BY <1>1, <1>3, QuietStep DEF Refuse
<1> QED
  BY <1>1, <1>2, <1>3 DEF Validate

(* Everything the exporter has read was written whole by one of the suites, *)
(* and each stream is what its record says (export_public.py:549-640).      *)
THEOREM ExportInvariant == Spec => []ExportInv
<1>1. ExportInv /\ [Next]_vars => ExportInv'
  <2> SUFFICES ASSUME ExportInv, [Next]_vars PROVE ExportInv'
    OBVIOUS
  <2>1. CASE UNCHANGED vars
    BY <2>1, QuietStep DEF vars
  <2>2. CASE \E s \in Suites : OpenOrWrite(s)
    BY <2>2, QuietStep DEF OpenOrWrite
  <2>3. CASE Begin
    BY <2>3, QuietStep DEF Begin, Refuse, Environment
  <2>4. CASE ReadResult
    BY <2>4, ReadResultStep
  <2>5. CASE ReadSummary
    BY <2>5, ReadSummaryStep
  <2>6. CASE ReadEnvironment
    BY <2>6, ReadEnvironmentStep
  <2>7. CASE ReadStream
    BY <2>7, ReadStreamStep
  <2>8. CASE DigestFile
    BY <2>8, DigestFileStep
  <2>9. CASE Validate
    BY <2>9, ValidateStep
  <2> QED
    BY <2>1, <2>2, <2>3, <2>4, <2>5, <2>6, <2>7, <2>8, <2>9 DEF Next, Export
<1> QED
  BY <1>1, ExportInit, PTL DEF Spec

-----------------------------------------------------------------------------
(* What a published artifact is. *)
LEMMA Artifact ==
  ASSUME ExportInv, published # NoValue
  PROVE  /\ published = seen
         /\ Len(seen.records) = Cases /\ Len(seen.streams) = Cases
         /\ Len(seen.files) = Cases
         /\ seen \in Seen
         /\ IdentityIsBound(seen) /\ FilesAreBound(seen)
         /\ \A c \in Case :
              /\ \E s \in Suites : seen.records[c] = Content(suites[s], result(c))
              /\ seen.streams[c] = seen.records[c].case.raw.stdout
         /\ \E s \in Suites : seen.summary = Content(suites[s], summary)
<1>1. published = seen /\ pc = "written" /\ Valid(seen)
  BY DEF ExportInv, PublishedIsValid
<1>2. /\ Len(seen.records) = Cases /\ Len(seen.streams) = Cases
      /\ Len(seen.files) = Cases
  BY <1>1 DEF ExportInv, Progress, HasRecords, HasStreams, HasFiles
<1>3. IdentityIsBound(seen) /\ FilesAreBound(seen)
  BY <1>1 DEF Valid
<1>4. RecordsAreOnes /\ StreamsMatchRecords /\ SummaryIsOnes /\ seen \in Seen
  BY DEF ExportInv
<1>5. \A c \in Case :
         /\ \E s \in Suites : seen.records[c] = Content(suites[s], result(c))
         /\ seen.streams[c] = seen.records[c].case.raw.stdout
  BY <1>2, <1>4 DEF RecordsAreOnes, StreamsMatchRecords, Case
<1>6. \E s \in Suites : seen.summary = Content(suites[s], summary)
  BY <1>1, <1>4 DEF SummaryIsOnes, HasSummary, HasRecords
<1> QED
  BY <1>1, <1>2, <1>3, <1>4, <1>5, <1>6

(* The stream, the recorded digest and the listed digest agree.             *)
THEOREM StreamsAreBound == Spec => []PublishedStreamsAreBound
<1>1. ExportInv => PublishedStreamsAreBound
  BY Artifact DEF PublishedStreamsAreBound, FilesAreBound
<1> QED
  BY <1>1, ExportInvariant, PTL

(* What a suite writes, field by field. *)
LEMMA ContentFields ==
  ASSUME NEW suite, NEW c \in Case
  PROVE  /\ Content(suite, result(c)).run_id = suite.run_id
         /\ Content(suite, summary).run_id = suite.run_id
         /\ Content(suite, result(c)).case.raw.stdout = Content(suite, raw(c))
<1>1. /\ result(c) # environment /\ result(c) # summary /\ raw(c) # environment
      /\ raw(c) # summary /\ summary # environment
      /\ result(c)[1] = "result" /\ result(c)[2] = c
      /\ raw(c)[1] = "raw" /\ raw(c)[2] = c
  BY DEF result, raw, environment, summary
<1>2. Content(suite, result(c)) =
        [run_id |-> suite.run_id,
         json_parse_error |-> suite.child[c].stdout.form = "malformed",
         case |-> Results(suite)[c]]
  BY <1>1 DEF Content
<1>3. Content(suite, raw(c)) = suite.child[c].stdout
  BY <1>1 DEF Content
<1>4. Content(suite, summary).run_id = suite.run_id
  BY <1>1 DEF Content
<1>5. Results(suite)[c].raw = suite.child[c]
  BY DEF Results, CaseResult
<1> QED
  BY <1>2, <1>3, <1>4, <1>5

(* Between runs with different ids, everything published is of one of them. *)
THEOREM OneRun == Spec => []OneRunIsPublished
<1>1. ExportInv => OneRunIsPublished
  <2> SUFFICES ASSUME ExportInv, published # NoValue,
                      \A s, t \in Suites : s # t => suites[s].run_id # suites[t].run_id
               PROVE  \E s \in Suites :
                        [records |-> published.records, summary |-> published.summary,
                         streams |-> published.streams, files |-> published.files]
                        = OwnArtifact(s)
    BY DEF OneRunIsPublished
  <2>1. PICK s \in Suites : seen.summary = Content(suites[s], summary)
    BY Artifact
  <2>2. 1 \in Case
    BY CasesAssumption DEF Case
  <2>3. ASSUME NEW c \in Case
        PROVE  /\ seen.records[c] = Content(suites[s], result(c))
               /\ seen.streams[c] = Content(suites[s], raw(c))
               /\ seen.files[c] = Content(suites[s], raw(c))
    <3>1. PICK t \in Suites : seen.records[c] = Content(suites[t], result(c))
      BY Artifact
    <3>2. seen.records[c].run_id = seen.summary.run_id
      BY Artifact DEF IdentityIsBound
    <3>3. suites[t].run_id = suites[s].run_id
      <4>1. seen.records[c].run_id = suites[t].run_id
        BY <3>1, ContentFields
      <4>2. seen.summary.run_id = suites[s].run_id
        BY <2>1, ContentFields
      <4> QED
        BY <3>2, <4>1, <4>2
    <3>4. t = s
      BY <3>3
    <3>5. /\ seen.streams[c] = seen.records[c].case.raw.stdout
          /\ seen.files[c] = seen.records[c].case.raw.stdout
      BY Artifact DEF FilesAreBound
    <3> QED
      BY <3>1, <3>4, <3>5, ContentFields
  <2>4. /\ seen.records \in Seq(Contents) /\ Len(seen.records) = Cases
        /\ seen.streams \in Seq(Contents) /\ Len(seen.streams) = Cases
        /\ seen.files \in Seq(Contents \cup {TornDigest}) /\ Len(seen.files) = Cases
        /\ published = seen
    BY Artifact DEF Seen
  <2>5. /\ seen.records = [c \in Case |-> Content(suites[s], result(c))]
        /\ seen.streams = [c \in Case |-> Content(suites[s], raw(c))]
        /\ seen.files = [c \in Case |-> Content(suites[s], raw(c))]
    <3>1. /\ seen.records = [c \in Case |-> seen.records[c]]
          /\ seen.streams = [c \in Case |-> seen.streams[c]]
          /\ seen.files = [c \in Case |-> seen.files[c]]
      BY <2>4 DEF Case
    <3> QED
      BY <2>3, <3>1
  <2> QED
    BY <2>1, <2>4, <2>5 DEF OwnArtifact
<1> QED
  BY <1>1, ExportInvariant, PTL

-----------------------------------------------------------------------------
(* Recomputation *)

(* The parts of a result that do not come from the raw record.              *)
LEMMA ResultFields ==
  ASSUME NEW truth, NEW child, NEW other, NEW candidate,
         other.stdout = child.stdout, other.exit_code = child.exit_code,
         other.timed_out = child.timed_out
  PROVE  LET item == CaseResult(truth, child, candidate)
         IN /\ item.expected = truth
            /\ item.raw = child
            /\ item = [CaseResult(truth, other, candidate) EXCEPT !.raw = child]
BY DEF CaseResult

(* What the summary of an artifact that was found valid says of its cases.  *)
LEMMA SummaryOfCases ==
  ASSUME NEW public, NEW results, NEW candidate, Valid(public),
         public.summary.scores = Summary(results, candidate)
  PROVE  public.summary.scores = Summary(ReadCases(public), candidate)
<1> DEFINE cases == ReadCases(public)
           scores == public.summary.scores
<1>1. /\ scores.case_count = Cases
      /\ \A c \in Case : _coverage(cases[c].coverage)
      /\ _summary_coverage(scores, cases)
      /\ scores.aggregated = aggregate_results(cases)
  BY DEF Valid, ScoresAreDerived
<1>2. DOMAIN cases = Case /\ Len(cases) = Cases
  BY CasesAssumption DEF ReadCases, Case
<1> HIDE DEF cases
<1>3. \A c \in Case :
         /\ cases[c].coverage.support = "supported" => cases[c].coverage.status = "exercised"
         /\ cases[c].coverage.support # "supported" =>
               /\ cases[c].coverage.support = "unsupported"
               /\ cases[c].coverage.status = "unexercised"
  BY <1>1 DEF _coverage, SUPPORTED_COVERAGE, UNSUPPORTED_COVERAGE
<1>4. scores.supported_exercised_case_ids = SupportedList(cases)
  BY <1>1, <1>2, <1>3 DEF _summary_coverage, SupportedList
<1>5. scores.unsupported_unexercised_case_ids = UnsupportedList(cases)
  BY <1>1, <1>2, <1>3 DEF _summary_coverage, UnsupportedList
<1>6. /\ scores = [case_count |-> scores.case_count,
                   candidate_dependent |-> candidate,
                   supported_exercised_case_ids |-> scores.supported_exercised_case_ids,
                   unsupported_unexercised_case_ids |->
                        scores.unsupported_unexercised_case_ids,
                   aggregated |-> scores.aggregated]
  BY DEF Summary
<1> QED
  BY <1>1, <1>2, <1>4, <1>5, <1>6 DEF Summary, cases

(* Between candidate and fixture runs with different ids, everything        *)
(* published can be derived from the published streams.                     *)
THEOREM DerivedResults == Spec => []PublishedResultsAreDerived
<1>1. ExportInv => PublishedResultsAreDerived
  <2> SUFFICES ASSUME ExportInv, published # NoValue, OneKindPerId
               PROVE  LET scores == seen.summary.scores
                          cases  == ReadCases(seen)
                          child(c) == [stdout    |-> seen.streams[c],
                                       exit_code |-> cases[c].raw.exit_code,
                                       timed_out |-> cases[c].raw.timed_out]
                      IN /\ scores = Summary(cases, scores.candidate_dependent)
                         /\ \A c \in Case :
                               cases[c] = [CaseResult(cases[c].expected, child(c),
                                                      scores.candidate_dependent)
                                           EXCEPT !.raw = cases[c].raw]
    BY Artifact DEF PublishedResultsAreDerived
  <2> DEFINE scores == seen.summary.scores
             cases == ReadCases(seen)
  <2>1. PICK s \in Suites : seen.summary = Content(suites[s], summary)
    BY Artifact
  <2>2. /\ scores = Summary(Results(suites[s]), suites[s].candidate)
        /\ seen.summary.run_id = suites[s].run_id
    BY <2>1 DEF Content, summary, environment
  <2>3. Valid(seen)
    BY DEF ExportInv, PublishedIsValid
  <2>4. scores = Summary(cases, suites[s].candidate)
    BY <2>2, <2>3, SummaryOfCases
  <2>5. scores.candidate_dependent = suites[s].candidate
    BY <2>2 DEF Summary
  <2>6. ASSUME NEW c \in Case
        PROVE  cases[c] = [CaseResult(cases[c].expected,
                                      [stdout    |-> seen.streams[c],
                                       exit_code |-> cases[c].raw.exit_code,
                                       timed_out |-> cases[c].raw.timed_out],
                                      scores.candidate_dependent)
                           EXCEPT !.raw = cases[c].raw]
    <3>1. PICK t \in Suites : seen.records[c] = Content(suites[t], result(c))
      BY Artifact
    <3>2. /\ seen.records[c].run_id = seen.summary.run_id
          /\ seen.streams[c] = seen.records[c].case.raw.stdout
      BY Artifact DEF IdentityIsBound
    <3>3. suites[t].candidate = suites[s].candidate
      BY <2>2, <3>1, <3>2, ContentFields DEF OneKindPerId
    <3>4. cases[c] = CaseResult(suites[t].truth[c], suites[t].child[c],
                                suites[t].candidate)
      BY <3>1 DEF ReadCases, Content, Results, result, environment, summary
    <3>5. cases[c].raw = suites[t].child[c] /\ cases[c].expected = suites[t].truth[c]
      BY <3>4 DEF CaseResult
    <3>6. seen.streams[c] = suites[t].child[c].stdout
      BY <3>2, <3>5 DEF ReadCases
    <3> DEFINE other == [stdout    |-> seen.streams[c],
                         exit_code |-> cases[c].raw.exit_code,
                         timed_out |-> cases[c].raw.timed_out]
    <3>7. /\ other.stdout = suites[t].child[c].stdout
          /\ other.exit_code = suites[t].child[c].exit_code
          /\ other.timed_out = suites[t].child[c].timed_out
      BY <3>5, <3>6
    <3> HIDE DEF other, cases, scores
    <3>8. CaseResult(suites[t].truth[c], suites[t].child[c], suites[t].candidate)
            = [CaseResult(suites[t].truth[c], other, suites[t].candidate)
               EXCEPT !.raw = suites[t].child[c]]
      BY <3>7, ResultFields
    <3>9. cases[c] = [CaseResult(cases[c].expected, other, scores.candidate_dependent)
                      EXCEPT !.raw = cases[c].raw]
      BY <2>5, <3>3, <3>4, <3>5, <3>8
    <3> QED
      BY <3>9 DEF other
  <2> QED
    BY <2>4, <2>5, <2>6
<1> QED
  BY <1>1, ExportInvariant, PTL

-----------------------------------------------------------------------------
(* Type correctness *)

LEMMA WritesHasLength == Len(Writes) \in Nat
<1> DEFINE middle == [k \in 1 .. 2 * Cases |->
                        IF k % 2 = 1 THEN raw((k + 1) \div 2) ELSE result(k \div 2)]
           Any == {environment, summary} \cup {middle[k] : k \in 1 .. 2 * Cases}
<1>1. 2 * Cases \in Nat
  BY CasesAssumption
<1>2. middle \in Seq(Any)
  <2> DEFINE n == 2 * Cases
  <2>1. middle \in [1..n -> Any]
    OBVIOUS
  <2> HIDE DEF middle, Any
  <2> QED
    BY <1>1, <2>1
<1>3. <<environment>> \in Seq(Any) /\ <<summary>> \in Seq(Any)
  BY DEF environment, summary
<1>4. Writes = <<environment>> \o middle \o <<summary>>
  BY DEF Writes
<1> HIDE DEF middle, Any
<1> QED
  BY <1>2, <1>3, <1>4

(* The suites' side of the run directory. *)
WritersInv ==
    /\ step \in [Suites -> 0 .. 2 * Len(Writes)]
    /\ files \in [File -> Suites \cup {Missing, Torn}]

LEMMA WritersInvariant == Spec => []WritersInv
<1>1. Init => WritersInv
  BY WritesHasLength DEF Init, WritersInv
<1>2. WritersInv /\ [Next]_vars => WritersInv'
  <2> SUFFICES ASSUME WritersInv, [Next]_vars PROVE WritersInv'
    OBVIOUS
  <2>1. CASE UNCHANGED <<step, files>>
    BY <2>1 DEF WritersInv
  <2>2. CASE \E s \in Suites : OpenOrWrite(s)
    <3>1. PICK s \in Suites : OpenOrWrite(s)
      BY <2>2
    <3> DEFINE last == 2 * Len(Writes)
               f == Writes[1 + step[s] \div 2]
               state == IF step[s] % 2 = 0 THEN Torn ELSE s
    <3>2. /\ step[s] < last /\ step' = [step EXCEPT ![s] = @ + 1]
          /\ files' = [files EXCEPT ![f] = state]
      BY <3>1 DEF OpenOrWrite
    <3>3. last \in Nat /\ step \in [Suites -> 0 .. last]
      BY WritesHasLength DEF WritersInv
    <3>4. state \in Suites \cup {Missing, Torn}
      OBVIOUS
    <3> HIDE DEF last, f, state
    <3>5. step' \in [Suites -> 0 .. last]
      BY <3>2, <3>3
    <3>6. files' \in [File -> Suites \cup {Missing, Torn}]
      BY <3>2, <3>4 DEF WritersInv
    <3> QED
      BY <3>5, <3>6 DEF WritersInv, last
  <2>3. CASE Export
    BY <2>1, <2>3 DEF Export, Begin, ReadResult, ReadSummary, ReadEnvironment,
                      ReadStream, DigestFile, Validate, Environment
  <2>4. CASE UNCHANGED vars
    BY <2>1, <2>4 DEF vars
  <2> QED
    BY <2>2, <2>3, <2>4 DEF Next
<1> QED
  BY <1>1, <1>2, PTL DEF Spec

(* Type correctness, for any number of cases and suites. *)
THEOREM ExportTypes == Spec => []TypeOK
<1>1. ExportInv /\ WritersInv => TypeOK
  <2> SUFFICES ASSUME ExportInv, WritersInv PROVE TypeOK
    OBVIOUS
  <2>1. seen.files # << >> => Len(seen.files) > 0
    BY DEF ExportInv, Seen
  <2> QED
    BY <2>1 DEF ExportInv, WritersInv, TypeOK, Progress, PublishedIsValid, Positions
<1> QED
  BY <1>1, ExportInvariant, WritersInvariant, PTL

-----------------------------------------------------------------------------
(* A run directory with one suite *)

Only(s) == \A t \in Suites \ {s} : ~suites[t].present

(* The files of the suite are written once, in the order of Writes. *)
OwnFiles(s) ==
    \A k \in 1 .. Len(Writes) :
        files[Writes[k]] = IF step[s] >= 2 * k THEN s
                           ELSE IF step[s] = 2 * k - 1 THEN Torn
                           ELSE Missing

(* What the exporter has read is what the suite wrote, and the summary is   *)
(* the last that it wrote.                                                  *)
OwnReads(s) ==
    /\ \A c \in 1..Len(seen.records) :
          seen.records[c] = Content(suites[s], result(c))
    /\ \A c \in 1..Len(seen.streams) :
          seen.streams[c] = Content(suites[s], raw(c))
    /\ \A c \in 1..Len(seen.files) : seen.files[c] = Content(suites[s], raw(c))
    /\ pc \in HasSummary =>
          /\ seen.summary = Content(suites[s], summary)
          /\ step[s] = 2 * Len(Writes)
    /\ pc \in HasEnvironment =>
          seen.environment = Content(suites[s], environment)

SoloInv == \A s \in Suites : Only(s) => OwnFiles(s) /\ OwnReads(s)

LEMMA Halves ==
  ASSUME NEW n \in Nat
  PROVE  n = (2 * (n \div 2)) + (n % 2) /\ n % 2 \in {0, 1} /\ n \div 2 \in Nat
OBVIOUS

LEMMA Framed ==
  ASSUME NEW S, NEW a \in S, NEW b \in S, NEW m \in Seq(S)
  PROVE  /\ Len(<<a>> \o m \o <<b>>) = Len(m) + 2
         /\ (<<a>> \o m \o <<b>>)[1] = a
         /\ (<<a>> \o m \o <<b>>)[Len(m) + 2] = b
         /\ \A k \in 2 .. Len(m) + 1 : (<<a>> \o m \o <<b>>)[k] = m[k - 1]
<1> DEFINE front == <<a>> \o m
<1>1. <<a>> \in Seq(S) /\ <<b>> \in Seq(S) /\ Len(<<a>>) = 1 /\ Len(<<b>>) = 1
      /\ <<a>>[1] = a /\ <<b>>[1] = b /\ Len(m) \in Nat
  OBVIOUS
<1>2. front \in Seq(S) /\ Len(front) = Len(m) + 1
  BY <1>1
<1>3. front[1] = a /\ \A k \in 2 .. Len(m) + 1 : front[k] = m[k - 1]
  BY <1>1
<1> HIDE DEF front
<1>4. Len(front \o <<b>>) = Len(m) + 2 /\ (front \o <<b>>)[Len(m) + 2] = b
  BY <1>1, <1>2
<1>5. \A k \in 1 .. Len(m) + 1 : (front \o <<b>>)[k] = front[k]
  BY <1>1, <1>2
<1> QED
  BY <1>1, <1>3, <1>4, <1>5 DEF front

(* The order of the writes: every file once, the summary last. *)
LEMMA WritesShape ==
  /\ Len(Writes) = 2 * Cases + 2
  /\ \A k \in 1 .. 2 * Cases + 2 :
        Writes[k] = IF k = 1 THEN environment
                    ELSE IF k = 2 * Cases + 2 THEN summary
                    ELSE IF k % 2 = 0 THEN raw(k \div 2)
                    ELSE result((k - 1) \div 2)
<1> DEFINE n == 2 * Cases
           middle == [k \in 1 .. n |->
                        IF k % 2 = 1 THEN raw((k + 1) \div 2) ELSE result(k \div 2)]
           Any == {environment, summary} \cup {middle[k] : k \in 1 .. n}
<1>1. n \in Nat
  BY CasesAssumption
<1>2. middle \in Seq(Any) /\ Len(middle) = n
  <2>1. middle \in [1..n -> Any]
    OBVIOUS
  <2> HIDE DEF middle, Any, n
  <2> QED
    BY <1>1, <2>1
<1>3. Writes = <<environment>> \o middle \o <<summary>>
  BY DEF Writes
<1>4. <<environment>> \in Seq(Any) /\ <<summary>> \in Seq(Any)
  BY DEF environment, summary
<1>5. ASSUME NEW k \in 1..n
      PROVE  middle[k] = IF k % 2 = 1 THEN raw((k + 1) \div 2) ELSE result(k \div 2)
  OBVIOUS
<1> HIDE DEF middle, Any
<1>6. Len(Writes) = n + 2
  BY <1>1, <1>2, <1>3, <1>4
<1>7. ASSUME NEW k \in 1 .. n + 2
      PROVE  Writes[k] = IF k = 1 THEN environment ELSE IF k = n + 2 THEN summary
                         ELSE middle[k - 1]
  <2>1. environment \in Any /\ summary \in Any
    BY DEF Any
  <2>2. k = 1 \/ k = n + 2 \/ k \in 2 .. n + 1
    BY <1>1
  <2> HIDE DEF n, Any
  <2>3. /\ Writes[1] = environment /\ Writes[n + 2] = summary
        /\ \A j \in 2 .. n + 1 : Writes[j] = middle[j - 1]
    BY <1>2, <1>3, <2>1, Framed
  <2> QED
    BY <1>1, <2>2, <2>3
<1>8. ASSUME NEW k \in 2 .. n + 1
      PROVE  middle[k - 1] = IF k % 2 = 0 THEN raw(k \div 2) ELSE result((k - 1) \div 2)
  <2>1. k - 1 \in 1..n
    BY <1>1
  <2>2. (k - 1) % 2 = 1 <=> k % 2 = 0
    OBVIOUS
  <2>3. (k - 1) + 1 = k
    OBVIOUS
  <2> QED
    BY <1>5, <2>1, <2>2, <2>3
<1> QED
  BY <1>1, <1>6, <1>7, <1>8

(* Every file is one of the writes, and no file is written twice. *)
LEMMA EveryFileOnce ==
  /\ \A k \in 1 .. Len(Writes) : Writes[k] \in File
  /\ \A f \in File : \E k \in 1 .. Len(Writes) : Writes[k] = f
  /\ \A k, m \in 1 .. Len(Writes) : Writes[k] = Writes[m] => k = m
  /\ Len(Writes) \in Nat \ {0}
  /\ Writes[1] = environment
  /\ Writes[Len(Writes)] = summary
<1> DEFINE n == 2 * Cases
<1>1. n \in Nat /\ Len(Writes) = n + 2
  BY WritesShape, CasesAssumption
<1>2. \A k \in 1 .. n + 2 :
        Writes[k] = IF k = 1 THEN environment ELSE IF k = n + 2 THEN summary
                    ELSE IF k % 2 = 0 THEN raw(k \div 2) ELSE result((k - 1) \div 2)
  BY WritesShape
<1>3. \A c, d :
        /\ raw(c)[1] = "raw" /\ raw(c)[2] = c
        /\ result(c)[1] = "result" /\ result(c)[2] = c
        /\ environment[1] = "environment" /\ summary[1] = "summary"
  BY DEF raw, result, environment, summary
<1>4. ASSUME NEW k \in 2 .. n + 1
      PROVE  /\ k % 2 = 0 => k \div 2 \in Case /\ k = 2 * (k \div 2)
             /\ k % 2 # 0 => /\ (k - 1) \div 2 \in Case
                              /\ k = 2 * ((k - 1) \div 2) + 1
  BY <1>1, CasesAssumption DEF Case
<1>5. ASSUME NEW k \in 1 .. n + 2 PROVE Writes[k] \in File
  <2>1. k \notin {1, n + 2} => k \in 2 .. n + 1
    BY <1>1
  <2> QED
    BY <1>2, <1>4, <2>1 DEF File
<1>6. ASSUME NEW f \in File PROVE \E k \in 1 .. n + 2 : Writes[k] = f
  <2>1. CASE f = environment
    <3>1. 1 \in 1 .. n + 2 /\ Writes[1] = environment
      BY <1>1, <1>2
    <3> QED
      BY <2>1, <3>1
  <2>2. CASE f = summary
    <3>1. n + 2 \in 1 .. n + 2 /\ n + 2 # 1
      BY <1>1
    <3> QED
      BY <1>2, <2>2, <3>1
  <2>3. ASSUME NEW c \in Case, f = raw(c) PROVE \E k \in 1 .. n + 2 : Writes[k] = f
    <3>1. /\ 2 * c \in 1 .. n + 2 /\ 2 * c # 1 /\ 2 * c # n + 2
          /\ (2 * c) % 2 = 0 /\ (2 * c) \div 2 = c
      BY CasesAssumption DEF Case
    <3> QED
      BY <1>2, <2>3, <3>1
  <2>4. ASSUME NEW c \in Case, f = result(c) PROVE \E k \in 1 .. n + 2 : Writes[k] = f
    <3> DEFINE k == 2 * c + 1
    <3>1. /\ k \in 1 .. n + 2 /\ k # 1 /\ k # n + 2
          /\ k % 2 # 0 /\ (k - 1) \div 2 = c
      BY CasesAssumption DEF Case
    <3> HIDE DEF k
    <3> QED
      BY <1>2, <2>4, <3>1
  <2> QED
    BY <2>1, <2>2, <2>3, <2>4 DEF File
<1>7. ASSUME NEW k \in 1 .. n + 2, NEW m \in 1 .. n + 2, Writes[k] = Writes[m]
      PROVE  k = m
  <2> DEFINE Kind(j) == IF j = 1 THEN "environment" ELSE IF j = n + 2 THEN "summary"
                        ELSE IF j % 2 = 0 THEN "raw" ELSE "result"
  <2>1. \A j \in 1 .. n + 2 : Writes[j][1] = Kind(j)
    BY <1>2, <1>3
  <2>2. \A j \in 2 .. n + 1 :
           Writes[j][2] = IF j % 2 = 0 THEN j \div 2 ELSE (j - 1) \div 2
    <3> SUFFICES ASSUME NEW j \in 2 .. n + 1
                 PROVE  Writes[j][2] = IF j % 2 = 0 THEN j \div 2 ELSE (j - 1) \div 2
      OBVIOUS
    <3>1. j \in 1 .. n + 2 /\ j # 1 /\ j # n + 2
      BY <1>1
    <3> QED
      BY <1>2, <1>3, <3>1
  <2>3. Kind(k) = Kind(m)
    BY <1>7, <2>1
  <2>4. k = 1 \/ k = n + 2 \/ k \in 2 .. n + 1
    BY <1>1
  <2>5. m = 1 \/ m = n + 2 \/ m \in 2 .. n + 1
    BY <1>1
  <2>6. CASE k \notin 2 .. n + 1 \/ m \notin 2 .. n + 1
    BY <1>1, <2>3, <2>4, <2>5, <2>6
  <2>7. CASE k \in 2 .. n + 1 /\ m \in 2 .. n + 1
    <3>1. k % 2 = 0 <=> m % 2 = 0
      BY <1>1, <2>3, <2>7
    <3>2. Writes[k][2] = Writes[m][2]
      BY <1>7
    <3> HIDE DEF Kind
    <3>3. CASE k % 2 = 0
      BY <1>4, <2>2, <2>7, <3>1, <3>2, <3>3
    <3>4. CASE k % 2 # 0
      BY <1>4, <2>2, <2>7, <3>1, <3>2, <3>4
    <3> QED
      BY <3>3, <3>4
  <2> QED
    BY <2>6, <2>7
<1>8. Writes[1] = environment /\ Writes[n + 2] = summary
  <2>1. 1 \in 1 .. n + 2 /\ n + 2 \in 1 .. n + 2 /\ n + 2 # 1
    BY <1>1
  <2> QED
    BY <1>2, <2>1
<1> HIDE DEF n
<1> QED
  BY <1>1, <1>5, <1>6, <1>7, <1>8

-----------------------------------------------------------------------------
(* The one suite writes its files, and the exporter reads them *)

LEMMA SoloFiles ==
  ASSUME WritersInv, NEW s \in Suites, OwnFiles(s)
  PROVE  /\ \A f \in File : Holds(f) => files[f] = s
         /\ Holds(summary) => step[s] = 2 * Len(Writes)
         /\ step[s] = 2 * Len(Writes) => \A f \in File : files[f] = s
<1>1. /\ Len(Writes) \in Nat \ {0} /\ Writes[Len(Writes)] = summary
      /\ \A f \in File : \E k \in 1 .. Len(Writes) : Writes[k] = f
      /\ step[s] \in 0 .. 2 * Len(Writes)
  BY EveryFileOnce DEF WritersInv
<1>2. ASSUME NEW f \in File, Holds(f) PROVE files[f] = s
  <2>1. files[f] \in Suites
    BY <1>2 DEF Holds
  <2>2. files[f] \in {s, Torn, Missing}
    BY <1>1 DEF OwnFiles
  <2> QED
    BY <2>1, <2>2, FilesAssumption
<1>3. ASSUME Holds(summary) PROVE step[s] = 2 * Len(Writes)
  <2>1. Len(Writes) \in 1 .. Len(Writes)
    BY <1>1
  <2>2. files[summary] = IF step[s] >= 2 * Len(Writes) THEN s
                         ELSE IF step[s] = 2 * Len(Writes) - 1 THEN Torn ELSE Missing
    BY <1>1, <2>1 DEF OwnFiles
  <2>3. files[summary] \in Suites
    BY <1>3 DEF Holds
  <2>4. step[s] >= 2 * Len(Writes)
    BY <2>2, <2>3, FilesAssumption
  <2> QED
    BY <1>1, <2>4
<1>4. ASSUME step[s] = 2 * Len(Writes), NEW f \in File PROVE files[f] = s
  <2>1. PICK k \in 1 .. Len(Writes) : Writes[k] = f
    BY <1>1
  <2>2. step[s] >= 2 * k
    BY <1>1, <1>4, <2>1
  <2> QED
    BY <2>1, <2>2 DEF OwnFiles
<1> QED
  BY <1>2, <1>3, <1>4

LEMMA SoloWrite ==
  ASSUME WritersInv, SoloInv, NEW t \in Suites, OpenOrWrite(t)
  PROVE  SoloInv'
<1> SUFFICES ASSUME NEW s \in Suites, Only(s)' PROVE OwnFiles(s)' /\ OwnReads(s)'
  BY DEF SoloInv
<1>1. UNCHANGED <<suites, pc, seen>> /\ suites[t].present
  BY DEF OpenOrWrite
<1>2. Only(s) /\ OwnFiles(s) /\ OwnReads(s) /\ t = s
  BY <1>1 DEF SoloInv, Only
<1> DEFINE n == step[s]
           current == 1 + (n \div 2)
           state == IF n % 2 = 0 THEN Torn ELSE s
<1>3. /\ n < 2 * Len(Writes) /\ step' = [step EXCEPT ![s] = @ + 1]
      /\ files' = [files EXCEPT ![Writes[current]] = state]
  BY <1>2 DEF OpenOrWrite
<1>4. /\ n \in Nat /\ Len(Writes) \in Nat /\ step'[s] = n + 1
      /\ \A k \in 1 .. Len(Writes) : Writes[k] \in File
      /\ files \in [File -> Suites \cup {Missing, Torn}]
  BY <1>3, EveryFileOnce DEF WritersInv
<1>5. n = (2 * (n \div 2)) + (n % 2) /\ n % 2 \in {0, 1} /\ n \div 2 \in Nat
  BY <1>4, Halves
<1> HIDE DEF n
<1>6. current \in 1 .. Len(Writes) /\ n = (2 * current - 2) + (n % 2)
  <2>1. PICK q \in Nat, r \in {0, 1} : q = n \div 2 /\ r = n % 2 /\ n = (2 * q) + r
    BY <1>5
  <2>2. current = 1 + q
    BY <2>1
  <2>3. q + 1 <= Len(Writes)
    BY <1>3, <1>4, <2>1
  <2> QED
    BY <1>4, <2>1, <2>2, <2>3
<1> HIDE DEF current
<1>7. ASSUME NEW k \in 1 .. Len(Writes)
      PROVE  files'[Writes[k]] = IF n + 1 >= 2 * k THEN s
                                 ELSE IF n + 1 = 2 * k - 1 THEN Torn ELSE Missing
  <2>1. CASE k = current
    <3>1. files'[Writes[k]] = state
      BY <1>3, <1>4, <2>1
    <3>2. CASE n % 2 = 0
      BY <1>4, <1>6, <2>1, <3>1, <3>2
    <3>3. CASE n % 2 = 1
      BY <1>4, <1>6, <2>1, <3>1, <3>3
    <3> QED
      BY <1>5, <3>2, <3>3
  <2>2. CASE k # current
    <3>1. files'[Writes[k]] = files[Writes[k]]
      BY <1>3, <1>4, <1>6, <2>2, EveryFileOnce
    <3>2. files[Writes[k]] = IF n >= 2 * k THEN s
                             ELSE IF n = 2 * k - 1 THEN Torn ELSE Missing
      BY <1>2 DEF OwnFiles, n
    <3>3. /\ n + 1 >= 2 * k <=> n >= 2 * k
          /\ n # 2 * k - 1 /\ n + 1 # 2 * k - 1
      BY <1>4, <1>5, <1>6, <2>2
    <3> QED
      BY <3>1, <3>2, <3>3
  <2> QED
    BY <2>1, <2>2
<1>8. OwnFiles(s)'
  BY <1>4, <1>7 DEF OwnFiles
<1>9. pc \notin HasSummary
  BY <1>2, <1>3, <1>4 DEF OwnReads, n
<1> QED
  BY <1>1, <1>2, <1>8, <1>9 DEF OwnReads

(* A step of the exporter that adds nothing to what it has read. *)
LEMMA SoloQuiet ==
  ASSUME SoloInv, UNCHANGED <<suites, step, files, seen>>,
         pc' \notin HasSummary \/ (pc \in HasSummary /\ (pc' \in HasEnvironment => pc \in HasEnvironment))
  PROVE  SoloInv'
BY DEF SoloInv, Only, OwnFiles, OwnReads, HasEnvironment

(* A step of the exporter that reads one file of the suite.                 *)
LEMMA SoloExport ==
  ASSUME ExportInv, WritersInv, SoloInv, Export
  PROVE  SoloInv'
<1>1. UNCHANGED <<suites, step, files>>
  BY DEF Export, Begin, ReadResult, ReadSummary, ReadEnvironment, ReadStream,
         DigestFile, Validate, Environment
<1>2. CASE Refuse
  BY <1>1, <1>2, SoloQuiet DEF Refuse, HasSummary, HasRecords
<1>3. CASE ~Refuse
  <2> SUFFICES ASSUME NEW s \in Suites, Only(s), OwnFiles(s), OwnReads(s)
               PROVE  OwnReads(s)'
    BY <1>1 DEF SoloInv, Only, OwnFiles
  <2>1. \A f \in File : Holds(f) => Read(f) = Content(suites[s], f)
    BY SoloFiles DEF Read
  <2>2. Holds(summary) => step[s] = 2 * Len(Writes)
    BY SoloFiles
  <2>3. seen \in Seen /\ Progress
    BY DEF ExportInv
  <2>4. /\ summary \in File /\ environment \in File
        /\ \A c \in Case : result(c) \in File /\ raw(c) \in File
    BY DEF File
  <2>5. CASE Begin
    BY <1>1, <1>3, <2>5 DEF Begin, OwnReads, HasSummary, HasRecords, HasEnvironment
  <2>6. CASE ReadResult
    <3> DEFINE c == Len(seen.records) + 1
    <3>1. /\ pc = "results" /\ Holds(result(c))
          /\ seen' = [seen EXCEPT !.records = Append(@, Read(result(c)))]
          /\ pc' = IF c = Cases THEN "summary" ELSE pc
      BY <1>3, <2>6 DEF ReadResult
    <3>2. c \in Case
      BY <2>3, <3>1, CasesAssumption DEF Progress, Seen, Case
    <3>3. Read(result(c)) = Content(suites[s], result(c))
      BY <2>1, <2>4, <3>1, <3>2
    <3>4. /\ seen'.records = Append(seen.records, Content(suites[s], result(c)))
          /\ UNCHANGED <<seen.streams, seen.files>>
      BY <2>3, <3>1, <3>3 DEF Seen
    <3>5. pc' \notin HasSummary
      BY <3>1 DEF HasSummary, HasRecords
    <3>6. ASSUME NEW k \in 1..Len(seen'.records)
          PROVE  seen'.records[k] = Content(suites[s], result(k))
      BY <2>3, <3>4 DEF Seen, OwnReads
    <3> QED
      BY <1>1, <3>4, <3>5, <3>6 DEF OwnReads, HasEnvironment
  <2>7. CASE ReadSummary
    <3>1. /\ pc = "summary" /\ Holds(summary)
          /\ seen' = [seen EXCEPT !.summary = Read(summary)]
          /\ pc' = "environment"
      BY <1>3, <2>7 DEF ReadSummary
    <3>2. /\ seen'.summary = Content(suites[s], summary)
          /\ UNCHANGED <<seen.records, seen.streams, seen.files>>
      BY <2>1, <2>3, <2>4, <3>1 DEF Seen
    <3> QED
      BY <1>1, <2>2, <3>1, <3>2 DEF OwnReads, HasEnvironment
  <2>8. CASE ReadEnvironment
    <3>1. /\ pc = "environment" /\ Holds(environment)
          /\ seen' = [seen EXCEPT !.environment = Read(environment)]
          /\ pc' = "streams"
      BY <1>3, <2>8 DEF ReadEnvironment
    <3>2. /\ seen'.environment = Content(suites[s], environment)
          /\ UNCHANGED <<seen.records, seen.streams, seen.files, seen.summary>>
      BY <2>1, <2>3, <2>4, <3>1 DEF Seen
    <3> QED
      BY <1>1, <3>1, <3>2 DEF OwnReads, HasSummary, HasRecords
  <2>9. CASE ReadStream
    <3> DEFINE c == Len(seen.streams) + 1
    <3>1. /\ pc = "streams" /\ Holds(raw(c))
          /\ seen' = [seen EXCEPT !.streams = Append(@, Read(raw(c)))]
          /\ pc' = IF c = Cases THEN "source_files" ELSE pc
      BY <1>3, <2>9 DEF ReadStream
    <3>2. c \in Case
      BY <2>3, <3>1, CasesAssumption DEF Progress, Seen, Case
    <3>3. Read(raw(c)) = Content(suites[s], raw(c))
      BY <2>1, <2>4, <3>1, <3>2
    <3>4. /\ seen'.streams = Append(seen.streams, Content(suites[s], raw(c)))
          /\ UNCHANGED <<seen.records, seen.files, seen.summary, seen.environment>>
      BY <2>3, <3>1, <3>3 DEF Seen
    <3>5. pc \in HasSummary /\ pc \in HasEnvironment
      BY <3>1 DEF HasSummary, HasRecords, HasEnvironment
    <3>6. ASSUME NEW k \in 1..Len(seen'.streams)
          PROVE  seen'.streams[k] = Content(suites[s], raw(k))
      BY <2>3, <3>4 DEF Seen, OwnReads
    <3> QED
      BY <1>1, <3>4, <3>5, <3>6 DEF OwnReads
  <2>10. CASE DigestFile
    <3> DEFINE c == Len(seen.files) + 1
    <3>1. /\ pc = "source_files"
          /\ seen' = [seen EXCEPT !.files =
                         Append(@, IF Holds(raw(c)) THEN Read(raw(c)) ELSE TornDigest)]
      BY <2>10 DEF DigestFile, TornDigest
    <3>2. c \in Case
      BY <2>3, <3>1, CasesAssumption DEF Progress, Seen, Case
    <3>3. pc \in HasSummary /\ pc \in HasEnvironment
      BY <3>1 DEF HasSummary, HasRecords, HasEnvironment
    <3>4. Holds(raw(c)) /\ Read(raw(c)) = Content(suites[s], raw(c))
      BY <2>1, <2>4, <3>2, <3>3, SoloFiles DEF OwnReads, Holds
    <3>5. /\ seen'.files = Append(seen.files, Content(suites[s], raw(c)))
          /\ UNCHANGED <<seen.records, seen.streams, seen.summary, seen.environment>>
      BY <2>3, <3>1, <3>4 DEF Seen
    <3>6. ASSUME NEW k \in 1..Len(seen'.files)
          PROVE  seen'.files[k] = Content(suites[s], raw(k))
      BY <2>3, <3>5 DEF Seen, OwnReads
    <3> QED
      BY <1>1, <3>3, <3>5, <3>6 DEF OwnReads
  <2>11. CASE Validate
    <3>1. pc = "validate" /\ UNCHANGED seen
      BY <1>3, <2>11 DEF Validate
    <3>2. pc \in HasSummary /\ pc \in HasEnvironment
      BY <3>1 DEF HasSummary, HasRecords, HasEnvironment
    <3> QED
      BY <1>1, <3>1, <3>2 DEF OwnReads
  <2> QED
    BY <2>5, <2>6, <2>7, <2>8, <2>9, <2>10, <2>11 DEF Export
<1> QED
  BY <1>2, <1>3

(* In a directory of one suite, the exporter reads that suite's output, and *)
(* it has not read the summary before the suite was done.                   *)
THEOREM SoloInvariant == Spec => []SoloInv
<1>1. Init => SoloInv
  <2> SUFFICES ASSUME Init, NEW s \in Suites PROVE OwnFiles(s) /\ OwnReads(s)
    BY DEF SoloInv
  <2>1. /\ step[s] = 0 /\ pc = "idle" /\ \A f \in File : files[f] = Missing
        /\ seen.records = << >> /\ seen.streams = << >> /\ seen.files = << >>
    BY DEF Init, NothingRead
  <2>2. OwnFiles(s)
    <3> SUFFICES ASSUME NEW k \in 1 .. Len(Writes)
                 PROVE  /\ files[Writes[k]] = Missing
                        /\ ~(step[s] >= 2 * k) /\ step[s] # 2 * k - 1
      BY DEF OwnFiles
    <3> QED
      BY <2>1, EveryFileOnce
  <2> QED
    BY <2>1, <2>2 DEF OwnReads, HasSummary, HasRecords, HasEnvironment
<1>2. ExportInv /\ WritersInv /\ SoloInv /\ [Next]_vars => SoloInv'
  BY SoloWrite, SoloExport, SoloQuiet
     DEF Next, vars, HasSummary, HasRecords, HasEnvironment
<1> QED
  BY <1>1, <1>2, ExportInvariant, WritersInvariant, PTL DEF Spec

-----------------------------------------------------------------------------
(* The exporter's derivations agree with the suite's *)

(* A child that kept the protocol passes what is asked of one case. *)
LEMMA GoodCase ==
  ASSUME NEW truth, NEW child, NEW candidate,
         KeepsTheProtocol(child.stdout, candidate),
         NEW record, record.case = CaseResult(truth, child, candidate),
         record.json_parse_error = (child.stdout.form = "malformed")
  PROVE  /\ PublicStream(child.stdout, record.case.raw.stdout, candidate)
         /\ _observed(record.case.observed)
         /\ record.case.classification = _derived_classification(record.case)
         /\ _coverage(record.case.coverage)
         /\ _validate_public_protocol_shape(child.stdout, record, candidate)
<1> DEFINE stdout == child.stdout
           fields == observed_fields(stdout)
           value  == observed_measurements(stdout)
           case   == record.case
<1>1. /\ case.expected = truth /\ case.raw = child
      /\ case.observed.outcome = fields.outcome
      /\ case.observed.reason = fields.reason
      /\ case.observed.exit_code = child.exit_code
      /\ case.classification =
           [outcome_match   |-> fields.outcome = truth.outcome,
            reason_match    |-> fields.reason = truth.reason,
            exit_code_match |-> child.exit_code = truth.exit_code,
            holytail_match  |-> HolytailMatch(truth, value)]
      /\ case.measurement = value
      /\ case.coverage = CaseCoverage(stdout, candidate)
  BY DEF CaseResult
<1> HIDE DEF case, fields, value, stdout
<1>2. case.classification = _derived_classification(case)
  BY <1>1 DEF _derived_classification, HolytailMatch
<1>3. CASE stdout.form = "malformed" /\ stdout.flags = {}
  <2>1. ~IsObject(stdout)
    BY <1>3 DEF IsObject
  <2>2. fields.outcome = NoValue /\ fields.reason = NoValue
    BY <2>1 DEF fields, observed_fields
  <2>3. case.coverage \in {SUPPORTED_COVERAGE, UNSUPPORTED_COVERAGE}
    BY <1>1, <2>1 DEF CaseCoverage, CandidateEnvelope
  <2>4. record.json_parse_error
    BY <1>3 DEF stdout
  <2>5. _validate_public_protocol_shape(stdout, record, candidate)
    BY <1>1, <1>3, <2>2, <2>4 DEF _validate_public_protocol_shape, Verdict, case
  <2> QED
    BY <1>1, <1>2, <1>3, <2>2, <2>3, <2>5
       DEF PublicStream, _observed, _coverage, case, stdout
<1>4. CASE /\ candidate /\ CandidateEnvelope(stdout) /\ stdout.flags = {}
           /\ stdout.result.outcome \in {"READY", "REFUSED", "BLOCKED"}
           /\ stdout.coverage \in {SUPPORTED_COVERAGE, UNSUPPORTED_COVERAGE}
           /\ \/ stdout.holytail = NoValue
              \/ stdout.holytail.status = "unavailable"
              \/ observed_measurements(stdout) # NoValue
  <2>1. IsObject(stdout) /\ stdout.form = "object" /\ stdout.result # NoValue
    BY <1>4 DEF CandidateEnvelope, IsObject
  <2>2. fields = stdout.result
    BY <2>1 DEF fields, observed_fields
  <2>3. case.coverage = stdout.coverage
    BY <1>1, <1>4 DEF CaseCoverage
  <2>4. stdout.holytail # NoValue =>
          \/ stdout.holytail.status = "unavailable"
          \/ /\ stdout.holytail.status = "measured"
             /\ stdout.holytail.source = "product_observation"
             /\ stdout.holytail.value = value
    BY <1>4 DEF value, observed_measurements
  <2>5. CandidateShape(stdout, case)
    BY <1>1, <1>4, <2>2, <2>3, <2>4 DEF CandidateShape, Verdict, _measurements
  <2>6. ~record.json_parse_error
    BY <2>1 DEF stdout
  <2>7. _validate_public_protocol_shape(stdout, record, candidate)
    BY <1>4, <2>1, <2>5, <2>6 DEF _validate_public_protocol_shape, case
  <2> QED
    BY <1>1, <1>2, <1>4, <2>2, <2>3, <2>7
       DEF PublicStream, _observed, _coverage, case, stdout
<1>5. CASE /\ ~candidate /\ IsObject(stdout) /\ stdout.flags = {"fixture"}
           /\ stdout.result = NoValue /\ stdout.coverage = NoValue
           /\ stdout.holytail = NoValue
           /\ stdout.top.outcome \in {"READY", "REFUSED", "BLOCKED"}
  <2>1. fields = stdout.top
    BY <1>5 DEF fields, observed_fields
  <2>2. case.coverage = SUPPORTED_COVERAGE
    BY <1>1, <1>5 DEF CaseCoverage
  <2>3. FixtureShape(stdout, case)
    BY <1>1, <1>5, <2>1 DEF FixtureShape, Verdict
  <2>4. stdout.form = "object" /\ ~record.json_parse_error
    BY <1>5 DEF IsObject, stdout
  <2>5. _validate_public_protocol_shape(stdout, record, candidate)
    BY <1>5, <2>3, <2>4 DEF _validate_public_protocol_shape, case
  <2> QED
    BY <1>1, <1>2, <1>5, <2>1, <2>2, <2>5
       DEF PublicStream, _observed, _coverage, case, stdout
<1> QED
  BY <1>3, <1>4, <1>5 DEF KeepsTheProtocol, stdout

(* The suite's summary passes what is asked of the coverage lists and of    *)
(* the scores.                                                              *)
LEMMA GoodSummary ==
  ASSUME NEW results, NEW candidate,
         DOMAIN results = Case, Len(results) = Cases,
         \A c \in Case : _coverage(results[c].coverage)
  PROVE  LET scores == Summary(results, candidate)
         IN /\ scores.candidate_dependent = candidate
            /\ scores.case_count = Cases
            /\ scores.aggregated = aggregate_results(results)
            /\ _summary_coverage(scores, results)
<1> DEFINE scores == Summary(results, candidate)
<1>1. /\ scores.candidate_dependent = candidate
      /\ scores.case_count = Cases
      /\ scores.aggregated = aggregate_results(results)
      /\ scores.supported_exercised_case_ids = SupportedList(results)
      /\ scores.unsupported_unexercised_case_ids = UnsupportedList(results)
  BY DEF Summary
<1>2. \A c \in Case :
         \/ /\ results[c].coverage.support = "supported"
            /\ results[c].coverage.status = "exercised"
         \/ /\ results[c].coverage.support = "unsupported"
            /\ results[c].coverage.status = "unexercised"
  BY DEF _coverage, SUPPORTED_COVERAGE, UNSUPPORTED_COVERAGE
<1> HIDE DEF scores
<1>3. /\ SupportedList(results) \cup UnsupportedList(results) = Case
      /\ SupportedList(results) \cap UnsupportedList(results) = {}
  BY <1>2 DEF SupportedList, UnsupportedList
<1>4. \A c \in Case :
         c \in IF results[c].coverage.support = "supported"
               THEN SupportedList(results) ELSE UnsupportedList(results)
  BY <1>2 DEF SupportedList, UnsupportedList
<1>5. _summary_coverage(scores, results)
  BY <1>1, <1>3, <1>4 DEF _summary_coverage
<1> QED
  BY <1>1, <1>5 DEF scores

(* What a suite writes to its files. *)
LEMMA SuiteFiles ==
  ASSUME NEW suite
  PROVE  /\ Content(suite, environment) =
              [adapter |-> suite.candidate, binary |-> suite.binary]
         /\ Content(suite, summary) =
              [run_id |-> suite.run_id,
               scores |-> Summary(Results(suite), suite.candidate)]
         /\ \A c \in Case :
              /\ Content(suite, raw(c)) = suite.child[c].stdout
              /\ Content(suite, result(c)) =
                   [run_id |-> suite.run_id,
                    json_parse_error |-> suite.child[c].stdout.form = "malformed",
                    case |-> Results(suite)[c]]
<1>1. /\ summary # environment
      /\ \A c \in Case :
           /\ result(c) # environment /\ result(c) # summary
           /\ raw(c) # environment /\ raw(c) # summary
           /\ result(c)[1] = "result" /\ result(c)[2] = c
           /\ raw(c)[1] = "raw" /\ raw(c)[2] = c
  BY DEF result, raw, environment, summary
<1> QED
  BY <1>1 DEF Content

(* A whole run whose children kept the protocol validates. *)
LEMMA GoodRunIsValid ==
  ASSUME NEW suite,
         \A c \in Case : KeepsTheProtocol(suite.child[c].stdout, suite.candidate),
         NEW public,
         public.environment = Content(suite, environment),
         public.summary = Content(suite, summary),
         \A c \in Case : /\ public.records[c] = Content(suite, result(c))
                         /\ public.streams[c] = Content(suite, raw(c))
                         /\ public.files[c] = Content(suite, raw(c))
  PROVE  Valid(public)
<1> DEFINE cases == ReadCases(public)
           scores == public.summary.scores
<1>1. /\ public.environment.adapter = suite.candidate
      /\ public.summary.run_id = suite.run_id
      /\ scores = Summary(Results(suite), suite.candidate)
  <2>1. public.environment = [adapter |-> suite.candidate, binary |-> suite.binary]
    BY SuiteFiles
  <2>2. public.summary = [run_id |-> suite.run_id,
                          scores |-> Summary(Results(suite), suite.candidate)]
    BY SuiteFiles
  <2> QED
    BY <2>1, <2>2
<1>2. ASSUME NEW c \in Case
      PROVE  /\ public.records[c].run_id = suite.run_id
             /\ public.records[c].json_parse_error =
                  (suite.child[c].stdout.form = "malformed")
             /\ public.records[c].case =
                  CaseResult(suite.truth[c], suite.child[c], suite.candidate)
             /\ public.streams[c] = suite.child[c].stdout
             /\ public.files[c] = suite.child[c].stdout
  <2>1. public.records[c] =
          [run_id |-> suite.run_id,
           json_parse_error |-> suite.child[c].stdout.form = "malformed",
           case |-> Results(suite)[c]]
    BY SuiteFiles
  <2>2. Results(suite)[c] =
          CaseResult(suite.truth[c], suite.child[c], suite.candidate)
    BY DEF Results
  <2>3. Content(suite, raw(c)) = suite.child[c].stdout
    BY SuiteFiles
  <2> QED
    BY <2>1, <2>2, <2>3
<1>3. cases = Results(suite)
  BY <1>2 DEF ReadCases, Results
<1>4. DOMAIN cases = Case /\ Len(cases) = Cases
  BY CasesAssumption DEF ReadCases, Case
<1>5. ASSUME NEW c \in Case
      PROVE  /\ _observed(cases[c].observed)
             /\ cases[c].classification = _derived_classification(cases[c])
             /\ _coverage(cases[c].coverage)
             /\ public.files[c] = public.records[c].case.raw.stdout
             /\ _validate_public_protocol_shape(public.streams[c], public.records[c],
                                                suite.candidate)
  <2> DEFINE record == public.records[c]
  <2>1. /\ record.case = CaseResult(suite.truth[c], suite.child[c], suite.candidate)
        /\ record.json_parse_error = (suite.child[c].stdout.form = "malformed")
    BY <1>2
  <2> HIDE DEF record
  <2>2. /\ _observed(record.case.observed)
        /\ record.case.classification = _derived_classification(record.case)
        /\ _coverage(record.case.coverage)
        /\ _validate_public_protocol_shape(suite.child[c].stdout, record,
                                           suite.candidate)
    BY <2>1, GoodCase
  <2>3. record.case.raw = suite.child[c]
    BY <2>1 DEF CaseResult
  <2>4. cases[c] = record.case
    BY DEF ReadCases, record
  <2> QED
    BY <1>2, <2>2, <2>3, <2>4 DEF record
<1> HIDE DEF cases, scores
<1>6. /\ scores.candidate_dependent = suite.candidate
      /\ scores.case_count = Cases
      /\ scores.aggregated = aggregate_results(cases)
      /\ _summary_coverage(scores, cases)
  BY <1>1, <1>3, <1>4, <1>5, GoodSummary
<1>7. IdentityIsBound(public) /\ FilesAreBound(public)
  BY <1>1, <1>2, <1>5 DEF IdentityIsBound, FilesAreBound
<1>8. ScoresAreDerived(public)
  BY <1>6 DEF ScoresAreDerived, scores, cases
<1> QED
  BY <1>1, <1>5, <1>6, <1>7, <1>8 DEF Valid, scores, cases

-----------------------------------------------------------------------------
(* A good run is never refused *)

Good(s) ==
    /\ Alone(s)
    /\ ~(suites[s].candidate /\ suites[s].binary = "fixture")
    /\ \A c \in Case :
          KeepsTheProtocol(suites[s].child[c].stdout, suites[s].candidate)

(* A step of the exporter in the directory of a good run that has finished. *)
LEMMA GoodStep ==
  ASSUME ExportInv, WritersInv, SoloInv, NEW s \in Suites, Good(s), Export
  PROVE  ~Refuse
<1>1. OwnReads(s) /\ \A f \in File : files[f] = s
  BY SoloFiles DEF Good, Alone, SoloInv, Only
<1>2. /\ \A f \in File : Holds(f) /\ Read(f) = Content(suites[s], f)
      /\ files[environment] # Missing /\ files[summary] # Missing
  BY <1>1, FilesAssumption DEF Holds, Read, File
<1>3. /\ summary \in File /\ environment \in File
      /\ \A c \in Case : result(c) \in File /\ raw(c) \in File
  BY DEF File
<1>4. seen \in Seen /\ Progress
  BY DEF ExportInv
<1>5. ASSUME pc \in HasSummary
      PROVE  seen.summary.scores.candidate_dependent = suites[s].candidate
  <2>1. seen.summary = Content(suites[s], summary)
    BY <1>1, <1>5 DEF OwnReads
  <2>2. seen.summary = [run_id |-> suites[s].run_id,
                        scores |-> Summary(Results(suites[s]), suites[s].candidate)]
    BY <2>1, SuiteFiles
  <2>3. seen.summary.scores = Summary(Results(suites[s]), suites[s].candidate)
    BY <2>2
  <2> QED
    BY <2>3 DEF Summary
<1> SUFFICES ASSUME Refuse PROVE FALSE
  OBVIOUS
<1>6. CASE Begin
  BY <1>2, <1>6 DEF Begin, Refuse
<1>7. CASE ReadResult
  <2> DEFINE c == Len(seen.records) + 1
  <2>1. pc = "results" /\ c \in Case
    BY <1>4, <1>7, CasesAssumption DEF ReadResult, Progress, Seen, Case
  <2>2. Holds(result(c))
    BY <1>2, <1>3, <2>1
  <2>3. pc' = IF c = Cases THEN "summary" ELSE pc
    BY <1>7, <2>2 DEF ReadResult
  <2> QED
    BY <2>1, <2>3 DEF Refuse
<1>8. CASE ReadSummary
  BY <1>2, <1>3, <1>8 DEF ReadSummary, Refuse
<1>9. CASE ReadEnvironment
  <2>1. pc = "environment" /\ pc \in HasSummary
    BY <1>9 DEF ReadEnvironment, HasSummary, HasRecords
  <2>2. candidate_dependent = suites[s].candidate
    BY <1>5, <2>1 DEF candidate_dependent
  <2>3. Holds(environment) /\ Read(environment).binary = suites[s].binary
    <3>1. Read(environment) =
            [adapter |-> suites[s].candidate, binary |-> suites[s].binary]
      BY <1>2, <1>3, SuiteFiles
    <3> QED
      BY <1>2, <1>3, <3>1
  <2> QED
    BY <1>9, <2>2, <2>3 DEF ReadEnvironment, Refuse, Good
<1>10. CASE ReadStream
  <2> DEFINE c == Len(seen.streams) + 1
  <2>1. /\ pc = "streams" /\ pc \in HasSummary /\ pc \in HasRecords
        /\ c \in Case
    BY <1>4, <1>10, CasesAssumption
       DEF ReadStream, Progress, Seen, Case, HasSummary, HasRecords
  <2>2. candidate_dependent = suites[s].candidate
    BY <1>5, <2>1 DEF candidate_dependent
  <2>3. seen.records[c] = Content(suites[s], result(c))
    BY <1>1, <1>4, <2>1 DEF OwnReads, Progress, Case
  <2>4. /\ seen.records[c].case =
             CaseResult(suites[s].truth[c], suites[s].child[c], suites[s].candidate)
        /\ seen.records[c].json_parse_error =
             (suites[s].child[c].stdout.form = "malformed")
    <3>1. seen.records[c] =
            [run_id |-> suites[s].run_id,
             json_parse_error |-> suites[s].child[c].stdout.form = "malformed",
             case |-> Results(suites[s])[c]]
      BY <2>1, <2>3, SuiteFiles
    <3>2. Results(suites[s])[c] =
            CaseResult(suites[s].truth[c], suites[s].child[c], suites[s].candidate)
      BY <2>1 DEF Results
    <3> HIDE DEF c
    <3> QED
      BY <3>1, <3>2
  <2>5. Holds(raw(c)) /\ Read(raw(c)) = suites[s].child[c].stdout
    BY <1>2, <1>3, <2>1, SuiteFiles
  <2>6. KeepsTheProtocol(suites[s].child[c].stdout, suites[s].candidate)
    BY <2>1 DEF Good
  <2> HIDE DEF c
  <2>7. PublicStream(Read(raw(c)), seen.records[c].case.raw.stdout,
                     candidate_dependent)
    BY <2>2, <2>4, <2>5, <2>6, GoodCase
  <2>8. pc' = IF c = Cases THEN "source_files" ELSE pc
    BY <1>10, <2>5, <2>7 DEF ReadStream, c
  <2> QED
    BY <2>1, <2>8 DEF Refuse
<1>11. CASE DigestFile
  BY <1>11 DEF DigestFile, Refuse
<1>12. CASE Validate
  <2>1. /\ pc = "validate" /\ pc \in HasSummary /\ pc \in HasEnvironment
        /\ pc \in HasRecords /\ pc \in HasStreams /\ pc \in HasFiles
    BY <1>12 DEF Validate, HasSummary, HasEnvironment, HasRecords, HasStreams, HasFiles
  <2>2. /\ Len(seen.records) = Cases /\ Len(seen.streams) = Cases
        /\ Len(seen.files) = Cases
    BY <1>4, <2>1 DEF Progress
  <2>3. /\ seen.environment = Content(suites[s], environment)
        /\ seen.summary = Content(suites[s], summary)
        /\ \A c \in Case : /\ seen.records[c] = Content(suites[s], result(c))
                            /\ seen.streams[c] = Content(suites[s], raw(c))
                            /\ seen.files[c] = Content(suites[s], raw(c))
    BY <1>1, <2>1, <2>2 DEF OwnReads, Case
  <2>4. Valid(seen)
    BY <2>3, GoodRunIsValid DEF Good
  <2> QED
    BY <1>12, <2>1, <2>4 DEF Validate, Refuse
<1> QED
  BY <1>6, <1>7, <1>8, <1>9, <1>10, <1>11, <1>12 DEF Export

(* The exporter re-implements what the suite computes, and the two agree    *)
(* (export_public.py:769-1010): a finished run alone in its directory whose *)
(* children kept the protocol is never refused.                             *)
THEOREM GoodRuns == Spec => GoodRunsAreExported
<1>1. ExportInv /\ WritersInv /\ SoloInv /\ [Next]_vars =>
        [\A s \in Suites :
           (/\ Alone(s)
            /\ ~(suites[s].candidate /\ suites[s].binary = "fixture")
            /\ \A c \in Case :
                  KeepsTheProtocol(suites[s].child[c].stdout, suites[s].candidate))
           => (pc' = "refused" => pc = "refused")]_vars
  <2> SUFFICES ASSUME ExportInv, WritersInv, SoloInv, Next, NEW s \in Suites,
                      Good(s), pc' = "refused", pc # "refused"
               PROVE  FALSE
    BY DEF Good, Alone
  <2>1. \/ Export /\ Refuse
        \/ \E t \in Suites : OpenOrWrite(t)
        \/ Export /\ ~Refuse
    BY DEF Next
  <2>2. CASE \E t \in Suites : OpenOrWrite(t)
    BY <2>2 DEF OpenOrWrite
  <2>3. CASE Export
    <3>1. ~Refuse
      BY <2>3, GoodStep
    <3> QED
      BY <2>3, <3>1 DEF Export, Begin, ReadResult, ReadSummary, ReadEnvironment,
                        ReadStream, DigestFile, Validate
  <2> QED
    BY <2>1, <2>2, <2>3
<1> QED
  BY <1>1, ExportInvariant, WritersInvariant, SoloInvariant, PTL
     DEF Spec, GoodRunsAreExported
=============================================================================
