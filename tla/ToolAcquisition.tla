-------------------------- MODULE ToolAcquisition --------------------------
(***************************************************************************)
(* How the packaging tools acquire a foreign program in three commands,    *)
(* each run by an operator and each able to die anywhere:                  *)
(*   acquire  downloads the archive into quarantine and audits it without  *)
(*            extracting it (packaging/dependency_walker_quarantine.py);   *)
(*   extract  checks it against the reviewed one, extracts the two allowed *)
(*            entries, reports (packaging/dependency_walker_binary_audit); *)
(*   stage    copies them into the build cache with one directory rename   *)
(*            (packaging/dependency_walker_cache.py).                      *)
(***************************************************************************)
EXTENDS Naturals, Sequences, FiniteSets

CONSTANTS Operators, Commands, MaxCommands

\* What the constants must satisfy.
AcquisitionAssumption ==
    /\ Commands \subseteq {"acquire", "extract", "stage"}
    /\ MaxCommands \in Nat \ {0}

VARIABLES zip, downloadAudit, archiveAudit,  \* the quarantine
          extracted,    \* file of the extraction -> its bytes
          extraction,   \* the extraction directory exists
          parts,        \* runs whose .part files lie in it
          reported,     \* the binary audit's report exists
          published,    \* file of the published cache -> its bytes
          place, own,   \* each operator's place and locals
          begun,        \* how many commands each operator has begun
          touched       \* what something else has changed

quarantine == <<zip, downloadAudit, archiveAudit>>
extractionDir == <<extracted, extraction, parts>>
acquisitionVars == <<quarantine, extractionDir, reported, published, place, own, begun, touched>>

\* EXTRACTABLE_ENTRIES, which are EXPECTED_FILES of the cache, in their order.
FileOrder == <<"depends.exe", "depends.dll">>
FileNames == {"depends.exe", "depends.dll"}
NoFiles == [n \in {} |-> ""]

\* _validate_fixed_directory: exactly the two files, with the reviewed bytes.
Good(dir) == DOMAIN dir = FileNames /\ \A n \in FileNames : dir[n] = "good"

-----------------------------------------------------------------------------
(* Archives, by the facts the audit looks at.                              *)

\* An entry: its name, that name in lower case, the last segment of that, the
\* flaw of its path, type or size, and whether its bytes are reviewed.
Entry(n, b) == [name |-> n, fold |-> n, base |-> n, flaw |-> "none", bytes |-> b]
Reviewed == {Entry("depends.exe", "good"), Entry("depends.dll", "good"),
             Entry("depends.chm", "good")}

\* What the server may answer: the reviewed archive, one whose bytes differ,
\* one with a second depends.exe in another case or another directory, one
\* with an unsafe path, type or size, and no archive at all.
Entries ==
    [reviewed |-> Reviewed,
     other    |-> {Entry("depends.exe", "bad"), Entry("depends.dll", "good")},
     twin     |-> Reviewed \cup {[Entry("DEPENDS.EXE", "bad") EXCEPT
                                    !.fold = "depends.exe", !.base = "depends.exe"]},
     nested   |-> Reviewed \cup {[Entry("bin/depends.exe", "bad") EXCEPT
                                    !.base = "depends.exe"]},
     unsafe   |-> Reviewed \cup {[Entry("../x", "bad") EXCEPT !.flaw = "unsafe"]},
     broken   |-> {}]
Archives == DOMAIN Entries

\* audit_zip_archive raises for what is not an archive.
Readable(a) == a \notin {"none", "broken"}

\* audit_zip_archive: no flaw of a path, a type or a size, no two names that
\* differ only in case, one depends.exe wherever it lies.  Its bytes are only
\* read when the sizes are within the limits, and are an AMD64 program.
SafeArchive(a) ==
    /\ \A e \in Entries[a] : e.flaw = "none"
    /\ \A e, f \in Entries[a] : e.fold = f.fold => e = f
    /\ Cardinality({e \in Entries[a] : e.base = "depends.exe"}) = 1

NoLocals == [part |-> "none", staging |-> NoFiles, todo |-> <<>>]

AcquisitionInit ==
    /\ zip = "none" /\ downloadAudit = "none" /\ archiveAudit = "none"
    /\ extracted = NoFiles /\ extraction = FALSE /\ parts = {}
    /\ reported = FALSE /\ published = NoFiles
    /\ place = [o \in Operators |-> "idle"] /\ own = [o \in Operators |-> NoLocals]
    /\ begun = [o \in Operators |-> 0] /\ touched = {}

Proceed(o, l) == place' = [place EXCEPT ![o] = l]
Go(o, l) == Proceed(o, l) /\ UNCHANGED own
\* A command reports that it completed, or fails, or dies; what it had of its
\* own outside the extraction no longer matters.
End(o, c) == Proceed(o, c) /\ own' = [own EXCEPT ![o] = NoLocals]
Rest == {"idle", "completed", "failed"}
Begins(o) == place[o] \in Rest /\ begun[o] < MaxCommands
             /\ begun' = [begun EXCEPT ![o] = @ + 1]

-----------------------------------------------------------------------------
(* acquire_dependency_walker.                                              *)

\* Nothing may lie in quarantine, whose directory is made if need be, which
\* may fail.
AcquireBegin(o) ==
    /\ "acquire" \in Commands /\ Begins(o)
    /\ \/ /\ zip = "none" /\ downloadAudit = "none" /\ archiveAudit = "none"
          /\ Go(o, "download")
       \/ End(o, "failed")
    /\ UNCHANGED <<quarantine, extractionDir, reported, published, touched>>

\* The response is opened and streamed into the run's own .part file, which is
\* audited there; a redirect, an error, a body too large, an interruption or
\* an archive that cannot be read ends the command and removes the file.
Download(o) ==
    /\ place[o] = "download"
    /\ \/ \E a \in Archives : /\ Readable(a)
                               /\ own' = [own EXCEPT ![o].part = a] /\ Proceed(o, "publish")
       \/ End(o, "failed")
    /\ UNCHANGED <<quarantine, extractionDir, reported, published, begun, touched>>

\* The rename of the .part file fails when the archive exists, or otherwise.
MayPublish == zip = "none"

PublishZip(o) ==
    /\ place[o] = "publish"
    /\ \/ MayPublish /\ zip' = own[o].part /\ Go(o, "audit1")
       \/ End(o, "failed") /\ UNCHANGED zip
    /\ UNCHANGED <<downloadAudit, archiveAudit, extractionDir, reported, published, begun,
                   touched>>

\* The two audit files, each of which must be new.
WriteDownloadAudit(o) ==
    /\ place[o] = "audit1"
    /\ \/ /\ downloadAudit = "none"
          /\ downloadAudit' = own[o].part /\ Go(o, "audit2")
       \/ End(o, "failed") /\ UNCHANGED downloadAudit
    /\ UNCHANGED <<zip, archiveAudit, extractionDir, reported, published, begun, touched>>

\* What the audit of the archive says.
Verdict(a) == IF SafeArchive(a) THEN "review_required" ELSE "archive_rejected"

WriteArchiveAudit(o) ==
    /\ place[o] = "audit2"
    /\ \/ /\ archiveAudit = "none"
          /\ archiveAudit' = Verdict(own[o].part) /\ End(o, "completed")
       \/ End(o, "failed") /\ UNCHANGED archiveAudit
    /\ UNCHANGED <<zip, downloadAudit, extractionDir, reported, published, begun, touched>>

-----------------------------------------------------------------------------
(* audit_dependency_walker_binaries.                                       *)

\* Seeded fault: the verdict of the archive's audit is relied upon.
IsReviewedByVerdict == archiveAudit = "review_required"

\* _verify_zip_and_entries: the archive's size and hash are the reviewed ones;
\* then its entries are exactly the reviewed ones, by name and hash.
IsReviewed ==
    /\ zip = "reviewed"
    /\ {e.name : e \in Entries[zip]} = {e.name : e \in Reviewed}
    /\ \A e \in Entries[zip] : e.bytes = "good"

\* The report must not exist and the archive must be the reviewed one; reading
\* it may fail.
ExtractBegin(o) ==
    /\ "extract" \in Commands /\ Begins(o)
    /\ \/ ~reported /\ IsReviewed /\ Go(o, "look")
       \/ End(o, "failed")
    /\ UNCHANGED <<quarantine, extractionDir, reported, published, touched>>

\* _validate_existing_extraction: an extraction that is already there is
\* accepted only if it is the two files, with the reviewed bytes and nothing
\* besides.
ExistingExtractionValid == Good(extracted) /\ parts = {}

LookForExtraction(o) ==
    /\ place[o] = "look"
    /\ \/ ~extraction /\ Go(o, "makedir")
       \/ extraction /\ ExistingExtractionValid /\ Go(o, "inspect")
       \/ extraction /\ End(o, "failed")
    /\ UNCHANGED <<quarantine, extractionDir, reported, published, begun, touched>>

\* _extract_allowed_entries.  The directory may have appeared meanwhile, and
\* is made if it has not; the targets must not exist.
MakeExtraction(o) ==
    /\ place[o] = "makedir"
    /\ \/ /\ extraction' = TRUE
          /\ IF DOMAIN extracted = {}
               THEN Go(o, "write")
               ELSE End(o, "failed")
       \/ /\ End(o, "failed")
          /\ UNCHANGED extraction
    /\ UNCHANGED <<quarantine, extracted, parts, reported, published, begun, touched>>

Run(o) == <<o, begun[o]>>

\* The run's lock file lies in the directory, and then its temporary files.
LockExtraction(o) ==
    /\ place[o] = "write"
    /\ \/ /\ parts' = parts \cup {Run(o)} /\ Go(o, "fill")
       \/ End(o, "failed") /\ UNCHANGED parts
    /\ UNCHANGED <<quarantine, extracted, extraction, reported, published, begun, touched>>

\* The `finally`: lock and temporary files are removed, unless that fails.
Sweep(o) == parts' \in {parts, parts \ {Run(o)}}

\* The archive is opened again, and what is read is hashed while it is
\* written: whatever lies there now, only the reviewed bytes go on.
EntryOk(n) ==
    Readable(zip) /\ \E e \in Entries[zip] : e.name = n /\ e.bytes = "good"

FillTemporaries(o) ==
    /\ place[o] = "fill"
    /\ \/ /\ \A n \in FileNames : EntryOk(n)
          /\ own' = [own EXCEPT ![o].todo = FileOrder] /\ Proceed(o, "rename")
          /\ UNCHANGED parts
       \/ End(o, "failed") /\ Sweep(o)
    /\ UNCHANGED <<quarantine, extracted, extraction, reported, published, begun, touched>>

\* A target that exists is never replaced.
MayPlace(n) == n \notin DOMAIN extracted

\* One temporary file is renamed to its target; after the last one, or when
\* one cannot be, the `finally` runs.
PlaceExtracted(o) ==
    /\ place[o] = "rename"
    /\ LET n == Head(own[o].todo)
           rest == Tail(own[o].todo) IN
       \/ /\ MayPlace(n)
          /\ extracted' = [x \in DOMAIN extracted \cup {n} |->
                              IF x = n THEN "good" ELSE extracted[x]]
          /\ own' = [own EXCEPT ![o].todo = rest]
          /\ IF rest = <<>> THEN Sweep(o) /\ Proceed(o, "inspect")
                            ELSE UNCHANGED <<parts, place>>
       \/ /\ End(o, "failed") /\ Sweep(o)
          /\ UNCHANGED extracted
    /\ UNCHANGED <<quarantine, extraction, reported, published, begun, touched>>

\* The two programs are inspected statically, without being hashed again; the
\* report must be new.
WriteReport(o) ==
    /\ place[o] = "inspect"
    /\ \/ /\ ~reported /\ DOMAIN extracted = FileNames
          /\ reported' = TRUE /\ End(o, "completed")
       \/ End(o, "failed") /\ UNCHANGED reported
    /\ UNCHANGED <<quarantine, extractionDir, published, begun, touched>>

-----------------------------------------------------------------------------
(* stage_dependency_walker_cache.                                          *)

\* _validate_fixed_directory of the source: nothing but the two files.
SourceValid == extraction /\ Good(extracted) /\ parts = {}

StageBegin(o) ==
    /\ "stage" \in Commands /\ Begins(o)
    /\ \/ End(o, "failed")
       \/ /\ SourceValid /\ published = NoFiles
          /\ Proceed(o, "copy")
          /\ own' = [own EXCEPT ![o] = [NoLocals EXCEPT !.todo = FileOrder]]
       \/ SourceValid /\ Good(published) /\ End(o, "completed")
    /\ UNCHANGED <<quarantine, extractionDir, reported, published, touched>>

\* _copy_verified_file: what was copied must have the reviewed size and hash.
CopyOk(n) == n \in DOMAIN extracted /\ extracted[n] = "good"

\* One file is copied into the run's own .part directory.
CopyFile(o) ==
    /\ place[o] = "copy" /\ own[o].todo # <<>>
    /\ LET n == Head(own[o].todo)
           files == [x \in DOMAIN own[o].staging \cup {n} |->
                        IF x = n THEN extracted[n] ELSE own[o].staging[x]]
       IN \/ /\ CopyOk(n)
             /\ own' = [own EXCEPT ![o].staging = files, ![o].todo = Tail(@)]
             /\ UNCHANGED place
          \/ End(o, "failed")
    /\ UNCHANGED <<quarantine, extractionDir, reported, published, begun, touched>>

\* The validated directory is renamed into place; Windows refuses when the
\* cache exists.
PublishCache(o) ==
    /\ place[o] = "copy" /\ own[o].todo = <<>>
    /\ \/ /\ Good(own[o].staging) /\ published = NoFiles
          /\ published' = own[o].staging
          /\ own' = [own EXCEPT ![o].staging = NoFiles] /\ Proceed(o, "validate")
       \/ End(o, "failed") /\ UNCHANGED published
    /\ UNCHANGED <<quarantine, extractionDir, reported, begun, touched>>

\* The published cache is validated once more.
ValidateCache(o) ==
    /\ place[o] = "validate"
    /\ \/ Good(published) /\ End(o, "completed")
       \/ End(o, "failed")
    /\ UNCHANGED <<quarantine, extractionDir, reported, published, begun, touched>>

-----------------------------------------------------------------------------
(* The environment.                                                        *)

\* An operator's process dies; its .part files stay.
OperatorDies(o) ==
    /\ place[o] \notin Rest
    /\ End(o, "failed")
    /\ UNCHANGED <<quarantine, extractionDir, reported, published, begun, touched>>

\* Something else changes or removes an extracted file, once.
TouchExtraction ==
    /\ "extraction" \notin touched /\ touched' = touched \cup {"extraction"}
    /\ \E n \in DOMAIN extracted :
          \/ extracted' = [extracted EXCEPT ![n] = "bad"]
          \/ extracted' = [x \in DOMAIN extracted \ {n} |-> extracted[x]]
    /\ UNCHANGED <<quarantine, extraction, parts, reported, published, place, own, begun>>

\* Something else exchanges the archive, once.
TouchZip ==
    /\ "zip" \notin touched /\ zip # "none" /\ touched' = touched \cup {"zip"}
    /\ zip' \in Archives \ {zip}
    /\ UNCHANGED <<downloadAudit, archiveAudit, extractionDir, reported, published, place,
                   own, begun>>

AcquisitionNext ==
        \/ TouchExtraction \/ TouchZip
        \/ \E o \in Operators :
              \/ AcquireBegin(o) \/ Download(o) \/ PublishZip(o)
              \/ WriteDownloadAudit(o) \/ WriteArchiveAudit(o)
              \/ ExtractBegin(o) \/ LookForExtraction(o) \/ MakeExtraction(o)
              \/ LockExtraction(o) \/ FillTemporaries(o)
              \/ PlaceExtracted(o) \/ WriteReport(o)
              \/ StageBegin(o) \/ CopyFile(o) \/ PublishCache(o) \/ ValidateCache(o)
              \/ OperatorDies(o)

AcquisitionSpec == AcquisitionInit /\ [][AcquisitionNext]_acquisitionVars

-----------------------------------------------------------------------------
(* Properties.                                                             *)

\* Every variable keeps its type.
AcquisitionTypeOK ==
    /\ zip \in Archives \cup {"none"} /\ downloadAudit \in Archives \cup {"none"}
    /\ archiveAudit \in {"none", "review_required", "archive_rejected"}
    /\ DOMAIN extracted \subseteq FileNames /\ DOMAIN published \subseteq FileNames
    /\ DOMAIN extracted # {} => extraction
    /\ parts \subseteq Operators \X (1..MaxCommands) /\ (parts # {} => extraction)

\* The evidence in quarantine is of one piece: whatever operators overlap or
\* die, an audit file describes the archive that lies there, and the archive's
\* audit is that of the same bytes.
AuditsDescribeZip ==
    /\ (downloadAudit # "none" /\ "zip" \notin touched) => zip = downloadAudit
    /\ archiveAudit # "none" => downloadAudit # "none" /\ archiveAudit = Verdict(downloadAudit)

\* Nothing is extracted, and no program audited, unless the reviewed archive
\* was there, however safe another archive looks; and as long as nothing else
\* touches the extraction it holds reviewed bytes, whichever archive lies in
\* quarantine meanwhile.
ExtractedIsReviewed ==
    /\ ((reported \/ extraction) /\ "zip" \notin touched) => zip = "reviewed"
    /\ "extraction" \notin touched => \A n \in DOMAIN extracted : extracted[n] = "good"

\* The published cache is all or nothing, and only ever the reviewed bytes,
\* although the source may change between its validation and the copy.
CacheIsReviewed == published = NoFiles \/ Good(published)

\* However operators overlap, fail and die, and whatever the server sends or
\* somebody exchanges: audits describe the archive, only reviewed bytes are
\* extracted, and the cache is the whole reviewed program or nothing.
ReviewedInputs == /\ AcquisitionTypeOK /\ AuditsDescribeZip
                  /\ ExtractedIsReviewed /\ CacheIsReviewed

\* What is in place stays as it was placed: no later or overlapping command
\* replaces an archive, an audit, a report or a published cache.
NothingIsReplaced ==
    /\ zip # "none" => (zip' = zip \/ touched' # touched)
    /\ downloadAudit # "none" => downloadAudit' = downloadAudit
    /\ archiveAudit # "none" => archiveAudit' = archiveAudit
    /\ reported => reported'
    /\ published # NoFiles => published' = published
=============================================================================
