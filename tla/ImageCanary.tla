----------------------------- MODULE ImageCanary -----------------------------
(***************************************************************************)
(* The canary of the image lane: one image of the site is downloaded,      *)
(* re-encoded, uploaded over the original if it has not changed since, and *)
(* put back from the local copy if the page degrades.  The owner runs the  *)
(* commands one after the other; each loads the state document, works and  *)
(* writes the document as its last step, so a command that is killed       *)
(* leaves files changed and the document as it was.  The download and the  *)
(* upload open their file for writing, which empties it, before the first  *)
(* byte arrives.  The owner may replace the image at any time.             *)
(***************************************************************************)
EXTENDS Naturals

CONSTANTS
    MaxEdits,     \* bound: images the owner puts there
    MaxCanaryCommands  \* bound: commands

ASSUME CanaryAssumption == MaxEdits \in Nat /\ MaxCanaryCommands \in Nat

VARIABLES
    image,        \* the number of the owner's latest image
    remote,       \* the file of the site
    copy,         \* original.webp in the work directory
    small,        \* optimized.webp in the work directory
    doc,          \* the state document
    stage,         \* where the command under way is
    slipped,      \* history: what the procedure does not protect from
    commands      \* commands so far

wvars == <<image, remote, copy, small, doc, stage, slipped, commands>>

\* One torn file stands for all.
TornImage == [of |-> 0, form |-> "torn"]
NoImage == [of |-> 0, form |-> "none"]
Original(n) == [of |-> n, form |-> "original"]
Small(f) == [f EXCEPT !.form = "small"]

Contents == [of : 1 .. MaxEdits + 1, form : {"original", "small"}] \cup {TornImage}
Uploading == {"compared", "opened", "written"}
Restoring == {"restoring", "reopened", "restored"}
CanarySteps == {"idle", "fetched", "fetchFailed"} \cup Uploading \cup Restoring
CanaryDocs == [prepared : BOOLEAN, hash : Contents \cup {NoImage}, staged : BOOLEAN, eligible : BOOLEAN,
               checked : BOOLEAN, executed : BOOLEAN, degraded : BOOLEAN]
Slips == {"raced", "retaken", "killed", "overwritten"}

\* hash: of the backup, or NoImage; staged: BACKUP_READY; eligible: a valid output
\* that saves enough; checked: the healthcheck before the upload passed.
CanaryInit ==
    /\ image = 1 /\ remote = Original(1)
    /\ copy = NoImage /\ small = NoImage
    /\ doc = [prepared |-> FALSE, hash |-> NoImage, staged |-> FALSE, eligible |-> FALSE,
              checked |-> FALSE, executed |-> FALSE, degraded |-> FALSE]
    /\ stage = "idle" /\ slipped = {} /\ commands = 0

-----------------------------------------------------------------------------
Command == stage = "idle" /\ commands < MaxCanaryCommands /\ commands' = commands + 1
Files == <<image, remote, copy, small>>

\* A command that only judges and records: the owner's decision, the
\* candidate, the tools, the page and the image are what they are.
Prepare ==
    /\ Command
    /\ \E ok \in BOOLEAN : doc' = [doc EXCEPT !.prepared = ok]
    /\ UNCHANGED <<Files, stage, slipped>>

PreUploadHealthcheck ==
    /\ Command
    /\ \E ok \in BOOLEAN : doc' = [doc EXCEPT !.checked = ok]
    /\ UNCHANGED <<Files, stage, slipped>>

\* The check after the upload and the validation that reads it.
ValidateCanary ==
    /\ Command
    /\ \E worse \in BOOLEAN : doc' = [doc EXCEPT !.degraded = worse]
    /\ UNCHANGED <<Files, stage, slipped>>

-----------------------------------------------------------------------------
\* The backup replaces the local copy of an earlier one.
BackupRefused ==
    /\ Command
    /\ doc' = [doc EXCEPT !.hash = NoImage, !.staged = FALSE]
    /\ UNCHANGED <<Files, stage, slipped>>

BackupDownload ==
    /\ Command /\ doc.prepared
    /\ \/ copy' = remote /\ stage' = "fetched"
       \/ copy' \in {copy, TornImage} /\ stage' = "fetchFailed"
    /\ slipped' = IF remote # Original(image) THEN slipped \cup {"retaken"} ELSE slipped
    /\ UNCHANGED <<image, remote, small, doc>>

\* An empty file is a backup with a hash that is not ready.
BackupSave ==
    /\ stage \in {"fetched", "fetchFailed"}
    /\ stage' = "idle"
    /\ IF stage = "fetched"
       THEN \E ready \in {TRUE} \cup {copy # TornImage} :
              doc' = [doc EXCEPT !.hash = copy, !.staged = ready]
       ELSE doc' = [doc EXCEPT !.hash = NoImage, !.staged = FALSE]
    /\ UNCHANGED <<Files, slipped, commands>>

\* Mutant: a backup that fails leaves the hash of the last one.
BackupSaveKeepsHash ==
    /\ stage \in {"fetched", "fetchFailed"}
    /\ stage' = "idle"
    /\ doc' = IF stage = "fetched" THEN [doc EXCEPT !.hash = copy, !.staged = TRUE] ELSE doc
    /\ UNCHANGED <<Files, slipped, commands>>

\* The tools may fail, and an output of an earlier run is then judged in the
\* place of the missing one; a torn copy may still look like an image.
OptimizeLocal ==
    /\ Command /\ doc.staged
    /\ \/ copy # TornImage /\ small' = Small(copy)
       \/ UNCHANGED small
    /\ \E ok \in BOOLEAN : doc' = [doc EXCEPT !.eligible = ok /\ small' # NoImage]
    /\ UNCHANGED <<image, remote, copy, stage, slipped>>

-----------------------------------------------------------------------------
\* The gates of the upload, the last of them the hash of the remote file; the
\* download of the remote file may also fail.
UploadRefused ==
    /\ Command
    /\ doc' = [doc EXCEPT !.executed = FALSE]
    /\ UNCHANGED <<Files, stage, slipped>>

\* Mutant: the remote file is downloaded and not compared.
UploadUncompared ==
    /\ Command
    /\ doc.hash # NoImage /\ doc.eligible /\ doc.checked
    /\ stage' = "compared"
    /\ UNCHANGED <<Files, doc, slipped>>

UploadCompare ==
    /\ Command
    /\ doc.hash # NoImage /\ doc.eligible /\ doc.checked
    /\ remote = doc.hash
    /\ stage' = "compared"
    /\ UNCHANGED <<Files, doc, slipped>>

Open(from, to) ==
    /\ stage = from
    /\ remote' = TornImage /\ stage' = to
    /\ UNCHANGED <<image, copy, small, doc, commands>>

UploadOpen == Open("compared", "opened") /\ UNCHANGED slipped

UploadWrite ==
    /\ stage = "opened"
    /\ remote' = small /\ stage' = "written"
    /\ UNCHANGED <<image, copy, small, doc, slipped, commands>>

\* The uploaded file is downloaded and compared.
UploadVerify ==
    /\ stage = "written"
    /\ stage' = "idle"
    /\ \E arrived \in BOOLEAN : doc' = [doc EXCEPT !.executed = arrived /\ remote = small]
    /\ UNCHANGED <<Files, slipped, commands>>

\* The connection breaks: what is at the remote path stays.
UploadBreaks ==
    /\ stage \in {"compared", "opened"}
    /\ stage' = "idle"
    /\ doc' = [doc EXCEPT !.executed = FALSE]
    /\ UNCHANGED <<Files, slipped, commands>>

-----------------------------------------------------------------------------
\* The rollback does not look at what it replaces.
RollbackIfDegraded ==
    /\ Command
    /\ doc.executed /\ doc.degraded /\ doc.hash # NoImage
    /\ stage' = "restoring"
    /\ UNCHANGED <<Files, doc, slipped>>

RollbackOpen ==
    /\ Open("restoring", "reopened")
    /\ slipped' = IF remote = Original(image) /\ copy # remote THEN slipped \cup {"overwritten"} ELSE slipped

RollbackWrite ==
    /\ stage = "reopened"
    /\ remote' = copy /\ stage' = "restored"
    /\ UNCHANGED <<image, copy, small, doc, slipped, commands>>

\* The report compares the remote file with the hash; no guard reads it.
RollbackEnds ==
    /\ stage \in Restoring
    /\ stage' = "idle"
    /\ UNCHANGED <<Files, doc, slipped, commands>>

-----------------------------------------------------------------------------
\* A command is killed before it saves the document; what it
\* downloaded for the backup may be a part.
Killed ==
    /\ stage # "idle"
    /\ stage' = "idle"
    /\ slipped' = IF stage = "fetchFailed" /\ copy = TornImage
                THEN slipped \cup {"killed"} ELSE slipped
    /\ UNCHANGED <<Files, doc, commands>>

\* The owner puts another image there.
OwnerEdits ==
    /\ image <= MaxEdits
    /\ image' = image + 1 /\ remote' = Original(image + 1)
    /\ slipped' = IF stage \in {"compared", "opened", "reopened"} THEN slipped \cup {"raced"} ELSE slipped
    /\ UNCHANGED <<copy, small, doc, stage, commands>>

CanaryNext ==
    \/ Prepare \/ PreUploadHealthcheck \/ ValidateCanary
    \/ BackupRefused \/ BackupDownload \/ BackupSave \/ OptimizeLocal
    \/ UploadRefused \/ UploadCompare \/ UploadOpen \/ UploadWrite \/ UploadVerify \/ UploadBreaks
    \/ RollbackIfDegraded \/ RollbackOpen \/ RollbackWrite \/ RollbackEnds
    \/ Killed \/ OwnerEdits

CanarySpec == CanaryInit /\ [][CanaryNext]_wvars

-----------------------------------------------------------------------------
\* Every variable keeps its type.
CanaryTypeOK ==
    /\ image \in 1 .. MaxEdits + 1
    /\ remote \in Contents /\ copy \in Contents \cup {NoImage} /\ small \in Contents \cup {NoImage}
    /\ doc \in CanaryDocs
    /\ stage \in CanarySteps /\ slipped \subseteq Slips /\ commands \in 0 .. MaxCanaryCommands

\* The owner's latest image is at the site or is the local copy, whatever
\* fails and whatever order the commands come in, except after one of four
\* slipped: an edit between the comparison and the end of the upload, a backup
\* taken of a file that is no longer the original, a backup killed before its
\* hash was saved, or a rollback over an edit.
OwnersImageIsKept ==
    slipped = {} => Original(image) \in {remote, copy}

\* "no_upload_executed": the rollback answers so only while the site has an
\* image of the owner's.
NothingToRollBack ==
    stage = "idle" /\ ~doc.executed => remote.form = "original"
=============================================================================
