----------------------------- MODULE Bootstrap -----------------------------
(***************************************************************************)
(* The BootstrapModel controller (src/src/bootstrapmodel.cpp) with its one *)
(* worker thread: Stage I from the cloud or from a file (download, zip     *)
(* check, extraction to datadir/bootstrap, layout and genesis checks,      *)
(* verified marker) and Stage II, each subtree's three-step replace taken  *)
(* as one step (StageII.tla checks deaths between the steps and the config *)
(* merge, which is left out here).  The GUI thread calls                   *)
(* the setters, RunStageI, RunStageII and Cancel at any time; the process  *)
(* may die at any time, and only the files survive.                        *)
(*                                                                         *)
(* An archive is identified with its content: a model value that is or is *)
(* not a zip file, holds some of the ledger subtrees (Layout) and belongs  *)
(* or not to the selected network.  A path chosen by the user is the       *)
(* archive in it, "dd" (datadir/bootstrap.zip itself) or "none".           *)
(***************************************************************************)
EXTENDS Naturals, FiniteSets, Sequences, SequencesExt

CONSTANTS
  Subtrees,        \* ledger subtrees: GetBootstrapDirList
  Blocks,          \* the subtree holding blk00000.dat (VerifyGenesisBlock)
  Absent,          \* "no such file or directory"
  Orig,            \* the node's own ledger
  Partial,         \* content of bootstrap.zip.tmp while a download runs
  Archives,        \* archive contents
  Zips,            \* those starting with "PK" (VerifyZip)
  OtherNet,        \* those whose genesis block is not this network's
  Layout(_),       \* Layout(a): the subtrees archive a contains
  CloudArchives,   \* what the bootstrap URL may deliver
  ExtArchives,     \* archives the user may select as a file
  CallerChecksMarker, \* the caller of RunStageII first asks RunStageIIPrepared
  MaxCrashes       \* bound on process deaths

ASSUME
  /\ Blocks \in Subtrees
  /\ Zips \subseteq Archives /\ OtherNet \subseteq Archives
  /\ \A a \in Archives : Layout(a) \subseteq Subtrees
  /\ CloudArchives \subseteq Archives /\ ExtArchives \subseteq Archives
  /\ CallerChecksMarker \in BOOLEAN /\ MaxCrashes \in Nat

VARIABLES
  \* files in the data directory
  live, bak, staged,  \* datadir/<s>, datadir/<s>.bak, datadir/bootstrap/<s>
  stagingDir,         \* datadir/bootstrap exists
  marker,             \* datadir/bootstrap/verified exists
  zip,                \* datadir/bootstrap.zip
  tmp,                \* datadir/bootstrap.zip.tmp
  \* BootstrapModel members, lost when the process dies
  mode,               \* bootstrapMode_
  filePath,           \* bootstrapFilePath_
  cancel,             \* cancel_
  runError,           \* latestRunError_ is not empty
  job,                \* the thread function of the running worker
  wpc,                \* the worker's next step; "Idle" when no worker runs
  \* history
  cancelledRun,       \* Cancel() was called while this run's worker ran
  crashes

files == <<live, bak, staged, stagingDir, marker, zip, tmp>>
model == <<mode, filePath, cancel, runError, job, wpc>>
vars == <<files, model, cancelledRun, crashes>>

Paths == ExtArchives \cup {"dd", "none"}
Contents == {Orig} \cup Archives
Trusted == {a \in Zips \ OtherNet : Layout(a) = Subtrees}

Init ==
  /\ live = [s \in Subtrees |-> Orig]
  /\ bak = [s \in Subtrees |-> Absent]
  /\ staged = [s \in Subtrees |-> Absent]
  /\ stagingDir = FALSE /\ marker = FALSE /\ zip = Absent /\ tmp = Absent
  /\ mode = "cloud" /\ filePath = "none" /\ cancel = FALSE
  /\ runError = FALSE /\ job = "None" /\ wpc = "Idle"
  /\ cancelledRun = FALSE /\ crashes = 0

\* IsBootstrapRunning: a worker thread exists and has not finished.
Running == wpc # "Idle"

\* The file a path names, seen through exists().
ArchiveAt(p) == CASE p = "dd" -> zip [] p = "none" -> Absent [] OTHER -> p

\* The selected file exists.
BootstrapFilePathOk == ArchiveAt(filePath) # Absent

\* The archive a Stage I worker reads: the selected file, or the download.
ArchivePath == IF job = "File" THEN filePath ELSE "dd"

(***************************************************************************)
(* GUI-thread calls                                                        *)
(***************************************************************************)
SetBootstrapMode(m) ==
  /\ ~Running
  /\ mode' = m
  /\ UNCHANGED <<files, filePath, cancel, runError, job, wpc, cancelledRun, crashes>>

SetBootstrapFilePath(p) ==
  /\ ~Running
  /\ filePath' = p
  /\ UNCHANGED <<files, mode, cancel, runError, job, wpc, cancelledRun, crashes>>

\* remove_all(datadir/bootstrap); remove(datadir/bootstrap.zip).
CleanUpImpl ==
  /\ stagingDir' = FALSE /\ marker' = FALSE
  /\ staged' = [s \in Subtrees |-> Absent]
  /\ zip' = Absent

\* Mutant of RunStageI: IsBootstrapRunning is not asked first.
RunStageIUnguarded ==
  /\ CleanUpImpl
  /\ job' = IF mode = "file" THEN "File" ELSE "Cloud"
  /\ wpc' = "Start"
  /\ cancelledRun' = FALSE
  /\ UNCHANGED <<live, bak, tmp, mode, filePath, cancel, runError, crashes>>

\* RunStageI after RunStageIPossible: CleanUp, then a worker in the mode.
RunStageI ==
  /\ ~Running
  /\ CleanUpImpl
  /\ job' = IF mode = "file" THEN "File" ELSE "Cloud"
  /\ wpc' = "Start"
  /\ cancelledRun' = FALSE
  /\ UNCHANGED <<live, bak, tmp, mode, filePath, cancel, runError, crashes>>

\* Mutant of RunStageIIPrepared: the staging directory taken for the marker.
PreparedDirOnly == stagingDir

RunStageIIPrepared == marker

RunStageII ==
  /\ ~Running
  /\ CallerChecksMarker => RunStageIIPrepared
  /\ job' = "StageII"
  /\ wpc' = "Start"
  /\ cancelledRun' = FALSE
  /\ UNCHANGED <<files, mode, filePath, cancel, runError, crashes>>

Cancel ==
  /\ cancel' = TRUE
  /\ cancelledRun' = (cancelledRun \/ Running)
  /\ UNCHANGED <<files, mode, filePath, runError, job, wpc, crashes>>

(***************************************************************************)
(* The worker thread                                                       *)
(***************************************************************************)
Goto(l) == wpc' = l

\* Mutant of Fail: the error is recorded but the function does not return.
FailNoReturn == runError' = TRUE /\ UNCHANGED wpc

\* An error return: latestRunError_ is set and the thread function ends.
Fail == runError' = TRUE /\ Goto("Exit")

\* The first step of each thread function's Impl.
FirstPc(j) == CASE j = "Cloud" -> "CheckPaths"
                [] j = "File" -> "OpenArchive"
                [] OTHER -> "CheckStaging"

\* Run*Thread: NotifyModelChanged, then ResetState on the worker thread.
ResetState ==
  /\ wpc = "Start"
  /\ cancel' = FALSE /\ runError' = FALSE
  /\ Goto(FirstPc(job))
  /\ UNCHANGED <<files, mode, filePath, job, cancelledRun, crashes>>

\* The process state of a freshly constructed BootstrapModel.
Restart ==
  /\ mode' = "cloud" /\ filePath' = "none" /\ cancel' = FALSE
  /\ runError' = FALSE /\ job' = "None" /\ wpc' = "Idle"
  /\ cancelledRun' = FALSE

\* RunFromCloudImpl asserts (assertions are enabled) that neither the
\* archive nor the temporary download file exists.
CheckPaths ==
  /\ wpc = "CheckPaths"
  /\ \/ /\ zip = Absent /\ tmp = Absent
        /\ Goto("Download")
        /\ UNCHANGED <<mode, filePath, cancel, runError, job, cancelledRun>>
     \/ /\ zip # Absent \/ tmp # Absent
        /\ Restart
  /\ UNCHANGED <<files, crashes>>

\* CURLDownloadToFile into bootstrap.zip.tmp.  The progress callback returns
\* CURL_CANCEL_DOWNLOAD once cancel_ is set; the transfer may also finish
\* (with whatever the server sent) or fail.
Download ==
  /\ wpc = "Download"
  /\ \/ cancel /\ Goto("DownloadFailed") /\ UNCHANGED tmp
     \/ ~cancel /\ tmp' = Partial /\ UNCHANGED wpc
     \/ \E a \in CloudArchives : tmp' = a /\ Goto("RenameTmp")
     \/ Goto("DownloadFailed") /\ UNCHANGED tmp
  /\ UNCHANGED <<live, bak, staged, stagingDir, marker, zip>>
  /\ UNCHANGED <<mode, filePath, cancel, runError, job, cancelledRun, crashes>>

DownloadFailed ==
  /\ wpc = "DownloadFailed"
  /\ tmp' = Absent /\ Fail
  /\ UNCHANGED <<live, bak, staged, stagingDir, marker, zip>>
  /\ UNCHANGED <<mode, filePath, cancel, job, cancelledRun, crashes>>

\* rename(tmp, zip), VerifyZip, then RunFromFileImpl on datadir/bootstrap.zip.
RenameTmp ==
  /\ wpc = "RenameTmp"
  /\ zip' = tmp /\ tmp' = Absent
  /\ IF tmp \in Zips THEN Goto("OpenArchive") /\ UNCHANGED runError ELSE Fail
  /\ UNCHANGED <<live, bak, staged, stagingDir, marker>>
  /\ UNCHANGED <<mode, filePath, cancel, job, cancelledRun, crashes>>

\* RunFromFileImpl: the path must exist and pass VerifyZip (VerifySignature
\* always succeeds).
OpenArchive ==
  /\ wpc = "OpenArchive"
  /\ IF ArchiveAt(ArchivePath) \in Zips
       THEN Goto("Extract") /\ UNCHANGED runError
       ELSE Fail
  /\ UNCHANGED <<files, mode, filePath, cancel, job, cancelledRun, crashes>>

\* Mutant of ExtractedTree: only the archive's own entries are described.
ExtractedTreeOnlyLayout(a) == [s \in Layout(a) |-> a]

\* The staging directory after ZipExtract of archive a.
ExtractedTree(a) == [s \in Subtrees |-> IF s \in Layout(a) THEN a ELSE Absent]

\* create_directory(datadir/bootstrap) (asserted not to exist) and ZipExtract,
\* which may fail after extracting part of the archive.
Extract ==
  /\ wpc = "Extract"
  /\ LET a == ArchiveAt(ArchivePath) IN
       \/ staged' = ExtractedTree(a) /\ Goto("VerifyLayout") /\ UNCHANGED runError
       \/ \E part \in SUBSET Layout(a) \ {Layout(a)} :
            staged' = [s \in Subtrees |-> IF s \in part THEN a ELSE Absent] /\ Fail
  /\ stagingDir' = TRUE
  /\ UNCHANGED <<live, bak, marker, zip, tmp>>
  /\ UNCHANGED <<mode, filePath, cancel, job, cancelledRun, crashes>>

\* VerifyBootstrapFolder: every subtree of GetBootstrapDirList exists.
VerifyBootstrapFolder ==
  /\ wpc = "VerifyLayout"
  /\ IF \A s \in Subtrees : staged[s] # Absent
       THEN Goto("VerifyNetwork") /\ UNCHANGED runError
       ELSE Fail
  /\ UNCHANGED <<files, mode, filePath, cancel, job, cancelledRun, crashes>>

\* Mutant of GenesisOk: the genesis block is not compared.
GenesisAny(a) == TRUE

\* VerifyGenesisBlock: magic and hash of the first block of blk00000.dat.
GenesisOk(a) == a \notin OtherNet

VerifyNetworkType ==
  /\ wpc = "VerifyNetwork"
  /\ IF GenesisOk(staged[Blocks])
       THEN Goto("WriteMarker") /\ UNCHANGED runError
       ELSE Fail
  /\ UNCHANGED <<files, mode, filePath, cancel, job, cancelledRun, crashes>>

(***************************************************************************)
(* Hash(ifs): the characters of the stream handed to SHA256_Update, chunk  *)
(* by chunk.  A stream is a sequence of bytes; the buffer input holds      *)
(* CHUNK bytes, zero at first, and each read overwrites its first gcount   *)
(* bytes.  eof is set by the read that returns fewer than CHUNK bytes      *)
(* (after a stream of whole chunks, by a read that returns none).  gcount  *)
(* never exceeds CHUNK, so the assert(false) branch is not taken.          *)
(***************************************************************************)
\* The bytes a text-mode stream treats specially on Windows.
LF == 10
CR == 13
SUB == 26

\* The builds of the node: the C++ runtime of a POSIX build reads a file's
\* bytes unchanged in text mode; the Windows runtime translates them.
Builds == {"POSIX", "Windows"}

\* A Windows text-mode read: CR LF becomes LF, and SUB (Ctrl-Z) ends the
\* stream.
RECURSIVE WindowsText(_)
WindowsText(f) ==
  IF f = <<>> \/ Head(f) = SUB THEN <<>>
  ELSE IF Len(f) > 1 /\ Head(f) = CR /\ f[2] = LF THEN <<LF>> \o WindowsText(Tail(Tail(f)))
  ELSE <<Head(f)>> \o WindowsText(Tail(f))

\* BootstrapVerifiedCreate opens the archive as ifstream ifs(zipPath.string()),
\* without ios::binary: the stream Hash reads from archive f on build b.
ArchiveStream(f, b) == IF b = "Windows" THEN WindowsText(f) ELSE f

Filled(buf, f, pos, n) == [i \in 1..Len(buf) |-> IF i <= n THEN f[pos + i] ELSE buf[i]]

\* Mutant of ChunkUpdate: SHA256_Update is given the whole buffer.
ChunkUpdateAll(buf, n) == buf

\* SHA256_Update(&sha256, input.c_str(), ifs.gcount()).
ChunkUpdate(buf, n) == SubSeq(buf, 1, n)

RECURSIVE HashLoop(_, _, _, _)
HashLoop(f, pos, buf, eof) ==
  IF eof THEN <<>>
  ELSE LET n == IF Len(f) - pos < Len(buf) THEN Len(f) - pos ELSE Len(buf)
           b == Filled(buf, f, pos, n)
       IN ChunkUpdate(b, n) \o HashLoop(f, pos + n, b, n < Len(buf))

Hash(f, chunk) == HashLoop(f, 0, [i \in 1..chunk |-> 0], FALSE)

\* BootstrapVerifiedCreate: the marker, or "Unable to create" when the
\* ofstream does not open.
BootstrapVerifiedCreate ==
  /\ wpc = "WriteMarker"
  /\ \/ marker' = TRUE /\ Goto("Exit") /\ UNCHANGED runError
     \/ Fail /\ UNCHANGED marker
  /\ UNCHANGED <<live, bak, staged, stagingDir, zip, tmp>>
  /\ UNCHANGED <<mode, filePath, cancel, job, cancelledRun, crashes>>

\* RunStageIIImpl: the staging directory must exist (the marker is not read).
CheckStaging ==
  /\ wpc = "CheckStaging"
  /\ IF stagingDir THEN Goto("Replace") /\ UNCHANGED runError ELSE Fail
  /\ UNCHANGED <<files, mode, filePath, cancel, job, cancelledRun, crashes>>

\* The per-subtree loop: remove a stale backup if dir and origin exist;
\* rename origin to the backup if origin exists and no backup does; rename
\* dir to origin if dir exists.
StaleRemoved(s) == staged[s] # Absent /\ live[s] # Absent
BakAfterRemove(s) == IF StaleRemoved(s) THEN Absent ELSE bak[s]
BackedUp(s) == live[s] # Absent /\ BakAfterRemove(s) = Absent

ReplaceSubtrees ==
  /\ wpc = "Replace"
  /\ bak' = [s \in Subtrees |-> IF BackedUp(s) THEN live[s] ELSE BakAfterRemove(s)]
  /\ live' = [s \in Subtrees |->
                IF staged[s] # Absent THEN staged[s]
                ELSE IF BackedUp(s) THEN Absent ELSE live[s]]
  /\ staged' = [s \in Subtrees |-> Absent]
  /\ Goto("Merge")
  /\ UNCHANGED <<stagingDir, marker, zip, tmp>>
  /\ UNCHANGED <<mode, filePath, cancel, runError, job, cancelledRun, crashes>>

\* MergeConfigFile and the removal of peers.dat and banlist.dat: their files
\* are modelled in StageII, only the worker's position here.
MergeConfig ==
  /\ wpc = "Merge"
  /\ Goto("CleanUp")
  /\ UNCHANGED <<files, mode, filePath, cancel, runError, job, cancelledRun, crashes>>

\* CleanUpImpl, the last call of RunStageIIImpl.
StageIICleanUp ==
  /\ wpc = "CleanUp"
  /\ CleanUpImpl /\ Goto("Exit")
  /\ UNCHANGED <<live, bak, tmp, mode, filePath, cancel, runError, job, cancelledRun, crashes>>

\* NotifyBootstrapCompletedI/II, then NotifyModelChanged.
ThreadExit ==
  /\ wpc = "Exit"
  /\ Goto("Return")
  /\ UNCHANGED <<files, mode, filePath, cancel, runError, job, cancelledRun, crashes>>

\* The thread function returns (after its last LogPrintf): from now on
\* IsBootstrapRunning's try_join_for succeeds.
ThreadReturn ==
  /\ wpc = "Return"
  /\ Goto("Idle")
  /\ UNCHANGED <<files, mode, filePath, cancel, runError, job, cancelledRun, crashes>>

\* The process dies while a worker runs; the next process starts idle.
Crash ==
  /\ Running /\ crashes < MaxCrashes
  /\ Restart /\ crashes' = crashes + 1
  /\ UNCHANGED files

Gui ==
  \/ \E m \in {"cloud", "file"} : SetBootstrapMode(m)
  \/ \E p \in Paths : SetBootstrapFilePath(p)
  \/ RunStageI \/ RunStageII \/ Cancel

Worker ==
  \/ ResetState \/ CheckPaths \/ Download \/ DownloadFailed \/ RenameTmp
  \/ OpenArchive \/ Extract \/ VerifyBootstrapFolder \/ VerifyNetworkType
  \/ BootstrapVerifiedCreate \/ CheckStaging \/ ReplaceSubtrees \/ MergeConfig
  \/ StageIICleanUp \/ ThreadExit \/ ThreadReturn

Next == Gui \/ Worker \/ Crash

\* The worker thread is scheduled; the user and process deaths are not.
Spec == Init /\ [][Next]_vars /\ WF_vars(Worker)

(***************************************************************************)
(* Properties                                                              *)
(***************************************************************************)
PCs == {"Idle", "Start", "CheckPaths", "Download", "DownloadFailed", "RenameTmp",
        "OpenArchive", "Extract", "VerifyLayout", "VerifyNetwork", "WriteMarker",
        "CheckStaging", "Replace", "Merge", "CleanUp", "Exit", "Return"}

TypeOK ==
  /\ live \in [Subtrees -> Contents \cup {Absent}]
  /\ bak \in [Subtrees -> Contents \cup {Absent}]
  /\ staged \in [Subtrees -> Archives \cup {Absent}]
  /\ stagingDir \in BOOLEAN /\ marker \in BOOLEAN
  /\ zip \in Archives \cup {Absent} /\ tmp \in Archives \cup {Absent, Partial}
  /\ mode \in {"cloud", "file"} /\ filePath \in Paths
  /\ cancel \in BOOLEAN /\ runError \in BOOLEAN
  /\ job \in {"None", "Cloud", "File", "StageII"} /\ wpc \in PCs
  /\ cancelledRun \in BOOLEAN /\ crashes \in 0..MaxCrashes

\* The verified marker exists only beside staged content that passed the zip,
\* layout and genesis checks of the Stage I run that wrote it, whatever runs,
\* failures and process deaths came before (BootstrapVerifiedCreate is only
\* reached through the checks; RunStageI's CleanUp removes older staging).
MarkerOnlyForVerified ==
  marker => \A s \in Subtrees : staged[s] \in Trusted \cup {Absent}

\* Every live ledger subtree is the node's own or comes from an archive that
\* passed all Stage I checks: Stage II never installs unverified content
\* (spec: the verified marker is the sole gate of Stage II).
LiveFromTrusted ==
  \A s \in Subtrees : live[s] \in {Orig} \cup Trusted

\* The assert(false) checks of RunFromCloudImpl (no bootstrap.zip, no
\* bootstrap.zip.tmp) and RunFromFileImpl (no staging directory) hold
\* whenever the worker reaches them: RunStageI's CleanUp cleared the way.
AssertionsHold ==
  /\ wpc = "CheckPaths" => zip = Absent /\ tmp = Absent
  /\ wpc = "Extract" => ~stagingDir

\* A Cancel() issued while a worker runs stays visible to the worker's
\* download callback and to the dialog's IsCancelled() for the rest of the run.
CancelNotLost == cancelledRun => cancel

\* Bounds of the check of Hash: chunk sizes, byte values, file lengths.
HashChunkSizes == 1..3
HashBytes == {0, LF, CR, SUB}
HashMaxLen == 4

\* Archives of up to HashMaxLen bytes, chunk sizes and builds.
HashCases == BoundedSeq(HashBytes, HashMaxLen) \X HashChunkSizes \X Builds

\* Hash feeds SHA256_Update exactly the stream, in order.
HashReadsAll ==
  \A x \in HashCases : LET s == ArchiveStream(x[1], x[3]) IN Hash(s, x[2]) = s

\* Mutant of ProgressUpdate: total >= now is not asked.
ProgressUnbounded(p, cb) ==
  IF cb.now > 0 /\ cb.total > 0 THEN (100 * cb.now) \div cb.total ELSE p

\* The download callback's update of progress_: the truncated percentage
\* when both counts are positive and total >= now; otherwise unchanged.
ProgressUpdate(p, cb) ==
  IF cb.now > 0 /\ cb.total > 0 /\ cb.total >= cb.now
    THEN (100 * cb.now) \div cb.total
    ELSE p

\* progress_ after each callback of a transfer (ResetState set it to 0).
ProgressAfter(cbs) == [i \in 1..Len(cbs) |-> FoldLeft(ProgressUpdate, 0, SubSeq(cbs, 1, i))]

\* Bounds of the check of the progress callback: the counts it may be given
\* (a transfer of 3 units; 0 while unknown; a count above the total, which
\* the spec's guard anticipates) and the number of calls.
ProgressTotals == {0, 3}
ProgressNows == 0..4
ProgressMaxCalls == 4

\* What libcurl reports during one transfer: the received count never
\* decreases, and the total is 0 until it is known and then stays.
Transfers ==
  {cbs \in BoundedSeq([total : ProgressTotals, now : ProgressNows], ProgressMaxCalls) :
     \A i \in 1..Len(cbs) - 1 :
       /\ cbs[i].now <= cbs[i + 1].now
       /\ cbs[i].total # 0 => cbs[i + 1].total = cbs[i].total}

ProgressSane ==
  \A cbs \in Transfers :
    LET p == ProgressAfter(cbs) IN
    \A i \in 1..Len(cbs) : p[i] \in 0..100 /\ (i > 1 => p[i - 1] <= p[i])

\* While a download runs, the progress_ the callback reports to the dialog
\* is a percentage and never goes back, whatever counts libcurl gives it
\* within the transfer (spec 4.2: progress never regresses and never
\* exceeds 100%).
DownloadProgressSane == wpc = "Download" => ProgressSane

\* When BootstrapVerifiedCreate hashes the archive, Hash's read loop digests
\* exactly what the stream delivers, in order, whatever its length relative
\* to CHUNK: the last short read's gcount bytes and none of the stale bytes
\* after them, and nothing after eof.  SHA-256 over the updates is SHA-256
\* over their concatenation, so the reference is the stream itself (on a
\* POSIX build, the archive; on Windows, its text-mode translation).
HashReadsStream == wpc = "WriteMarker" => HashReadsAll

\* Every worker thread started by RunStageI or RunStageII ends.
RunEnds == Running ~> ~Running

(***************************************************************************)
(* Refinement of the run state machine of spec section 4.1                 *)
(***************************************************************************)
\* The stage each worker position belongs to; "Start" is the first stage
\* of the job's pipeline.
StageOf(w) ==
  CASE w \in {"CheckPaths", "Download", "DownloadFailed", "RenameTmp"} -> "Acquiring"
    [] w = "OpenArchive"                        -> "Verifying"
    [] w = "Extract"                            -> "Extracting"
    [] w \in {"VerifyLayout", "VerifyNetwork"}  -> "LayoutChecking"
    [] w = "WriteMarker"                        -> "MarkerWriting"
    [] w \in {"CheckStaging", "Replace"}        -> "Replacing"
    [] w = "Merge"                              -> "ConfigMerging"
    [] w = "CleanUp"                            -> "CleaningUp"
    [] OTHER                                    -> "None"

\* The worker function has returned its result (Exit), announced it
\* (Return), or its thread has ended; "Start" holds the last run's error.
Ended == wpc \in {"Exit", "Return", "Idle"}

AbsRun == INSTANCE BootstrapRun WITH
  run      <- IF job = "None" THEN "None" ELSE job,
  stage    <- IF job = "None" \/ Ended THEN "None"
              ELSE IF wpc = "Start" THEN StageOf(FirstPc(job)) ELSE StageOf(wpc),
  outcome  <- CASE job = "None" -> "None"
                [] Ended /\ runError -> "Failed"
                [] Ended -> "Completed"
                [] OTHER -> "InProgress",
  notified <- job # "None" /\ wpc \in {"Return", "Idle"}

\* Every behaviour of the controller and its worker, process deaths and
\* restarts included, is one of the run state machine: RunStageI and
\* RunStageII start a run only when the last one has been announced, the
\* worker goes through Acquiring (cloud only), Verifying, Extracting,
\* LayoutChecking, MarkerWriting, or Replacing, ConfigMerging, CleaningUp,
\* in that order and skipping none, ends Completed only after the last
\* stage, announces the end once (NotifyBootstrapCompletedI/II), and a run
\* in progress is announced unless the process dies.
RunRefined == AbsRun!Spec

====
