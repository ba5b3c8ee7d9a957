------------------------------- MODULE StageII -------------------------------
(***************************************************************************)
(* Stage II of the bootstrap (src/src/bootstrapmodel.cpp):                 *)
(* RunStageII starts a worker running RunStageIIThread -> RunStageIIImpl, *)
(* which moves every staged ledger subtree into the data directory behind *)
(* a <name>.bak backup, merges bootstrap/OPCoinX.conf into the node's      *)
(* configuration file (MergeConfigFile), deletes peers.dat/banlist.dat and *)
(* removes the staging directory and bootstrap.zip (CleanUpImpl).          *)
(*                                                                         *)
(* Every file-system call is one step, and the process may die between    *)
(* any two of them; a later process runs Stage II again on what it finds.  *)
(***************************************************************************)
EXTENDS Integers, Sequences, SequencesExt

CONSTANTS
  Subtrees,     \* {blocks, chainstate, zerocoin}
  DirList,      \* GetBootstrapDirList: the subtrees in loop order
  Absent,       \* a file or directory that does not exist
  Contents,     \* ledger contents a subtree directory can hold
  Boot,         \* the content of the verified archive (in Contents)
  LiveInit,     \* contents datadir/<s> may have before Stage II
  BakInit,      \* contents datadir/<s>.bak may have before Stage II
  Lines,        \* lines of configuration files
  AddnodeLines, \* the lines that contain "addnode"
  UserConfs,    \* possible node configuration files before Stage II
  BootConfs,    \* possible bootstrap/OPCoinX.conf files
  ConfBakInit,  \* possible <config>.bak files left by an earlier bootstrap
  MaxCrashes    \* bound on process deaths

ASSUME DirList \in Seq(Subtrees) /\ ToSet(DirList) = Subtrees
ASSUME Boot \in Contents /\ Absent \notin Contents
ASSUME LiveInit \subseteq Contents \cup {Absent}
ASSUME BakInit \subseteq Contents \cup {Absent}
ASSUME AddnodeLines \subseteq Lines
ASSUME MaxCrashes \in Nat

VARIABLES
  \* ---- file system (survives a crash) ----
  live,         \* live[s]   : datadir/<s>
  bak,          \* bak[s]    : datadir/<s>.bak
  staged,       \* staged[s] : datadir/bootstrap/<s>
  stagingDir,   \* datadir/bootstrap exists
  marker,       \* datadir/bootstrap/verified exists
  bootConf,     \* datadir/bootstrap/OPCoinX.conf (a line sequence or Absent)
  conf,         \* the node's configuration file GetConfigFile()
  confBak,      \* <config>.bak
  peerFiles,    \* peers.dat and banlist.dat exist
  zipFile,      \* datadir/bootstrap.zip exists
  \* ---- the worker (lost in a crash) ----
  pc,           \* next statement of the Stage II worker, "Idle" if none
  idx,          \* loop index: into DirList, or into the config being read
  configMerged, \* configMerged_
  runError,     \* latestRunError_ ("" = success)
  \* ---- bounds and history ----
  crashes,      \* number of process deaths so far
  userConf0,    \* the node configuration before Stage II (history)
  bootConf0     \* the bootstrap configuration fragment (history)

ledger  == <<live, bak, staged>>
staging == <<stagingDir, marker, bootConf>>
confs   == <<conf, confBak>>
misc    == <<peerFiles, zipFile>>
history == <<crashes, userConf0, bootConf0>>
vars    == <<ledger, staging, confs, misc, pc, idx, configMerged, runError, history>>

ConfFiles == {Absent} \cup Seq(Lines)
Dir       == DirList[idx]

(* IsBootstrapRunning: a worker thread exists and has not returned.       *)
Running == pc \notin {"Idle", "Done", "Failed"}

-----------------------------------------------------------------------------
(* Initial state: Stage I has completed, so the staging directory holds   *)
(* every subtree of the archive and the verified marker.                   *)
Init ==
  /\ live \in [Subtrees -> LiveInit]
  /\ bak \in [Subtrees -> BakInit]
  /\ staged = [s \in Subtrees |-> Boot]
  /\ stagingDir = TRUE /\ marker = TRUE
  /\ bootConf \in BootConfs
  /\ conf \in UserConfs
  /\ confBak \in ConfBakInit
  /\ peerFiles \in BOOLEAN /\ zipFile \in BOOLEAN
  /\ pc = "Idle" /\ idx = 1
  /\ configMerged = FALSE /\ runError = ""
  /\ crashes = 0 /\ userConf0 = conf /\ bootConf0 = bootConf

Goto(l) == pc' = l

(* RunStageII: no worker is running, so a new worker thread is started.  *)
RunStageII ==
  /\ ~Running
  /\ Goto("Reset")
  /\ UNCHANGED <<ledger, staging, confs, misc, idx, configMerged, runError, history>>

(* RunStageIIThread: ResetState() before RunStageIIImpl.                   *)
ResetState ==
  /\ pc = "Reset"
  /\ Goto("CheckStaging")
  /\ configMerged' = FALSE /\ runError' = ""
  /\ UNCHANGED <<ledger, staging, confs, misc, idx, history>>

(* The directory loop runs over DirList from its first to its last entry. *)
LoopStartZero == 0      \* mutant: a 0-based start index
LoopStart == 1
LastDir == Len(DirList)

(* RunStageIIImpl: the only precondition checked is that the staging      *)
(* directory exists.                                                       *)
CheckStaging ==
  /\ pc = "CheckStaging"
  /\ IF stagingDir
       THEN Goto("RemoveOldBackup") /\ idx' = LoopStart /\ UNCHANGED runError
       ELSE Goto("Failed") /\ runError' = "PathDoesNotExist" /\ UNCHANGED idx
  /\ UNCHANGED <<ledger, staging, confs, misc, configMerged, history>>

(* "remove old backup": if (exists(dir) && exists(originPath))            *)
(*                          remove_all(bakPath)                           *)
StaleBackupUnguarded(s) == live[s] # Absent      \* mutant: no exists(dir)
StaleBackup(s) == staged[s] # Absent /\ live[s] # Absent

RemoveOldBackup ==
  /\ pc = "RemoveOldBackup"
  /\ bak' = IF StaleBackup(Dir) THEN [bak EXCEPT ![Dir] = Absent] ELSE bak
  /\ Goto("CreateBackup")
  /\ UNCHANGED <<live, staged, staging, confs, misc, idx, configMerged, runError, history>>

(* "create new backup": if (exists(originPath) && !exists(bakPath))       *)
(*                          rename(originPath, bakPath)                   *)
CreateBackup ==
  /\ pc = "CreateBackup"
  /\ IF live[Dir] # Absent /\ bak[Dir] = Absent
       THEN /\ bak' = [bak EXCEPT ![Dir] = live[Dir]]
            /\ live' = [live EXCEPT ![Dir] = Absent]
       ELSE UNCHANGED <<live, bak>>
  /\ Goto("MoveFromBootstrap")
  /\ UNCHANGED <<staged, staging, confs, misc, idx, configMerged, runError, history>>

(* "move dir from bootstrap to origin": if (exists(dir))                  *)
(*     rename(dir, originPath)                                             *)
(* The target never exists here: the two steps before removed or renamed  *)
(* it whenever a staged copy exists, so the throwing rename is not taken.  *)
(* After the last subtree the worker goes on to MergeConfigFile.           *)
MoveFromBootstrap ==
  /\ pc = "MoveFromBootstrap"
  /\ IF staged[Dir] # Absent
       THEN /\ live' = [live EXCEPT ![Dir] = staged[Dir]]
            /\ staged' = [staged EXCEPT ![Dir] = Absent]
       ELSE UNCHANGED <<live, staged>>
  /\ IF idx < LastDir
       THEN Goto("RemoveOldBackup") /\ idx' = idx + 1
       ELSE Goto("MergeConfig") /\ idx' = LoopStart
  /\ UNCHANGED <<bak, staging, confs, misc, configMerged, runError, history>>

-----------------------------------------------------------------------------
(* MergeConfigFile(original, bootstrap); its result goes to configMerged_. *)

(* if (!exists(bootstrap)) return false;                                   *)
(* if (!exists(original)) { copy(bootstrap, original); return true; }      *)
(* copy writes a new file: an empty file first, then the fragment's lines. *)
MergeConfig ==
  /\ pc = "MergeConfig"
  /\ \/ /\ bootConf = Absent
        /\ Goto("RemovePeers") /\ configMerged' = FALSE
        /\ UNCHANGED <<conf, idx>>
     \/ /\ bootConf # Absent /\ conf = Absent
        /\ conf' = <<>>
        /\ Goto("AppendBootLine") /\ idx' = 1
        /\ UNCHANGED configMerged
     \/ /\ bootConf # Absent /\ conf # Absent
        /\ Goto("RemoveConfBackup")
        /\ UNCHANGED <<conf, idx, configMerged>>
  /\ UNCHANGED <<ledger, staging, confBak, misc, runError, history>>

(* remove(originalBackup)                                                  *)
RemoveConfBackup ==
  /\ pc = "RemoveConfBackup"
  /\ confBak' = Absent
  /\ Goto("RenameConf")
  /\ UNCHANGED <<ledger, staging, conf, misc, idx, configMerged, runError, history>>

(* Mutant: the backup is deleted after the rename instead of before it.   *)
RenameConfThenRemove ==
  /\ pc = "RenameConf"
  /\ confBak' = Absent /\ conf' = Absent
  /\ Goto("OpenNewConf")
  /\ UNCHANGED <<ledger, staging, misc, idx, configMerged, runError, history>>

(* rename(original, originalBackup)                                        *)
RenameConf ==
  /\ pc = "RenameConf"
  /\ confBak' = conf /\ conf' = Absent
  /\ Goto("OpenNewConf")
  /\ UNCHANGED <<ledger, staging, misc, idx, configMerged, runError, history>>

(* ifstream oldConf(originalBackup); ofstream newConf(original): an empty *)
(* configuration file is created.                                          *)
OpenNewConf ==
  /\ pc = "OpenNewConf"
  /\ conf' = <<>>
  /\ Goto("CopyOldLine") /\ idx' = 1
  /\ UNCHANGED <<ledger, staging, confBak, misc, configMerged, runError, history>>

(* while (getline(oldConf, line)) if (line.find("addnode") == npos)       *)
(*     newConf << line << endl;      -- endl flushes every line            *)
KeptLineAll(l) == TRUE      \* mutant: addnode lines are copied too
KeptLine(l) == l \notin AddnodeLines

CopyOldLine ==
  /\ pc = "CopyOldLine"
  /\ IF idx <= Len(confBak)
       THEN /\ conf' = IF KeptLine(confBak[idx]) THEN Append(conf, confBak[idx]) ELSE conf
            /\ idx' = idx + 1
            /\ UNCHANGED pc
       ELSE Goto("AppendBootLine") /\ idx' = 1 /\ UNCHANGED conf
  /\ UNCHANGED <<ledger, staging, confBak, misc, configMerged, runError, history>>

(* while (getline(bootstrapConf, line)) newConf << line << endl;           *)
(* return true;  (also the end of the raw copy)                            *)
AppendBootLine ==
  /\ pc = "AppendBootLine"
  /\ IF idx <= Len(bootConf)
       THEN /\ conf' = Append(conf, bootConf[idx])
            /\ idx' = idx + 1
            /\ UNCHANGED <<pc, configMerged>>
       ELSE Goto("RemovePeers") /\ configMerged' = TRUE /\ UNCHANGED <<conf, idx>>
  /\ UNCHANGED <<ledger, staging, confBak, misc, runError, history>>

(* remove(peers.dat); remove(banlist.dat)                                  *)
RemovePeers ==
  /\ pc = "RemovePeers"
  /\ peerFiles' = FALSE
  /\ Goto("CleanStaging")
  /\ UNCHANGED <<ledger, staging, confs, zipFile, idx, configMerged, runError, history>>

(* CleanUpImpl: remove_all(datadir/bootstrap); remove(bootstrap.zip)       *)
CleanStaging ==
  /\ pc = "CleanStaging"
  /\ stagingDir' = FALSE /\ marker' = FALSE /\ bootConf' = Absent
  /\ staged' = [s \in Subtrees |-> Absent]
  /\ Goto("CleanZip")
  /\ UNCHANGED <<live, bak, confs, misc, idx, configMerged, runError, history>>

(* The worker's last statement returns from RunStageIIImpl with success.  *)
AfterClean == "Done"

CleanZip ==
  /\ pc = "CleanZip"
  /\ zipFile' = FALSE
  /\ Goto(AfterClean)
  /\ UNCHANGED <<ledger, staging, confs, peerFiles, idx, configMerged, runError, history>>

-----------------------------------------------------------------------------
(* The process dies while the worker runs.  Everything but the files is   *)
(* lost.  Dying inside remove_all(datadir/bootstrap) leaves the directory  *)
(* with any of its entries already deleted.                                *)
Crash ==
  /\ Running
  /\ crashes < MaxCrashes
  /\ crashes' = crashes + 1
  /\ pc' = "Idle" /\ idx' = 1
  /\ configMerged' = FALSE /\ runError' = ""
  /\ IF pc = "CleanStaging"
       THEN /\ marker' \in {marker, FALSE}
            /\ bootConf' \in {bootConf, Absent}
            /\ staged' \in {f \in [Subtrees -> Contents \cup {Absent}] :
                              \A s \in Subtrees : f[s] \in {staged[s], Absent}}
       ELSE UNCHANGED <<marker, bootConf, staged>>
  /\ UNCHANGED <<live, bak, stagingDir, confs, misc, userConf0, bootConf0>>

Worker ==
  \/ ResetState \/ CheckStaging
  \/ RemoveOldBackup \/ CreateBackup \/ MoveFromBootstrap
  \/ MergeConfig \/ RemoveConfBackup \/ RenameConf \/ OpenNewConf
  \/ CopyOldLine \/ AppendBootLine
  \/ RemovePeers \/ CleanStaging \/ CleanZip

Next == RunStageII \/ Worker \/ Crash

\* A started worker thread keeps running until it returns (or the process
\* dies); the user's calls and crashes are not assumed to happen.
Spec == Init /\ [][Next]_vars /\ WF_vars(Worker)

-----------------------------------------------------------------------------
(* Properties                                                              *)

LinesOf(f) == IF f = Absent THEN {} ELSE ToSet(f)

TypeOK ==
  /\ live \in [Subtrees -> Contents \cup {Absent}]
  /\ bak \in [Subtrees -> Contents \cup {Absent}]
  /\ staged \in [Subtrees -> Contents \cup {Absent}]
  /\ stagingDir \in BOOLEAN /\ marker \in BOOLEAN
  /\ peerFiles \in BOOLEAN /\ zipFile \in BOOLEAN
  /\ bootConf \in ConfFiles /\ conf \in ConfFiles /\ confBak \in ConfFiles
  /\ pc \in {"Idle", "Reset", "CheckStaging", "RemoveOldBackup",
             "CreateBackup", "MoveFromBootstrap", "MergeConfig",
             "RemoveConfBackup", "RenameConf", "OpenNewConf", "CopyOldLine",
             "AppendBootLine", "RemovePeers", "CleanStaging", "CleanZip",
             "Done", "Failed"}
  /\ idx \in Nat \ {0}
  /\ configMerged \in BOOLEAN
  /\ crashes \in 0..MaxCrashes

(* A Stage II run that returns without an error (RunStageIIThread reports  *)
(* success) has installed the staged archive content in every live ledger *)
(* directory, whatever crashes and re-runs came before it.                 *)
InstalledOnSuccess ==
  pc = "Done" => \A s \in Subtrees : live[s] = Boot

(* The configuration MergeConfigFile promises: the node's lines except the *)
(* addnode ones, in order, then the bootstrap fragment; the raw fragment   *)
(* if the node had no configuration; the node's file if there is no       *)
(* fragment.                                                               *)
ExpectedConf ==
  CASE bootConf0 = Absent -> userConf0
    [] userConf0 = Absent -> bootConf0
    [] OTHER -> SelectSeq(userConf0, LAMBDA l : l \notin AddnodeLines) \o bootConf0

(* A successful Stage II leaves exactly the merged configuration.          *)
MergedConfigOnSuccess ==
  pc = "Done" => conf = ExpectedConf

(* No line the user wrote (other than addnode lines, which are meant to go) *)
(* is ever lost: it stays in the configuration file or in its backup.      *)
UserConfigKept ==
  userConf0 # Absent =>
    \A l \in ToSet(userConf0) \ AddnodeLines : l \in LinesOf(conf) \cup LinesOf(confBak)

(* The two configuration properties on every run that no process death  *)
(* interrupted (crashes = 0): what MergeConfigFile itself guarantees.      *)
MergedConfigUninterrupted == crashes = 0 => MergedConfigOnSuccess

UserConfigKeptUninterrupted == crashes = 0 => UserConfigKept

(* Refinement: seen per subtree, the remove-stale-backup / backup / promote *)
(* steps, interrupted by crashes and resumed by later runs, implement      *)
(* AtomicReplace.  A subtree whose live directory has been moved to .bak   *)
(* while its staged copy still waits is seen as not yet replaced.          *)
MidSwap(s) == live[s] = Absent /\ bak[s] # Absent /\ staged[s] # Absent

AbsLive == [s \in Subtrees |-> IF MidSwap(s) THEN bak[s] ELSE live[s]]
AbsBak  == [s \in Subtrees |-> IF MidSwap(s) THEN Absent ELSE bak[s]]

Abstract == INSTANCE AtomicReplace WITH live <- AbsLive, bak <- AbsBak, staged <- staged

ReplaceRefined == Abstract!Spec

=============================================================================
