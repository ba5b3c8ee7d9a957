# TLA+ models of the OPCoinX bootstrap subsystem (and its GUI neighbours)

This directory holds TLA+ specifications of the parts of the OPCoinX node whose
source is in `src/`, the TLC configurations that check them, and this account of
what is modelled and what the checks show.

## 1. Inventory

### 1.1 Components

| Component | Source | State it keeps | Operations that change state |
|---|---|---|---|
| **BootstrapModel controller** | `src/src/bootstrapmodel.cpp` 78-326 | `bootstrapMode_`, `bootstrapFilePath_`, `workerThread_`, `progress_`, `cancel_`, `configMerged_`, `latestRunError_`, `instanceNumber_` (static) | constructor/destructor (instance guard, `Cancel`+`Wait`), `SetBootstrapMode`, `SetBootstrapFilePath`, `RunStageI`, `RunStageII`, `CleanUp`, `Cancel`, `Wait`, `IsLatestRunSuccess`, `IsBootstrapRunning` (joins a finished worker) |
| **Stage I worker** (download + verify + extract + marker) | `bootstrapmodel.cpp` 328-376, 403-508, 550-621, `chainparams.cpp` 593-637 | files `bootstrap.zip`, `bootstrap.zip.tmp`, staging dir `bootstrap/` with `blocks`, `chainstate`, `zerocoin`, `verified`, `OPCoinX.conf` | `RunFromFileThread`, `RunFromCloudThread`, `RunFromFileImpl`, `RunFromCloudImpl` (download callback with cancel checkpoint and progress), `VerifyZip`, `VerifySignature` (stub), `VerifyBootstrapFolder`, `VerifyNetworkType`/`VerifyGenesisBlock`, `BootstrapVerifiedCreate` (+ `Hash`) |
| **Stage II worker** (replace + merge + cleanup) | `bootstrapmodel.cpp` 378-401, 510-548, 632-687, 288-293 | live dirs `blocks`, `chainstate`, `zerocoin`, backups `<name>.bak`, `OPCoinX.conf` and `OPCoinX.conf.bak`, `peers.dat`, `banlist.dat` | `RunStageIIThread`, `RunStageIIImpl` (3-step per-subtree backup/promote), `MergeConfigFile`, `CleanUpImpl` |
| **BootstrapDialog** (GUI thread) | `src/src/qt/bootstrapdialog.cpp` | widgets' enabled/visible state (a cached copy of the model's running flag), `startup_` | queued slots `onBootstrapModelChanged`, `onBootstrapProgress`, `onBootstrapCompleted`; buttons Run / Cancel / radio / file path; `cancel()` (Cancel + blocking Wait), `closeEvent` |
| **CContext** | `src/src/context.cpp` | lazily created `BootstrapModel`, `AutoUpdateModel` | `CreateContext`, `ReleaseContext`, `GetBootstrapModel` |
| **Masternode config** | `src/src/masternodeconfig.cpp` | `entries_` under `csEntries_`, file `masternode.conf` | `read`, `addEntry`, `deleteEntry` (index / alias), `writeConfig` (truncate + rewrite) |
| **Governance table + model** | `src/src/qt/governancetable.cpp`, `governancetablemodel.cpp` | `data_` rows rebuilt from the budget manager, filter, show-previous flag, table selection | `updateModel` (on every block tip, queued), `onVoteImpl` (selected row read, modal confirm, row re-read, vote), `vote` (loop over masternode entries) |
| Masternode entry dialog, text browser dialog | `src/src/qt/masternodeentrydialog.cpp`, `textbrowserdialog.cpp` | widget text | input validation only |
| Chain parameters | `src/src/chainparams.cpp/.h` | static per-network constants | `SelectParams`; `GetBlockChainSize`, `VerifyGenesisBlock` |
| Zerocoin denominations, unit tests | `src/src/libzerocoin/Denominations.h`, `src/src/test/*` | constants | none |

### 1.2 How they interact

* The GUI thread owns the `BootstrapModel` (through `CContext`) and calls it
  directly; the model starts **one** boost worker thread per stage.
* The worker writes `progress_`, `cancel_` (reset), `latestRunError_`,
  `configMerged_` and the file system; the GUI thread reads `progress_`,
  `cancel_` and the running flag, and writes `cancel_` (`Cancel`).
* The worker reports through boost signals `NotifyModelChanged`,
  `NotifyBootstrapProgress`, `NotifyBootstrapCompletedI/II`; the dialog turns
  each into a **queued** Qt call executed later on the GUI thread, where it
  re-reads the model (`IsBootstrapRunning`, `IsCancelled`).
* Stage I and Stage II communicate only through the file system: the staging
  directory `bootstrap/` and its `verified` marker.
* The process may die at any instant (power loss, kill, `assert`); only the
  file system survives, and the next run must resume from what it finds.
* The governance table is refreshed by a queued block-tip callback from the
  validation thread, also while a modal confirmation box runs its nested event
  loop inside `onVoteImpl`.

### 1.3 What is hard

* **Crash and resume of Stage II**: the per-subtree three-step
  remove-stale-backup / backup / promote sequence and the config merge must be
  correct when the process dies between any two file operations and Stage II is
  run again.
* **Cancel racing the worker start**: `ResetState()` (which clears `cancel_`)
  runs on the worker thread, after `RunStageI` has returned and the GUI may
  already have called `Cancel()`.
* **Stale running flag in the GUI**: the final `NotifyModelChanged` is emitted
  before the worker thread has returned; the queued `updateUI` asks
  `IsBootstrapRunning()` (a 1 ms `try_join_for`).
* **Trust boundary between the stages**: Stage II only checks that the staging
  directory exists, not that the `verified` marker does.
* **Leftovers of a dead process**: `bootstrap.zip.tmp` is not removed by
  `CleanUp`, and `RunFromCloudImpl` `assert`s it is absent (assertions are on in
  this code base).
* **Stale selection across a nested event loop** in governance voting.

### 1.4 Properties that make each component correct

* Stage II: after any sequence of crashes and re-runs, each subtree behaves as
  an atomic "replace live by staged, keep the old live as `.bak`"; a run that
  reports success has installed every staged subtree; the user's configuration
  lines (other than `addnode`) are never lost; the merged configuration equals
  the original without `addnode` lines followed by the bootstrap fragment.
* Stage I / controller: only content that passed the zip, layout and genesis
  checks is ever marked verified; live ledger data only ever comes from a
  verified archive; at most one worker; a cancel requested while a download
  runs stops it; `bootstrap.zip.tmp` never survives a run; every run ends with
  exactly one completion notification.
* Dialog: once the worker has finished, the dialog eventually shows the
  not-running state.
* Masternode config: the file and the in-memory list agree after every
  operation; a crash during `writeConfig` does not lose entries.
* Governance: the proposal voted on is the one the user confirmed.

## 2. Modules

| Module | Models | MC module / cfgs |
|---|---|---|
| `AtomicReplace` | what Stage II promises per ledger subtree (abstract) | used by `StageII` |
| `StageII` | the Stage II worker step by step, with deaths and re-runs | `MCStageII`, `MCStageII_*.cfg` |
| `BootstrapRun` | what a run promises: the state machine of spec section 4.1 (abstract) | used by `Bootstrap` |
| `Bootstrap` | the controller, both Stage I workers, Stage II per subtree, `Hash` | `MCBootstrap`, `MCBootstrap_*.cfg` |
| `BootstrapDialog` | the GUI thread's dialog over `Bootstrap` | `MCBootstrapDialog` (.cfg) |
| `MasternodeConfig` | `CMasternodeConfig` and `masternode.conf` | `MCMasternodeConfig` (.cfg) |
| `GovernanceVote` | the governance page and its table model | `MCGovernanceVote`, `MCGovernanceVote_*.cfg` |

`PROJECT.json` ("map") gives, for every definition that models code, the
source lines it translates.

### AtomicReplace
Variables `live`, `bak`, `staged`: functions from subtree names to a content
(or `Absent`). Actions `DropStaleBackup(s)` and `Replace(s)` (live becomes the
staged copy, the old live becomes the backup, in one step).

### StageII
`RunStageIIThread` (`bootstrapmodel.cpp` 378-401) and everything it calls.

* File system: `live[s]`, `bak[s]`, `staged[s]` (`datadir/<s>`,
  `datadir/<s>.bak`, `datadir/bootstrap/<s>`), `stagingDir`, `marker`,
  `bootConf`, `conf`, `confBak`, `peerFiles`, `zipFile`. A directory's content
  is the identity of the ledger in it (`Orig`, `Old`, `Boot`); a configuration
  file is a sequence of lines from a small set, some of them `addnode` lines.
* Worker: `pc` (the next statement), `idx` (the loop index), `configMerged`,
  `runError`. One action per file-system call (a rename is atomic); each line
  written to the new configuration is its own step, because the code flushes
  each line with `endl`.
* `Crash`: the process dies anywhere in a running worker; volatile state is
  lost, files stay; inside `remove_all` of the staging directory any subset of
  its entries may be gone. `RunStageII`: a restarted process runs Stage II again.
* Refinement: `AbsLive`/`AbsBak` map a subtree that is between "backup" and
  "promote" to the state before the swap; `ReplaceRefined` checks
  `AtomicReplace!Spec` as a property.

### Bootstrap
The controller and its one worker thread. Variables: the files (`live`, `bak`,
`staged`, `stagingDir`, `marker`, `zip`, `tmp`), the members lost at a death
(`mode`, `filePath`, `cancel`, `runError`, `job`, `wpc`), and history
(`cancelledRun`, `crashes`). An archive is a model value with a `Layout`, a
zip/not-zip flag and a network; a user path is an archive, `"dd"`
(`datadir/bootstrap.zip`) or `"none"`.

* GUI calls (`Gui`): `SetBootstrapMode`, `SetBootstrapFilePath`, `RunStageI`
  (`RunStageIPossible` and `CleanUp`, then the thread starts), `RunStageII`
  (guarded by `RunStageIIPrepared` when `CallerChecksMarker`), `Cancel`.
* Worker steps (`Worker`): `ResetState`, `CheckPaths` (the `assert(false)`
  checks: a failing one kills the process), `Download`/`DownloadFailed` (the
  cancel checkpoint), `RenameTmp`, `OpenArchive` (`VerifyZip`), `Extract`
  (possibly partial), `VerifyBootstrapFolder`, `VerifyNetworkType`
  (`VerifyGenesisBlock`), `BootstrapVerifiedCreate`, Stage II's
  `CheckStaging`/`ReplaceSubtrees`/`MergeConfig`/`StageIICleanUp` (the merge
  is only a position here; its file effects are in `StageII`), `ThreadExit` (the
  completion signals) and `ThreadReturn` (the thread function returns; until
  then `IsBootstrapRunning` is true).
* `Hash` is a RECURSIVE operator translating the chunked `ifstream` loop:
  the buffer starts zeroed and keeps stale bytes after a short read, `eof` is
  set by a short read, and `SHA256_Update` gets `gcount` bytes. SHA-256 itself
  is left out: the property (`HashReadsStream`) is that the bytes fed to it
  are exactly what the stream delivers. The stream is `ArchiveStream`: line
  609 opens the archive without `ios::binary`, so on a POSIX build it is the
  file and on the Windows build it is `WindowsText` of the file (CR LF read
  as LF, the stream ending at the first 0x1A); the build is a choice the
  check ranges over.
* `ProgressUpdate` is the download callback's update of `progress_` (the
  guard `now > 0 && total > 0 && total >= now`, truncated percentage);
  `ProgressAfter` folds it over a transfer's callbacks from the 0 that
  `ResetState` leaves. `DownloadProgressSane` checks, while a download runs,
  that every transfer yields a percentage in 0..100 that never goes back.
* `Crash` and `Restart` (a new process: members reset, files kept).
* Refinement: `AbsRun` maps the worker's position to the stage of spec 4.1
  it is in (`StageOf`; `Start` is the first stage of the job), `Exit`,
  `Return` and an ended thread to `Completed`/`Failed` by `latestRunError_`,
  `Return` and an ended thread to "announced", and `job = "None"` (a new
  process) to no run. `RunRefined` checks `BootstrapRun!Spec`.

### BootstrapRun
Variables `run` (the job), `stage` (a name of the job's pipeline: `Acquiring`
for the cloud only, `Verifying`, `Extracting`, `LayoutChecking`,
`MarkerWriting`; or `Replacing`, `ConfigMerging`, `CleaningUp`), `outcome`
and `notified`. Actions `Start(j)` (only when no run is in progress and the
last one was announced), `Advance` (to the next stage), `Complete` (after the
last stage only), `Fail` (from any stage), `Notify` (once), `ProcessEnds`.
Weak fairness on the run's own steps: a run in progress is announced unless
the process ends.

### BootstrapDialog
Extends `Bootstrap` with the GUI thread's dialog: `dlg` (`Open`, `Waiting` in
`cancel()`'s blocking `Wait`, `Closed`), `queue` (the queued calls
`"Changed"` = `onBootstrapModelChanged`, `"Succeeded"`/`"Failed"` =
`onBootstrapCompleted`, run in FIFO order) and `uiRunning` (what the last
`updateUI` read from `IsBootstrapRunning`, which enables the radio buttons,
the path and Run). Clicks are taken while the dialog is open and the widget is
enabled; `OnButtonCancel` (and `closeEvent`) calls `CancelDialog`, which
cancels and waits for a running worker or closes the dialog. The worker's
steps post the calls the code posts; a closed dialog is destroyed, so its
posts are dropped. `DRunStageII` is the start-up code, blocked in `exec()`
until the dialog closes. `WalletRestart` and `DCrash` start a new wallet with
a new dialog (the dialog is shown at every start).

### MasternodeConfig
`entries` (`entries_`), `exists` and `file` (`masternode.conf` as its entry
lines; the comment header is left out), `mpc` (`Start` before `read`,
`Idle`, `Writing` between `writeConfig`'s `fopen("w")` and `fclose`, `Halted`
after a failed read), `writing` (the lines being written), `synced` (no read
or `fopen` error since the last read or write). An entry is a model value
whose fields are abstracted to its alias, whether `isValid` accepts it
(`Valid`) and whether `read()` parses its line (`Parsable`).
`isValid` is declared in `masternodeconfig.h`, which is not in `src/`; the
model lets it be any set, and the MC model includes an entry it accepts that
`read()` rejects (a wrong port). Actions: `ReadNotGood`, `ReadFile`,
`AddEntry`, `DeleteEntry` (index), `DeleteEntryAlias`, `WriteConfigClose`,
`Crash` (inside `writeConfig` any prefix of the lines reaches the disk, the
last one possibly cut). A cut line is `Torn` when it has fewer than five
words (`read()` rejects it and the node does not start) and `Cut` when the
cut falls in the output index, the last word: `boost::split` still yields
five words and `read()` accepts an entry whose index was never written
(`Accepted`). The MC model takes `isValid` to accept it.

### GovernanceVote
`height`, `pending` (queued `onBlockNotify` calls), `known`, `showPrevious`,
`filter`, `rows` (`data_`), `sel` (the selected row number), the context menu
and question box state, `votes` and `aborted`. `onBlockNotify` runs from the
main event loop and from the nested loops of `QMenu::exec` and
`QMessageBox::question`; `updateModel` rebuilds `rows` and leaves the selected
row number where it was (Qt's persistent indexes are not moved by a
`layoutChanged` the model does not map), unless that row is gone: then the
proxy drops the selection (`sel = 0`, `getSelectedRow` is -1) and the vote
buttons are disabled. `RowButton` (the link and info buttons in every row, which do not
select their row) and `MenuDetails` (the menu's "Open URL" and "Show
Information") call `OnUrl`/`OnShowInfo`, which use the selected row if there
is one and otherwise the row under the cursor (`ShowDetails`): the clicked
row for a row button, any row or none for a menu action (the cursor is over
the menu; over no row only "Not found." is shown); `shown` records the
last proposal opened together with the one clicked, and `pointed` the
proposal the open menu was opened on.

## 3. Runs

| Run | Expect | What it shows |
|---|---|---|
| `stageII_crash` | pass | With up to two deaths and re-runs, Stage II refines `AtomicReplace`; on the runs no death interrupted, the merge gives exactly the user's lines minus `addnode` followed by the bootstrap fragment, and no user line is lost. |
| `stageII_fresh_datadir` | violation | On a data directory without a ledger subtree, a death after the promote and a re-run moves the installed subtree to `.bak`: a run reports success without the archive installed. |
| `stageII_config_crash` | violation | A death after the new config file was created and a re-run delete the only full copy of the user's configuration. |
| `stageII_remerge` | violation | On a node without a configuration file, a death after `MergeConfigFile` copied the fragment and before the staging directory was removed: the re-run merges the fragment into its own copy, and its ordinary lines appear twice. |
| `boot_verified` | pass | Dialog, controller and worker with up to two deaths: the marker only marks verified content, live data only comes from verified archives, `Hash` feeds exactly the stream it reads, on either build, the download progress stays in 0..100 and never goes back, every worker ends, and every behaviour is one of the run state machine (`RunRefined`). |
| `boot_stageII_gate` | violation | A caller that does not check the marker first: Stage II installs content that failed verification (the code checks only that the staging directory exists). |
| `boot_tmp_leftover` | violation | A death during a cloud download leaves `bootstrap.zip.tmp`; the next cloud run hits `assert(false)`. |
| `boot_lost_cancel` | violation | A `Cancel()` between `RunStageI` and the worker's `ResetState` is lost. |
| `gov_table` | pass | Once queued refreshes have run, no finished proposal is shown unless "show previous" is on. |
| `gov_wrong_proposal` | violation | `ActsOnChosenProposal`: the wallet acts on another proposal than the one the user chose. The shortest trace: with row 1 selected, the info button of row 2 opens row 1's details, because `onUrl`/`onShowInfo` prefer the selection to the clicked row. The property also covers the vote: a refresh inside the question box sends the vote for another proposal than the one named (checked separately on the vote part alone). |
| `gov_assert` | violation | A refresh inside the context menu removes the selected row; the proxy drops the selection and the menu's vote action calls `dataAt(-1)`, which asserts. |
| `mn_config` | pass | Between calls the file holds the valid entries of `entries_`, across `fopen` failures and deaths that cut the last line. |

`PROJECT.json` ("findings") explains each violation, with the source line.
Each property of a passing run also has a mutant: a plausible bug in a mapped
definition (a dropped guard, a missing check, a wrong order) under which TLC
finds that property violated.

### Bounds
* Stage II: three subtrees (`blocks`, `chainstate`, `zerocoin`) with the
  code's `GetBootstrapDirList` order, existing or missing live and backup
  directories, a user config with one ordinary and one `addnode` line, a
  bootstrap fragment or none, up to two deaths: every interleaving of a death
  with every step of the loop and the merge.
* Bootstrap and dialog: two subtrees, four archives (good, other network,
  missing `chainstate`, not a zip), the cloud delivering a good archive or
  garbage, up to two deaths in the dialog run (a death in Stage I and
  another in the Stage II that follows; one in the violation runs that need
  one), a queue of at most four pending calls (enough for a
  run's three posts plus a click). `Hash` is checked for chunk sizes 1-3, both
  builds and every file of up to four bytes over {0, LF, CR, 0x1A}, so
  streams shorter than, equal to and longer than a chunk, exact multiples,
  CR LF pairs, a lone CR and a 0x1A before the end all occur. The progress callback
  is checked over every transfer of up to four callbacks with a total of 0
  (unknown) or 3 and received counts 0..4 (so `now > total` occurs).
* Masternode: two valid entries with distinct aliases, one sharing an alias,
  one accepted by `isValid` but rejected by `read()`, one rejected by
  `isValid`; at most three entries, two deaths.
* Governance: three proposals with different end blocks, one appearing later,
  chain height up to 3, two search strings.

### Fairness
Only the worker thread is fair (`WF_vars(Worker)`): once started, the OS
schedules it, and none of its steps waits for the GUI. In the dialog,
`WaitReturns` is weakly fair too: `join` returns once the thread has ended.
`BootstrapRun` assumes weak fairness only of a run's own steps, which the
worker's fairness provides.
The user, the start-up code, the validation thread and process deaths are
never assumed to act.

## 4. Not modelled

Divergences recorded as hazards without a run:

* On the Windows build the `verified` marker holds the SHA-256 of the
  text-mode translation of the archive, not of the archive (spec section 3).
  The model shows this (`ArchiveStream`), but the digest is not read back by
  this code, so it changes nothing the model tracks.
* A death that cuts the last line of `masternode.conf` inside its output
  index leaves a line `read()` accepts as an entry with an index that was
  never written; nothing in the repository states what a restarted node must
  read back.
* How long `cancel()`'s `Wait` blocks the GUI thread (through extraction, or
  a whole download after a lost cancel) is a matter of time; the model only
  shows that it ends (`RunEnds`).

* Progress notifications (`onBootstrapProgress`, `progress_`) only move the
  progress bar; the overflow of `int` byte counts in its text is listed as a
  hazard with no property.
* `FreeSpaceOk` refuses a run without changing state; `VerifySignature` is a
  stub that accepts everything.
* The dialog's Hide button: `updateUI` enables it only when `!startup_`,
  and the start-up dialog (`bootstrapBlockchain`) is the only one in `src/`.
* The masternode entry dialog validates its fields and returns them; the
  code that turns them into a `masternode.conf` entry is not in `src/`.
* The content of a ledger directory, the bytes of the archive and SHA-256 are
  abstracted to identities.
* `CContext`, the masternode entry dialog, the text browser dialog, the chain
  parameters' constants and the Zerocoin denominations carry no state worth a
  model; see `PROJECT.json` ("components").
* The stale `updateUI` after the last `NotifyModelChanged` and the
  race on `progress_`/`cancel_` without synchronisation are listed as hazards;
  the first depends on a 1 ms timeout the untimed model cannot weigh.
