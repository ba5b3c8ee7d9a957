--------------------------- MODULE BootstrapDialog ---------------------------
(***************************************************************************)
(* BootstrapDialog (src/src/qt/bootstrapdialog.cpp) on the GUI thread,     *)
(* composed with the BootstrapModel and its worker (Bootstrap.tla).  The   *)
(* worker's signals are turned into queued calls (invokeMethod with        *)
(* Qt::QueuedConnection) that the GUI thread runs later, in order; each    *)
(* re-reads the model (IsBootstrapRunning, IsCancelled) when it runs.  The *)
(* widgets' enabled state is what the last updateUI saw.  cancel() blocks  *)
(* the GUI thread in Wait() until the worker thread has returned.          *)
(*                                                                         *)
(* A user click is taken whenever the dialog is open: a click may have     *)
(* been queued before notifications that are still pending.  Progress      *)
(* notifications only move the progress bar and are left out.  The         *)
(* dialog is shown at every start of the wallet.                           *)
(***************************************************************************)
EXTENDS Bootstrap

CONSTANT MaxQueue   \* bound on the queued calls pending for the GUI thread

ASSUME MaxQueue \in Nat

VARIABLES
  dlg,        \* "Open", "Waiting" (blocked in cancel()'s Wait), "Closed"
  queue,      \* queued calls: "Changed" (onBootstrapModelChanged), "Succeeded"
              \* or "Failed" (onBootstrapCompleted with its success argument)
  uiRunning   \* the running state the last updateUI read

dialog == <<dlg, queue, uiRunning>>
allVars == <<vars, dialog>>

\* A queued call reaches the dialog only while it exists: a closed dialog
\* has been destroyed, and its destructor disconnected the signals.
Post(evs) == IF dlg = "Closed" THEN UNCHANGED queue ELSE queue' = queue \o evs

\* updateUI: radio buttons, path, Run and progress follow IsBootstrapRunning.
UpdateUI == uiRunning' = Running

DInit == Init /\ dlg = "Open" /\ queue = <<>> /\ uiRunning = FALSE

\* The dialog of a newly started wallet.
Reopened == dlg' = "Open" /\ queue' = <<>> /\ uiRunning' = FALSE

(***************************************************************************)
(* Clicks                                                                  *)
(***************************************************************************)
\* onButtonRadioCloud / onButtonRadioFile: SetBootstrapMode notifies.
OnButtonRadio(m) ==
  /\ dlg = "Open" /\ ~uiRunning /\ Len(queue) < MaxQueue
  /\ SetBootstrapMode(m) /\ Post(<<"Changed">>)
  /\ UNCHANGED <<dlg, uiRunning>>

\* onEditFilePathChanged / onButtonSelectFile: SetBootstrapFilePath notifies.
OnFilePath(p) ==
  /\ dlg = "Open" /\ ~uiRunning /\ mode = "file" /\ Len(queue) < MaxQueue
  /\ SetBootstrapFilePath(p) /\ Post(<<"Changed">>)
  /\ UNCHANGED <<dlg, uiRunning>>

\* updateUI enables Run when not running and the mode is cloud or the file
\* path exists (BootstrapFilePathOk).
RunEnabled == ~uiRunning /\ (mode = "cloud" \/ BootstrapFilePathOk)

\* onButtonRun: RunStageIPossible, then RunStageI (the worker it starts
\* posts three calls).
OnButtonRun ==
  /\ dlg = "Open" /\ RunEnabled /\ Len(queue) + 3 <= MaxQueue
  /\ RunStageI
  /\ UNCHANGED dialog

\* cancel(): a running worker is cancelled and waited for (the close is
\* refused); otherwise the dialog closes.
CancelDialog ==
  IF Running
    THEN Cancel /\ dlg' = "Waiting"
    ELSE dlg' = "Closed" /\ UNCHANGED vars

\* onButtonCancel, or the window's close button (closeEvent).
OnButtonCancel ==
  /\ dlg = "Open"
  /\ CancelDialog
  /\ UNCHANGED <<queue, uiRunning>>

\* Wait(): join returns once the worker thread function has returned.
WaitReturns ==
  /\ dlg = "Waiting" /\ ~Running
  /\ dlg' = "Open"
  /\ UNCHANGED <<vars, queue, uiRunning>>

(***************************************************************************)
(* Queued calls                                                            *)
(***************************************************************************)
OnBootstrapModelChanged ==
  /\ dlg = "Open" /\ queue # <<>> /\ Head(queue) = "Changed"
  /\ queue' = Tail(queue) /\ UpdateUI
  /\ UNCHANGED <<vars, dlg>>

\* onBootstrapCompleted: closed when IsCancelled() or on success (after a
\* message box); on failure the error is shown and updateUI runs.
OnBootstrapCompleted ==
  /\ dlg = "Open" /\ queue # <<>> /\ Head(queue) \in {"Succeeded", "Failed"}
  /\ queue' = Tail(queue)
  /\ IF cancel \/ Head(queue) = "Succeeded"
       THEN CancelDialog /\ UNCHANGED uiRunning
       ELSE UpdateUI /\ UNCHANGED <<vars, dlg>>

(***************************************************************************)
(* The worker, the Stage II caller, process deaths                         *)
(***************************************************************************)
\* The thread function posts onBootstrapModelChanged when it starts, and
\* onBootstrapCompleted (Stage I only: NotifyBootstrapCompletedII is not
\* connected) and onBootstrapModelChanged when it ends.  The asserts of
\* CheckPaths kill the process.
DWorker ==
  \/ ResetState /\ Post(<<"Changed">>) /\ UNCHANGED <<dlg, uiRunning>>
  \/ ThreadExit /\ UNCHANGED <<dlg, uiRunning>>
     /\ Post(IF job \in {"Cloud", "File"} THEN <<IF runError THEN "Failed" ELSE "Succeeded", "Changed">> ELSE <<"Changed">>)
  \/ CheckPaths /\ IF wpc' = "Idle" THEN Reopened ELSE UNCHANGED dialog
  \/ /\ \/ Download \/ DownloadFailed \/ RenameTmp \/ OpenArchive \/ Extract
        \/ VerifyBootstrapFolder \/ VerifyNetworkType \/ BootstrapVerifiedCreate
        \/ CheckStaging \/ ReplaceSubtrees \/ MergeConfig \/ StageIICleanUp
        \/ ThreadReturn
     /\ UNCHANGED dialog

\* RunStageII from the start-up code, which is blocked in the dialog's exec()
\* until the dialog is closed.
DRunStageII ==
  /\ dlg = "Closed"
  /\ RunStageII /\ UNCHANGED dialog

DCrash == Crash /\ Reopened

\* The user quits (the BootstrapModel destructor cancels and waits) and
\* starts the wallet again.
WalletRestart ==
  /\ dlg = "Closed" /\ ~Running
  /\ Restart /\ Reopened
  /\ UNCHANGED <<files, crashes>>

DNext ==
  \/ \E m \in {"cloud", "file"} : OnButtonRadio(m)
  \/ \E p \in Paths : OnFilePath(p)
  \/ OnButtonRun \/ OnButtonCancel \/ WaitReturns
  \/ OnBootstrapModelChanged \/ OnBootstrapCompleted
  \/ DWorker \/ DRunStageII \/ DCrash \/ WalletRestart

\* The worker thread is scheduled, and a join returns once the thread has
\* ended; the user, the start-up code and process deaths are not fair.
DSpec == DInit /\ [][DNext]_allVars /\ WF_allVars(DWorker) /\ WF_allVars(WaitReturns)

(***************************************************************************)
(* Properties                                                              *)
(***************************************************************************)
DTypeOK ==
  /\ TypeOK
  /\ dlg \in {"Open", "Waiting", "Closed"} /\ uiRunning \in BOOLEAN
  /\ queue \in BoundedSeq({"Changed", "Succeeded", "Failed"}, MaxQueue)

====
