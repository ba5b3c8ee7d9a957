--------------------------- MODULE GovernanceVote ---------------------------
(***************************************************************************)
(* The governance page (src/src/qt/governancetable.cpp) over its table     *)
(* model (governancetablemodel.cpp).  The validation thread posts a queued *)
(* onBlockNotify for every new tip; the GUI thread runs it from its event  *)
(* loop, and also from the nested event loops of the context menu and of   *)
(* the modal confirmation box that onVoteImpl opens.  updateModel rebuilds *)
(* data_ and does not move persistent indexes, so the selection keeps its  *)
(* row number while the proposal in that row may change; when that row is  *)
(* gone, the proxy drops the selection.                                    *)
(*                                                                         *)
(* A proposal is a model value; its name and hash are the proposal itself. *)
(* A search string is abstracted to the set of proposals it matches.       *)
(***************************************************************************)
EXTENDS Naturals, Sequences, SequencesExt

CONSTANTS
  Proposals,      \* budget proposals
  Order,          \* the order budget.GetAllProposals returns them in
  BlockEnd(_),    \* GetBlockEnd of a proposal
  InitKnown,      \* proposals known to the budget manager at start
  InitHeight,     \* chainActive.Height() at start
  MaxHeight,      \* bound on the chain height
  Searches,       \* what the search strings typed by the user match
  NoProposal      \* no question box is open

ASSUME
  /\ Order \in Seq(Proposals) /\ ToSet(Order) = Proposals
  /\ InitKnown \subseteq Proposals
  /\ InitHeight \in 0..MaxHeight
  /\ Proposals \in Searches /\ Searches \subseteq SUBSET Proposals
  /\ NoProposal \notin Proposals

VARIABLES
  height,        \* chainActive.Height()
  pending,       \* queued onBlockNotify calls not yet run
  known,         \* proposals in the budget manager
  showPrevious,  \* showPrevious_
  filter,        \* filter_ (the proposals it matches; Proposals when empty)
  rows,          \* data_: the proposals in the table, in source row order
  sel,           \* selected source row (getSelectedRow + 1; 0 for none)
  enabled,       \* the vote buttons are enabled
  gpc,           \* where the GUI thread is: "Idle", "Menu", "Confirm"
  named,         \* the proposal named in the confirmation question
  pointed,       \* the proposal the open context menu was opened on
  votes,         \* votes sent: [on |-> voted proposal, chosen |-> confirmed one]
  shown,         \* the website or details last opened: {[on |-> shown, chosen |-> clicked]}
  aborted        \* an assert(false) has killed the process

vars == <<height, pending, known, showPrevious, filter, rows, sel, enabled,
          gpc, named, pointed, votes, shown, aborted>>

\* Mutant of PassFilter: a proposal is hidden one block late.
PassFilterLate(p, h, prev, f) ==
  /\ ~(~prev /\ h > 1 /\ h - 1 > BlockEnd(p))
  /\ p \in f

\* passFilter: finished proposals are hidden unless shown on request; then
\* the search string must match (an empty one matches everything).
PassFilter(p, h, prev, f) ==
  /\ ~(~prev /\ h > 0 /\ h > BlockEnd(p))
  /\ p \in f

\* GovernanceTableModel::updateModel: data_ rebuilt from the budget.
TableRows(h, prev, f) == SelectSeq(Order, LAMBDA p : p \in known /\ PassFilter(p, h, prev, f))

\* Mutant of UpdateModel: data_ is not cleared before it is refilled.
UpdateModelNoClear(prev, f) ==
  /\ rows' = rows \o TableRows(height, prev, f)
  /\ sel' = IF sel \in 1..Len(rows') THEN sel ELSE 0
  /\ enabled' = (enabled /\ sel \in 1..Len(rows'))

\* GovernanceTable::updateModel (the URL/info buttons and the sort are
\* layout only).  Persistent indexes are not updated: the selection keeps
\* its row number.  If that row is gone, the proxy's mapping of it is
\* invalid: the selection is dropped (getSelectedRow is -1) and
\* onTableRowChanged, given an invalid current row, disables the vote buttons.
UpdateModel(prev, f) ==
  /\ rows' = TableRows(height, prev, f)
  /\ sel' = IF sel \in 1..Len(rows') THEN sel ELSE 0
  /\ enabled' = (enabled /\ sel \in 1..Len(rows'))

\* dataAt asserts that the row exists.
RowOk(r) == r \in 1..Len(rows)

Init ==
  /\ height = InitHeight /\ pending = 0 /\ known = InitKnown
  /\ showPrevious = FALSE /\ filter = Proposals
  /\ rows = TableRows(InitHeight, FALSE, Proposals)
  /\ sel = 0 /\ enabled = FALSE /\ gpc = "Idle"
  /\ named = NoProposal /\ pointed = NoProposal
  /\ votes = {} /\ shown = {} /\ aborted = FALSE

\* The process dies on an assert and the wallet is started again.
Abort ==
  /\ aborted' = TRUE
  /\ pending' = 0 /\ sel' = 0 /\ enabled' = FALSE /\ gpc' = "Idle"
  /\ showPrevious' = FALSE /\ filter' = Proposals
  /\ named' = NoProposal /\ pointed' = NoProposal
  /\ rows' = TableRows(height, FALSE, Proposals)
  /\ UNCHANGED <<height, known, votes, shown>>

(***************************************************************************)
(* Other threads                                                           *)
(***************************************************************************)
\* A new tip: BlockNotifyCallback posts onBlockNotify to the GUI thread.
NewBlock ==
  /\ height < MaxHeight
  /\ height' = height + 1 /\ pending' = pending + 1
  /\ UNCHANGED <<known, showPrevious, filter, rows, sel, enabled, gpc, named, pointed, votes, shown, aborted>>

\* A proposal arrives from the network; no notification is posted.
NewProposal ==
  /\ \E p \in Proposals \ known : known' = known \cup {p}
  /\ UNCHANGED <<height, pending, showPrevious, filter, rows, sel, enabled, gpc, named, pointed, votes, shown, aborted>>

(***************************************************************************)
(* The GUI thread                                                          *)
(***************************************************************************)
\* onBlockNotify, run by the main event loop or by a nested one.
OnBlockNotify ==
  /\ pending > 0
  /\ pending' = pending - 1
  /\ UpdateModel(showPrevious, filter)
  /\ UNCHANGED <<height, known, showPrevious, filter, gpc, named, pointed, votes, shown, aborted>>

\* A click on row i: onTableRowChanged enables the vote buttons.
SelectRow(i) ==
  /\ gpc = "Idle" /\ i \in 1..Len(rows)
  /\ sel' = i /\ enabled' = TRUE
  /\ UNCHANGED <<height, pending, known, showPrevious, filter, rows, gpc, named, pointed, votes, shown, aborted>>

\* A right click on row i selects it; onShowTableContextMenu opens the menu,
\* whose exec() runs a nested event loop.
OpenMenu(i) ==
  /\ gpc = "Idle" /\ i \in 1..Len(rows)
  /\ sel' = i /\ enabled' = TRUE /\ gpc' = "Menu" /\ pointed' = rows[i]
  /\ UNCHANGED <<height, pending, known, showPrevious, filter, rows, named, votes, shown, aborted>>

DismissMenu ==
  /\ gpc = "Menu" /\ gpc' = "Idle" /\ pointed' = NoProposal
  /\ UNCHANGED <<height, pending, known, showPrevious, filter, rows, sel, enabled, named, votes, shown, aborted>>

\* onVoteYes/No/Abstain (a button, or a menu action): onVoteImpl reads the
\* name of the selected row and opens the modal question naming it.
OnVote ==
  /\ \/ gpc = "Idle" /\ enabled
     \/ gpc = "Menu"
  /\ IF RowOk(sel)
       THEN /\ named' = rows[sel] /\ gpc' = "Confirm" /\ pointed' = NoProposal
            /\ UNCHANGED <<height, pending, known, showPrevious, filter, rows, sel, enabled, votes, shown, aborted>>
       ELSE Abort

\* The question is answered Cancel: onVoteImpl returns, onVote* refreshes.
OnVoteCancel ==
  /\ gpc = "Confirm"
  /\ gpc' = "Idle" /\ named' = NoProposal
  /\ UpdateModel(showPrevious, filter)
  /\ UNCHANGED <<height, pending, known, showPrevious, filter, pointed, votes, shown, aborted>>

\* GovernanceTableModel::vote: for each masternode entry, set the key, find
\* the masternode, sign and relay a vote on the hash (per-entry failures
\* only change the message); modelled as the vote on proposal p being sent.
CastVote(p, q) == votes' = votes \cup {[on |-> p, chosen |-> q]}

\* The question is answered Yes: the hash is read from the selected row
\* again and GovernanceTableModel::vote signs and relays a vote on it for
\* every masternode entry; onVote* refreshes.
OnVoteConfirm ==
  /\ gpc = "Confirm"
  /\ IF RowOk(sel)
       THEN /\ CastVote(rows[sel], named)
            /\ gpc' = "Idle" /\ named' = NoProposal
            /\ UpdateModel(showPrevious, filter)
            /\ UNCHANGED <<height, pending, known, showPrevious, filter, pointed, shown, aborted>>
       ELSE Abort

OnShowPrevious(b) ==
  /\ gpc = "Idle"
  /\ showPrevious' = b /\ UpdateModel(b, filter)
  /\ UNCHANGED <<height, pending, known, filter, gpc, named, pointed, votes, shown, aborted>>

OnSearch(f) ==
  /\ gpc = "Idle"
  /\ filter' = f /\ UpdateModel(showPrevious, f)
  /\ UNCHANGED <<height, pending, known, showPrevious, gpc, named, pointed, votes, shown, aborted>>

\* onUpdateTable and showEvent.
OnUpdateTable ==
  /\ gpc = "Idle"
  /\ UpdateModel(showPrevious, filter)
  /\ UNCHANGED <<height, pending, known, showPrevious, filter, gpc, named, pointed, votes, shown, aborted>>

\* onUrl and onShowInfo take the selected row (getSelectedRow) and, only
\* when no row is selected, the row under the cursor: row i, or 0 when the
\* cursor is over no row, and then only "Not found." is shown.  Both rows
\* are in the table, so dataAt's assert holds.  What is opened is recorded
\* with the proposal the user clicked, until the next one is opened.
ShowDetails(i, c) ==
  LET r == IF sel # 0 THEN sel ELSE i IN
  /\ IF r # 0 THEN shown' = {[on |-> rows[r], chosen |-> c]} ELSE UNCHANGED shown
  /\ gpc' = "Idle" /\ pointed' = NoProposal
  /\ UNCHANGED <<height, pending, known, showPrevious, filter, rows, sel, enabled, named, votes, aborted>>

\* The website of the proposal (GUIUtil::openURL).
OnUrl(i, c) == ShowDetails(i, c)

\* The details of the proposal (formatProposal, in a modal TextBrowserDialog
\* after which nothing is read).
OnShowInfo(i, c) == ShowDetails(i, c)

\* The link and info buttons setIndexWidget puts in every row (clicking one
\* does not select its row; the cursor is over row i), and the "Open URL"
\* and "Show Information" actions of the context menu, clicked with the
\* cursor over the menu, above any row of the table or none.
RowButton(i) ==
  /\ gpc = "Idle" /\ i \in 1..Len(rows)
  /\ OnUrl(i, rows[i]) \/ OnShowInfo(i, rows[i])

MenuDetails ==
  /\ gpc = "Menu"
  /\ \E j \in 0..Len(rows) : OnUrl(j, pointed) \/ OnShowInfo(j, pointed)

Next ==
  \/ NewBlock \/ NewProposal \/ OnBlockNotify
  \/ \E i \in 1..Len(Order) : SelectRow(i) \/ OpenMenu(i)
  \/ \E i \in 1..Len(Order) : RowButton(i)
  \/ DismissMenu \/ MenuDetails \/ OnVote \/ OnVoteCancel \/ OnVoteConfirm
  \/ \E b \in BOOLEAN : OnShowPrevious(b)
  \/ \E f \in Searches : OnSearch(f)
  \/ OnUpdateTable

Spec == Init /\ [][Next]_vars

(***************************************************************************)
(* Properties                                                              *)
(***************************************************************************)
TypeOK ==
  /\ height \in 0..MaxHeight /\ pending \in 0..MaxHeight
  /\ known \subseteq Proposals /\ showPrevious \in BOOLEAN /\ filter \in Searches
  /\ rows \in BoundedSeq(Proposals, Len(Order))
  /\ sel \in 0..Len(Order) /\ enabled \in BOOLEAN
  /\ gpc \in {"Idle", "Menu", "Confirm"} /\ named \in Proposals \cup {NoProposal}
  /\ pointed \in Proposals \cup {NoProposal}
  /\ votes \subseteq [on : Proposals, chosen : Proposals]
  /\ shown \subseteq [on : Proposals, chosen : Proposals] /\ aborted \in BOOLEAN

\* Once the GUI thread has run every queued onBlockNotify, the table shows no
\* proposal that ended before the current tip, unless the user asked to see
\* previous proposals (BlockNotifyCallback, onBlockNotify, passFilter).
FinishedHidden ==
  (gpc = "Idle" /\ pending = 0 /\ ~showPrevious) =>
    \A i \in 1..Len(rows) : height = 0 \/ BlockEnd(rows[i]) >= height

\* The wallet acts on the proposal the user chose: the masternodes vote on
\* the one named in onVoteImpl's question box, and onUrl and onShowInfo
\* open the website or the details of the one whose row button or context
\* menu the user clicked.
ActsOnChosenProposal == \A a \in votes \cup shown : a.on = a.chosen

\* onVoteImpl never calls dataAt with getSelectedRow's -1 (no row selected),
\* which dataAt's assert(false) turns into an abort of the wallet.
NoAssertAbort == ~aborted

====
