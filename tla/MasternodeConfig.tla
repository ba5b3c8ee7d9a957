-------------------------- MODULE MasternodeConfig --------------------------
(***************************************************************************)
(* CMasternodeConfig (src/src/masternodeconfig.cpp): the list entries_ of  *)
(* masternode entries, guarded by csEntries_, and the file masternode.conf *)
(* it is read from at start-up and rewritten after every change.           *)
(*                                                                         *)
(* An entry is a model value; its fields are abstracted to its alias      *)
(* (Alias), whether CMasternodeEntry::isValid accepts it (Valid) and        *)
(* whether read() accepts the line writeConfig prints for it (Parsable).   *)
(* The file is the sequence of its entry lines (the comment header is      *)
(* skipped by read() and left out).  A line cut short by a crash is Torn  *)
(* when it has fewer than five words, and Cut when the cut falls inside    *)
(* its last word, the output index (or just after the space before it):    *)
(* read() splits it into five words and accepts it as an entry whose       *)
(* output index was never written.                                         *)
(* Every public method runs under the lock, so each is one step, except    *)
(* writeConfig, whose buffered writes reach the disk only by fclose: the   *)
(* process may die between the truncating fopen and fclose.                *)
(***************************************************************************)
EXTENDS Naturals, Sequences, SequencesExt

CONSTANTS
  Entries,      \* masternode entries the callers may pass
  Alias(_),     \* getAlias() of an entry
  Aliases,      \* aliases deleteEntry(alias) may be called with
  Valid,        \* entries CMasternodeEntry::isValid accepts
  Parsable,     \* entries whose printed line read() parses
  Torn,         \* a cut line read() rejects
  Cut,          \* a cut line read() accepts
  InitFiles,    \* possible contents of masternode.conf at the first start
  MaxEntries,   \* bound on the length of entries_
  MaxCrashes    \* bound on process deaths

ASSUME
  /\ Valid \subseteq Entries \cup {Cut} /\ Parsable \subseteq Entries
  /\ Torn \notin Entries /\ Cut \notin Entries
  /\ InitFiles \subseteq Seq(Entries)
  /\ MaxEntries \in Nat /\ MaxCrashes \in Nat

VARIABLES
  entries,   \* entries_
  exists,    \* masternode.conf exists
  file,      \* its entry lines
  mpc,       \* the process: "Start" (before read), "Idle", "Writing" (in
             \* writeConfig between fopen and fclose), "Halted" (read failed)
  writing,   \* the lines the latest writeConfig writes (initially the file)
  synced,    \* no read or write error since the file was last read or written
  crashes

vars == <<entries, exists, file, mpc, writing, synced, crashes>>

Lines == Entries \cup {Torn, Cut}

\* The lines read() accepts.
Accepted == Parsable \cup {Cut}

\* The lines writeConfig prints: the entries isValid accepts, in order.
ValidOf(s) == SelectSeq(s, LAMBDA e : e \in Valid)

Init ==
  /\ entries = <<>> /\ mpc = "Start" /\ synced = TRUE /\ crashes = 0
  /\ exists \in BOOLEAN
  /\ file \in IF exists THEN InitFiles ELSE {<<>>}
  /\ writing = file

(***************************************************************************)
(* read(), at start-up                                                     *)
(***************************************************************************)
\* The stream is not good: the file is missing (fopen "a" creates it with the
\* header, or fails) or cannot be read; read() returns true, entries_ stays
\* empty.  Appending a header to an existing file adds only comment lines.
ReadNotGood ==
  /\ mpc = "Start"
  /\ \/ ~exists /\ exists' \in BOOLEAN /\ synced' = TRUE
     \/ exists /\ synced' = FALSE /\ UNCHANGED exists
  /\ mpc' = "Idle"
  /\ UNCHANGED <<entries, file, writing, crashes>>

\* Mutant of ReadFile: lines are taken without the parse checks.
ReadFileNoCheck ==
  /\ mpc = "Start" /\ exists
  /\ entries' = file /\ mpc' = "Idle"
  /\ UNCHANGED <<exists, file, writing, synced, crashes>>

\* Every line is parsed; the first one read() rejects (fewer than five words,
\* a bad host:port, a port of the wrong network, an empty alias) makes it
\* return false with entries_ untouched, and the node does not start.
\* Otherwise entries_ is assigned the parsed list under the lock.
ReadFile ==
  /\ mpc = "Start" /\ exists
  /\ IF \A i \in 1..Len(file) : file[i] \in Accepted
       THEN entries' = file /\ mpc' = "Idle" /\ synced' = TRUE
       ELSE mpc' = "Halted" /\ UNCHANGED <<entries, synced>>
  /\ UNCHANGED <<exists, file, writing, crashes>>

(***************************************************************************)
(* writeConfig, called under the lock by addEntry and deleteEntry          *)
(***************************************************************************)
\* fopen(path, "w") truncates (or creates) the file, then the header and one
\* line per valid entry of entries_ are written into the stdio buffer.  If
\* fopen fails, writeConfig returns false: entries_ keeps the change.
WriteConfigOpen(new) ==
  \/ /\ exists' = TRUE /\ file' = <<>> /\ writing' = ValidOf(new)
     /\ mpc' = "Writing" /\ UNCHANGED synced
  \/ /\ mpc' = "Idle" /\ synced' = FALSE
     /\ UNCHANGED <<exists, file, writing>>

\* fclose flushes the buffer: the file holds the printed lines.
WriteConfigClose ==
  /\ mpc = "Writing"
  /\ file' = file \o writing /\ mpc' = "Idle" /\ synced' = TRUE
  /\ UNCHANGED <<entries, exists, writing, crashes>>

\* Mutant of AddEntry: writeConfig runs before the entry is pushed.
AddEntryWriteFirst(e) ==
  /\ mpc = "Idle" /\ e \in Valid /\ Len(entries) < MaxEntries
  /\ entries' = Append(entries, e)
  /\ WriteConfigOpen(entries)
  /\ UNCHANGED crashes

\* addEntry: an entry isValid rejects is refused (error, nothing changes).
AddEntry(e) ==
  /\ mpc = "Idle" /\ e \in Valid /\ Len(entries) < MaxEntries
  /\ entries' = Append(entries, e)
  /\ WriteConfigOpen(entries')
  /\ UNCHANGED crashes

\* deleteEntry(int index), index counted from 0; an index out of range is an
\* error return that changes nothing.
DeleteEntry(index) ==
  /\ mpc = "Idle" /\ index < Len(entries)
  /\ entries' = RemoveAt(entries, index + 1)
  /\ WriteConfigOpen(entries')
  /\ UNCHANGED crashes

\* deleteEntry(alias): the first entry with that alias is erased; an unknown
\* alias is an error return that changes nothing.
DeleteEntryAlias(a) ==
  /\ mpc = "Idle"
  /\ LET i == SelectInSeq(entries, LAMBDA e : Alias(e) = a) IN
       /\ i # 0
       /\ entries' = RemoveAt(entries, i)
       /\ WriteConfigOpen(entries')
  /\ UNCHANGED crashes

(***************************************************************************)
(* The process dies and the node is started again                          *)
(***************************************************************************)
\* Inside writeConfig any prefix of the printed lines may have reached the
\* disk, the last of them possibly cut short (before or inside its output
\* index).
Crash ==
  /\ mpc \in {"Idle", "Writing"} /\ crashes < MaxCrashes
  /\ IF mpc = "Writing"
       THEN \E k \in 0..Len(writing) :
              \/ file' = SubSeq(writing, 1, k)
              \/ k < Len(writing) /\ \E l \in {Torn, Cut} : file' = Append(SubSeq(writing, 1, k), l)
       ELSE UNCHANGED file
  /\ entries' = <<>> /\ mpc' = "Start" /\ crashes' = crashes + 1
  /\ UNCHANGED <<exists, writing, synced>>

Next ==
  \/ ReadNotGood \/ ReadFile
  \/ \E e \in Entries : AddEntry(e)
  \/ \E index \in 0..MaxEntries : DeleteEntry(index)
  \/ \E a \in Aliases : DeleteEntryAlias(a)
  \/ WriteConfigClose
  \/ Crash

Spec == Init /\ [][Next]_vars

(***************************************************************************)
(* Properties                                                              *)
(***************************************************************************)
TypeOK ==
  /\ entries \in BoundedSeq(Entries \cup {Cut}, MaxEntries)
  /\ exists \in BOOLEAN /\ file \in Seq(Lines)
  /\ mpc \in {"Start", "Idle", "Writing", "Halted"}
  /\ writing \in Seq(Entries \cup {Cut}) /\ synced \in BOOLEAN
  /\ crashes \in 0..MaxCrashes

\* Between calls, and unless a read or a fopen has failed since, the file
\* holds exactly the entries of entries_ that isValid accepts, in order:
\* every addEntry and deleteEntry rewrites the file from the changed list.
FileMirrorsEntries ==
  (mpc = "Idle" /\ synced) => file = ValidOf(entries)

====
