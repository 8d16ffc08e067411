----------------------------- MODULE Transactions -----------------------------
(***************************************************************************)
(* The transaction engine (core/transactions.py): a TransactionManager     *)
(* with its list of transactions and its active one, over the files of the *)
(* workspace.  CoderAgent snapshots a file into the active transaction     *)
(* just before a tool changes it (agents/coder.py).                        *)
(*                                                                         *)
(* The content of a file is a text that survives being read and written    *)
(* back, or Blob: bytes that do not, because snapshot_file decodes with    *)
(* errors="replace" and translates line ends.                              *)
(***************************************************************************)
EXTENDS Naturals, Sequences

CONSTANTS
  Files,       \* paths in the workspace
  Texts,       \* contents that survive decoding and encoding
  Blob,        \* a content that does not
  Mangled,     \* what a Blob is read back as
  Absent,      \* the file does not exist
  NoSnapshot,  \* the transaction holds no snapshot of the file
  Unreadable,  \* a snapshot of a file that existed and could not be read
  Lockable,    \* the files that may fail to be read or to be restored
  Initially,   \* the contents the files may have at the start
  MaxTx,       \* bound: transactions begun
  UndoWhile    \* whether rollback_to is called while a transaction is active

Contents  == Texts \cup {Blob, Mangled, Absent}
Snapshots == Contents \cup {NoSnapshot, Unreadable}

ASSUME ContentsAssumption ==
  /\ Initially \subseteq Contents
  /\ NoSnapshot \notin Contents /\ Unreadable \notin Contents
  /\ NoSnapshot # Unreadable
  /\ Absent \notin Texts \cup {Blob, Mangled}
  /\ MaxTx \in Nat

VARIABLES
  files,   \* the content of every file
  txs,     \* TransactionManager._transactions
  active   \* TransactionManager._active: an index into txs, or 0 for None

vars == <<files, txs, active>>

(* base is the content of the files when the transaction began (history). *)
NewTx == [snap |-> [f \in Files |-> NoSnapshot],
          committed |-> FALSE, rolledBack |-> FALSE, base |-> files]

Init ==
  /\ files \in [Files -> Initially]
  /\ txs = <<>>
  /\ active = 0

(* Slip: the index is read after the append. *)
BeginTooFar ==
  /\ Len(txs) < MaxTx
  /\ txs' = Append(txs, NewTx)
  /\ active' = Len(txs) + 2
  /\ UNCHANGED files

(* TransactionManager.begin: the transaction that was active is abandoned. *)
Begin ==
  /\ Len(txs) < MaxTx
  /\ txs' = Append(txs, NewTx)
  /\ active' = Len(txs) + 1
  /\ UNCHANGED files

(* What Transaction.snapshot_file stores for a file, if it has no snapshot *)
(* of it yet.                                                              *)
Decode(c) == IF c = Blob THEN Mangled ELSE c
Captures(f) ==
  {Decode(files[f])} \cup
    (IF f \in Lockable /\ files[f] # Absent THEN {Unreadable} ELSE {})

(* Slip: every edit takes a new snapshot. *)
SnapshotAgain(f) ==
  IF active = 0
  THEN UNCHANGED txs
  ELSE \E s \in Captures(f) : txs' = [txs EXCEPT ![active].snap[f] = s]

SnapshotFile(f) ==
  IF active = 0 \/ txs[active].snap[f] # NoSnapshot
  THEN UNCHANGED txs
  ELSE \E s \in Captures(f) : txs' = [txs EXCEPT ![active].snap[f] = s]

(* A write or patch by CoderAgent: snapshot, then the tool, which may fail *)
(* and leave the file alone.                                               *)
Edit(f) ==
  /\ SnapshotFile(f)
  /\ \E c \in Texts \cup {files[f]} : files' = [files EXCEPT ![f] = c]
  /\ UNCHANGED active

(* Slip: a file that was created is left. *)
RestoredButCreated(i) ==
  [f \in Files |->
     IF txs[i].snap[f] \in {NoSnapshot, Unreadable, Absent} THEN files[f] ELSE txs[i].snap[f]]

(* Transaction.rollback of the i-th transaction, which is not committed:   *)
(* what was created is removed, what could not be read is left.            *)
Restored(i) ==
  [f \in Files |->
     IF txs[i].snap[f] \in {NoSnapshot, Unreadable} THEN files[f] ELSE txs[i].snap[f]]

(* An error at one file is recorded, and the others are restored all the same. *)
Rollback(i) ==
  /\ \E failed \in SUBSET Lockable :
       files' = [f \in Files |-> IF f \in failed THEN files[f] ELSE Restored(i)[f]]
  /\ txs' = [txs EXCEPT ![i].committed = FALSE, ![i].rolledBack = TRUE]

(* Transaction.commit, as the orchestrator calls it: _active stays set. *)
Commit(i) ==
  /\ txs' = [txs EXCEPT ![i].committed = TRUE]
  /\ UNCHANGED <<files, active>>

CommitActive ==
  /\ active # 0
  /\ txs' = [txs EXCEPT ![active].committed = TRUE]
  /\ active' = 0
  /\ UNCHANGED files

(* Slip: a committed transaction does not refuse. *)
RollbackCommitted ==
  /\ active # 0
  /\ Rollback(active)
  /\ active' = 0

(* rollback_active: a committed transaction refuses, and is no longer      *)
(* active either way.                                                      *)
RollbackActive ==
  /\ active # 0
  /\ IF txs[active].committed THEN UNCHANGED <<files, txs>> ELSE Rollback(active)
  /\ active' = 0

(* rollback_to: undo, even of a committed transaction. *)
RollbackTo(i) ==
  /\ UndoWhile \/ active = 0
  /\ ~txs[i].rolledBack
  /\ Rollback(i)
  /\ UNCHANGED active

Next ==
  \/ Begin
  \/ \E f \in Files : Edit(f)
  \/ active # 0 /\ Commit(active)
  \/ CommitActive \/ RollbackActive
  \/ \E i \in 1..Len(txs) : RollbackTo(i)

Spec == Init /\ [][Next]_vars

-----------------------------------------------------------------------------
(* The shape of every variable. *)
Tx == [snap : [Files -> Snapshots], committed : BOOLEAN, rolledBack : BOOLEAN,
       base : [Files -> Contents]]

TypeOK ==
  /\ files \in [Files -> Contents]
  /\ txs \in Seq(Tx)
  /\ Len(txs) <= MaxTx
  /\ active \in 0..Len(txs)

(* Why rolling back works: a file the active transaction has no snapshot   *)
(* of is as it was at the beginning, and a snapshot holds what was there.  *)
SnapshotsCover ==
  active # 0 => \A f \in Files :
    /\ txs[active].snap[f] = NoSnapshot => files[f] = txs[active].base[f]
    /\ txs[active].snap[f] \in Contents =>
         txs[active].snap[f] = Decode(txs[active].base[f])

(* transactions.py:50: "On rollback, restores every file to its            *)
(* pre-transaction state": when the active transaction is rolled back the  *)
(* workspace is what it was when the transaction began, however its edits  *)
(* and commits of others were interleaved before.                          *)
RollbackRestores ==
  [][active # 0 /\ active' = 0 /\ txs'[active].rolledBack /\ ~txs[active].rolledBack
       => files' = txs[active].base]_vars

(* A committed transaction is undone by rollback_to only.                  *)
CommitSticks ==
  [][\A i \in 1..Len(txs) : txs[i].committed /\ ~txs'[i].committed =>
       active' = active /\ txs'[i].rolledBack]_vars
===============================================================================
