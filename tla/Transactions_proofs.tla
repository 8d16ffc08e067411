-------------------------- MODULE Transactions_proofs --------------------------
(***************************************************************************)
(* Proofs about Transactions: the type invariant, that snapshots cover the *)
(* edits of the active transaction, that a rollback of the active one      *)
(* restores the workspace, and that a commit is undone by rollback_to only.*)
(***************************************************************************)
EXTENDS Transactions, TLAPS

(* Each field of a transaction keeps its type when another one changes. *)
LEMMA TxTypes ==
  ASSUME TypeOK, NEW i \in 1..Len(txs)
  PROVE  /\ txs[i] \in Tx
         /\ txs[i].snap \in [Files -> Snapshots]
         /\ txs[i].base \in [Files -> Contents]
         /\ txs[i].committed \in BOOLEAN
         /\ txs[i].rolledBack \in BOOLEAN
<1>1. txs[i] \in Tx
  BY DEF TypeOK
<1>2. QED
  BY <1>1 DEF Tx

(* The content captured by a snapshot is a snapshot. *)
LEMMA CapturesType ==
  ASSUME TypeOK, NEW f \in Files
  PROVE  Captures(f) \subseteq Snapshots
  BY DEF TypeOK, Captures, Decode, Snapshots, Contents

(* What a rollback writes is a content. *)
LEMMA RestoredType ==
  ASSUME TypeOK, NEW i \in 1..Len(txs)
  PROVE  Restored(i) \in [Files -> Contents]
  BY TxTypes DEF TypeOK, Restored, Snapshots

(* Updating one transaction by a record of the right type. *)
LEMMA UpdateType ==
  ASSUME TypeOK, NEW i \in 1..Len(txs), NEW t \in Tx,
         txs' = [txs EXCEPT ![i] = t]
  PROVE  /\ txs' \in Seq(Tx)
         /\ Len(txs') = Len(txs)
         /\ txs'[i] = t
         /\ \A k \in 1..Len(txs) : k # i => txs'[k] = txs[k]
  BY DEF TypeOK

LEMMA SnapshotEffect ==
  ASSUME TypeOK, NEW f \in Files, SnapshotFile(f)
  PROVE  \/ txs' = txs /\ (active # 0 => txs[active].snap[f] # NoSnapshot)
         \/ /\ active # 0
            /\ txs[active].snap[f] = NoSnapshot
            /\ \E s \in Captures(f) :
                 txs' = [txs EXCEPT ![active].snap[f] = s]
  BY DEF SnapshotFile

-----------------------------------------------------------------------------
LEMMA InitType == Init => TypeOK
  BY ContentsAssumption DEF Init, TypeOK

LEMMA RollbackType ==
  ASSUME TypeOK, NEW i \in 1..Len(txs), Rollback(i)
  PROVE  /\ files' \in [Files -> Contents]
         /\ txs' \in Seq(Tx)
         /\ Len(txs') = Len(txs)
         /\ \A k \in 1..Len(txs) : k # i => txs'[k] = txs[k]
         /\ txs'[i] = [txs[i] EXCEPT !.committed = FALSE, !.rolledBack = TRUE]
<1> DEFINE t == [txs[i] EXCEPT !.committed = FALSE, !.rolledBack = TRUE]
<1>1. files' \in [Files -> Contents]
  <2>1. Restored(i) \in [Files -> Contents] /\ files \in [Files -> Contents]
    BY RestoredType DEF TypeOK
  <2>2. PICK failed \in SUBSET Lockable :
          files' = [f \in Files |-> IF f \in failed THEN files[f] ELSE Restored(i)[f]]
    BY DEF Rollback
  <2>3. QED
    BY <2>1, <2>2
<1>2. t \in Tx
  BY TxTypes DEF Tx
<1>3. txs' = [txs EXCEPT ![i] = t]
  BY DEF Rollback, TypeOK
<1> HIDE DEF t
<1>4. QED
  BY <1>1, <1>2, <1>3, UpdateType DEF t

LEMMA CommitType ==
  ASSUME TypeOK, NEW i \in 1..Len(txs), txs' = [txs EXCEPT ![i].committed = TRUE]
  PROVE  /\ txs' \in Seq(Tx)
         /\ Len(txs') = Len(txs)
         /\ \A k \in 1..Len(txs) : k # i => txs'[k] = txs[k]
         /\ txs'[i] = [txs[i] EXCEPT !.committed = TRUE]
<1> DEFINE t == [txs[i] EXCEPT !.committed = TRUE]
<1>1. t \in Tx
  BY TxTypes DEF Tx
<1>2. txs' = [txs EXCEPT ![i] = t]
  BY DEF TypeOK
<1> HIDE DEF t
<1>3. QED
  BY <1>1, <1>2, UpdateType DEF t

LEMMA EditType ==
  ASSUME TypeOK, NEW f \in Files, Edit(f)
  PROVE  /\ files' \in [Files -> Contents]
         /\ \A g \in Files : g # f => files'[g] = files[g]
         /\ txs' \in Seq(Tx)
         /\ Len(txs') = Len(txs)
         /\ \A k \in 1..Len(txs) :
              /\ txs'[k].committed = txs[k].committed
              /\ txs'[k].rolledBack = txs[k].rolledBack
              /\ txs'[k].base = txs[k].base
              /\ \A g \in Files : k # active \/ g # f => txs'[k].snap[g] = txs[k].snap[g]
         /\ active # 0 =>
              \/ txs'[active].snap[f] = txs[active].snap[f] /\ txs[active].snap[f] # NoSnapshot
              \/ /\ txs[active].snap[f] = NoSnapshot
                 /\ txs'[active].snap[f] \in Captures(f)
<1>1. files' \in [Files -> Contents] /\ \A g \in Files : g # f => files'[g] = files[g]
  BY DEF TypeOK, Edit, Contents
<1>2. SnapshotFile(f)
  BY DEF Edit
<1>3. CASE txs' = txs /\ (active # 0 => txs[active].snap[f] # NoSnapshot)
  BY <1>1, <1>3 DEF TypeOK
<1>4. ASSUME active # 0, txs[active].snap[f] = NoSnapshot, NEW s \in Captures(f),
             txs' = [txs EXCEPT ![active].snap[f] = s]
      PROVE  /\ txs' \in Seq(Tx)
             /\ Len(txs') = Len(txs)
             /\ \A k \in 1..Len(txs) :
                  /\ txs'[k].committed = txs[k].committed
                  /\ txs'[k].rolledBack = txs[k].rolledBack
                  /\ txs'[k].base = txs[k].base
                  /\ \A g \in Files : k # active \/ g # f => txs'[k].snap[g] = txs[k].snap[g]
             /\ txs'[active].snap[f] = s
  <2> DEFINE m == [txs[active].snap EXCEPT ![f] = s]
             t == [txs[active] EXCEPT !.snap = m]
  <2>1. active \in 1..Len(txs)
    BY <1>4 DEF TypeOK
  <2>2. s \in Snapshots
    BY CapturesType
  <2>3. m \in [Files -> Snapshots] /\ m[f] = s /\ \A g \in Files : g # f => m[g] = txs[active].snap[g]
    BY <2>1, <2>2, TxTypes
  <2>4. txs' = [txs EXCEPT ![active] = t]
    BY <1>4, <2>1 DEF TypeOK
  <2> HIDE DEF m
  <2>5. /\ t \in Tx
        /\ t.snap = m
        /\ t.committed = txs[active].committed
        /\ t.rolledBack = txs[active].rolledBack
        /\ t.base = txs[active].base
    BY <2>1, <2>3, TxTypes DEF Tx
  <2> HIDE DEF t
  <2>6. /\ txs' \in Seq(Tx)
        /\ Len(txs') = Len(txs)
        /\ txs'[active] = t
        /\ \A k \in 1..Len(txs) : k # active => txs'[k] = txs[k]
    BY <2>1, <2>4, <2>5, UpdateType
  <2>7. QED
    BY <2>1, <2>3, <2>5, <2>6
<1>5. QED
  BY <1>1, <1>2, <1>3, <1>4, SnapshotEffect

LEMMA BeginType ==
  ASSUME TypeOK, Begin
  PROVE  /\ txs' \in Seq(Tx)
         /\ Len(txs') = Len(txs) + 1
         /\ \A k \in 1..Len(txs) : txs'[k] = txs[k]
         /\ txs'[Len(txs) + 1] = NewTx
         /\ active' = Len(txs) + 1
         /\ files' = files
         /\ Len(txs) < MaxTx
<1>1. NewTx \in Tx
  BY DEF TypeOK, NewTx, Tx, Snapshots
<1>2. QED
  BY <1>1 DEF TypeOK, Begin

LEMMA NextType == TypeOK /\ [Next]_vars => TypeOK'
<1> SUFFICES ASSUME TypeOK, [Next]_vars PROVE TypeOK'
  OBVIOUS
<1>0. MaxTx \in Nat /\ Len(txs) \in Nat /\ active \in 0..Len(txs) /\ Len(txs) <= MaxTx
  BY ContentsAssumption DEF TypeOK
<1>1. CASE Begin
  BY <1>0, <1>1, BeginType DEF TypeOK
<1>2. ASSUME NEW f \in Files, Edit(f) PROVE TypeOK'
  <2>1. active' = active
    BY <1>2 DEF Edit
  <2>2. QED
    BY <1>0, <1>2, <2>1, EditType DEF TypeOK
<1>3. CASE active # 0 /\ Commit(active)
  <2>1. /\ active \in 1..Len(txs) /\ active' \in {0, active} /\ files' = files
        /\ txs' = [txs EXCEPT ![active].committed = TRUE]
    BY <1>0, <1>3 DEF Commit
  <2>2. txs' \in Seq(Tx) /\ Len(txs') = Len(txs)
    BY <2>1, CommitType
  <2>3. QED
    BY <1>0, <2>1, <2>2 DEF TypeOK
<1>4. CASE CommitActive
  <2>1. /\ active \in 1..Len(txs) /\ active' \in {0, active} /\ files' = files
        /\ txs' = [txs EXCEPT ![active].committed = TRUE]
    BY <1>0, <1>4 DEF CommitActive
  <2>2. txs' \in Seq(Tx) /\ Len(txs') = Len(txs)
    BY <2>1, CommitType
  <2>3. QED
    BY <1>0, <2>1, <2>2 DEF TypeOK
<1>5. CASE RollbackActive
  <2>1. active \in 1..Len(txs) /\ active' = 0
    BY <1>0, <1>5 DEF RollbackActive
  <2>2. CASE txs[active].committed
    BY <1>0, <1>5, <2>1, <2>2 DEF TypeOK, RollbackActive
  <2>3. CASE ~txs[active].committed
    <3>1. Rollback(active)
      BY <1>5, <2>3 DEF RollbackActive
    <3>2. files' \in [Files -> Contents] /\ txs' \in Seq(Tx) /\ Len(txs') = Len(txs)
      BY <2>1, <3>1, RollbackType
    <3>3. QED
      BY <1>0, <2>1, <3>2 DEF TypeOK
  <2>4. QED
    BY <2>2, <2>3
<1>6. ASSUME NEW i \in 1..Len(txs), RollbackTo(i) PROVE TypeOK'
  BY <1>0, <1>6, RollbackType DEF TypeOK, RollbackTo
<1>7. CASE UNCHANGED vars
  BY <1>7 DEF TypeOK, vars
<1>8. QED
  BY <1>1, <1>2, <1>3, <1>4, <1>5, <1>6, <1>7 DEF Next

(* Every variable of the transaction manager has its type, for any number  *)
(* of files, contents and transactions.                                    *)
THEOREM TypeCorrect == Spec => []TypeOK
<1>1. Init => TypeOK
  BY InitType
<1>2. TypeOK /\ [Next]_vars => TypeOK'
  BY NextType
<1>3. QED
  BY <1>1, <1>2, PTL DEF Spec

-----------------------------------------------------------------------------
LEMMA CoverStep ==
  ASSUME ~UndoWhile, TypeOK, SnapshotsCover, [Next]_vars
  PROVE  SnapshotsCover'
<1>0. Len(txs) \in Nat /\ active \in 0..Len(txs)
  BY DEF TypeOK
<1>1. CASE Begin
  <2>1. active' = Len(txs) + 1 /\ txs'[active'] = NewTx /\ files' = files
    BY <1>1, BeginType
  <2>2. \A f \in Files : NewTx.snap[f] = NoSnapshot /\ NewTx.base[f] = files[f]
    BY DEF NewTx
  <2>3. NoSnapshot \notin Contents
    BY ContentsAssumption
  <2>4. QED
    BY <2>1, <2>2, <2>3 DEF SnapshotsCover
<1>2. ASSUME NEW f \in Files, Edit(f) PROVE SnapshotsCover'
  <2>1. active' = active
    BY <1>2 DEF Edit
  <2> SUFFICES ASSUME active # 0, NEW g \in Files
               PROVE /\ txs'[active].snap[g] = NoSnapshot => files'[g] = txs'[active].base[g]
                     /\ txs'[active].snap[g] \in Contents =>
                          txs'[active].snap[g] = Decode(txs'[active].base[g])
    BY <2>1 DEF SnapshotsCover, Decode
  <2>2. active \in 1..Len(txs)
    BY <1>0
  <2>3. txs'[active].base = txs[active].base
    BY <1>2, <2>2, EditType
  <2>4. CASE g # f
    BY <1>2, <2>2, <2>3, <2>4, EditType DEF SnapshotsCover
  <2>5. CASE g = f
    <3>1. CASE txs'[active].snap[f] = txs[active].snap[f] /\ txs[active].snap[f] # NoSnapshot
      BY <2>2, <2>3, <2>5, <3>1 DEF SnapshotsCover
    <3>2. CASE txs[active].snap[f] = NoSnapshot /\ txs'[active].snap[f] \in Captures(f)
      <4>1. files[f] = txs[active].base[f]
        BY <2>2, <3>2 DEF SnapshotsCover
      <4>2. files[f] \in Contents /\ NoSnapshot \notin Contents
               /\ Unreadable \notin Contents /\ NoSnapshot # Unreadable
        BY ContentsAssumption DEF TypeOK
      <4>3. Decode(files[f]) \in Contents
        BY <4>2 DEF Decode, Contents
      <4>4. txs'[active].snap[f] \in {Decode(files[f]), Unreadable}
        BY <3>2 DEF Captures
      <4>5. QED
        BY <2>3, <2>5, <4>1, <4>2, <4>3, <4>4
    <3>3. QED
      BY <1>2, <2>2, <3>1, <3>2, EditType
  <2>6. QED
    BY <2>4, <2>5
<1>3. CASE active # 0 /\ Commit(active)
  <2>1. active' = active /\ files' = files /\ active \in 1..Len(txs)
    BY <1>0, <1>3 DEF Commit
  <2>2. txs'[active].snap = txs[active].snap /\ txs'[active].base = txs[active].base
    BY <1>3, <2>1, CommitType, TxTypes DEF Commit, Tx
  <2>3. QED
    BY <2>1, <2>2 DEF SnapshotsCover, Decode
<1>4. CASE CommitActive
  BY <1>4 DEF CommitActive, SnapshotsCover
<1>5. CASE RollbackActive
  BY <1>5 DEF RollbackActive, SnapshotsCover
<1>6. ASSUME NEW i \in 1..Len(txs), RollbackTo(i) PROVE SnapshotsCover'
  BY <1>6 DEF RollbackTo, SnapshotsCover
<1>7. CASE UNCHANGED vars
  BY <1>7 DEF vars, SnapshotsCover, Decode
<1>8. QED
  BY <1>1, <1>2, <1>3, <1>4, <1>5, <1>6, <1>7 DEF Next

(* As long as nobody calls rollback_to while a transaction is active, the  *)
(* snapshots of the active transaction tell what every file was when it    *)
(* began: for any workspace, any contents and any failures to read.        *)
THEOREM SnapshotsSuffice ==
  ASSUME ~UndoWhile
  PROVE  Spec => []SnapshotsCover
<1>1. Init => SnapshotsCover
  BY DEF Init, SnapshotsCover
<1>2. TypeOK /\ SnapshotsCover /\ [Next]_vars => SnapshotsCover'
  BY CoverStep
<1>3. QED
  BY <1>1, <1>2, TypeCorrect, PTL DEF Spec

-----------------------------------------------------------------------------
(* What the workspace must be like for a rollback to be exact: no file     *)
(* holds bytes that the text round trip changes, and every read succeeds.  *)
Faithful ==
  /\ \A f \in Files : files[f] # Blob
  /\ \A i \in 1..Len(txs), f \in Files :
       txs[i].base[f] # Blob /\ txs[i].snap[f] \notin {Blob, Unreadable}

LEMMA FaithfulInit ==
  ASSUME Blob \notin Initially, Init
  PROVE  Faithful
  BY DEF Init, Faithful

LEMMA RollbackFaithful ==
  ASSUME TypeOK, Faithful, NEW i \in 1..Len(txs), Rollback(i)
  PROVE  Faithful'
<1>1. \A f \in Files : files'[f] # Blob
  <2>1. \A f \in Files : files'[f] \in {files[f], Restored(i)[f]}
    BY DEF Rollback
  <2>2. \A f \in Files : Restored(i)[f] # Blob /\ files[f] # Blob
    BY DEF Restored, Faithful
  <2>3. QED
    BY <2>1, <2>2
<1>2. Len(txs') = Len(txs) /\ \A k \in 1..Len(txs) : k # i => txs'[k] = txs[k]
  BY RollbackType
<1>3. txs'[i].snap = txs[i].snap /\ txs'[i].base = txs[i].base
  BY RollbackType, TxTypes DEF Tx
<1>4. QED
  BY <1>1, <1>2, <1>3 DEF Faithful

LEMMA FaithfulStep ==
  ASSUME Lockable = {}, Blob \notin Texts \cup {Mangled},
         NoSnapshot # Blob, Unreadable # Blob,
         TypeOK, Faithful, [Next]_vars
  PROVE  Faithful'
<1>0. Len(txs) \in Nat /\ active \in 0..Len(txs)
  BY DEF TypeOK
<1>1. CASE Begin
  <2>1. \A f \in Files : NewTx.snap[f] = NoSnapshot /\ NewTx.base[f] = files[f]
    BY DEF NewTx
  <2>2. NoSnapshot \notin {Blob, Unreadable}
    BY ContentsAssumption
  <2>3. QED
    BY <1>0, <1>1, <2>1, <2>2, BeginType DEF Faithful
<1>2. ASSUME NEW f \in Files, Edit(f) PROVE Faithful'
  <2>1. \A g \in Files : files'[g] # Blob
    BY <1>2 DEF Edit, Faithful, TypeOK
  <2>2. \A s \in Captures(f) : s \notin {Blob, Unreadable}
    <3>1. files[f] \in Contents /\ Unreadable \notin Contents /\ files[f] # Blob
      BY ContentsAssumption DEF TypeOK, Faithful
    <3>2. QED
      BY <3>1 DEF Captures, Decode
  <2>3. \A i \in 1..Len(txs), g \in Files : txs'[i].base[g] # Blob
    BY <1>2, EditType DEF Faithful
  <2>4. \A i \in 1..Len(txs), g \in Files :
          i # active \/ g # f => txs'[i].snap[g] \notin {Blob, Unreadable}
    BY <1>2, EditType DEF Faithful
  <2>5. active # 0 => txs'[active].snap[f] \notin {Blob, Unreadable}
    BY <1>0, <1>2, <2>2, EditType DEF Faithful
  <2>6. Len(txs') = Len(txs)
    BY <1>2, EditType
  <2>7. QED
    BY <1>0, <2>1, <2>3, <2>4, <2>5, <2>6 DEF Faithful
<1>3. ASSUME NEW i \in 1..Len(txs), files' = files, txs' = [txs EXCEPT ![i].committed = TRUE]
      PROVE  Faithful'
  <2>1. Len(txs') = Len(txs) /\ \A k \in 1..Len(txs) : k # i => txs'[k] = txs[k]
    BY <1>3, CommitType
  <2>2. txs'[i].snap = txs[i].snap /\ txs'[i].base = txs[i].base
    BY <1>3, CommitType, TxTypes DEF Tx
  <2>3. QED
    BY <1>3, <2>1, <2>2 DEF Faithful
<1>4. CASE active # 0 /\ Commit(active)
  <2>1. active \in 1..Len(txs) /\ files' = files /\ txs' = [txs EXCEPT ![active].committed = TRUE]
    BY <1>0, <1>4 DEF Commit
  <2>2. QED
    BY <1>3, <2>1
<1>5. CASE CommitActive
  <2>1. active \in 1..Len(txs) /\ files' = files /\ txs' = [txs EXCEPT ![active].committed = TRUE]
    BY <1>0, <1>5 DEF CommitActive
  <2>2. QED
    BY <1>3, <2>1
<1>6. CASE RollbackActive
  <2>1. CASE txs[active].committed
    BY <1>6, <2>1 DEF RollbackActive, Faithful
  <2>2. CASE ~txs[active].committed
    BY <1>0, <1>6, <2>2, RollbackFaithful DEF RollbackActive
  <2>3. QED
    BY <2>1, <2>2
<1>7. ASSUME NEW i \in 1..Len(txs), RollbackTo(i) PROVE Faithful'
  BY <1>7, RollbackFaithful DEF RollbackTo
<1>8. CASE UNCHANGED vars
  BY <1>8 DEF vars, Faithful
<1>9. QED
  BY <1>1, <1>2, <1>4, <1>5, <1>6, <1>7, <1>8 DEF Next

(* The step that rolls the active transaction back. *)
LEMMA RestoreStep ==
  ASSUME Lockable = {}, TypeOK, SnapshotsCover, Faithful, [Next]_vars,
         active # 0, active' = 0, txs'[active].rolledBack, ~txs[active].rolledBack
  PROVE  files' = txs[active].base
<1>0. active \in 1..Len(txs) /\ Len(txs) \in Nat
  BY DEF TypeOK
<1>1. CASE Begin
  BY <1>0, <1>1, BeginType
<1>2. ASSUME NEW f \in Files, Edit(f) PROVE FALSE
  BY <1>0, <1>2 DEF Edit
<1>3. CASE active # 0 /\ Commit(active)
  BY <1>0, <1>3 DEF Commit
<1>4. CASE CommitActive
  <2>1. txs'[active] = [txs[active] EXCEPT !.committed = TRUE]
    BY <1>0, <1>4, CommitType DEF CommitActive
  <2>2. txs'[active].rolledBack = txs[active].rolledBack
    BY <1>0, <2>1, TxTypes DEF Tx
  <2>3. QED
    BY <2>2
<1>5. CASE RollbackActive
  <2>1. ~txs[active].committed
    BY <1>5 DEF RollbackActive
  <2>2. files' = Restored(active)
    BY <1>5, <2>1 DEF RollbackActive, Rollback, Restored
  <2>3. \A f \in Files : Restored(active)[f] = txs[active].base[f]
    <3> TAKE f \in Files
    <3>1. CASE txs[active].snap[f] = NoSnapshot
      BY <1>0, <3>1 DEF Restored, SnapshotsCover
    <3>2. CASE txs[active].snap[f] # NoSnapshot
      <4>1. txs[active].snap[f] \in Contents /\ txs[active].snap[f] # Unreadable
        BY <1>0, <3>2, TxTypes DEF Snapshots, Faithful
      <4>2. txs[active].snap[f] = Decode(txs[active].base[f])
        BY <1>0, <4>1 DEF SnapshotsCover
      <4>3. txs[active].base[f] # Blob
        BY <1>0 DEF Faithful
      <4>4. QED
        BY <3>2, <4>1, <4>2, <4>3 DEF Restored, Decode
    <3>3. QED
      BY <3>1, <3>2
  <2>4. txs[active].base \in [Files -> Contents] /\ Restored(active) \in [Files -> Contents]
    BY <1>0, TxTypes, RestoredType
  <2>5. QED
    BY <2>2, <2>3, <2>4
<1>6. ASSUME NEW i \in 1..Len(txs), RollbackTo(i) PROVE FALSE
  BY <1>0, <1>6 DEF RollbackTo
<1>7. CASE UNCHANGED vars
  BY <1>0, <1>7 DEF vars
<1>8. QED
  BY <1>1, <1>2, <1>3, <1>4, <1>5, <1>6, <1>7 DEF Next

(* A rollback of the active transaction restores the workspace, whatever   *)
(* was edited, committed or undone before: for any files and contents that *)
(* survive the text round trip, when every read succeeds and nobody calls  *)
(* rollback_to while a transaction is active.  Each assumption is needed:  *)
(* without it TLC finds a rollback that does not restore.                  *)
THEOREM RollbackIsExact ==
  ASSUME ~UndoWhile, Lockable = {}, Blob \notin Texts \cup Initially \cup {Mangled},
         NoSnapshot # Blob, Unreadable # Blob
  PROVE  Spec => RollbackRestores
<1>1. Init => Faithful
  BY FaithfulInit
<1>2. TypeOK /\ Faithful /\ [Next]_vars => Faithful'
  BY FaithfulStep
<1>3. TypeOK /\ SnapshotsCover /\ Faithful /\ [Next]_vars =>
        [active # 0 /\ active' = 0 /\ txs'[active].rolledBack /\ ~txs[active].rolledBack
           => files' = txs[active].base]_vars
  BY RestoreStep
<1>4. QED
  BY <1>1, <1>2, <1>3, TypeCorrect, SnapshotsSuffice, PTL DEF Spec, RollbackRestores

-----------------------------------------------------------------------------
LEMMA CommitStep ==
  ASSUME TypeOK, [Next]_vars,
         NEW i \in 1..Len(txs), txs[i].committed, ~txs'[i].committed
  PROVE  active' = active /\ txs'[i].rolledBack
<1>0. Len(txs) \in Nat /\ active \in 0..Len(txs)
  BY DEF TypeOK
<1>1. CASE Begin
  BY <1>0, <1>1, BeginType
<1>2. ASSUME NEW f \in Files, Edit(f) PROVE FALSE
  BY <1>2, EditType
<1>3. ASSUME NEW k \in 1..Len(txs), txs' = [txs EXCEPT ![k].committed = TRUE] PROVE FALSE
  <2>1. i # k => txs'[i] = txs[i]
    BY <1>3, CommitType
  <2>2. txs'[k] = [txs[k] EXCEPT !.committed = TRUE]
    BY <1>3, CommitType
  <2>3. txs'[k].committed
    BY <2>2, TxTypes DEF Tx
  <2>4. QED
    BY <2>1, <2>3
<1>4. CASE active # 0 /\ Commit(active)
  BY <1>0, <1>3, <1>4 DEF Commit
<1>5. CASE CommitActive
  BY <1>0, <1>3, <1>5 DEF CommitActive
<1>6. CASE RollbackActive
  <2>1. CASE txs[active].committed
    BY <1>6, <2>1 DEF RollbackActive
  <2>2. CASE ~txs[active].committed
    <3>1. Rollback(active) /\ active \in 1..Len(txs) /\ i # active
      BY <1>0, <1>6, <2>2 DEF RollbackActive
    <3>2. txs'[i] = txs[i]
      BY <3>1, RollbackType
    <3>3. QED
      BY <3>2
  <2>3. QED
    BY <2>1, <2>2
<1>7. ASSUME NEW k \in 1..Len(txs), RollbackTo(k) PROVE active' = active /\ txs'[i].rolledBack
  <2>1. Rollback(k) /\ active' = active
    BY <1>7 DEF RollbackTo
  <2>2. i # k => txs'[i] = txs[i]
    BY <2>1, RollbackType
  <2>3. txs'[k] = [txs[k] EXCEPT !.committed = FALSE, !.rolledBack = TRUE]
    BY <2>1, RollbackType
  <2>4. txs'[k].rolledBack
    BY <2>3, TxTypes DEF Tx
  <2>5. QED
    BY <2>1, <2>2, <2>4
<1>8. CASE UNCHANGED vars
  BY <1>8 DEF vars
<1>9. QED
  BY <1>1, <1>2, <1>4, <1>5, <1>6, <1>7, <1>8 DEF Next

(* Only rollback_to undoes a committed transaction. *)
THEOREM CommitsStick == Spec => CommitSticks
<1>1. TypeOK /\ [Next]_vars =>
        [\A i \in 1..Len(txs) : txs[i].committed /\ ~txs'[i].committed =>
           active' = active /\ txs'[i].rolledBack]_vars
  BY CommitStep
<1>2. QED
  BY <1>1, TypeCorrect, PTL DEF Spec, CommitSticks
===============================================================================
