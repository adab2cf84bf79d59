------------------------ MODULE RuntimeStatusProofs ------------------------
(***************************************************************************)
(* What holds of RuntimeStatus for any number of forwarders, of goroutines *)
(* that change them, of changes and of processes.                          *)
(***************************************************************************)
EXTENDS RuntimeStatus, TLAPS

USE RuntimeStatusAssumption

\* Every variable keeps its type.
LEMMA StatusTypeStep ==
    ASSUME StatusTypeOK, [StatusNext]_statusVars
    PROVE  StatusTypeOK'
  <1> USE DEF StatusTypeOK, proc, WriterGoto
  <1>a. 1 \in Fwdrs /\ Fwdrs \subseteq 0..N /\ 0 \in 0..N
    BY DEF Fwdrs
  <1>b. None \in [Fwdrs -> Nat]
    BY DEF None
  <1>c. \A l \in {"swap", "tick", "snap", "write", "remove", "rename", "redirty"} :
            l \in WriterPC
    BY DEF WriterPC
  <1>1. ASSUME NEW m \in Mutators, MarkDirty(m)
        PROVE  StatusTypeOK'
    BY <1>1, <1>a DEF MarkDirty
  <1>2. ASSUME NEW m \in Mutators, NEW f \in Fwdrs, Change(m, f)
        PROVE  StatusTypeOK'
    <2>1. f \in 0..N
      BY <1>a
    <2>2. pending' \in [Mutators -> 0..N]
      BY <1>2, <2>1 DEF Change
    <2>3. ver' \in [Fwdrs -> Nat]
      BY <1>2 DEF Change
    <2>4. QED
      BY <1>2, <2>2, <2>3 DEF Change
  <1>3. CASE SwapDirty
    BY <1>3, <1>a, <1>c DEF SwapDirty
  <1>4. CASE Snapshot
    <2>1. at' \in Fwdrs
      BY <1>4 DEF Snapshot, Read, NextAt, Fwdrs
    <2>2. snap' \in [Fwdrs -> Nat]
      BY <1>4 DEF Snapshot, Read
    <2>3. QED
      BY <1>4, <1>c, <2>1, <2>2 DEF Snapshot, Read
  <1>5. CASE WriteOk
    BY <1>5, <1>c DEF WriteOk
  <1>6. CASE RemoveOk
    BY <1>6, <1>b, <1>c DEF RemoveOk, Absent
  <1>7. CASE RenameErr \/ WriteErr \/ Tick
    BY <1>7, <1>c DEF RenameErr, WriteErr, Tick
  <1>8. CASE Redirty
    BY <1>8, <1>c DEF Redirty, AfterError
  <1>9. CASE Die
    BY <1>9 DEF Die
  <1>10. CASE Launch
    BY <1>10, <1>a, <1>b, <1>c DEF Launch, FilesAtLaunch, Absent
  <1>11. CASE UNCHANGED statusVars
    BY <1>11 DEF statusVars
  <1>12. QED
    BY <1>1, <1>2, <1>3, <1>4, <1>5, <1>6, <1>7, <1>8, <1>9, <1>10, <1>11
       DEF StatusNext, MutatorStep, WriterStep

\* Type correctness.
THEOREM StatusTypeCorrect == StatusSpec => []StatusTypeOK
  <1>1. StatusInit => StatusTypeOK
    <2>1. 1 \in Fwdrs /\ 0 \in 0..N /\ "swap" \in WriterPC
      BY DEF Fwdrs, WriterPC
    <2>2. None \in [Fwdrs -> Nat]
      BY DEF None
    <2>3. Absent \in [run : Nat, ver : [Fwdrs -> Nat]]
      BY <2>2 DEF Absent
    <2>4. [m \in Mutators |-> 0] \in [Mutators -> 0..N]
      BY <2>1
    <2>5. StatusInit => run \in Nat
      BY DEF StatusInit
    <2>6. StatusInit => up \in BOOLEAN /\ dirty \in BOOLEAN
      BY Zenon DEF StatusInit
    <2>7. StatusInit => /\ ver \in [Fwdrs -> Nat] /\ snap \in [Fwdrs -> Nat]
                  /\ file \in [run : Nat, ver : [Fwdrs -> Nat]]
                  /\ wpc \in WriterPC /\ at \in Fwdrs
      BY <2>1, <2>2, <2>3, Zenon DEF StatusInit
    <2>8. StatusInit => pending \in [Mutators -> 0..N]
      BY <2>4, Zenon DEF StatusInit
    <2>9. QED
      BY <2>5, <2>6, <2>7, <2>8 DEF StatusTypeOK
  <1>2. QED
    BY <1>1, StatusTypeStep, PTL DEF StatusSpec

\* The file stays behind the snapshot and the snapshot behind the forwarders.
LEMMA OrderStep ==
    ASSUME StatusTypeOK, InOrder, [StatusNext]_statusVars
    PROVE  InOrder'
  <1> USE DEF StatusTypeOK, InOrder, proc
  <1>1. ASSUME NEW m \in Mutators, MutatorStep(m)
        PROVE  InOrder'
    BY <1>1 DEF MutatorStep, MarkDirty, Change
  <1>2. CASE SwapDirty \/ RenameErr \/ WriteErr \/ Tick \/ Redirty \/ Die
    BY <1>2 DEF SwapDirty, RenameErr, WriteErr, Tick, Redirty, Die
  <1>3. CASE Snapshot
    BY <1>3 DEF Snapshot, Read
  <1>4. CASE WriteOk
    BY <1>4 DEF WriteOk
  <1>5. CASE RemoveOk
    BY <1>5 DEF RemoveOk, Absent, None
  <1>6. CASE Launch
    BY <1>6 DEF Launch, FilesAtLaunch, Absent, None
  <1>7. CASE UNCHANGED statusVars
    BY <1>7 DEF statusVars
  <1>8. QED
    BY <1>1, <1>2, <1>3, <1>4, <1>5, <1>6, <1>7 DEF StatusNext, WriterStep

\* The order of file, snapshot and forwarders holds throughout.
LEMMA OrderHolds == StatusSpec => []InOrder
  <1>1. StatusInit => InOrder
    BY DEF StatusInit, InOrder, None, Absent
  <1>2. QED
    BY <1>1, OrderStep, StatusTypeCorrect, PTL DEF StatusSpec

\* No write takes the file back to an older state of the same process.
THEOREM NeverBackwardsHolds == StatusSpec => NeverBackwards
  <1>1. StatusTypeOK /\ InOrder /\ [StatusNext]_statusVars
          => [file.run = file'.run => \A f \in Fwdrs : file'.ver[f] >= file.ver[f]]_statusVars
    <2> SUFFICES ASSUME StatusTypeOK, InOrder, StatusNext, file.run = file'.run,
                        NEW f \in Fwdrs
                 PROVE  file'.ver[f] >= file.ver[f]
      BY DEF StatusTypeOK, statusVars
    <2> USE DEF StatusTypeOK, InOrder
    <2>1. CASE WriteOk
      BY <2>1 DEF WriteOk
    <2>2. CASE RemoveOk
      BY <2>2 DEF RemoveOk, Absent, None, proc
    <2>3. CASE Launch
      BY <2>3 DEF Launch, FilesAtLaunch, Absent, None
    <2>4. CASE file' = file
      BY <2>4
    <2>5. QED
      BY <2>1, <2>2, <2>3, <2>4
         DEF StatusNext, MutatorStep, MarkDirty, Change, WriterStep, SwapDirty,
             Snapshot, Read, RenameErr, WriteErr, Redirty, Tick, Die
  <1>2. QED
    BY <1>1, StatusTypeCorrect, OrderHolds, PTL DEF StatusSpec, NeverBackwards

\* What NothingLost says of one forwarder.
Kept(f) ==
    \/ InFile(f)
    \/ dirty
    \/ \E m \in Mutators : pending[m] = f
    \/ Underway(f)
    \/ wpc = "redirty"

\* The file is behind the snapshot and the snapshot behind the forwarder, so
\* a version that is in the file is in the snapshot too.
LEMMA InFileInSnapshot ==
    ASSUME StatusTypeOK, InOrder, NEW f \in Fwdrs, InFile(f)
    PROVE  snap[f] = ver[f]
  <1>1. snap[f] \in Nat /\ ver[f] \in Nat /\ file.ver[f] \in Nat
    BY DEF StatusTypeOK
  <1>2. file.ver[f] = ver[f] /\ file.ver[f] <= snap[f] /\ snap[f] <= ver[f]
    BY DEF InOrder, InFile
  <1>3. QED
    BY <1>1, <1>2

\* A step of the writer loses nothing.
LEMMA WriterKeeps ==
    ASSUME StatusTypeOK, InOrder, NEW f \in Fwdrs, Kept(f), WriterStep
    PROVE  Kept(f)'
  <1> USE DEF WriterGoto, proc
  <1>1. CASE SwapDirty
    <2>1. 1 <= f
      BY DEF Fwdrs
    <2>2. QED
      BY <1>1, <2>1 DEF SwapDirty, Kept, InFile, Underway
  <1>2. CASE Snapshot
    <2>1. f \in 1..N /\ at \in 1..N
      BY DEF StatusTypeOK, Fwdrs
    <2>2. snap' = [snap EXCEPT ![at] = ver[at]] /\ snap \in [Fwdrs -> Nat]
      BY <1>2 DEF Snapshot, Read, StatusTypeOK
    <2>3. UNCHANGED <<run, ver, dirty, pending, file>> /\ wpc = "snap"
      BY <1>2 DEF Snapshot, Read
    <2>4. CASE InFile(f) \/ dirty \/ \E m \in Mutators : pending[m] = f
      BY <2>3, <2>4 DEF Kept, InFile
    <2>5. CASE Underway(f)
      <3>1. at <= f \/ snap[f] = ver[f]
        BY <2>3, <2>5 DEF Underway
      <3>2. f = at => snap'[f] = ver'[f]
        BY <2>2, <2>3
      <3>3. f # at => snap'[f] = snap[f]
        BY <2>2
      <3>4. CASE at = N
        <4>1. wpc' = "write"
          BY <1>2, <3>4 DEF Snapshot, Read
        <4>2. snap'[f] = ver'[f]
          BY <2>1, <2>3, <3>1, <3>2, <3>3, <3>4
        <4>3. QED
          BY <4>1, <4>2 DEF Kept, Underway
      <3>5. CASE at # N
        <4>1. wpc' = "snap" /\ at' = at + 1
          BY <1>2, <3>5 DEF Snapshot, Read, NextAt
        <4>2. at' <= f \/ (at' > f /\ snap'[f] = ver'[f])
          BY <2>1, <2>3, <3>1, <3>2, <3>3, <4>1
        <4>3. QED
          BY <4>1, <4>2 DEF Kept, Underway
      <3>6. QED
        BY <3>4, <3>5
    <2>6. QED
      BY <2>3, <2>4, <2>5 DEF Kept
  <1>3. CASE WriteOk
    <2>1. InFile(f) \/ Underway(f) => snap[f] = ver[f]
      BY <1>3, InFileInSnapshot DEF Underway, WriteOk
    <2>2. QED
      BY <1>3, <2>1 DEF WriteOk, Kept, InFile
  <1>4. CASE RemoveOk
    <2>1. InFile(f) \/ Underway(f) => snap[f] = ver[f]
      BY <1>4, InFileInSnapshot DEF Underway, RemoveOk
    <2>2. QED
      BY <1>4, <2>1 DEF RemoveOk, Kept, Underway
  <1>5. CASE WriteErr
    BY <1>5 DEF WriteErr, Kept
  <1>6. CASE RenameErr
    BY <1>6 DEF RenameErr, Kept, InFile, Underway
  <1>7. CASE Redirty
    BY <1>7 DEF Redirty, AfterError, Kept
  <1>8. CASE Tick
    BY <1>8 DEF Tick, Kept, InFile, Underway
  <1>9. QED
    BY <1>1, <1>2, <1>3, <1>4, <1>5, <1>6, <1>7, <1>8 DEF WriterStep

\* No change of a forwarder is lost between the flag, the snapshot and the
\* file.
THEOREM NothingLostHolds == StatusSpec => []NothingLost
  <1>1. StatusInit => NothingLost
    BY DEF StatusInit, NothingLost
  <1>2. StatusTypeOK /\ InOrder /\ NothingLost /\ [StatusNext]_statusVars => NothingLost'
    <2> SUFFICES ASSUME StatusTypeOK, InOrder, NothingLost, [StatusNext]_statusVars,
                        up', NEW f \in Fwdrs
                 PROVE  Kept(f)'
      BY DEF NothingLost, Kept
    <2>1. up => Kept(f)
      BY DEF NothingLost, Kept
    <2>2. ASSUME NEW m \in Mutators, MarkDirty(m)
          PROVE  Kept(f)'
      BY <2>2 DEF MarkDirty, Kept
    <2>3. ASSUME NEW m \in Mutators, NEW g \in Fwdrs, Change(m, g)
          PROVE  Kept(f)'
      <3>1. CASE f = g
        <4>1. pending'[m] = f
          BY <2>3, <3>1 DEF Change, StatusTypeOK
        <4>2. QED
          BY <4>1 DEF Kept
      <3>2. CASE f # g
        <4>1. ver'[f] = ver[f]
          BY <2>3, <3>2 DEF Change, StatusTypeOK
        <4>2. \A n \in Mutators : pending[n] = f => pending'[n] = f
          <5>1. pending[m] # f
            BY <2>3 DEF Change, Fwdrs
          <5>2. QED
            BY <2>3, <5>1 DEF Change, StatusTypeOK
        <4>3. Kept(f) /\ UNCHANGED <<run, dirty, wpc, at, snap, file>>
          BY <2>1, <2>3 DEF Change, proc
        <4>4. QED
          BY <4>1, <4>2, <4>3 DEF Kept, InFile, Underway
      <3>3. QED
        BY <3>1, <3>2
    <2>4. CASE WriterStep
      <3>1. up
        BY <2>4 DEF WriterStep, SwapDirty, Snapshot, WriteOk, RenameErr,
                    RemoveOk, WriteErr, Redirty, Tick
      <3>2. QED
        BY <2>1, <2>4, <3>1, WriterKeeps
    <2>5. CASE Die
      BY <2>5 DEF Die
    <2>6. CASE Launch
      BY <2>6 DEF Launch, Kept
    <2>7. CASE UNCHANGED statusVars
      BY <2>1, <2>7 DEF statusVars, Kept, InFile, Underway
    <2>8. QED
      BY <2>2, <2>3, <2>4, <2>5, <2>6, <2>7 DEF StatusNext, MutatorStep
  <1>3. QED
    BY <1>1, <1>2, StatusTypeCorrect, OrderHolds, PTL DEF StatusSpec

=============================================================================
