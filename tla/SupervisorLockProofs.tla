------------------------ MODULE SupervisorLockProofs ------------------------
(***************************************************************************)
(* Proofs about the workspace root lock, for any number of supervisors and *)
(* of kills and for both kinds of file system, under the rule by which a   *)
(* stale lock is safe to remove: one supervisor at a time tries for the    *)
(* lock once somebody may have seen one whose holder is gone.              *)
(***************************************************************************)
EXTENDS SupervisorLock, FiniteSetTheorems, TLAPS

\* Whoever may take a lock for stale contends alone; any number may contend where nobody
\* is killed and the number of a removed lock is not another's later.
OperatingRule == MaxContenders <= 1 \/ (MaxCrashes = 0 /\ "reused" \notin InodeNumbers)

-----------------------------------------------------------------------------
\* The inductive invariant

\* p created the lock file that is in the root and has not removed it.
Has(p) == pc[p] = "write" \/ pc[p] \in Holding

Looking == {"read", "kill", "restat", "unlink"}
Gone == {"released", "crashed"}

\* Once one has departed, nobody meets another contender.
Alone == Departed # {} => MaxContenders <= 1 /\ \A p, q \in Contenders : p = q

\* The file in the root is that of the one who has it, or of one killed since.
FileOfCreator ==
  /\ \A p, q \in Supervisors : Has(p) /\ Has(q) => p = q
  /\ \A p \in Supervisors : Has(p) =>
       /\ file.ino \in Inodes /\ ino[p] = file.ino
       /\ file.pid = IF pc[p] = "write" THEN NoPid ELSE p
  /\ FileExists => \E p \in Supervisors : Has(p) \/ pc[p] = "crashed"
  /\ file.pid # NoPid => Has(file.pid) \/ pc[file.pid] = "crashed"

\* Without reuse, its number tells whose it is.
NumberOfCreator ==
  FileExists =>
    /\ file.ino \in Supervisors /\ (Has(file.ino) \/ pc[file.ino] = "crashed")
    /\ file.pid \in {NoPid, file.ino}

\* Without reuse, the number a contender has seen tells whose lock it was: that of one
\* who has it or is gone, and who is gone when the probe finds the owner dead.
SightedNumber(p) ==
  /\ Has(p) => ino[p] = p
  /\ pc[p] \in Looking =>
       ino[p] \in Supervisors /\ (Has(ino[p]) \/ pc[ino[p]] \in Gone)
  /\ pc[p] \in Looking \ {"read"} =>
       /\ owner[p] \in Supervisors /\ (pc[owner[p]] \in Holding \/ pc[owner[p]] \in Gone)
       /\ owner[p] # ino[p] => pc[ino[p]] \in Gone
  /\ pc[p] \in {"restat", "unlink"} => pc[ino[p]] \in Gone
  /\ pc[p] = "unlink" => FileExists /\ file.ino = ino[p] /\ pc[ino[p]] = "crashed"

\* With reuse the number tells nothing, and the owner is what counts: nobody else gets
\* the lock while p looks at its owner, and nobody has it once that owner is gone.
SightedOwner(p) ==
  /\ pc[p] \in Looking \ {"read"} =>
       /\ owner[p] \in Supervisors /\ (pc[owner[p]] \in Holding \/ pc[owner[p]] \in Gone)
       /\ \A q \in Supervisors : Has(q) => q = owner[p]
  /\ pc[p] \in {"restat", "unlink"} => pc[owner[p]] \in Gone

FileKept ==
  /\ TypeOK
  /\ numbers \in InodeNumbers
  /\ Alone
  /\ FileOfCreator
  /\ RefusedForAnother

NumberInv == numbers = "fresh" /\ FileKept /\ NumberOfCreator /\ \A p \in Supervisors : SightedNumber(p)
OwnerInv == numbers = "reused" /\ FileKept /\ \A p \in Supervisors : SightedOwner(p)
CreatorKeepsFile == NumberInv \/ OwnerInv

-----------------------------------------------------------------------------
LEMMA InvInit == Init => CreatorKeepsFile
<1> SUFFICES ASSUME Init PROVE CreatorKeepsFile
  OBVIOUS
<1>1. TypeOK /\ numbers \in InodeNumbers
  BY LockAssumption DEF Init, TypeOK, NoFile
<1>2. Alone /\ FileOfCreator /\ RefusedForAnother /\ NumberOfCreator
      /\ \A p \in Supervisors : SightedOwner(p) /\ SightedNumber(p)
  BY NoPidAssumption
     DEF Init, Alone, FileOfCreator, NumberOfCreator, SightedOwner, SightedNumber, RefusedForAnother, NoFile,
         FileExists, Has, Holding, Looking, Departed
<1>3. QED BY <1>1, <1>2 DEF CreatorKeepsFile, NumberInv, OwnerInv, FileKept, TypeOK

\* The sets that the rule counts are finite.
LEMMA Counted ==
  \A S \in SUBSET Supervisors : IsFiniteSet(S) /\ Cardinality(S) \in Nat
BY LockAssumption, FS_Subset, FS_CardinalityType

\* A set with at most one element has no two.
LEMMA AtMostOne ==
  ASSUME NEW S \in SUBSET Supervisors, Cardinality(S) <= 1
  PROVE  \A p, q \in S : p = q
<1>1. IsFiniteSet(S) /\ Cardinality(S) \in Nat
  BY Counted
<1>2. CASE Cardinality(S) = 0
  BY <1>1, <1>2, FS_EmptySet
<1>3. CASE Cardinality(S) = 1
  BY <1>1, <1>3, FS_Singleton
<1>4. QED BY <1>1, <1>2, <1>3

\* One that departs in accordance with the rule leaves at most one contender.
LEMMA DepartureKeepsAlone ==
  ASSUME TypeOK, NEW p \in Supervisors, MayDepart(p), MaxContenders <= 1,
         Contenders' \subseteq Contenders \ {p}
  PROVE  Alone'
<1>1. Contenders \ {p} \in SUBSET Supervisors
  BY DEF Contenders
<1>2. Cardinality(Contenders \ {p}) <= 1
  BY <1>1, Counted, LockAssumption DEF MayDepart
<1>3. \A q, r \in Contenders \ {p} : q = r
  BY <1>1, <1>2, AtMostOne
<1>4. QED BY <1>3 DEF Alone

\* The rule: nobody starts or departs beside two contenders.
LEMMA AloneKept ==
  ASSUME OperatingRule, FileKept, [Next]_vars
  PROVE  Alone'
<1> USE DEF FileKept, TypeOK
<1>1. Contenders \in SUBSET Supervisors /\ Crashed \in SUBSET Supervisors
  BY DEF Contenders, Crashed
<1>2. ASSUME NEW p \in Supervisors, Start(p) PROVE Alone'
  <2>1. Departed' = Departed /\ Contenders' \subseteq Contenders \cup {p}
    BY <1>2 DEF Start, Goto, Departed, Contenders, Acquiring
  <2>2. CASE Departed = {}
    BY <2>1, <2>2 DEF Alone
  <2>3. CASE Departed # {}
    <3>1. Cardinality(Contenders) < MaxContenders /\ MaxContenders <= 1
      BY <1>2, <2>3 DEF Start, Alone
    <3>2. Cardinality(Contenders) = 0
      BY <1>1, <3>1, Counted, LockAssumption
    <3>3. Contenders = {}
      BY <1>1, <3>2, Counted, FS_EmptySet
    <3>4. QED BY <2>1, <3>1, <3>3 DEF Alone
  <2>4. QED BY <2>2, <2>3
<1>3. ASSUME NEW p \in Supervisors, Crash(p) PROVE Alone'
  <2>1. Contenders' \subseteq Contenders \ {p} /\ MayDepart(p)
    BY <1>3 DEF Crash, Goto, Contenders, Acquiring
  <2>2. MaxContenders <= 1
    <3>1. Cardinality(Crashed) < MaxCrashes
      BY <1>3 DEF Crash
    <3>2. MaxCrashes # 0
      BY <1>1, <3>1, Counted
    <3>3. QED BY <3>2 DEF OperatingRule
  <2>3. QED BY <2>1, <2>2, DepartureKeepsAlone
<1>4. ASSUME NEW p \in Supervisors, ReleaseUnlink(p) PROVE Alone'
  <2>1. Contenders' \subseteq Contenders \ {p}
    BY <1>4 DEF ReleaseUnlink, Goto, Contenders, Acquiring
  <2>2. CASE numbers = "reused"
    <3>1. MayDepart(p) /\ MaxContenders <= 1
      BY <1>4, <2>2 DEF ReleaseUnlink, OperatingRule
    <3>2. QED BY <2>1, <3>1, DepartureKeepsAlone
  <2>3. CASE numbers = "fresh"
    <3>1. Departed' = Departed
      BY <1>4, <2>3 DEF ReleaseUnlink, Goto, Departed
    <3>2. QED BY <2>1, <3>1 DEF Alone
  <2>4. QED BY <2>2, <2>3
<1>5. ASSUME NEW p \in Supervisors, Step(p), ~ReleaseUnlink(p) PROVE Alone'
  <2>1. /\ pc[p] \notin Gone /\ pc'[p] \notin Gone
        /\ pc[p] \in Acquiring \/ pc'[p] \notin Acquiring
    <3>1. CASE ReleaseRead(p)
      BY <1>5, <3>1, NoPidAssumption
         DEF ReleaseRead, Goto, Acquiring, Gone, FileOfCreator, FileExists, NoFile, Has, Holding
    <3>2. CASE ~ReleaseRead(p)
      BY <1>5, <3>2 DEF Step, Open, Stat, Read, CheckPid, Restat, Unlink, Write, Finish, Goto, Acquiring, Gone
    <3>3. QED BY <3>1, <3>2
  <2>2. numbers' = numbers /\ \A q \in Supervisors : q # p => pc'[q] = pc[q]
    BY <1>5 DEF Step, Open, Stat, Read, CheckPid, Restat, Unlink, Write, Finish, ReleaseRead, Goto
  <2>3. Departed' = Departed /\ Contenders' \subseteq Contenders
    BY <2>1, <2>2 DEF Departed, Contenders, Gone
  <2>4. QED BY <2>3 DEF Alone
<1>6. CASE AllEnded \/ UNCHANGED vars
  BY <1>6 DEF AllEnded, vars, Alone, Departed, Contenders
<1>7. QED BY <1>2, <1>3, <1>4, <1>5, <1>6 DEF Next

\* Without reuse: a lock is removed by its holder, or by the only contender when its
\* creator was killed.
LEMMA NumberInvNext ==
  ASSUME OperatingRule, NumberInv, [Next]_vars
  PROVE  NumberInv'
<1> USE NoPidAssumption
    DEF NumberInv, FileKept, TypeOK, FileOfCreator, NumberOfCreator, SightedNumber, Inodes, NoInode, NoFile, FileExists, Has,
        Holding, Acquiring, Ended, Looking, Gone, RefusedForAnother, Goto
<1>0. Alone'
  BY AloneKept
<1>1. CASE \E p \in Supervisors : Start(p)
  BY <1>0, <1>1 DEF Start
<1>2. CASE \E p \in Supervisors : Open(p)
  BY <1>0, <1>2 DEF Open, FreeInodes, Alone, Contenders, Departed
<1>3. CASE \E p \in Supervisors : Stat(p)
  BY <1>0, <1>3 DEF Stat
<1>4. CASE \E p \in Supervisors : Read(p)
  BY <1>0, <1>4 DEF Read
<1>5. CASE \E p \in Supervisors : CheckPid(p)
  BY <1>0, <1>5 DEF CheckPid, Alive
<1>6. CASE \E p \in Supervisors : Restat(p)
  BY <1>0, <1>6 DEF Restat
<1>7. CASE \E p \in Supervisors : Unlink(p)
  BY <1>0, <1>7 DEF Unlink, Alone, Contenders, Departed
<1>8. CASE \E p \in Supervisors : Write(p)
  BY <1>0, <1>8 DEF Write
<1>9. CASE \E p \in Supervisors : Finish(p) \/ ReleaseRead(p)
  BY <1>0, <1>9 DEF Finish, ReleaseRead
<1>10. CASE \E p \in Supervisors : ReleaseUnlink(p)
  BY <1>0, <1>10 DEF ReleaseUnlink
<1>11. CASE \E p \in Supervisors : Crash(p)
  BY <1>0, <1>11 DEF Crash, Alive
<1>12. CASE AllEnded \/ UNCHANGED vars
  BY <1>0, <1>12 DEF AllEnded, vars
<1> QED
  BY <1>1, <1>2, <1>3, <1>4, <1>5, <1>6, <1>7, <1>8, <1>9, <1>10, <1>11, <1>12 DEF Next, Step

\* With reuse: a contender removes a lock when nobody has one and no other contends.
LEMMA OwnerInvNext ==
  ASSUME OperatingRule, OwnerInv, [Next]_vars
  PROVE  OwnerInv'
<1> USE NoPidAssumption
    DEF OwnerInv, FileKept, TypeOK, FileOfCreator, SightedOwner, Inodes, NoInode, NoFile, FileExists, Has,
        Holding, Acquiring, Ended, Looking, Gone, RefusedForAnother, Goto
<1>0. Alone'
  BY AloneKept
<1>1. CASE \E p \in Supervisors : Start(p)
  BY <1>0, <1>1 DEF Start
<1>2. CASE \E p \in Supervisors : Open(p)
  BY <1>0, <1>2 DEF Open, FreeInodes, Alone, Contenders, Departed
<1>3. CASE \E p \in Supervisors : Stat(p)
  BY <1>0, <1>3 DEF Stat
<1>4. CASE \E p \in Supervisors : Read(p)
  BY <1>0, <1>4 DEF Read
<1>5. CASE \E p \in Supervisors : CheckPid(p)
  BY <1>0, <1>5 DEF CheckPid, Alive
<1>6. CASE \E p \in Supervisors : Restat(p)
  BY <1>0, <1>6 DEF Restat
<1>7. CASE \E p \in Supervisors : Unlink(p)
  BY <1>0, <1>7 DEF Unlink, Alone, Contenders, Departed
<1>8. CASE \E p \in Supervisors : Write(p)
  BY <1>0, <1>8 DEF Write
<1>9. CASE \E p \in Supervisors : Finish(p) \/ ReleaseRead(p)
  BY <1>0, <1>9 DEF Finish, ReleaseRead
<1>10. CASE \E p \in Supervisors : ReleaseUnlink(p)
  BY <1>0, <1>10 DEF ReleaseUnlink
<1>11. CASE \E p \in Supervisors : Crash(p)
  BY <1>0, <1>11 DEF Crash, Alive
<1>12. CASE AllEnded \/ UNCHANGED vars
  BY <1>0, <1>12 DEF AllEnded, vars
<1> QED
  BY <1>1, <1>2, <1>3, <1>4, <1>5, <1>6, <1>7, <1>8, <1>9, <1>10, <1>11, <1>12 DEF Next, Step

LEMMA InvNext ==
  ASSUME OperatingRule, CreatorKeepsFile, [Next]_vars
  PROVE  CreatorKeepsFile'
BY NumberInvNext, OwnerInvNext DEF CreatorKeepsFile

-----------------------------------------------------------------------------
\* The theorems

\* The strengthening from which the properties below follow.
THEOREM CreatorKeepsFileHolds ==
  ASSUME OperatingRule PROVE Spec => []CreatorKeepsFile
<1>1. CreatorKeepsFile /\ [Next]_vars => CreatorKeepsFile'
  BY InvNext
<1> QED
  BY <1>1, InvInit, PTL DEF Spec

\* The types of the variables.
THEOREM LockTypeCorrect ==
  ASSUME OperatingRule PROVE Spec => []TypeOK
<1>1. CreatorKeepsFile => TypeOK
  BY DEF CreatorKeepsFile, NumberInv, OwnerInv, FileKept
<1> QED
  BY <1>1, CreatorKeepsFileHolds, PTL

\* Nobody removes the lock under its holder, also not while a stale lock is in the way.
THEOREM HolderKeepsLock ==
  ASSUME OperatingRule PROVE Spec => []HolderOwnsLock
<1>1. CreatorKeepsFile => HolderOwnsLock
  BY DEF CreatorKeepsFile, NumberInv, OwnerInv, FileKept, FileOfCreator, HolderOwnsLock, Has, Holding
<1> QED
  BY <1>1, CreatorKeepsFileHolds, PTL

\* At most one supervisor runs in a workspace root, whoever has been killed before.
THEOREM MutualExclusion ==
  ASSUME OperatingRule PROVE Spec => []OneSupervisor
<1>1. CreatorKeepsFile => OneSupervisor
  BY DEF CreatorKeepsFile, NumberInv, OwnerInv, FileKept, FileOfCreator, OneSupervisor, Has, Holding
<1> QED
  BY <1>1, CreatorKeepsFileHolds, PTL

\* A supervisor is turned away for another one only: those that start together do not
\* all turn each other away.
THEOREM SomebodyGetsLock ==
  ASSUME OperatingRule PROVE Spec => []RefusedForAnother
<1>1. CreatorKeepsFile => RefusedForAnother
  BY DEF CreatorKeepsFile, NumberInv, OwnerInv, FileKept
<1> QED
  BY <1>1, CreatorKeepsFileHolds, PTL
=============================================================================
