------------------------ MODULE WorkspaceSyncProofs ------------------------
(***************************************************************************)
(* What download, comparison and staging do to the files of a workspace,   *)
(* for any prefix, ref and tree.                                           *)
(***************************************************************************)
EXTENDS WorkspaceSync, SequenceTheorems, TLAPS

\* An object path under the prefix and its local path determine each other, and
\* the marker's name is the same in both.
LEMMA ObjectOfLocal ==
  ASSUME NEW prefix \in Prefix, NEW p \in Path
  PROVE  /\ ObjectPath(prefix, p) \in Path
         /\ Under(prefix, ObjectPath(prefix, p))
         /\ LocalPath(prefix, ObjectPath(prefix, p)) = p
         /\ MarkerNamed(ObjectPath(prefix, p)) <=> MarkerNamed(p)
<1> DEFINE o == prefix \o p
<1>1. prefix \in Seq(Segments) /\ p \in Seq(Segments) /\ p # <<>>
  BY DEF Prefix, Path
<1>2. Len(p) \in Nat \ {0} /\ Len(prefix) \in Nat
  BY <1>1
<1>3. /\ o \in Seq(Segments)
      /\ Len(o) = Len(prefix) + Len(p)
      /\ \A i \in 1..Len(prefix) : o[i] = prefix[i]
      /\ \A i \in 1..Len(p) : o[Len(prefix) + i] = p[i]
  BY <1>1, <1>2
<1>4. o # <<>> /\ o # prefix
  BY <1>1, <1>2, <1>3
<1>5. SubSeq(o, Len(prefix) + 1, Len(o)) = p
  <2> DEFINE s == SubSeq(o, Len(prefix) + 1, Len(o))
  <2>1. s \in Seq(Segments) /\ Len(s) = Len(p)
    BY <1>2, <1>3, SubSeqProperties
  <2>2. \A i \in 1..Len(p) : s[i] = p[i]
    BY <1>2, <1>3, <2>1, SubSeqProperties
  <2>. QED
    BY <1>1, <2>1, <2>2, SeqEqual
<1>6. SubSeq(prefix, 1, Len(prefix)) = SubSeq(o, 1, Len(prefix))
  <2>1. SubSeq(o, 1, Len(prefix)) \in Seq(Segments) /\ Len(SubSeq(o, 1, Len(prefix))) = Len(prefix)
    BY <1>2, <1>3, SubSeqProperties
  <2>2. SubSeq(prefix, 1, Len(prefix)) = prefix
    BY <1>1, SubSeqFull
  <2>3. \A i \in 1..Len(prefix) : SubSeq(o, 1, Len(prefix))[i] = prefix[i]
    BY <1>2, <1>3, <2>1, SubSeqProperties
  <2>. QED
    BY <1>1, <2>1, <2>2, <2>3, SeqEqual
<1>7. o[Len(o)] = p[Len(p)]
  BY <1>2, <1>3
<1>. QED
  BY <1>1, <1>2, <1>3, <1>4, <1>5, <1>6, <1>7
     DEF ObjectPath, Under, IsStrictPrefix, IsPrefix, LocalPath, MarkerNamed, Path

LEMMA LocalOfObject ==
  ASSUME NEW prefix \in Prefix, NEW o \in Path, Under(prefix, o)
  PROVE  /\ LocalPath(prefix, o) \in Path
         /\ ObjectPath(prefix, LocalPath(prefix, o)) = o
         /\ MarkerNamed(LocalPath(prefix, o)) <=> MarkerNamed(o)
<1> DEFINE n == Len(prefix)
           p == LocalPath(prefix, o)
<1>1. prefix \in Seq(Segments) /\ o \in Seq(Segments) /\ o # prefix
  BY DEF Prefix, Path, Under, IsStrictPrefix
<1>2. n \in Nat /\ Len(o) \in Nat /\ n <= Len(o)
  BY <1>1 DEF Under, IsStrictPrefix, IsPrefix
<1>3. \A i \in 1..n : prefix[i] = o[i]
  <2>1. SubSeq(prefix, 1, n) = prefix
    BY <1>1, SubSeqFull
  <2>2. SubSeq(o, 1, n) = prefix
    BY <2>1 DEF Under, IsStrictPrefix, IsPrefix
  <2>. QED
    BY <1>1, <1>2, <2>2, SubSeqProperties
<1>4. n < Len(o)
  BY <1>1, <1>2, <1>3, SeqEqual
<1>5. /\ p \in Seq(Segments)
      /\ Len(p) = Len(o) - n
      /\ \A i \in 1..(Len(o) - n) : p[i] = o[n + i]
  BY <1>1, <1>2, <1>4, SubSeqProperties DEF LocalPath
<1>6. p # <<>>
  BY <1>2, <1>4, <1>5
<1>7. prefix \o p = o
  <2>1. prefix \o p \in Seq(Segments) /\ Len(prefix \o p) = Len(o)
    BY <1>1, <1>2, <1>4, <1>5
  <2>2. \A i \in 1..Len(o) : (prefix \o p)[i] = o[i]
    <3> TAKE i \in 1..Len(o)
    <3>1. CASE i <= n
      BY <1>1, <1>2, <1>3, <1>5, <3>1
    <3>2. CASE i > n
      <4>1. i - n \in 1..(Len(o) - n)
        BY <1>2, <3>2
      <4>. QED
        BY <1>1, <1>2, <1>5, <3>2, <4>1
    <3>3. i <= n \/ i > n
      BY <1>2
    <3>. QED
      BY <3>1, <3>2, <3>3
  <2>. QED
    BY <1>1, <2>1, <2>2, SeqEqual
<1>8. p[Len(p)] = o[Len(o)]
  BY <1>2, <1>4, <1>5
<1>. QED
  BY <1>5, <1>6, <1>7, <1>8 DEF Path, ObjectPath, MarkerNamed

-----------------------------------------------------------------------------
\* Everything inside the prefix is listed.
LEMMA UnderIsListed ==
  ASSUME NEW prefix, NEW o, Under(prefix, o)
  PROVE  Listed(prefix, o)
BY DEF Under, IsStrictPrefix, Listed

\* The local paths of the objects a ref has for the prefix.
Inside(prefix, c) == {o \in DOMAIN c : Under(prefix, o) /\ ~MarkerNamed(o)}

LEMMA DownloadedPaths ==
  ASSUME NEW prefix, NEW c
  PROVE  DownloadFiles(prefix, c) = {LocalPath(prefix, o) : o \in Inside(prefix, c)}
BY UnderIsListed DEF DownloadFiles, Objects, Visible, Inside

LEMMA ProjectedIs ==
  ASSUME NEW prefix, NEW c
  PROVE  Projected(prefix, c) =
           [p \in DownloadFiles(prefix, c) |-> c[ObjectPath(prefix, p)]]
BY DownloadedPaths DEF Projected, Inside, ObjectPath

LEMMA DownloadedFile ==
  ASSUME NEW prefix \in Prefix, NEW c, IsContent(c), NEW p \in DownloadFiles(prefix, c)
  PROVE  /\ p \in Path
         /\ ~MarkerNamed(p)
         /\ c[ObjectPath(prefix, p)] \in Contents
<1>1. PICK o \in Inside(prefix, c) : p = LocalPath(prefix, o)
  BY DownloadedPaths
<1>2. o \in DOMAIN c /\ o \in Path /\ Under(prefix, o) /\ ~MarkerNamed(o) /\ c[o] \in Contents
  BY <1>1 DEF Inside, IsContent
<1>. QED
  BY <1>1, <1>2, LocalOfObject

LEMMA AncestorsArePaths ==
  ASSUME NEW p \in Path
  PROVE  Ancestors(p) \subseteq Path
<1> SUFFICES ASSUME NEW n \in 1..(Len(p) - 1)
             PROVE  SubSeq(p, 1, n) \in Path
  BY DEF Ancestors
<1>1. p \in Seq(Segments) /\ Len(p) \in Nat
  BY DEF Path
<1>2. SubSeq(p, 1, n) \in Seq(Segments) /\ Len(SubSeq(p, 1, n)) = n
  BY <1>1, SubSeqProperties
<1>. QED
  BY <1>2 DEF Path

LEMMA MarkerIsPath == <<Marker>> \in Path /\ MarkerNamed(<<Marker>>)
BY SyncAssumption DEF Path, MarkerNamed

\* A download gives exactly the files of the ref under the prefix, and no links.
THEOREM DownloadIsProjection ==
  ASSUME NEW prefix \in Prefix, NEW c, IsContent(c)
  PROVE  /\ IsTree(Downloaded(prefix, c))
         /\ Links(Downloaded(prefix, c)) = {}
         /\ Files(Downloaded(prefix, c)) = Projected(prefix, c)
<1> DEFINE files == DownloadFiles(prefix, c)
           dirs == UNION {Ancestors(p) : p \in files}
           t == Downloaded(prefix, c)
<1>1. /\ DOMAIN t = files \cup dirs \cup {<<Marker>>}
      /\ \A p \in files : t[p] = c[ObjectPath(prefix, p)]
      /\ \A p \in dirs \ files : t[p] = Dir
      /\ <<Marker>> \notin files \cup dirs => t[<<Marker>>] = MarkerText
      /\ t = Restrict(t, DOMAIN t)
  BY DEF Downloaded, Restrict
<1>2. \A p \in files : p \in Path /\ ~MarkerNamed(p) /\ t[p] \in Contents
  BY <1>1, DownloadedFile
<1>3. dirs \subseteq Path
  BY <1>2, AncestorsArePaths
<1>4. \A p \in DOMAIN t : p \notin files => t[p] = Dir \/ (t[p] = MarkerText /\ MarkerNamed(p))
  BY <1>1, MarkerIsPath
<1>5. IsTree(t)
  <2>1. DOMAIN t \subseteq Path
    BY <1>1, <1>2, <1>3, MarkerIsPath
  <2>2. \A p \in DOMAIN t : t[p] \in Contents \cup {Dir, Link}
    BY <1>2, <1>4, SyncAssumption
  <2>. QED
    BY <1>1, <2>1, <2>2 DEF IsTree
<1>6. Regular(t) = files
  BY <1>1, <1>2, <1>4, SyncAssumption DEF Regular
<1>7. Links(t) = {}
  BY <1>1, <1>2, <1>4, SyncAssumption DEF Links
<1>8. Files(t) = Projected(prefix, c)
  BY <1>1, <1>6, ProjectedIs DEF Files, Restrict
<1>. QED
  BY <1>5, <1>7, <1>8

-----------------------------------------------------------------------------
\* Snapshots tell exactly the files and the links apart.
LEMMA SnapshotTells ==
  ASSUME NEW t, NEW u, Snapshot(t) = Snapshot(u)
  PROVE  Files(t) = Files(u) /\ Links(t) = Links(u)
<1> DEFINE s == Snapshot(t)
<1>1. /\ s = [p \in Regular(t) \cup Links(t) |-> t[p]]
      /\ s = [p \in Regular(u) \cup Links(u) |-> u[p]]
  BY DEF Snapshot, Restrict
<1>2. Regular(t) = {p \in DOMAIN s : s[p] \in Contents} /\ Links(t) = {p \in DOMAIN s : s[p] = Link}
  BY <1>1, SyncAssumption DEF Regular, Links
<1>3. Regular(u) = {p \in DOMAIN s : s[p] \in Contents} /\ Links(u) = {p \in DOMAIN s : s[p] = Link}
  BY <1>1, SyncAssumption DEF Regular, Links
<1>4. Files(t) = Files(u)
  BY <1>1, <1>2, <1>3 DEF Files, Restrict
<1>. QED
  BY <1>2, <1>3, <1>4

\* Without links the snapshot is the files.
LEMMA SnapshotIsFiles ==
  ASSUME NEW t, Links(t) = {}
  PROVE  Snapshot(t) = Files(t)
BY DEF Snapshot, Files

LEMMA SnapshotIsTree ==
  ASSUME NEW t, IsTree(t)
  PROVE  IsTree(Snapshot(t))
BY DEF IsTree, Snapshot, Restrict, Regular, Links

LEMMA UploadedFile ==
  ASSUME NEW prefix \in Prefix, NEW t, IsTree(t), NEW o \in UploadFiles(prefix, t)
  PROVE  /\ o \in Path
         /\ Under(prefix, o) /\ ~MarkerNamed(o)
         /\ LocalPath(prefix, o) \in Regular(t)
         /\ t[LocalPath(prefix, o)] \in Contents
<1>1. PICK p \in Regular(t) : o = ObjectPath(prefix, p)
  BY DEF UploadFiles
<1>2. p \in Path /\ ~MarkerNamed(p) /\ t[p] \in Contents
  BY DEF Regular, IsTree
<1>. QED
  BY <1>1, <1>2, ObjectOfLocal

\* Staging makes the part of the branch under the prefix equal to the files of the
\* tree, and leaves the rest of it alone.
THEOREM StagingIsExact ==
  ASSUME NEW prefix \in Prefix, NEW c, NEW t, IsContent(c), IsTree(t)
  PROVE  LET deleted == AfterDeletes(prefix, c, t)
             staged == AfterUploads(prefix, deleted, t)
         IN /\ IsContent(deleted)
            /\ IsContent(staged)
            /\ Projected(prefix, staged) = Files(t)
            /\ Outside(prefix, staged) = Outside(prefix, c)
<1> DEFINE deleted == AfterDeletes(prefix, c, t)
           staged == AfterUploads(prefix, deleted, t)
           uploads == UploadFiles(prefix, t)
           stale == DeletePaths(prefix, c, t)
<1>1. deleted = [o \in DOMAIN c \ stale |-> c[o]]
  BY DEF AfterDeletes, Restrict
<1>2. staged = [o \in (DOMAIN c \ stale) \cup uploads |->
                  IF o \in uploads THEN t[LocalPath(prefix, o)] ELSE c[o]]
  BY <1>1 DEF AfterUploads
<1>3. \A o \in DOMAIN c : o \in Path /\ c[o] \in Contents
  BY DEF IsContent
<1>4. IsContent(deleted)
  BY <1>1, <1>3 DEF IsContent, Restrict
<1>5. IsContent(staged)
  <2>1. \A o \in DOMAIN staged : o \in Path /\ staged[o] \in Contents
    BY <1>2, <1>3, UploadedFile
  <2>. QED
    BY <1>2, <2>1 DEF IsContent, Restrict
<1>6. \A o \in DOMAIN c : Under(prefix, o) /\ ~MarkerNamed(o) => o \in stale \cup uploads
  BY UnderIsListed DEF DeletePaths, Objects, Visible
<1>7. Inside(prefix, staged) = uploads
  BY <1>2, <1>6, UploadedFile DEF Inside
<1>8. {LocalPath(prefix, o) : o \in uploads} = Regular(t)
  <2>1. ASSUME NEW p \in Regular(t)
        PROVE  \E o \in uploads : p = LocalPath(prefix, o)
    <3>1. p \in Path
      BY DEF Regular, IsTree
    <3>. QED
      BY <3>1, ObjectOfLocal DEF UploadFiles
  <2>. QED
    BY <2>1, UploadedFile
<1>9. \A p \in Regular(t) : staged[prefix \o p] = t[p]
  <2> TAKE p \in Regular(t)
  <2>1. p \in Path
    BY DEF Regular, IsTree
  <2>2. prefix \o p \in uploads
    BY DEF UploadFiles, ObjectPath
  <2>3. LocalPath(prefix, prefix \o p) = p
    BY <2>1, ObjectOfLocal DEF ObjectPath
  <2>. QED
    BY <1>2, <2>2, <2>3
<1>10. Projected(prefix, staged) = Files(t)
  BY <1>7, <1>8, <1>9 DEF Projected, Inside, Files, Restrict
<1>11. Outside(prefix, staged) = Outside(prefix, c)
  <2> DEFINE Beyond(b) == {o \in DOMAIN b : ~Under(prefix, o) \/ MarkerNamed(o)}
  <2>1. \A o \in stale : Under(prefix, o) /\ ~MarkerNamed(o)
    BY DEF DeletePaths, Visible
  <2>2. \A o \in uploads : Under(prefix, o) /\ ~MarkerNamed(o)
    BY UploadedFile
  <2>3. Beyond(staged) = Beyond(c)
    BY <1>2, <2>1, <2>2
  <2>4. \A o \in Beyond(c) : staged[o] = c[o]
    BY <1>2, <2>1, <2>2
  <2>. QED
    BY <2>3, <2>4 DEF Outside, Restrict
<1>. QED
  BY <1>4, <1>5, <1>10, <1>11

-----------------------------------------------------------------------------
\* The object path of a canonical local path is canonical, unless the prefix is
\* like a drive.
LEMMA CanonicalObject ==
  ASSUME NEW prefix \in Prefix, NEW p \in Path, Canonical(p),
         \A i \in DOMAIN prefix : prefix[i] \notin Forbidden,
         prefix # <<>> => prefix[1] \notin DriveLike
  PROVE  Canonical(ObjectPath(prefix, p))
<1> DEFINE o == prefix \o p
<1>1. prefix \in Seq(Segments) /\ p \in Seq(Segments) /\ p # <<>>
  BY DEF Prefix, Path
<1>2. Len(p) \in Nat \ {0} /\ Len(prefix) \in Nat
  BY <1>1
<1>3. /\ o \in Seq(Segments)
      /\ Len(o) = Len(prefix) + Len(p)
      /\ \A i \in 1..Len(prefix) : o[i] = prefix[i]
      /\ \A i \in 1..Len(p) : o[Len(prefix) + i] = p[i]
  BY <1>1, <1>2
<1>4. \A i \in 1..Len(prefix) : prefix[i] \notin Forbidden
  BY <1>1, LenProperties
<1>5. (\A i \in 1..Len(p) : p[i] \notin Forbidden) /\ p[1] \notin DriveLike
  BY <1>1, LenProperties DEF Canonical
<1>6. ASSUME NEW i \in 1..Len(o)
      PROVE  o[i] \notin Forbidden
  <2>1. CASE i <= Len(prefix)
    BY <1>2, <1>3, <1>4, <2>1
  <2>2. CASE i > Len(prefix)
    <3>1. i - Len(prefix) \in 1..Len(p) /\ Len(prefix) + (i - Len(prefix)) = i
      BY <1>2, <1>3, <2>2
    <3>. QED
      BY <1>3, <1>5, <3>1
  <2>3. i <= Len(prefix) \/ i > Len(prefix)
    BY <1>2
  <2>. QED
    BY <2>1, <2>2, <2>3
<1>7. o[1] \notin DriveLike
  <2>1. CASE prefix = <<>>
    <3>1. Len(prefix) = 0
      BY <2>1
    <3>. QED
      BY <1>2, <1>3, <1>5, <3>1
  <2>2. CASE prefix # <<>>
    <3>1. 1 \in 1..Len(prefix)
      BY <1>1, <1>2, <2>2, EmptySeq
    <3>. QED
      BY <1>3, <2>2, <3>1
  <2>. QED
    BY <2>1, <2>2
<1>8. DOMAIN o = 1..Len(o)
  BY <1>3, LenProperties
<1>. QED
  BY <1>6, <1>7, <1>8 DEF Canonical, ObjectPath

\* A path below a top-level entry begins with it.
LEMMA TopAncestor ==
  ASSUME NEW p \in Path, NEW s, <<s>> \in Ancestors(p)
  PROVE  p[1] = s /\ Len(p) > 1
<1>1. p \in Seq(Segments) /\ Len(p) \in Nat
  BY DEF Path
<1>2. PICK n \in 1..(Len(p) - 1) : <<s>> = SubSeq(p, 1, n)
  BY DEF Ancestors
<1>3. SubSeq(p, 1, n)[1] = p[1]
  BY <1>1, <1>2, SubSeqProperties
<1>. QED
  BY <1>1, <1>2, <1>3

\* What has been staged from a tree can be downloaded again, if the names in the
\* tree are those of paths and the input ref could be downloaded.
THEOREM StagedIsDownloadable ==
  ASSUME NEW prefix \in Prefix, NEW c, NEW t, IsContent(c), IsTree(t), IsClosed(t),
         \A i \in DOMAIN prefix : prefix[i] \notin Forbidden,
         prefix # <<>> => prefix[1] \notin DriveLike,
         \A p \in Regular(t) : Canonical(p) /\ ~(p[1] = Marker /\ Len(p) > 1),
         ~DownloadRaises(prefix, c)
  PROVE  ~DownloadRaises(prefix, AfterUploads(prefix, AfterDeletes(prefix, c, t), t))
<1> DEFINE staged == AfterUploads(prefix, AfterDeletes(prefix, c, t), t)
           uploads == UploadFiles(prefix, t)
<1>1. ASSUME NEW o \in Objects(prefix, staged)
      PROVE  ~Unsafe(prefix, o)
  <2>1. CASE o \in uploads
    <3>1. PICK p \in Regular(t) : o = ObjectPath(prefix, p)
      BY <2>1 DEF UploadFiles
    <3>2. p \in Path /\ Canonical(p)
      BY DEF Regular, IsTree
    <3>3. Canonical(o) /\ LocalPath(prefix, o) = p
      BY <3>1, <3>2, CanonicalObject, ObjectOfLocal
    <3>. QED
      BY <3>2, <3>3 DEF Unsafe
  <2>2. CASE o \notin uploads
    <3>1. o \in Objects(prefix, c)
      BY <2>2 DEF Objects, AfterUploads, AfterDeletes, Restrict
    <3>. QED
      BY <3>1 DEF DownloadRaises
  <2>. QED
    BY <2>1, <2>2
<1>2. DownloadFiles(prefix, staged) = Regular(t)
  <2>1. Projected(prefix, staged) = Files(t)
    BY StagingIsExact
  <2>2. DOMAIN Projected(prefix, staged) = DownloadFiles(prefix, staged)
    BY ProjectedIs
  <2>3. DOMAIN Files(t) = Regular(t)
    BY DEF Files, Restrict
  <2>. QED
    BY <2>1, <2>2, <2>3
<1>3. ASSUME NEW p \in Regular(t), NEW a \in Ancestors(p)
      PROVE  a \notin Regular(t) \cup {<<Marker>>}
  <2>1. p \in DOMAIN t /\ p \in Path
    BY DEF Regular, IsTree
  <2>2. t[a] = Dir
    BY <2>1 DEF IsClosed
  <2>3. a \notin Regular(t)
    BY <2>2, SyncAssumption DEF Regular
  <2>4. a # <<Marker>>
    BY <1>3, <2>1, TopAncestor
  <2>. QED
    BY <2>3, <2>4
<1>. QED
  BY <1>1, <1>2, <1>3 DEF DownloadRaises
=============================================================================
