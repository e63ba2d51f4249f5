--------------------------- MODULE WorkspaceSync ---------------------------
(***************************************************************************)
(* How objects of a LakeFS ref and files of an attempt workspace           *)
(* correspond (workspace/paths.py, workspace/sync.py), what is downloaded, *)
(* compared, deleted and uploaded (lakefs_runtime.py, execution.py), and   *)
(* the guardrails (guards.py).                                             *)
(*                                                                         *)
(* A path is the sequence of its segments.  A ref or branch is a function  *)
(* from object paths to contents, a local tree one from local paths to     *)
(* entries.  Downloads and uploads copy whole contents.                    *)
(***************************************************************************)
EXTENDS SequencesExt

CONSTANTS
  Segments,    \* path segments
  Marker,      \* the segment ATTEMPT_WORKSPACE_MARKER
  Forbidden,   \* segments no path string may have: "", ".", "..", any with a "\"
  DriveLike,   \* segments no path string may begin with: "C:" and the like
  Extends,     \* pairs of segments <<s, t>>, t a longer string beginning with s
  Contents,    \* contents of files and objects
  MarkerText,  \* what prepare_attempt_workspace writes into the marker
  Dir,         \* the entry of a directory in a local tree
  Link         \* the entry of a symbolic link (to some file)

ASSUME SyncAssumption ==
  /\ Marker \in Segments \ (Forbidden \cup DriveLike)
  /\ MarkerText \in Contents
  /\ Dir \notin Contents /\ Link \notin Contents /\ Dir # Link

Path == Seq(Segments) \ {<<>>}
Prefix == Seq(Segments)   \* <<>> is WorkspaceSpec(prefix="/")

IsContent(c) == c = Restrict(c, DOMAIN c) /\ DOMAIN c \subseteq Path /\ \A o \in DOMAIN c : c[o] \in Contents
IsTree(t) ==
  /\ t = Restrict(t, DOMAIN t)
  /\ DOMAIN t \subseteq Path
  /\ \A p \in DOMAIN t : t[p] \in Contents \cup {Dir, Link}

-----------------------------------------------------------------------------
\* Paths

\* _canonical_workspace_path accepts the path given as a string.
Canonical(p) == (\A i \in DOMAIN p : p[i] \notin Forbidden) /\ p[1] \notin DriveLike

MarkerNamed(p) == p[Len(p)] = Marker

\* The object is in the workspace: its string begins with the prefix and a "/".
Under(prefix, o) == IsStrictPrefix(prefix, o)

\* workspace_object_path.  A path found by a scan is a PurePath, whose parts are
\* not looked at for "\" or a drive: nothing is rejected.
ObjectPath(prefix, p) == prefix \o p

\* workspace_local_path: what it returns, when it returns None, when it raises.
LocalPath(prefix, o) == SubSeq(o, Len(prefix) + 1, Len(o))
Visible(prefix, o) == Under(prefix, o) /\ ~MarkerNamed(o)
Unsafe(prefix, o) ==
  \/ ~Canonical(o)
  \/ Under(prefix, o) /\ ~Canonical(LocalPath(prefix, o))

\* LakeFS lists by string prefix, without a separator: p and pq/x for the prefix p.
Listed(prefix, o) ==
  \/ IsPrefix(prefix, o)
  \/ /\ prefix # <<>>
     /\ \E s \in Segments : /\ <<Last(prefix), s>> \in Extends
                            /\ IsPrefix(Append(Front(prefix), s), o)

Objects(prefix, c) == {o \in DOMAIN c : Listed(prefix, o)}

-----------------------------------------------------------------------------
\* Download

Ancestors(p) == {SubSeq(p, 1, n) : n \in 1..(Len(p) - 1)}

\* Entries of a file system: what has an entry below it is a directory.
IsClosed(t) == \A p \in DOMAIN t : \A a \in Ancestors(p) : a \in DOMAIN t /\ t[a] = Dir

\* Mutant: the listing does not descend into directories.
DownloadTopFiles(prefix, c) ==
  {LocalPath(prefix, o) : o \in {o \in Objects(prefix, c) : Visible(prefix, o) /\ Len(o) = Len(prefix) + 1}}

\* workspace_download_files: the local files.
DownloadFiles(prefix, c) == {LocalPath(prefix, o) : o \in {o \in Objects(prefix, c) : Visible(prefix, o)}}

\* download_workspace raises: on a path it cannot map, or where a file would have
\* to be a directory too.
DownloadRaises(prefix, c) ==
  \/ \E o \in Objects(prefix, c) : Unsafe(prefix, o)
  \/ \E p \in DownloadFiles(prefix, c) :
       Ancestors(p) \cap (DownloadFiles(prefix, c) \cup {<<Marker>>}) # {}

\* prepare_attempt_workspace: a new directory with the marker in it.
Prepared == [p \in {<<Marker>>} |-> MarkerText]

\* The tree download_workspace leaves behind.
Downloaded(prefix, c) ==
  LET files == DownloadFiles(prefix, c)
      dirs == UNION {Ancestors(p) : p \in files}
  IN [p \in files \cup dirs \cup {<<Marker>>} |->
        IF p \in files THEN c[ObjectPath(prefix, p)]
        ELSE IF p \in dirs THEN Dir ELSE MarkerText]

-----------------------------------------------------------------------------
\* Comparison and staging

Regular(t) == {p \in DOMAIN t : t[p] \in Contents /\ ~MarkerNamed(p)}
Links(t) == {p \in DOMAIN t : t[p] = Link /\ ~MarkerNamed(p)}

\* The files a tree consists of, as far as publication is concerned.
Files(t) == Restrict(t, Regular(t))

\* Mutant: the marker counts as a file.
SnapshotWithMarker(t) == Restrict(t, {p \in DOMAIN t : t[p] # Dir})

\* _snapshot_workspace: directories do not appear in it.
Snapshot(t) == Restrict(t, Regular(t) \cup Links(t))

\* workspace_upload_files
UploadFiles(prefix, t) == {ObjectPath(prefix, p) : p \in Regular(t)}

\* Mutant: everything that was listed and is not uploaded.
DeleteListedPaths(prefix, c, t) == Objects(prefix, c) \ UploadFiles(prefix, t)

\* workspace_delete_object_paths
DeletePaths(prefix, c, t) ==
  {o \in Objects(prefix, c) : o \notin UploadFiles(prefix, t) /\ Visible(prefix, o)}

\* Mutant: skips links.
PlanSkipsLinks(prefix, c, t) ==
  \E o \in Objects(prefix, c) : o \notin UploadFiles(prefix, t) /\ Unsafe(prefix, o)

\* build_workspace_sync_plan raises.
PlanRaises(prefix, c, t) ==
  \/ Links(t) # {}
  \/ \E o \in Objects(prefix, c) : o \notin UploadFiles(prefix, t) /\ Unsafe(prefix, o)

\* Mutant: nothing is deleted.
AfterNoDeletes(prefix, c, t) == c

\* The two loops of stage_workspace.
AfterDeletes(prefix, c, t) == Restrict(c, DOMAIN c \ DeletePaths(prefix, c, t))
AfterUploads(prefix, c, t) ==
  [o \in DOMAIN c \cup UploadFiles(prefix, t) |->
     IF o \in UploadFiles(prefix, t) THEN t[LocalPath(prefix, o)] ELSE c[o]]

-----------------------------------------------------------------------------
\* Guardrails

\* A guardrail: paths holds its one path, or every path its glob pattern matches.
NoLimit == -1
Guardrail(kind, paths, min, max) == [kind |-> kind, paths |-> paths, min |-> min, max |-> max]
RequireFile(p) == Guardrail("require_file", {p}, NoLimit, NoLimit)
RequireDir(p) == Guardrail("require_dir", {p}, NoLimit, NoLimit)
RequireGlob(paths, min, max) == Guardrail("require_glob", paths, min, max)
ForbidGlob(paths) == Guardrail("forbid_glob", paths, NoLimit, NoLimit)

\* validate_count_bounds, and the path rules for guardrails, which are strings.
ValidGuardrail(g) ==
  /\ g.kind \in {"require_file", "require_dir", "require_glob", "forbid_glob"}
  /\ g.kind \in {"require_file", "require_dir"} =>
       /\ \E p \in g.paths : g.paths = {p} /\ Canonical(p)
       /\ g.min = NoLimit /\ g.max = NoLimit
  /\ g.kind = "require_glob" => g.min # NoLimit
  /\ g.min # NoLimit /\ g.max # NoLimit => g.min <= g.max

\* check_guardrails, for one guardrail.  Globs count directories and the marker too,
\* and is_file follows links.
Holds(g, t) ==
  LET matches == DOMAIN t \cap g.paths
  IN CASE g.kind = "require_file" -> \E p \in matches : t[p] # Dir
       [] g.kind = "require_dir"  -> \E p \in matches : t[p] = Dir
       [] g.kind = "forbid_glob"  -> matches = {}
       [] g.kind = "require_glob" ->
            /\ g.min # NoLimit => Cardinality(matches) >= g.min
            /\ g.max # NoLimit => Cardinality(matches) <= g.max

CheckGuardrails(guardrails, t) == \A g \in guardrails : Holds(g, t)

-----------------------------------------------------------------------------
\* What the correspondence is meant to be, for the properties

\* The part of a ref a task sees and answers for, as local files.
Projected(prefix, c) ==
  [p \in {LocalPath(prefix, o) : o \in {o \in DOMAIN c : Under(prefix, o) /\ ~MarkerNamed(o)}} |->
     c[prefix \o p]]

\* The rest of it.
Outside(prefix, c) == Restrict(c, {o \in DOMAIN c : ~Under(prefix, o) \/ MarkerNamed(o)})
=============================================================================
