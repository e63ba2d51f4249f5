--------------------------- MODULE MCAttemptFlow ---------------------------
\* Instances of AttemptFlow for TLC.
EXTENDS AttemptFlow

CONSTANTS c1, c2, text   \* contents of files, and the marker's

M == ".perago-attempt.json"
Backslash == "a\\b"      \* a legal name of a local file

MCSegments == {"p", "pq", "a", "b", "d", "..", "C:", Backslash, M}
MCForbidden == {"..", Backslash}
MCDriveLike == {"C:"}
MCExtends == {<<"p", "pq">>}
MCContents == {c1, c2, text}

WorkspaceTask(prefix, readOnly, pre, post) ==
  [workspace |-> TRUE, prefix |-> prefix, readOnly |-> readOnly, pre |-> pre, post |-> post]

\* A writer of p with guardrails, a writer of the whole repository, one with a
\* prefix like a drive, a reader, and a task without workspace.
Writer == WorkspaceTask(<<"p">>, FALSE, {RequireGlob({<<"a">>, <<"d">>, <<"d", "b">>}, 1, 3)},
                {RequireFile(<<"a">>), ForbidGlob({<<"d">>, <<"d", "b">>})})
RootWriter == WorkspaceTask(<<>>, FALSE, {}, {})
Reader == WorkspaceTask(<<"p">>, TRUE, {RequireDir(<<"d">>)}, {})
DriveWriter == WorkspaceTask(<<"C:">>, FALSE, {}, {})
Free == [WorkspaceTask(<<>>, FALSE, {}, {}) EXCEPT !.workspace = FALSE]

AllSpecs == {Writer, RootWriter, DriveWriter, Reader, Free}

Content(paths) == [o \in paths |-> c1]

\* With a sibling of the prefix, an object named like the marker, a path that is no
\* local path, and an object that would be a file and a directory.
MCInitialContents ==
  {Content({<<"pq", "a">>, <<"p", M>>, <<"p", "a">>, <<"p", "d", "b">>}),
   Content({<<"p">>, <<"pq", "..", "a">>}),
   Content({<<"p", "C:", "a">>}),
   Content({<<"p", "a">>, <<"p", "a", "b">>}),
   Content({<<"pq">>})}

\* Trees built from a file, link or directory a, a directory d with b and a file
\* named like the marker in it, and a marker that may be missing or overwritten; and
\* with a file whose name no object path should have, or a directory instead of the
\* marker.
Put(t, p, entries) == {t} \cup {t @@ (p :> e) : e \in entries}
MCBodyTrees ==
  LET markers == Put(Nothing, <<M>>, {text, c2})
      withA == UNION {Put(t, <<"a">>, {c1, c2, Link, Dir}) : t \in markers}
      withD == UNION {{t, t @@ (<<"d">> :> c1)} : t \in withA}
      inD == UNION {Put(t @@ (<<"d">> :> Dir), <<"d", "b">>, {c1, c2}) : t \in withA}
      odd == {t @@ (<<Backslash>> :> c1) : t \in markers} \cup {(<<M>> :> Dir) @@ (<<M, "a">> :> c1)}
  IN withD \cup inD \cup {t @@ (<<"d", M>> :> c2) : t \in inD} \cup odd
=============================================================================
