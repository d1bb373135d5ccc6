------------------------------ MODULE ProjectTable ------------------------------
(***************************************************************************)
(* The project table of the configuration (src/config.ts): the strict      *)
(* check a node is built with, the lenient filter of a live edit, and the  *)
(* import of workspaces.                                                   *)
(*                                                                         *)
(* A name is a sequence: <<>> stands for one that PROJECT_NAME refuses     *)
(* (empty, or with a space or a slash), <<"api">> for a word, <<"api", 2>> *)
(* for that word with the suffix -2.  The broadcast flag is left out.      *)
(***************************************************************************)
EXTENDS Naturals, Sequences, FiniteSets

CONSTANT AbsolutePaths    \* the paths isAbsolute accepts

\* What an array of the program is here: a sequence, of anything.
IsList(s) == Len(s) \in Nat /\ s = [k \in 1 .. Len(s) |-> s[k]]

Named(name) == name # <<>>

NamesOf(rows) == {rows[k].name : k \in DOMAIN rows}
PathsOf(rows) == {rows[k].path : k \in DOMAIN rows}

\* normalizeProjects() does not throw.
Normalizes(rows) ==
    \A k \in DOMAIN rows :
        /\ Named(rows[k].name)
        /\ rows[k].path \in AbsolutePaths
        /\ \A j \in 1 .. k - 1 : rows[j].name # rows[k].name

\* One turn of the loop of validProjects(): the row is kept, or dropped.
Keep(out, row) ==
    IF /\ Named(row.name)
       /\ row.name \notin NamesOf(out)
       /\ row.path \in AbsolutePaths
    THEN Append(out, row) ELSE out

\* What is kept of the first k rows, for every k.
Kept(rows) ==
    LET kept[k \in 0 .. Len(rows)] ==
            IF k = 0 THEN <<>> ELSE Keep(kept[k - 1], rows[k])
    IN  kept

ValidProjects(rows) == Kept(rows)[Len(rows)]

\* deriveProjectName() of a workspace whose title and last path segment
\* slugify to title and base: a word, or <<>> where nothing is left.
DeriveProjectName(workspace, index) ==
    IF Named(workspace.title) THEN workspace.title
    ELSE IF Named(workspace.base) THEN workspace.base
    ELSE <<"project", index + 1>>

\* Mutant: a name that is taken is used all the same.
UniqueNot(base, names) == base

\* The first of base, base-2, base-3 ... that is free.
Unique(base, names) ==
    IF base \notin names THEN base
    ELSE LET Free(n) == Append(base, n) \notin names
         IN  Append(base, CHOOSE n \in 2 .. Cardinality(names) + 2 :
                              Free(n) /\ \A m \in 2 .. n - 1 : ~Free(m))

\* One turn of the loop of mergeWorkspaces(), with what it has made so far of
\* a table of the given length.
AddWorkspace(merged, workspace, length) ==
    IF workspace.path \in PathsOf(merged) THEN merged
    ELSE Append(merged,
             [name |-> Unique(DeriveProjectName(workspace, Len(merged) - length),
                              NamesOf(merged)),
              path |-> workspace.path])

\* The table after the first k workspaces, for every k.
Merged(rows, workspaces) ==
    LET merged[k \in 0 .. Len(workspaces)] ==
            IF k = 0 THEN rows
            ELSE AddWorkspace(merged[k - 1], workspaces[k], Len(rows))
    IN  merged

MergeWorkspaces(rows, workspaces) == Merged(rows, workspaces)[Len(workspaces)]
=============================================================================
