--------------------------- MODULE LifecycleProofs ---------------------------
(***************************************************************************)
(* Proofs about the life of a node, for any settings, tables, ports, other *)
(* processes and number of edits, and about the project table it works     *)
(* with, for tables and lists of workspaces of every length.               *)
(***************************************************************************)
EXTENDS Lifecycle, FiniteSetTheorems, SequenceTheorems, WellFoundedInduction,
        TLAPS

-----------------------------------------------------------------------------
(* Counting *)

\* The order of the natural numbers is well-founded.
LEMMA SmallestOf ==
    ASSUME NEW T \in SUBSET Nat, T # {}
    PROVE  \E n \in T : \A m \in T : n <= m
<1>1. IsWellFoundedOn({ss \in Nat \X Nat : ss[1] < ss[2]}, Nat)
  BY NatLessThanWellFounded DEF OpToRel
<1> DEFINE R == {ss \in Nat \X Nat : ss[1] < ss[2]}
<1>2. PICK x \in T : \A y \in T : ~(<<y, x>> \in R)
  BY <1>1, WFMin
<1>3. ASSUME NEW y \in T PROVE x <= y
  <2>1. ~(y < x)
    BY <1>2
  <2> QED
    BY <2>1
<1> QED
  BY <1>3

\* What holds of 0 and is handed on from one number to the next, up to n.
LEMMA UpTo ==
    ASSUME NEW n \in Nat, NEW G, 0 \in G,
           \A k \in 1 .. n : k - 1 \in G => k \in G
    PROVE  \A k \in 0 .. n : k \in G
<1> SUFFICES ASSUME (0 .. n) \ G # {} PROVE FALSE
  OBVIOUS
<1>1. PICK k \in (0 .. n) \ G : \A m \in (0 .. n) \ G : k <= m
  BY SmallestOf, (0 .. n) \ G \in SUBSET Nat
<1>2. k \in 1 .. n /\ k - 1 \in 0 .. n /\ ~(k <= k - 1)
  BY <1>1
<1> QED
  BY <1>1, <1>2

-----------------------------------------------------------------------------
(* Lists *)

\* IsList leaves open what the elements are: it is membership in some Seq(S).
LEMMA ListOfSeq == ASSUME NEW s PROVE IsList(s) <=> \E S : s \in Seq(S)
<1>1. ASSUME IsList(s) PROVE \E S : s \in Seq(S)
  <2> DEFINE S == {s[k] : k \in 1 .. Len(s)}
  <2>1. Len(s) \in Nat /\ s = [k \in 1 .. Len(s) |-> s[k]]
    BY <1>1 DEF IsList
  <2>2. s \in [1 .. Len(s) -> S]
    BY <2>1
  <2>3. s \in Seq(S)
    BY <2>1, <2>2, SeqDef
  <2> QED
    BY <2>3
<1>2. ASSUME NEW S, s \in Seq(S) PROVE IsList(s)
  BY <1>2, LenProperties DEF IsList
<1> QED
  BY <1>1, <1>2

\* What appending to a list makes of it.
LEMMA ListAppend ==
    ASSUME NEW s, IsList(s), NEW e
    PROVE  /\ IsList(Append(s, e))
           /\ Len(s) \in Nat /\ DOMAIN s = 1 .. Len(s)
           /\ Len(Append(s, e)) = Len(s) + 1
           /\ DOMAIN Append(s, e) = 1 .. Len(s) + 1
           /\ \A k \in 1 .. Len(s) : Append(s, e)[k] = s[k]
           /\ Append(s, e)[Len(s) + 1] = e
<1>1. PICK S : s \in Seq(S)
  BY ListOfSeq
<1> DEFINE T == S \cup {e}
<1>2. s \in Seq(T) /\ e \in T
  BY <1>1, SeqMonotonic, S \subseteq T
<1> HIDE DEF T
<1>3. /\ Append(s, e) \in Seq(T)
      /\ Len(Append(s, e)) = Len(s) + 1
      /\ \A k \in 1 .. Len(s) : Append(s, e)[k] = s[k]
      /\ Append(s, e)[Len(s) + 1] = e
  BY <1>2, AppendProperties
<1>4. Len(s) \in Nat /\ DOMAIN s = 1 .. Len(s)
  BY <1>2, LenProperties
<1>5. IsList(Append(s, e)) /\ DOMAIN Append(s, e) = 1 .. Len(Append(s, e))
  BY <1>3, ListOfSeq, LenProperties
<1> QED
  BY <1>3, <1>4, <1>5

LEMMA EmptyList == IsList(<<>>) /\ Len(<<>>) = 0 /\ DOMAIN <<>> = {}
<1>1. <<>> \in Seq({})
  BY EmptySeq
<1>2. IsList(<<>>)
  BY <1>1, ListOfSeq
<1>3. Len(<<>>) = 0 /\ DOMAIN <<>> = {}
  OBVIOUS
<1> QED
  BY <1>2, <1>3

LEMMA ListsEqual ==
    ASSUME NEW s, NEW t, IsList(s), IsList(t), Len(s) = Len(t),
           \A k \in 1 .. Len(s) : s[k] = t[k]
    PROVE  s = t
BY DEF IsList
-----------------------------------------------------------------------------
(* Names *)

\* What Unique counts.
LEMMA NamesFinite ==
    ASSUME NEW rows, IsList(rows) PROVE IsFiniteSet(NamesOf(rows))
<1> DEFINE f == [k \in 1 .. Len(rows) |-> rows[k].name]
<1>1. Len(rows) \in Nat /\ DOMAIN rows = 1 .. Len(rows)
  BY ListAppend
<1>2. f \in Surjection(1 .. Len(rows), NamesOf(rows))
  BY <1>1 DEF NamesOf, Surjection
<1>3. IsFiniteSet(1 .. Len(rows))
  BY <1>1, FS_Interval
<1> HIDE DEF f
<1> QED
  BY <1>2, <1>3, FS_Surjection

(* A name that is taken is given the first suffix that is free: among one   *)
(* more suffixes than there are names, one is.                              *)
LEMMA UniqueIsFree ==
    ASSUME NEW base, IsList(base), Named(base), NEW names, IsFiniteSet(names)
    PROVE  Unique(base, names) \notin names /\ Named(Unique(base, names))
<1> DEFINE Free(n) == Append(base, n) \notin names
           C == Cardinality(names)
           T == {n \in 2 .. C + 2 : Free(n)}
<1>1. C \in Nat
  BY FS_CardinalityType
<1>2. \A n : /\ Named(Append(base, n))
             /\ Append(base, n)[Len(base) + 1] = n
  <2> SUFFICES ASSUME NEW n
               PROVE  /\ Named(Append(base, n))
                      /\ Append(base, n)[Len(base) + 1] = n
    OBVIOUS
  <2>1. /\ Append(base, n)[Len(base) + 1] = n
        /\ Len(Append(base, n)) = Len(base) + 1 /\ Len(base) \in Nat
    BY ListAppend
  <2>2. Append(base, n) # <<>>
    BY <2>1, EmptyList
  <2> QED
    BY <2>1, <2>2 DEF Named
<1>3. T # {}
  <2> SUFFICES ASSUME \A n \in 2 .. C + 2 : Append(base, n) \in names
               PROVE  FALSE
    OBVIOUS
  <2> DEFINE f == [n \in 2 .. C + 2 |-> Append(base, n)]
  <2>1. f \in [2 .. C + 2 -> names]
    OBVIOUS
  <2>2. IsFiniteSet(2 .. C + 2) /\ Cardinality(2 .. C + 2) = C + 1
    BY <1>1, FS_Interval
  <2>3. Cardinality(names) < Cardinality(2 .. C + 2)
    BY <1>1, <2>2
  <2>4. \A x, y \in 2 .. C + 2 : f[x] = f[y] => x = y
    BY <1>2
  <2> DEFINE S == 2 .. C + 2
  <2> HIDE DEF f, S, C
  <2>5. \E x, y \in S : x # y /\ f[x] = f[y]
    BY <2>1, <2>2, <2>3, FS_PigeonHole DEF S
  <2> QED
    BY <2>4, <2>5 DEF S
<1>4. PICK n \in T : \A m \in T : n <= m
  BY <1>1, <1>3, SmallestOf, T \in SUBSET Nat
<1>5. /\ n \in 2 .. C + 2 /\ Free(n)
      /\ \A m \in 2 .. n - 1 : ~Free(m)
  BY <1>1, <1>4
<1> DEFINE first == CHOOSE k \in 2 .. C + 2 :
                        Free(k) /\ \A m \in 2 .. k - 1 : ~Free(m)
<1>6. Free(first)
  BY <1>5
<1>7. CASE base \in names
  <2>1. Unique(base, names) = Append(base, first)
    BY <1>7 DEF Unique
  <2> QED
    BY <1>2, <1>6, <2>1
<1>8. CASE base \notin names
  BY <1>8 DEF Unique
<1> QED
  BY <1>7, <1>8

\* What slugify leaves nothing of is called project-1, project-2, ...
LEMMA DerivedIsName ==
    ASSUME NEW workspace, NEW index,
           IsList(workspace.title), IsList(workspace.base)
    PROVE  LET name == DeriveProjectName(workspace, index)
           IN  IsList(name) /\ Named(name)
<1>1. IsList(<<"project", index + 1>>) /\ Named(<<"project", index + 1>>)
  <2>1. <<"project", index + 1>> \in Seq({"project", index + 1})
    OBVIOUS
  <2> QED
    BY <2>1, ListOfSeq DEF Named
<1> QED
  BY <1>1 DEF DeriveProjectName
-----------------------------------------------------------------------------
(* The loops: the function of their turns exists, so that the one the       *)
(* definition chooses satisfies its equation.                               *)

\* The turns of the filter.
LEMMA KeptTurns ==
    ASSUME NEW rows, IsList(rows)
    PROVE  /\ Kept(rows)[0] = <<>>
           /\ \A k \in 1 .. Len(rows) :
                  Kept(rows)[k] = Keep(Kept(rows)[k - 1], rows[k])
<1> DEFINE n == Len(rows)
           Turn(f, k) == IF k = 0 THEN <<>> ELSE Keep(f[k - 1], rows[k])
           Run(f, k) == f = [j \in 0 .. k |-> Turn(f, j)]
           G == {k \in 0 .. n : \E f : Run(f, k)}
<1>1. n \in Nat
  BY ListAppend
<1>2. 0 \in G
  <2>1. Run([j \in 0 .. 0 |-> <<>>], 0)
    OBVIOUS
  <2> HIDE DEF Run
  <2>2. \E f : Run(f, 0)
    BY <2>1
  <2> QED
    BY <1>1, <2>2
<1>3. ASSUME NEW k \in 1 .. n, k - 1 \in G PROVE k \in G
  <2>1. PICK f : Run(f, k - 1)
    BY <1>3
  <2> DEFINE g == [j \in 0 .. k |-> IF j = k THEN Keep(f[k - 1], rows[k])
                                    ELSE f[j]]
  <2>2. ASSUME NEW j \in 0 .. k PROVE g[j] = Turn(g, j)
    <3>1. CASE j = k
      <4>1. k - 1 \in 0 .. k /\ k - 1 # k /\ k # 0
        BY <1>1
      <4> QED
        BY <3>1, <4>1
    <3>2. CASE j # k
      <4>1. j \in 0 .. k - 1 /\ g[j] = f[j]
        BY <1>1, <3>2
      <4>2. f[j] = Turn(f, j)
        BY <2>1, <4>1
      <4>3. j # 0 => g[j - 1] = f[j - 1]
        BY <1>1, <4>1
      <4> QED
        BY <4>1, <4>2, <4>3
    <3> QED
      BY <3>1, <3>2
  <2>3. Run(g, k)
    BY <2>2
  <2> HIDE DEF Run, g
  <2>4. \E h : Run(h, k)
    BY <2>3
  <2> QED
    BY <1>1, <2>4
<1>4. PICK f : Run(f, n)
  <2> HIDE DEF G
  <2>1. \A k \in 0 .. n : k \in G
    BY <1>1, <1>2, <1>3, UpTo
  <2> QED
    BY <1>1, <2>1 DEF G
<1>5. Kept(rows) = [k \in 0 .. n |-> Turn(Kept(rows), k)]
  BY <1>4 DEF Kept
<1> HIDE DEF Turn
<1>6. \A k \in 0 .. n : Kept(rows)[k] = Turn(Kept(rows), k)
  BY <1>5
<1> QED
  BY <1>1, <1>6 DEF Turn

\* The same of the import.
LEMMA MergedTurns ==
    ASSUME NEW rows, NEW workspaces, IsList(workspaces)
    PROVE  /\ Merged(rows, workspaces)[0] = rows
           /\ \A k \in 1 .. Len(workspaces) :
                  Merged(rows, workspaces)[k] =
                      AddWorkspace(Merged(rows, workspaces)[k - 1],
                                   workspaces[k], Len(rows))
<1> DEFINE n == Len(workspaces)
           m == Merged(rows, workspaces)
           Turn(f, k) == IF k = 0 THEN rows
                         ELSE AddWorkspace(f[k - 1], workspaces[k], Len(rows))
           Run(f, k) == f = [j \in 0 .. k |-> Turn(f, j)]
           G == {k \in 0 .. n : \E f : Run(f, k)}
<1>1. n \in Nat
  BY ListAppend
<1>2. 0 \in G
  <2>1. Run([j \in 0 .. 0 |-> rows], 0)
    OBVIOUS
  <2> HIDE DEF Run
  <2>2. \E f : Run(f, 0)
    BY <2>1
  <2> QED
    BY <1>1, <2>2
<1>3. ASSUME NEW k \in 1 .. n, k - 1 \in G PROVE k \in G
  <2>1. PICK f : Run(f, k - 1)
    BY <1>3
  <2> DEFINE g == [j \in 0 .. k |->
                      IF j = k
                      THEN AddWorkspace(f[k - 1], workspaces[k], Len(rows))
                      ELSE f[j]]
  <2>2. ASSUME NEW j \in 0 .. k PROVE g[j] = Turn(g, j)
    <3>1. CASE j = k
      <4>1. k - 1 \in 0 .. k /\ k - 1 # k /\ k # 0
        BY <1>1
      <4> QED
        BY <3>1, <4>1
    <3>2. CASE j # k
      <4>1. j \in 0 .. k - 1 /\ g[j] = f[j]
        BY <1>1, <3>2
      <4>2. f[j] = Turn(f, j)
        BY <2>1, <4>1
      <4>3. j # 0 => g[j - 1] = f[j - 1]
        BY <1>1, <4>1
      <4> QED
        BY <4>1, <4>2, <4>3
    <3> QED
      BY <3>1, <3>2
  <2>3. Run(g, k)
    BY <2>2
  <2> HIDE DEF Run, g
  <2>4. \E h : Run(h, k)
    BY <2>3
  <2> QED
    BY <1>1, <2>4
<1>4. PICK f : Run(f, n)
  <2> HIDE DEF G
  <2>1. \A k \in 0 .. n : k \in G
    BY <1>1, <1>2, <1>3, UpTo
  <2> QED
    BY <1>1, <2>1 DEF G
<1>5. m = [k \in 0 .. n |-> Turn(m, k)]
  BY <1>4 DEF Merged
<1> HIDE DEF Turn
<1>6. \A k \in 0 .. n : m[k] = Turn(m, k)
  BY <1>5
<1> QED
  BY <1>1, <1>6 DEF Turn
-----------------------------------------------------------------------------
(* The strict check and the lenient one *)

\* A row with a free name and an absolute path may follow a table in order.
LEMMA NormalizesAppend ==
    ASSUME NEW rows, IsList(rows), Normalizes(rows), NEW row,
           Named(row.name), row.name \notin NamesOf(rows),
           row.path \in AbsolutePaths
    PROVE  Normalizes(Append(rows, row))
<1> DEFINE n == Len(rows)
           s == Append(rows, row)
<1>1. /\ n \in Nat /\ DOMAIN rows = 1 .. n /\ DOMAIN s = 1 .. n + 1
      /\ \A k \in 1 .. n : s[k] = rows[k]
      /\ s[n + 1] = row
  BY ListAppend
<1>2. SUFFICES ASSUME NEW k \in 1 .. n + 1
               PROVE  /\ Named(s[k].name) /\ s[k].path \in AbsolutePaths
                      /\ \A j \in 1 .. k - 1 : s[j].name # s[k].name
  BY <1>1 DEF Normalizes
<1> HIDE DEF s, n
<1>3. CASE k = n + 1
  <2>1. \A j \in 1 .. k - 1 : j \in 1 .. n /\ s[j] = rows[j]
    BY <1>1, <1>3
  <2>2. \A j \in 1 .. n : rows[j].name # row.name
    BY <1>1 DEF NamesOf
  <2> QED
    BY <1>1, <1>3, <2>1, <2>2
<1>4. CASE k \in 1 .. n
  <2>1. \A j \in 1 .. k : s[j] = rows[j]
    BY <1>1, <1>4
  <2>2. /\ Named(rows[k].name) /\ rows[k].path \in AbsolutePaths
        /\ \A j \in 1 .. k - 1 : rows[j].name # rows[k].name
    BY <1>1, <1>4 DEF Normalizes
  <2>3. s[k] = rows[k] /\ \A j \in 1 .. k - 1 : s[j] = rows[j]
    BY <1>1, <1>4, <2>1
  <2> QED
    BY <2>2, <2>3
<1> QED
  BY <1>1, <1>3, <1>4

(* What the lenient filter keeps, the strict check accepts.                 *)
LEMMA KeptIsNormal ==
    ASSUME NEW rows, IsList(rows)
    PROVE  IsList(ValidProjects(rows)) /\ Normalizes(ValidProjects(rows))
<1> DEFINE n == Len(rows)
           kept == Kept(rows)
           G == {k \in 0 .. n : IsList(kept[k]) /\ Normalizes(kept[k])}
<1>1. n \in Nat
  BY ListAppend
<1>2. /\ kept[0] = <<>>
      /\ \A k \in 1 .. n : kept[k] = Keep(kept[k - 1], rows[k])
  BY KeptTurns
<1> HIDE DEF kept
<1>3. 0 \in G
  BY <1>1, <1>2, EmptyList DEF Normalizes
<1>4. ASSUME NEW k \in 1 .. n, k - 1 \in G PROVE k \in G
  <2>1. IsList(kept[k - 1]) /\ Normalizes(kept[k - 1])
    BY <1>4
  <2>2. kept[k] = Keep(kept[k - 1], rows[k])
    BY <1>2
  <2>3. IsList(kept[k]) /\ Normalizes(kept[k])
    BY <2>1, <2>2, ListAppend, NormalizesAppend DEF Keep
  <2> QED
    BY <1>1, <2>3
<1>5. n \in G
  <2> HIDE DEF G
  <2>1. \A k \in 0 .. n : k \in G
    BY <1>1, <1>3, <1>4, UpTo
  <2> QED
    BY <1>1, <2>1
<1> QED
  BY <1>5 DEF ValidProjects, kept

(* It keeps whole what the strict check accepts.                            *)
LEMMA NormalIsKept ==
    ASSUME NEW rows, IsList(rows), Normalizes(rows)
    PROVE  ValidProjects(rows) = rows
<1> DEFINE n == Len(rows)
           kept == Kept(rows)
           Prefix(k) == /\ IsList(kept[k]) /\ Len(kept[k]) = k
                        /\ \A j \in 1 .. k : kept[k][j] = rows[j]
           G == {k \in 0 .. n : Prefix(k)}
<1>1. n \in Nat /\ DOMAIN rows = 1 .. n
  BY ListAppend
<1>2. /\ kept[0] = <<>>
      /\ \A k \in 1 .. n : kept[k] = Keep(kept[k - 1], rows[k])
  BY KeptTurns
<1> HIDE DEF kept
<1>3. 0 \in G
  BY <1>1, <1>2, EmptyList
<1>4. ASSUME NEW k \in 1 .. n, k - 1 \in G PROVE k \in G
  <2> DEFINE out == kept[k - 1]
  <2>1. IsList(out) /\ Len(out) = k - 1 /\ \A j \in 1 .. k - 1 : out[j] = rows[j]
    BY <1>4
  <2>2. kept[k] = Keep(out, rows[k])
    BY <1>2
  <2> HIDE DEF out
  <2>3. DOMAIN out = 1 .. k - 1
    BY <2>1, ListAppend
  <2>4. /\ Named(rows[k].name) /\ rows[k].path \in AbsolutePaths
        /\ \A j \in 1 .. k - 1 : rows[j].name # rows[k].name
    BY <1>1 DEF Normalizes
  <2>5. rows[k].name \notin NamesOf(out)
    BY <2>1, <2>3, <2>4 DEF NamesOf
  <2>6. kept[k] = Append(out, rows[k])
    BY <2>2, <2>4, <2>5 DEF Keep
  <2>7. /\ IsList(kept[k]) /\ Len(kept[k]) = k
        /\ \A j \in 1 .. k - 1 : kept[k][j] = out[j]
        /\ kept[k][k] = rows[k]
    BY <2>1, <2>6, ListAppend
  <2>8. \A j \in 1 .. k : kept[k][j] = rows[j]
    BY <2>1, <2>7
  <2> QED
    BY <1>1, <2>7, <2>8
<1>5. n \in G
  <2> HIDE DEF G
  <2>1. \A k \in 0 .. n : k \in G
    BY <1>1, <1>3, <1>4, UpTo
  <2> QED
    BY <1>1, <2>1
<1>6. kept[n] = rows
  BY <1>5, ListsEqual
<1> QED
  BY <1>6 DEF ValidProjects, kept

\* Both together.
LEMMA StrictAcceptsWhatLenientKeeps ==
    ASSUME NEW rows, IsList(rows)
    PROVE  Normalizes(rows) <=> ValidProjects(rows) = rows
BY KeptIsNormal, NormalIsKept

-----------------------------------------------------------------------------
(* The import *)

\* An import of what is there already changes nothing.
LEMMA NothingToImport ==
    ASSUME NEW rows, NEW workspaces, IsList(workspaces),
           \A k \in DOMAIN workspaces : workspaces[k].path \in PathsOf(rows)
    PROVE  MergeWorkspaces(rows, workspaces) = rows
<1> DEFINE n == Len(workspaces)
           merged == Merged(rows, workspaces)
           G == {k \in 0 .. n : merged[k] = rows}
<1>1. n \in Nat /\ DOMAIN workspaces = 1 .. n
  BY ListAppend
<1>2. /\ merged[0] = rows
      /\ \A k \in 1 .. n : merged[k] =
             AddWorkspace(merged[k - 1], workspaces[k], Len(rows))
  BY MergedTurns
<1> HIDE DEF merged
<1>3. 0 \in G
  BY <1>1, <1>2
<1>4. ASSUME NEW k \in 1 .. n, k - 1 \in G PROVE k \in G
  <2>1. merged[k - 1] = rows
    BY <1>4
  <2>2. workspaces[k].path \in PathsOf(rows)
    BY <1>1
  <2>3. merged[k] = AddWorkspace(rows, workspaces[k], Len(rows))
    BY <1>2, <2>1
  <2>4. merged[k] = rows
    BY <2>2, <2>3 DEF AddWorkspace
  <2> QED
    BY <1>1, <2>4
<1>5. n \in G
  <2> HIDE DEF G
  <2>1. \A k \in 0 .. n : k \in G
    BY <1>1, <1>3, <1>4, UpTo
  <2> QED
    BY <1>1, <2>1
<1> QED
  BY <1>5 DEF MergeWorkspaces, merged

(* One turn keeps every path, adds the one it is about, and leaves a table  *)
(* that was in order in order.                                              *)
LEMMA TurnImports ==
    ASSUME NEW rows, IsList(rows), NEW workspace, NEW length,
           IsList(workspace.title), IsList(workspace.base)
    PROVE  /\ IsList(AddWorkspace(rows, workspace, length))
           /\ PathsOf(rows) \subseteq
                  PathsOf(AddWorkspace(rows, workspace, length))
           /\ workspace.path \in PathsOf(AddWorkspace(rows, workspace, length))
           /\ Normalizes(rows) /\ workspace.path \in AbsolutePaths
                  => Normalizes(AddWorkspace(rows, workspace, length))
<1> DEFINE base == DeriveProjectName(workspace, Len(rows) - length)
           name == Unique(base, NamesOf(rows))
           row == [name |-> name, path |-> workspace.path]
           next == AddWorkspace(rows, workspace, length)
<1>1. CASE workspace.path \in PathsOf(rows)
  BY <1>1 DEF AddWorkspace
<1>2. CASE workspace.path \notin PathsOf(rows)
  <2>1. next = Append(rows, row)
    BY <1>2 DEF AddWorkspace
  <2>2. name \notin NamesOf(rows) /\ Named(name)
    <3>1. IsList(base) /\ Named(base)
      BY DerivedIsName
    <3> HIDE DEF base
    <3> QED
      BY <3>1, NamesFinite, UniqueIsFree
  <2>3. row.name = name /\ row.path = workspace.path
    OBVIOUS
  <2> HIDE DEF row, next, name
  <2>4. /\ IsList(next) /\ Len(rows) \in Nat
        /\ DOMAIN rows = 1 .. Len(rows) /\ DOMAIN next = 1 .. Len(rows) + 1
        /\ \A k \in 1 .. Len(rows) : next[k] = rows[k]
        /\ next[Len(rows) + 1] = row
    BY <2>1, ListAppend
  <2>5. PathsOf(rows) \subseteq PathsOf(next)
    BY <2>4 DEF PathsOf
  <2>6. workspace.path \in PathsOf(next)
    BY <2>3, <2>4 DEF PathsOf
  <2>7. ASSUME Normalizes(rows), workspace.path \in AbsolutePaths
        PROVE  Normalizes(next)
    BY <2>1, <2>2, <2>3, <2>7, NormalizesAppend
  <2> QED
    BY <2>4, <2>5, <2>6, <2>7 DEF next
<1> QED
  BY <1>1, <1>2

\* The same of all turns together, by induction over the workspaces.
LEMMA MergeImports ==
    ASSUME NEW rows, IsList(rows), NEW workspaces, IsList(workspaces),
           \A k \in DOMAIN workspaces :
               IsList(workspaces[k].title) /\ IsList(workspaces[k].base)
    PROVE  /\ IsList(MergeWorkspaces(rows, workspaces))
           /\ \A k \in DOMAIN workspaces :
                  workspaces[k].path \in PathsOf(MergeWorkspaces(rows, workspaces))
           /\ /\ Normalizes(rows)
              /\ \A k \in DOMAIN workspaces :
                     workspaces[k].path \in AbsolutePaths
              => Normalizes(MergeWorkspaces(rows, workspaces))
<1> DEFINE n == Len(workspaces)
           merged == Merged(rows, workspaces)
           Absolute == \A k \in 1 .. n : workspaces[k].path \in AbsolutePaths
           Imported(k) ==
               /\ IsList(merged[k])
               /\ \A j \in 1 .. k : workspaces[j].path \in PathsOf(merged[k])
               /\ Normalizes(rows) /\ Absolute => Normalizes(merged[k])
           G == {k \in 0 .. n : Imported(k)}
<1>1. n \in Nat /\ DOMAIN workspaces = 1 .. n
  BY ListAppend
<1>2. /\ merged[0] = rows
      /\ \A k \in 1 .. n : merged[k] =
             AddWorkspace(merged[k - 1], workspaces[k], Len(rows))
  BY MergedTurns
<1> HIDE DEF merged
<1>3. 0 \in G
  BY <1>1, <1>2
<1>4. ASSUME NEW k \in 1 .. n, k - 1 \in G PROVE k \in G
  <2> DEFINE before == merged[k - 1]
             after == merged[k]
  <2>1. /\ IsList(before)
        /\ \A j \in 1 .. k - 1 : workspaces[j].path \in PathsOf(before)
        /\ Normalizes(rows) /\ Absolute => Normalizes(before)
    BY <1>4
  <2>2. after = AddWorkspace(before, workspaces[k], Len(rows))
    BY <1>2
  <2> HIDE DEF before, after
  <2>3. /\ IsList(after)
        /\ PathsOf(before) \subseteq PathsOf(after)
        /\ workspaces[k].path \in PathsOf(after)
        /\ Normalizes(before) /\ workspaces[k].path \in AbsolutePaths
              => Normalizes(after)
    BY <1>1, <2>1, <2>2, TurnImports
  <2>4. \A j \in 1 .. k : workspaces[j].path \in PathsOf(after)
    BY <2>1, <2>3
  <2>5. Normalizes(rows) /\ Absolute => Normalizes(after)
    BY <2>1, <2>3
  <2> QED
    BY <1>1, <2>3, <2>4, <2>5 DEF after
<1>5. n \in G
  <2> HIDE DEF G
  <2>1. \A k \in 0 .. n : k \in G
    BY <1>1, <1>3, <1>4, UpTo
  <2> QED
    BY <1>1, <2>1
<1>6. Imported(n)
  BY <1>5
<1>7. MergeWorkspaces(rows, workspaces) = merged[n]
  BY DEF MergeWorkspaces, merged
<1> QED
  BY <1>1, <1>6, <1>7

-----------------------------------------------------------------------------
(* The life of a node *)

\* What the ports and the flag depend on of the types.
LifeTypes ==
    /\ edits \in 0 .. MaxEdits
    /\ \E S : queue \in Seq(S)
    /\ phase \in {"idle", "draining", "building", "starting"}
    /\ current \in Ids
    /\ stage \in [Ids -> Stages]
    /\ closing \in [Ids -> BOOLEAN]
    /\ loaded \in BOOLEAN

\* Every instance beyond the first, and every rebuild still to come, is owed
\* to an edit of its own.
Owed == Len(queue) + (IF phase \in {"draining", "building"} THEN 1 ELSE 0)

InstancesCounted == current + Owed <= edits + 1

\* An instance that was replaced has been told to stop before.
ReplacedAreClosing ==
    \A i \in Ids :
        /\ i < current => closing[i]
        /\ i > current => stage[i] = "unbuilt"

ClosingTakesEffect ==
    \A i \in Ids :
        /\ closing[i] => stage[i] # "up"
        /\ loaded /\ stage[i] = "releasing"
               => i = current /\ phase = "draining"

\* A rebuild has told the current instance to stop.
HandedOver == phase \in {"draining", "building"} => closing[current]

LifeInv ==
    /\ LifeTypes /\ InstancesCounted /\ ReplacedAreClosing
    /\ ClosingTakesEffect /\ HandedOver /\ StartedMeansUp

-----------------------------------------------------------------------------
LEMMA LifeInit == Init => LifeInv
<1> SUFFICES ASSUME Init PROVE LifeInv
  OBVIOUS
<1> USE LifecycleTypes DEF Init, Ids
<1>1. queue \in Seq({}) /\ Len(queue) = 0
  OBVIOUS
<1>2. LifeTypes
  BY <1>1 DEF LifeTypes, Stages
<1>3. InstancesCounted
  BY <1>1 DEF InstancesCounted, Owed
<1> QED
  BY <1>2, <1>3 DEF LifeInv, ReplacedAreClosing, ClosingTakesEffect,
                    HandedOver, StartedMeansUp

(* One more rebuild is owed at most after an edit, one less after a rebuild *)
(* has begun.                                                               *)
LEMMA QueueGrows ==
    ASSUME NEW S, queue \in Seq(S), NEW x
    PROVE  /\ \E T : Append(queue, x) \in Seq(T)
           /\ Len(Append(queue, x)) = Len(queue) + 1
           /\ Len(queue) \in Nat
<1> DEFINE T == S \cup {x}
<1>1. queue \in Seq(T)
  BY SeqMonotonic, S \subseteq T
<1>2. x \in T
  OBVIOUS
<1> HIDE DEF T
<1> QED
  BY <1>1, <1>2, AppendProperties, LenProperties

LEMMA QueueShrinks ==
    ASSUME NEW S, queue \in Seq(S), queue # <<>>
    PROVE  /\ Tail(queue) \in Seq(S)
           /\ Len(Tail(queue)) = Len(queue) - 1
           /\ Len(queue) \in Nat \ {0}
BY HeadTailProperties, EmptySeq, LenProperties

-----------------------------------------------------------------------------
LEMMA LifeNext == LifeInv /\ [Next]_vars => LifeInv'
<1> SUFFICES ASSUME LifeInv, [Next]_vars PROVE LifeInv'
  OBVIOUS
<1> USE LifecycleTypes
        DEF LifeInv, LifeTypes, InstancesCounted, Owed, ReplacedAreClosing,
            ClosingTakesEffect, HandedOver, StartedMeansUp, Ids, rebuild,
            instances, Stages, To
<1>1. ASSUME Edits PROVE LifeInv'
  <2>1. ASSUME NEW next, Applied(next), edits < MaxEdits, edits' = edits + 1
        PROVE  LifeInv'
    <3>1. CASE next.core # config.core
      <4>1. queue' = Append(queue, next)
        BY <2>1, <3>1 DEF Applied
      <4>2. PICK S : queue \in Seq(S)
        OBVIOUS
      <4>3. /\ \E T : Append(queue, next) \in Seq(T)
            /\ Len(Append(queue, next)) = Len(queue) + 1
            /\ Len(queue) \in Nat
        BY <4>2, QueueGrows
      <4> QED
        BY <2>1, <3>1, <4>1, <4>3 DEF Applied
    <3>2. CASE next.core = config.core
      <4>1. Len(queue) \in Nat
        BY LenProperties
      <4> QED
        BY <2>1, <3>2, <4>1 DEF Applied
    <3> QED
      BY <3>1, <3>2
  <2> QED
    BY <1>1, <2>1 DEF Edits, Edit, Import
<1>2. ASSUME RebuildBegins PROVE LifeInv'
  <2>1. /\ \E T : queue' \in Seq(T)
        /\ Len(queue') = Len(queue) - 1 /\ Len(queue) \in Nat
    BY <1>2, QueueShrinks DEF RebuildBegins
  <2> QED
    BY <1>2, <2>1 DEF RebuildBegins, Stopping
<1>3. ASSUME RebuildBuilds PROVE LifeInv'
  <2>1. Len(queue) \in Nat
    BY LenProperties
  <2>2. current' = current + 1 /\ current' \in Ids
    BY <1>3, <2>1 DEF RebuildBuilds, ReadyToBuild, Built
  <2> QED
    BY <1>3, <2>1, <2>2 DEF RebuildBuilds, ReadyToBuild, Built
<1>4. ASSUME RebuildRefused PROVE LifeInv'
  <2>1. Len(queue) \in Nat
    BY LenProperties
  <2> QED
    BY <1>4, <2>1 DEF RebuildRefused, ReadyToBuild
<1>5. ASSUME Unload PROVE LifeInv'
  BY <1>5 DEF Unload, Stopping
<1>6. ASSUME NEW i \in Ids, BindSucceeds(i) PROVE LifeInv'
  <2>1. CASE closing[i]
    BY <1>6, <2>1 DEF BindSucceeds, Bound, RebuildGoesOn
  <2>2. CASE ~closing[i]
    <3>1. i = current
      BY <1>6, <2>2 DEF BindSucceeds
    <3> QED
      BY <1>6, <2>2, <3>1 DEF BindSucceeds, Bound, RebuildGoesOn, StartSucceeds
  <2> QED
    BY <2>1, <2>2
<1>7. ASSUME NEW i \in Ids, BindRefused(i) PROVE LifeInv'
  <2>1. CASE stage' = [stage EXCEPT ![i] = "grace"] /\ UNCHANGED <<phase, started>>
    BY <1>7, <2>1 DEF BindRefused
  <2>2. CASE UNCHANGED <<stage, phase, started>>
    BY <1>7, <2>2 DEF BindRefused
  <2>3. CASE stage' = [stage EXCEPT ![i] = "failed"] /\ StartFails(i)
    BY <1>7, <2>3 DEF BindRefused, StartFails, RebuildGoesOn
  <2> QED
    BY <1>7, <2>1, <2>2, <2>3 DEF BindRefused
<1>8. ASSUME NEW i \in Ids, BindFails(i) PROVE LifeInv'
  BY <1>8 DEF BindFails, StartFails, RebuildGoesOn
<1>9. ASSUME NEW i \in Ids, GraceOver(i) PROVE LifeInv'
  BY <1>9 DEF GraceOver
<1>10. ASSUME NEW i \in Ids, Released(i) PROVE LifeInv'
  BY <1>10 DEF Released
<1>11. ASSUME OthersBind \/ OthersRelease \/ UNCHANGED vars PROVE LifeInv'
  BY <1>11 DEF OthersBind, OthersRelease, vars
<1> QED
  BY <1>1, <1>2, <1>3, <1>4, <1>5, <1>6, <1>7, <1>8, <1>9, <1>10,
     <1>11
     DEF Next, Rebuilds, Binds

LEMMA LifeInvariant == Spec => []LifeInv
BY LifeInit, LifeNext, PTL DEF Spec

(* While the plugin is loaded an instance that was replaced neither listens *)
(* nor still releases its port, however edits, rebuilds, refusals and slow  *)
(* starts follow each other (plugin.ts:131, 284-286).                       *)
THEOREM ReleasedBeforeNextHolds == Spec => []ReleasedBeforeNext
<1>1. LifeInv => ReleasedBeforeNext
  <2> SUFFICES ASSUME LifeInv, loaded, NEW i \in Ids, i # current
               PROVE  stage[i] \notin {"up", "releasing"}
    BY DEF ReleasedBeforeNext
  <2>1. stage[i] # "up"
    BY DEF LifeInv, LifeTypes, Ids, ReplacedAreClosing, ClosingTakesEffect
  <2>2. stage[i] # "releasing"
    BY DEF LifeInv, ClosingTakesEffect
  <2> QED
    BY <2>1, <2>2
<1> QED
  BY <1>1, LifeInvariant, PTL

(* The flag the settings panel shows as "listening" is never set for a node *)
(* whose server is not up, except while a rebuild waits for the old server  *)
(* (plugin.ts:127, types.ts:192).                                           *)
THEOREM StartedMeansUpHolds == Spec => []StartedMeansUp
<1>1. LifeInv => StartedMeansUp
  BY DEF LifeInv
<1> QED
  BY <1>1, LifeInvariant, PTL

-----------------------------------------------------------------------------
(* The types, now that an import is known to make a table of a known kind:  *)
(* importing again changes nothing, so Rows has all that imports make.      *)

LEMMA RowsClosed ==
    ASSUME NEW rows \in Rows
    PROVE  /\ IsList(rows)
           /\ MergeWorkspaces(rows, Workspaces) \in Rows
           /\ MergeWorkspaces(MergeWorkspaces(rows, Workspaces), Workspaces)
                  = MergeWorkspaces(rows, Workspaces)
<1> DEFINE Again(t) == MergeWorkspaces(t, Workspaces)
<1> USE WorkspacesAreListed
<1>1. ASSUME NEW t, IsList(t)
      PROVE  IsList(Again(t)) /\ Again(Again(t)) = Again(t)
  <2>1. /\ IsList(Again(t))
        /\ \A k \in DOMAIN Workspaces :
               Workspaces[k].path \in PathsOf(Again(t))
    BY <1>1, MergeImports
  <2> HIDE DEF Again
  <2>2. MergeWorkspaces(Again(t), Workspaces) = Again(t)
    BY <2>1, NothingToImport
  <2> QED
    BY <2>1, <2>2 DEF Again
<1> HIDE DEF Again
<1>2. PICK t \in Tables : rows \in {t, Again(t)}
  BY DEF Rows, Again
<1>3. IsList(t)
  BY TablesAreLists
<1>4. Again(t) \in Rows
  BY DEF Rows, Again
<1>5. CASE rows = t
  BY <1>1, <1>3, <1>4, <1>5 DEF Again
<1>6. CASE rows = Again(t)
  BY <1>1, <1>3, <1>4, <1>6 DEF Again
<1> QED
  BY <1>2, <1>5, <1>6

\* It starts without rows, rebuilds and instances but one.
LEMMA TypesInit == Init => TypeOK
<1> SUFFICES ASSUME Init PROVE TypeOK
  OBVIOUS
<1> USE LifecycleTypes DEF Init
<1>1. config \in Configs /\ target \in Configs
  <2>1. <<>> \in Rows
    BY DEF Rows
  <2> QED
    BY <2>1 DEF Configs
<1>2. queue \in Seq(Configs) /\ Len(queue) = 0
  BY EmptySeq
<1>3. Normalizes(table)
  BY EmptyList DEF Normalizes
<1>4. /\ current \in Ids /\ core \in [Ids -> Cores]
      /\ stage \in [Ids -> Stages] /\ attempt \in [Ids -> 0 .. PortRetries]
      /\ graced \in [Ids -> BOOLEAN] /\ closing \in [Ids -> BOOLEAN]
  BY DEF Ids, Stages
<1>5. \A i \in Ids : stage[i] = "unbuilt" <=> i > current
  BY DEF Ids
<1>6. Len(queue) <= MaxEdits /\ edits \in 0 .. MaxEdits
  BY <1>2
<1>7. /\ phase \in {"idle", "draining", "building", "starting"}
      /\ started \in BOOLEAN /\ loaded \in BOOLEAN /\ foreign \subseteq Contested
  OBVIOUS
<1> QED
  BY <1>1, <1>2, <1>3, <1>4, <1>5, <1>6, <1>7 DEF TypeOK

\* No more rebuilds wait than there were edits.
LEMMA RebuildsCounted == LifeInv /\ Len(queue) \in Nat => Len(queue) <= MaxEdits
<1> SUFFICES ASSUME LifeInv, Len(queue) \in Nat PROVE Len(queue) <= MaxEdits
  OBVIOUS
<1>1. edits <= MaxEdits /\ edits \in Nat /\ current >= 1 /\ current \in Nat
  BY LifecycleTypes DEF LifeInv, LifeTypes, Ids
<1>2. current + Len(queue) <= edits + 1
  BY <1>1 DEF LifeInv, InstancesCounted, Owed
<1> QED
  BY <1>1, <1>2, LifecycleTypes

\* That there is always a next instance, and room for the rebuilds, is counted
\* by LifeInv.
LEMMA TypesNext == LifeInv /\ LifeInv' /\ TypeOK /\ [Next]_vars => TypeOK'
<1> SUFFICES ASSUME LifeInv, LifeInv', TypeOK, [Next]_vars PROVE TypeOK'
  OBVIOUS
<1> USE LifecycleTypes DEF TypeOK, rebuild, instances, To
<1>0. Len(queue') \in Nat => Len(queue') <= MaxEdits
  <2>1. (LifeInv /\ Len(queue) \in Nat => Len(queue) <= MaxEdits)'
    BY RebuildsCounted, PTL
  <2> QED
    BY <2>1
<1>1. ASSUME Edits PROVE TypeOK'
  <2>1. ASSUME NEW next \in Configs, Applied(next), edits < MaxEdits,
               edits' = edits + 1
        PROVE  TypeOK'
    <3>1. CASE next.core # config.core
      <4>1. queue' \in Seq(Configs) /\ Len(queue') \in Nat
        <5>1. queue' = Append(queue, next)
          BY <2>1, <3>1 DEF Applied
        <5>2. queue \in Seq(Configs)
          OBVIOUS
        <5> QED
          BY ONLY <2>1, <5>1, <5>2, AppendProperties, LenProperties
      <4> QED
        BY <1>0, <2>1, <3>1, <4>1 DEF Applied
    <3>2. CASE next.core = config.core
      <4>1. IsList(next.rows)
        BY RowsClosed DEF Configs
      <4>2. Normalizes(table')
        BY <2>1, <3>2, <4>1, KeptIsNormal DEF Applied
      <4> QED
        BY <2>1, <3>2, <4>2 DEF Applied
    <3> QED
      BY <3>1, <3>2
  <2>2. CASE Import
    <3> DEFINE next == [config EXCEPT !.rows = MergeWorkspaces(@, Workspaces)]
    <3>1. next \in Configs
      BY RowsClosed DEF Configs
    <3>2. Applied(next) /\ edits < MaxEdits /\ edits' = edits + 1
      BY <2>2 DEF Import
    <3> HIDE DEF next
    <3> QED
      BY <2>1, <3>1, <3>2
  <2>3. CASE \E next \in [core : Cores, rows : Tables] : Edit(next)
    <3>1. PICK next \in [core : Cores, rows : Tables] : Edit(next)
      BY <2>3
    <3>2. next \in Configs
      <4>1. Tables \subseteq Rows
        BY DEF Rows
      <4> QED
        BY <4>1 DEF Configs
    <3> QED
      BY <2>1, <3>1, <3>2 DEF Edit
  <2> QED
    BY <1>1, <2>2, <2>3 DEF Edits
<1>2. ASSUME RebuildBegins PROVE TypeOK'
  <2>1. /\ queue' \in Seq(Configs) /\ Len(queue') \in Nat
        /\ target' \in Configs
    BY <1>2, HeadTailProperties, EmptySeq, LenProperties DEF RebuildBegins
  <2> QED
    BY <1>0, <1>2, <2>1 DEF RebuildBegins, Stopping, Stages
<1>3. ASSUME RebuildBuilds PROVE TypeOK'
  <2>1. current' = current + 1 /\ current' \in Ids
    BY <1>3 DEF RebuildBuilds, Built, LifeInv, LifeTypes
  <2>2. Normalizes(table') /\ core' = [core EXCEPT ![current'] = target.core]
    BY <1>3 DEF RebuildBuilds, Built, Buildable
  <2>3. stage' = [stage EXCEPT ![current'] = "binding"]
    BY <1>3 DEF RebuildBuilds, Built
  <2>4. \A i \in Ids : stage'[i] = "unbuilt" <=> i > current'
    BY <2>1, <2>3 DEF Ids, Stages
  <2>5. core' \in [Ids -> Cores] /\ stage' \in [Ids -> Stages]
    BY <2>2, <2>3 DEF Configs, Stages
  <2>6. /\ phase' = "starting" /\ started' = FALSE
        /\ UNCHANGED <<config, edits, queue, target, attempt, graced, closing,
                       loaded, foreign>>
    BY <1>3 DEF RebuildBuilds
  <2> QED
    BY <2>1, <2>2, <2>4, <2>5, <2>6
<1>4. ASSUME RebuildRefused PROVE TypeOK'
  BY <1>4 DEF RebuildRefused
<1>5. ASSUME Unload PROVE TypeOK'
  BY <1>5 DEF Unload, Stopping, Stages
<1>6. ASSUME NEW i \in Ids, BindSucceeds(i) PROVE TypeOK'
  BY <1>6 DEF BindSucceeds, Bound, RebuildGoesOn, StartSucceeds, Stages
<1>7. ASSUME NEW i \in Ids, BindRefused(i) PROVE TypeOK'
  <2>1. CASE stage' = [stage EXCEPT ![i] = "grace"]
             /\ UNCHANGED <<attempt, phase, started>>
    BY <1>7, <2>1 DEF BindRefused, Stages
  <2>2. CASE /\ attempt[i] < PortRetries
             /\ attempt' = [attempt EXCEPT ![i] = @ + 1]
             /\ UNCHANGED <<stage, phase, started>>
    BY <1>7, <2>2 DEF BindRefused
  <2>3. CASE stage' = [stage EXCEPT ![i] = "failed"] /\ StartFails(i)
             /\ UNCHANGED attempt
    BY <1>7, <2>3 DEF BindRefused, StartFails, RebuildGoesOn, Stages
  <2> QED
    BY <1>7, <2>1, <2>2, <2>3 DEF BindRefused
<1>8. ASSUME NEW i \in Ids, BindFails(i) PROVE TypeOK'
  BY <1>8 DEF BindFails, StartFails, RebuildGoesOn, Stages
<1>9. ASSUME NEW i \in Ids, GraceOver(i) PROVE TypeOK'
  BY <1>9 DEF GraceOver, Stages
<1>10. ASSUME NEW i \in Ids, Released(i) PROVE TypeOK'
  BY <1>10 DEF Released, Stages
<1>11. ASSUME OthersBind \/ OthersRelease \/ UNCHANGED vars PROVE TypeOK'
  BY <1>11 DEF OthersBind, OthersRelease, vars
<1> QED
  BY <1>1, <1>2, <1>3, <1>4, <1>5, <1>6, <1>7, <1>8, <1>9, <1>10,
     <1>11
     DEF Next, Rebuilds, Binds

(* The settings, the queue of rebuilds and the instances keep their types:  *)
(* in particular no more rebuilds are pending than there were edits, and    *)
(* the node works with a table the strict check accepts, whether it was     *)
(* built with it or had it filtered by a live edit (config.ts:109-156).     *)
THEOREM LifecycleTypesHold == Spec => []TypeOK
BY LifeInit, LifeNext, TypesInit, TypesNext, PTL DEF Spec

(* After any edits and imports: an import keeps a table the node can be     *)
(* built with and has every workspace in it in a way the node can act on,   *)
(* importing again changes nothing, and the strict check accepts just the   *)
(* tables the lenient one keeps whole, for tables and lists of workspaces   *)
(* of every length (config.ts:109-218).                                     *)
THEOREM ImportKeepsTableHolds == Spec => []ImportKeepsTable
<1>1. TypeOK => ImportKeepsTable
  <2> DEFINE rows == MergeWorkspaces(config.rows, Workspaces)
  <2> SUFFICES ASSUME TypeOK
               PROVE  /\ Normalizes(config.rows)
                             <=> ValidProjects(config.rows) = config.rows
                      /\ MergeWorkspaces(rows, Workspaces) = rows
                      /\ Normalizes(config.rows) =>
                            /\ Normalizes(rows)
                            /\ {Workspaces[k].path : k \in DOMAIN Workspaces}
                                   \subseteq PathsOf(ValidProjects(rows))
    BY DEF ImportKeepsTable
  <2>1. config.rows \in Rows
    BY DEF TypeOK, Configs
  <2>2. IsList(config.rows) /\ MergeWorkspaces(rows, Workspaces) = rows
    BY <2>1, RowsClosed
  <2>3. /\ IsList(rows)
        /\ \A k \in DOMAIN Workspaces : Workspaces[k].path \in PathsOf(rows)
        /\ Normalizes(config.rows) => Normalizes(rows)
    BY <2>2, WorkspacesAreListed, MergeImports
  <2> HIDE DEF rows
  <2>4. Normalizes(rows) => ValidProjects(rows) = rows
    BY <2>3, NormalIsKept
  <2>5. {Workspaces[k].path : k \in DOMAIN Workspaces} \subseteq PathsOf(rows)
    BY <2>3
  <2> QED
    BY <2>2, <2>3, <2>4, <2>5, StrictAcceptsWhatLenientKeeps
<1> QED
  BY <1>1, LifecycleTypesHold, PTL
=============================================================================
