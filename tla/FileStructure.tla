---------------------------- MODULE FileStructure -----------------------------
(***************************************************************************)
(* The tree of files of a virtual card (pcscproxy/FileStructure.cpp), as   *)
(* functions of the list of files in the virtual card file.  A File is its *)
(* path: the ids on the way down from the root, which is the empty path.   *)
(* An entry of the list that does not parse, or that is not below the      *)
(* root, has the empty path.  A search returns the set of the file found.  *)
(***************************************************************************)
EXTENDS Naturals, FiniteSetsExt, SequencesExt

CONSTANTS
  FIDs,           \* file ids
  DirIds,         \* those that start with 3F or DF
  ROOT_ID,        \* 3F00
  BELPIC_DIR_ID   \* DF00

\* Lengths of the two application ids, for the applet and for the belpic directory.
AppletAidLen == 15
BelpicAidLen == 12

\* How many entries are added: addAll() stops at the first one it cannot add.
addAll(files) ==
  LET bad == {i \in DOMAIN files : files[i].path = <<>>}
  IN  IF bad = {} THEN Len(files) ELSE Min(bad) - 1

\* Each entry creates the directories on its path that are not there yet.
Nodes(files) == {<<>>} \union UNION {Prefixes(files[i].path) : i \in DOMAIN files}

\* A new file goes to the end of its directory: the order of the first entries through it.
First(files, n) == Min({i \in DOMAIN files : IsPrefix(n, files[i].path)})

Children(files, d) == {n \in Nodes(files) : Len(n) = Len(d) + 1 /\ IsPrefix(d, n)}

isDir(n) == n = <<>> \/ Last(n) \in DirIds

\* The content of a later entry with the same path replaces that of an earlier one, a
\* directory made on the way has none.
Size(files, n) ==
  LET entries == {i \in DOMAIN files : files[i].path = n}
  IN  IF entries = {} THEN 0 ELSE files[Max(entries)].size

-----------------------------------------------------------------------------
\* Mutant: a child with the id is taken before any file further down.
searchIdChildrenFirst(files, d, id) ==
  LET hits == {c \in Nodes(files) : IsStrictPrefix(d, c) /\ Last(c) = id}
  IN  {c \in hits : \A e \in hits : Len(c) <= Len(e)}

\* The children are tried in their order, each before and together with what is below it.
searchId(files, d, id) ==
  LET found[n \in Nodes(files)] ==
        LET hits == {c \in Children(files, n) : Last(c) = id \/ found[c] # {}}
        IN  UNION {IF Last(c) = id THEN {c} ELSE found[c] :
                     c \in {h \in hits : \A e \in hits : First(files, h) <= First(files, e)}}
  IN  found[d]

\* The request may be longer than the application id it begins with.
searchAid(files, aid, len) ==
  IF aid = "applet" /\ len >= AppletAidLen THEN {<<>>}
  ELSE IF aid = "belpic" /\ len >= BelpicAidLen THEN searchId(files, <<>>, BELPIC_DIR_ID)
  ELSE {}

searchPath(files, path) == {path} \intersect (Nodes(files) \ {<<>>})

-----------------------------------------------------------------------------
\* The file selected, if any, when the one at n is selected before.
selectByFID(files, n, id) ==
  IF id = ROOT_ID THEN {<<>>} ELSE searchId(files, IF isDir(n) THEN n ELSE Front(n), id)

\* Reference: p comes before q when the tree is walked from the top, directory by directory.
Before(files, p, q) ==
  \/ IsStrictPrefix(p, q)
  \/ \E k \in 1 .. Len(p) :
       /\ k <= Len(q)
       /\ SubSeq(p, 1, k - 1) = SubSeq(q, 1, k - 1)
       /\ First(files, SubSeq(p, 1, k)) < First(files, SubSeq(q, 1, k))

\* Reference: the first file below d with the id.
FirstBelow(files, d, id) ==
  LET hits == {n \in Nodes(files) : IsStrictPrefix(d, n) /\ Last(n) = id}
  IN  {n \in hits : \A m \in hits \ {n} : Before(files, n, m)}
==============================================================================
