--------------------------- MODULE ClipboardProofs ---------------------------
(***************************************************************************)
(* Proofs about Clipboard: its type invariant; as long as no entry comes   *)
(* to a path that another one has left and no failed extraction is taken   *)
(* again, that other programs find the contents of the entries; and, as    *)
(* long as five other mishaps do not come about, that no operation uses    *)
(* what is gone or ends half-way.                                          *)
(***************************************************************************)
EXTENDS Clipboard, SequenceTheorems, FiniteSetTheorems, TLAPS

(***************************************************************************)
(* Paths.  A folder's has names of folders; a file's has one name more.    *)
(***************************************************************************)
FolderTitles == FolderNames \X Nat
EntryTitles == FileNames \X Nat
Paths == Seq(FolderTitles \union EntryTitles)

IsFolderPath(p) == p \in Seq(FolderTitles)
IsFilePath(p) ==
  /\ p \in Paths /\ Len(p) >= 1
  /\ \A k \in 1 .. Len(p): k < Len(p) => p[k] \in FolderTitles
  /\ p[Len(p)] \in EntryTitles

\* A prefix, element by element.
LEMMA PrefixIsBeginning ==
  ASSUME NEW S, NEW a \in Seq(S), NEW b \in Seq(S)
  PROVE  IsPrefix(a, b) <=>
           Len(a) <= Len(b) /\ \A i \in 1 .. Len(a): a[i] = b[i]
<1>1. Len(a) \in Nat /\ Len(b) \in Nat
  BY LenProperties
<1>2. CASE Len(a) <= Len(b)
  <2>. DEFINE c == SubSeq(b, 1, Len(a))
  <2>1. SubSeq(a, 1, Len(a)) = a
    BY SubSeqFull
  <2>2. c \in Seq(S) /\ Len(c) = Len(a) /\ \A i \in 1 .. Len(a): c[i] = b[i]
    <3>1. \A i \in 1 .. Len(a): b[i] \in S
      BY <1>1, <1>2, ElementOfSeq
    <3>2. 1 \in Int /\ Len(a) \in Int
      BY <1>1
    <3>. QED
      BY <1>1, <3>1, <3>2, SubSeqProperties
  <2>. HIDE DEF c
  <2>3. a = c <=> \A i \in 1 .. Len(a): a[i] = c[i]
    BY <2>2, SeqEqual
  <2>. QED
    BY <1>2, <2>1, <2>2, <2>3 DEF IsPrefix, c
<1>3. CASE ~(Len(a) <= Len(b))
  BY <1>3 DEF IsPrefix
<1>. QED
  BY <1>2, <1>3

\* No title is one of a folder and of a file.
LEMMA TitlesDiffer == FolderTitles \cap EntryTitles = {}
BY NamesAssumption DEF FolderTitles, EntryTitles

LEMMA FolderPathIsPath ==
  ASSUME NEW p, IsFolderPath(p)
  PROVE  p \in Paths
BY SeqMonotonic DEF IsFolderPath, Paths

\* Nothing has the path of a file for the beginning of its own, but the file.
LEMMA NothingBelowFilePath ==
  ASSUME NEW p, NEW q, IsFilePath(p), IsFilePath(q) \/ IsFolderPath(q),
         IsPrefix(p, q)
  PROVE  p = q
<1>1. p \in Paths /\ q \in Paths
  BY FolderPathIsPath DEF IsFilePath
<1>2. Len(p) <= Len(q) /\ \A i \in 1 .. Len(p): p[i] = q[i]
  BY <1>1, PrefixIsBeginning DEF Paths
<1>3. Len(p) \in Nat /\ Len(q) \in Nat
  BY <1>1, LenProperties DEF Paths
<1>4. p[Len(p)] \in EntryTitles /\ Len(p) \in 1 .. Len(p)
  BY <1>3 DEF IsFilePath
<1>5. Len(p) = Len(q)
  <2>1. Len(p) \in 1 .. Len(q) /\ q[Len(p)] \in EntryTitles
    BY <1>2, <1>3, <1>4
  <2>2. q[Len(p)] \notin FolderTitles
    BY <2>1, TitlesDiffer
  <2>3. ~IsFolderPath(q)
    BY <2>1, <2>2, ElementOfSeq DEF IsFolderPath
  <2>. QED
    BY <1>2, <1>3, <2>1, <2>2, <2>3 DEF IsFilePath
<1>. QED
  BY <1>1, <1>2, <1>5, SeqEqual DEF Paths

\* The paths of the folders a path goes through.
LEMMA FoldersOnTheWay ==
  ASSUME NEW p, IsFilePath(p), NEW k \in 1 .. Len(p) - 1
  PROVE  IsFolderPath(SubSeq(p, 1, k)) /\ Len(SubSeq(p, 1, k)) = k
<1>1. Len(p) \in Nat /\ k \in Int /\ 1 \in Int
  BY LenProperties DEF IsFilePath, Paths
<1>2. \A i \in 1 .. k: p[i] \in FolderTitles
  BY <1>1 DEF IsFilePath
<1>. QED
  BY <1>1, <1>2, SubSeqProperties DEF IsFolderPath

LEMMA BeginningOfFilePath ==
  ASSUME NEW p, IsFilePath(p)
  PROVE  /\ Front(p) \in Seq(FolderTitles)
         /\ Len(Front(p)) = Len(p) - 1
<1>. DEFINE n == Len(p) - 1
<1>1. Len(p) \in Nat /\ 1 \in Int /\ n \in Int /\ n >= 0
  BY LenProperties DEF IsFilePath, Paths
<1>2. \A i \in 1 .. n: p[i] \in FolderTitles
  BY <1>1 DEF IsFilePath
<1>3. Front(p) = SubSeq(p, 1, n)
  BY DEF Front
<1>4. Front(p) \in Seq(FolderTitles) /\ Len(Front(p)) = n
  <2>. HIDE DEF n
  <2>. QED
    BY <1>1, <1>2, <1>3, SubSeqProperties
<1>. QED
  BY <1>4

\* Below a folder there may be a file.
LEMMA PathBelowFolder ==
  ASSUME NEW d, NEW p, IsFolderPath(d), IsFilePath(p)
  PROVE  IsFilePath(d \o p) /\ Len(d \o p) = Len(d) + Len(p)
<1>1. d \in Paths /\ p \in Paths
  BY FolderPathIsPath DEF IsFilePath
<1>2. Len(d) \in Nat /\ Len(p) \in Nat /\ Len(p) >= 1
  BY <1>1, LenProperties DEF Paths, IsFilePath
<1>3. /\ d \o p \in Paths /\ Len(d \o p) = Len(d) + Len(p)
      /\ \A i \in 1 .. Len(d) + Len(p):
           (d \o p)[i] = IF i <= Len(d) THEN d[i] ELSE p[i - Len(d)]
  BY <1>1, ConcatProperties DEF Paths
<1>. DEFINE q == d \o p
<1>. HIDE DEF q
<1>4. ASSUME NEW k \in 1 .. Len(q), k < Len(q)
      PROVE  q[k] \in FolderTitles
  <2>1. CASE k <= Len(d)
    <3>1. k \in 1 .. Len(d)
      BY <1>2, <2>1
    <3>. QED
      BY <1>2, <1>3, <2>1, <3>1, ElementOfSeq DEF q, IsFolderPath
  <2>2. CASE ~(k <= Len(d))
    <3>1. k - Len(d) \in 1 .. Len(p) /\ k - Len(d) < Len(p)
      BY <1>2, <1>3, <1>4, <2>2 DEF q
    <3>. QED
      BY <1>2, <1>3, <2>2, <3>1 DEF q, IsFilePath
  <2>. QED
    BY <2>1, <2>2
<1>5. q[Len(q)] \in EntryTitles
  <2>1. Len(q) \in 1 .. Len(d) + Len(p) /\ ~(Len(q) <= Len(d)) /\ Len(q) - Len(d) = Len(p)
    BY <1>2, <1>3 DEF q
  <2>. QED
    BY <1>3, <2>1 DEF q, IsFilePath
<1>. QED
  BY <1>2, <1>3, <1>4, <1>5 DEF IsFilePath, q

\* A file under another title is a file.
LEMMA Retitled ==
  ASSUME NEW p, NEW t \in EntryTitles, IsFilePath(p)
  PROVE  /\ IsFilePath(Front(p) \o <<t>>)
         /\ Len(Front(p) \o <<t>>) = Len(p)
<1>1. /\ <<t>> \in Seq(FolderTitles \union EntryTitles) /\ Len(<<t>>) = 1
      /\ <<t>>[1] = t
  OBVIOUS
<1>2. IsFilePath(<<t>>)
  BY <1>1 DEF IsFilePath, Paths
<1>3. Len(p) \in Nat
  BY LenProperties DEF IsFilePath, Paths
<1>. QED
  BY <1>1, <1>2, <1>3, BeginningOfFilePath, PathBelowFolder DEF IsFolderPath

\* What is left of the path of a file when its beginning is taken off.
LEMMA EndOfFilePath ==
  ASSUME NEW p, IsFilePath(p), NEW k \in 1 .. Len(p)
  PROVE  IsFilePath(SubSeq(p, k, Len(p)))
<1>. DEFINE n == Len(p)
            q == SubSeq(p, k, n)
<1>1. n \in Nat /\ k \in Int /\ n \in Int /\ k <= n /\ k \in Nat
  BY LenProperties DEF IsFilePath, Paths
<1>2. \A i \in k .. n: i \in 1 .. n /\ p[i] \in FolderTitles \union EntryTitles
  BY <1>1 DEF IsFilePath
<1>. HIDE DEF n
<1>3. /\ q \in Paths /\ Len(q) = n - k + 1
      /\ \A i \in 1 .. n - k + 1: q[i] = p[k + i - 1]
  BY <1>1, <1>2, SubSeqProperties DEF Paths
<1>. HIDE DEF q
<1>4. ASSUME NEW i \in 1 .. Len(q), i < Len(q)
      PROVE  q[i] \in FolderTitles
  <2>1. k + i - 1 \in 1 .. n /\ k + i - 1 < n
    BY <1>1, <1>3, <1>4
  <2>. QED
    BY <1>3, <2>1 DEF IsFilePath, n
<1>5. q[Len(q)] \in EntryTitles
  <2>1. k + (n - k + 1) - 1 = n /\ n - k + 1 \in 1 .. n - k + 1
    BY <1>1
  <2>2. q[n - k + 1] = p[n]
    BY <1>3, <2>1
  <2>. QED
    BY <1>3, <2>2 DEF IsFilePath, n
<1>. QED
  BY <1>1, <1>3, <1>4, <1>5 DEF IsFilePath, q, n

(***************************************************************************)
(* Nodes, and what they are kept in while an operation works on them.      *)
(***************************************************************************)
Sources == [layout: 0 .. MaxLayouts, bytes: Bytes \union {Garbage}]

NodeOK(x) ==
  /\ x \in [path: Paths, src: Sources \union {NoSource}]
  /\ Len(x.path) \in 1 .. MaxDepth
  /\ IF x.src = NoSource THEN IsFolderPath(x.path) ELSE IsFilePath(x.path)

\* No two nodes have one path.
NodesOK(ns) ==
  /\ DOMAIN ns \subseteq 1 .. MaxNodes
  /\ \A n \in DOMAIN ns: NodeOK(ns[n])
  /\ \A m, n \in DOMAIN ns: ns[m].path = ns[n].path => m = n

\* The pointers d point to nodes, or to what is gone.
Held(ns, d) ==
  d \in Seq(Nat) /\ \A i \in DOMAIN d: d[i] \in {Gone} \union DOMAIN ns

IsScene(s) ==
  s \in [nodes: {s.nodes}, temp: {s.temp}, exec: {s.exec},
         delete: {s.delete}, removed: {s.removed}, outcome: {s.outcome}]

SceneOK(s) ==
  /\ IsScene(s)
  /\ NodesOK(s.nodes)
  /\ Held(s.nodes, s.delete)
  /\ s.outcome \in {"done", "thrown", "dangling", "full"}

\* f is what is left of g.
LeftOf(f, g) == DOMAIN f \subseteq DOMAIN g /\ \A x \in DOMAIN f: f[x] = g[x]

Cached(s) == DOMAIN s.temp \union DOMAIN s.exec

\* A file that is new in the scene s has a path that no file had at its
\* beginning b, or nothing that was extracted at that path is left.
Arrived(b, s) ==
  \A n \in FilesOf(s.nodes):
    \/ n \in FilesOf(b.nodes) /\ s.nodes[n] = b.nodes[n]
    \/ s.nodes[n].path \notin FilePaths(b.nodes) \intersect Cached(s)

Settled(b, s) ==
  /\ SceneOK(s)
  /\ LeftOf(s.temp, b.temp) /\ LeftOf(s.exec, b.exec)
  /\ s.outcome # "full" => Arrived(b, s)

\* While entries are inserted, there is always one at the path of another.
Inserted(b, s) ==
  /\ Settled(b, s)
  /\ s.outcome # "full" => FilePaths(b.nodes) \subseteq FilePaths(s.nodes)

LEMMA NoSourceIsNone == NoSource \notin Sources
BY DEF NoSource, Sources

LEMMA ConstantsAreNumbers ==
  /\ MaxNodes \in Nat \ {0} /\ MaxDepth \in Nat \ {0} /\ MaxCopy \in Nat \ {0}
  /\ MaxLayouts \in Nat \ {0} /\ MaxTurns \in Nat \ {0}
BY BoundsAssumption

LEMMA PathsAreSequences ==
  ASSUME NEW ns, NodesOK(ns), NEW n \in DOMAIN ns
  PROVE  /\ ns[n].path \in Paths /\ Len(ns[n].path) \in 1 .. MaxDepth
         /\ n \in FilesOf(ns) => IsFilePath(ns[n].path) /\ ns[n].src \in Sources
         /\ n \notin FilesOf(ns) => IsFolderPath(ns[n].path)
BY DEF NodesOK, NodeOK, FilesOf

\* Below a file there is only the file.
LEMMA FilesAreLeaves ==
  ASSUME NEW ns, NodesOK(ns), NEW n \in FilesOf(ns)
  PROVE  Below(ns, {n}) = {n} /\ FilesBelow(ns, {n}) = {n}
<1>1. n \in DOMAIN ns
  BY DEF FilesOf
<1>2. ASSUME NEW m \in DOMAIN ns, IsPrefix(ns[n].path, ns[m].path)
      PROVE  m = n
  <2>1. IsFilePath(ns[n].path)
    BY <1>1, PathsAreSequences
  <2>2. IsFilePath(ns[m].path) \/ IsFolderPath(ns[m].path)
    BY <1>2, PathsAreSequences
  <2>3. ns[n].path = ns[m].path
    BY <1>2, <2>1, <2>2, NothingBelowFilePath
  <2>. QED
    BY <1>1, <1>2, <2>3 DEF NodesOK
<1>3. IsPrefix(ns[n].path, ns[n].path)
  <2>1. ns[n].path \in Paths
    BY <1>1, PathsAreSequences
  <2>2. Len(ns[n].path) \in Nat
    BY <2>1, LenProperties DEF Paths
  <2>. QED
    BY <2>1, <2>2, PrefixIsBeginning DEF Paths
<1>4. Below(ns, {n}) = {n}
  BY <1>1, <1>2, <1>3 DEF Below
<1>. QED
  BY <1>4 DEF FilesBelow

\* A node that is removed leaves the others as they are.
LEMMA RemovalSettles ==
  ASSUME NEW b, NEW s, NEW S, Settled(b, s)
  PROVE  LET r == RemoveNodes(s, S)
         IN  /\ Settled(b, r)
             /\ r.nodes = Without(s.nodes, S)
             /\ r.temp = s.temp /\ r.exec = s.exec /\ r.outcome = s.outcome
<1>. DEFINE r == RemoveNodes(s, S)
<1>1. IsScene(s)
  BY DEF Settled, SceneOK
<1>2. /\ r.nodes = Without(s.nodes, S)
      /\ r.temp = s.temp /\ r.exec = s.exec /\ r.outcome = s.outcome
      /\ r.delete = [i \in DOMAIN s.delete |->
                       IF s.delete[i] \in S THEN Gone ELSE s.delete[i]]
      /\ IsScene(r)
  BY <1>1 DEF IsScene, RemoveNodes
<1>. HIDE DEF r
<1>3. /\ DOMAIN r.nodes = DOMAIN s.nodes \ S
      /\ \A n \in DOMAIN r.nodes: r.nodes[n] = s.nodes[n]
  BY <1>2 DEF Without
<1>4. NodesOK(r.nodes)
  <2>1. NodesOK(s.nodes)
    BY DEF Settled, SceneOK
  <2>. QED
    BY <1>3, <2>1 DEF NodesOK
<1>5. Held(r.nodes, r.delete)
  <2>1. Held(s.nodes, s.delete)
    BY DEF Settled, SceneOK
  <2>2. s.delete \in Seq(Nat)
    BY <2>1 DEF Held
  <2>3. Len(s.delete) \in Nat /\ DOMAIN s.delete = 1 .. Len(s.delete)
    BY <2>2, LenProperties
  <2>4. \A i \in DOMAIN s.delete: s.delete[i] \in Nat
    BY <2>2, <2>3, ElementOfSeq
  <2>5. r.delete \in Seq(Nat)
    <3>1. \A i \in 1 .. Len(s.delete): r.delete[i] \in Nat
      BY <1>2, <2>3, <2>4 DEF Gone
    <3>2. r.delete \in [1 .. Len(s.delete) -> Nat]
      BY <1>2, <2>3, <3>1
    <3>. QED
      BY <2>3, <3>2
  <2>6. \A i \in DOMAIN r.delete: r.delete[i] \in {Gone} \union DOMAIN r.nodes
    BY <1>2, <1>3, <2>1 DEF Held
  <2>. QED
    BY <2>5, <2>6 DEF Held
<1>6. ASSUME Arrived(b, s)
      PROVE  Arrived(b, r)
  <2>1. \A n \in FilesOf(r.nodes): n \in FilesOf(s.nodes) /\ r.nodes[n] = s.nodes[n]
    BY <1>3 DEF FilesOf
  <2>. QED
    BY <1>2, <1>6, <2>1 DEF Arrived, Cached
<1>. QED
  BY <1>2, <1>4, <1>5, <1>6 DEF Settled, SceneOK, r

(***************************************************************************)
(* Entries that are put in.                                                *)
(***************************************************************************)

\* The folders of a path, one after the other.
Descend(c, d, k) == PutFolder(d, SubSeq(c.path, 1, k))

AllTheWay(c, d, k) ==
  Inserted(c.b, d) /\ d.temp = c.s.temp /\ d.exec = c.s.exec

Descent == INSTANCE Iteration WITH Step <- Descend, Good <- AllTheWay

LEMMA MinIsThere ==
  ASSUME NEW S, S \subseteq Nat, S # {}
  PROVE  Min(S) \in S
<1>1. PICK x \in S: \A y \in S: x <= y
  BY Descent!LeastIsThere
<1>. QED
  BY <1>1 DEF Min

Enlarged(ns, id, path, src) ==
  [n \in DOMAIN ns \union {id} |-> IF n = id THEN [path |-> path, src |-> src]
                                   ELSE ns[n]]

\* Either there is no room for a node, or it gets an id that no node has or had.
LEMMA PutIsOneMore ==
  ASSUME NEW s, NEW path, NEW src
  PROVE  \/ Put(s, path, src) = [s EXCEPT !.outcome = "full"]
         \/ /\ Len(path) \in Nat => Len(path) <= MaxDepth
            /\ \E id \in (1 .. MaxNodes) \ (DOMAIN s.nodes \union s.removed):
                 Put(s, path, src) = [s EXCEPT !.nodes = Enlarged(@, id, path, src)]
<1>. DEFINE F == FreeIds(s)
<1>1. F \subseteq (1 .. MaxNodes) \ (DOMAIN s.nodes \union s.removed)
  BY DEF FreeIds
<1>. HIDE DEF F
<1>2. CASE F = {} \/ Len(path) > MaxDepth
  BY <1>2 DEF Put, F
<1>3. CASE ~(F = {} \/ Len(path) > MaxDepth)
  <2>1. F \subseteq Nat
    BY <1>1
  <2>2. Min(F) \in F
    BY <1>3, <2>1, MinIsThere
  <2>3. Put(s, path, src) = [s EXCEPT !.nodes = Enlarged(@, Min(F), path, src)]
    BY <1>3 DEF Put, F, Enlarged
  <2>4. Len(path) \in Nat => Len(path) <= MaxDepth
    BY <1>3, ConstantsAreNumbers
  <2>. QED
    BY <1>1, <2>2, <2>3, <2>4
<1>. QED
  BY <1>2, <1>3

MayBePut(path, src) ==
  \/ IsFolderPath(path) /\ Len(path) >= 1 /\ src = NoSource
  \/ IsFilePath(path) /\ src \in Sources

LEMMA EnlargedNodesOK ==
  ASSUME NEW ns, NodesOK(ns), NEW path, NEW src, MayBePut(path, src),
         At(ns, path) = {}, Len(path) \in Nat => Len(path) <= MaxDepth,
         NEW id \in (1 .. MaxNodes) \ DOMAIN ns
  PROVE  LET r == Enlarged(ns, id, path, src)
         IN  /\ NodesOK(r)
             /\ DOMAIN r = DOMAIN ns \union {id}
             /\ r[id] = [path |-> path, src |-> src]
             /\ \A n \in DOMAIN ns: r[n] = ns[n]
<1>. DEFINE r == Enlarged(ns, id, path, src)
<1>1. /\ DOMAIN r = DOMAIN ns \union {id}
      /\ r[id] = [path |-> path, src |-> src]
      /\ \A n \in DOMAIN ns: r[n] = ns[n]
  BY DEF Enlarged
<1>. HIDE DEF r
<1>2. path \in Paths
  BY FolderPathIsPath DEF MayBePut, IsFilePath
<1>3. Len(path) \in 1 .. MaxDepth
  <2>1. Len(path) \in Nat /\ Len(path) >= 1
    BY <1>2, LenProperties DEF MayBePut, IsFilePath, Paths
  <2>. QED
    BY <2>1, ConstantsAreNumbers
<1>4. NodeOK([path |-> path, src |-> src])
  BY <1>2, <1>3, NoSourceIsNone DEF MayBePut, NodeOK
<1>5. \A n \in DOMAIN r: NodeOK(r[n])
  BY <1>1, <1>4 DEF NodesOK
<1>6. ASSUME NEW m \in DOMAIN r, NEW n \in DOMAIN r, r[m].path = r[n].path
      PROVE  m = n
  <2>1. \A k \in DOMAIN ns: ns[k].path # path
    BY DEF At
  <2>2. r[id].path = path
    BY <1>1
  <2>. QED
    BY <1>1, <1>6, <2>1, <2>2 DEF NodesOK
<1>7. DOMAIN r \subseteq 1 .. MaxNodes
  BY <1>1 DEF NodesOK
<1>. QED
  BY <1>1, <1>5, <1>6, <1>7 DEF NodesOK, r

\* A folder may be put in anywhere, a file where nothing that was extracted of
\* another one is left.
LEMMA PutSettles ==
  ASSUME NEW b, NEW s, NEW path, NEW src, Settled(b, s), MayBePut(path, src),
         At(s.nodes, path) = {},
         src # NoSource => path \notin FilePaths(b.nodes) \intersect Cached(s)
  PROVE  LET r == Put(s, path, src)
         IN  /\ Settled(b, r)
             /\ r.temp = s.temp /\ r.exec = s.exec
             /\ \/ r.outcome = "full"
                \/ /\ r.outcome = s.outcome
                   /\ FilePaths(s.nodes) \subseteq FilePaths(r.nodes)
                   /\ src # NoSource => path \in FilePaths(r.nodes)
<1>. DEFINE r == Put(s, path, src)
<1>1. /\ IsScene(s) /\ NodesOK(s.nodes) /\ Held(s.nodes, s.delete)
      /\ LeftOf(s.temp, b.temp) /\ LeftOf(s.exec, b.exec)
      /\ s.outcome \in {"done", "thrown", "dangling", "full"}
  BY DEF Settled, SceneOK
<1>2. CASE r = [s EXCEPT !.outcome = "full"]
  <2>1. /\ IsScene(r) /\ r.nodes = s.nodes /\ r.delete = s.delete
        /\ r.temp = s.temp /\ r.exec = s.exec /\ r.outcome = "full"
    BY <1>1, <1>2 DEF IsScene
  <2>. HIDE DEF r
  <2>2. Settled(b, r)
    BY <1>1, <2>1 DEF Settled, SceneOK
  <2>. QED
    BY <2>1, <2>2 DEF r
<1>3. CASE /\ Len(path) \in Nat => Len(path) <= MaxDepth
           /\ \E id \in (1 .. MaxNodes) \ DOMAIN s.nodes:
                r = [s EXCEPT !.nodes = Enlarged(@, id, path, src)]
  <2>1. PICK id \in (1 .. MaxNodes) \ DOMAIN s.nodes:
          r = [s EXCEPT !.nodes = Enlarged(@, id, path, src)]
    BY <1>3
  <2>2. /\ IsScene(r) /\ r.nodes = Enlarged(s.nodes, id, path, src)
        /\ r.delete = s.delete
        /\ r.temp = s.temp /\ r.exec = s.exec /\ r.outcome = s.outcome
    BY <1>1, <2>1 DEF IsScene
  <2>. HIDE DEF r
  <2>3. /\ NodesOK(r.nodes)
        /\ DOMAIN r.nodes = DOMAIN s.nodes \union {id}
        /\ r.nodes[id] = [path |-> path, src |-> src]
        /\ \A n \in DOMAIN s.nodes: r.nodes[n] = s.nodes[n]
    <3>. DEFINE ns == s.nodes
                e == Enlarged(ns, id, path, src)
    <3>1. NodesOK(ns) /\ id \in (1 .. MaxNodes) \ DOMAIN ns /\ At(ns, path) = {}
      BY <1>1
    <3>. HIDE DEF ns
    <3>2. /\ NodesOK(e)
          /\ DOMAIN e = DOMAIN ns \union {id}
          /\ e[id] = [path |-> path, src |-> src]
          /\ \A n \in DOMAIN ns: e[n] = ns[n]
      BY <1>3, <3>1, EnlargedNodesOK
    <3>. QED
      BY <2>2, <3>2 DEF ns
  <2>4. Held(r.nodes, r.delete)
    BY <1>1, <2>2, <2>3 DEF Held
  <2>5. /\ r.nodes[id].path = path /\ r.nodes[id].src = src
        /\ \A n \in FilesOf(r.nodes): n = id \/ n \in FilesOf(s.nodes)
        /\ \A n \in FilesOf(s.nodes): n \in FilesOf(r.nodes) /\ r.nodes[n] = s.nodes[n]
        /\ id \in FilesOf(r.nodes) <=> src # NoSource
    BY <2>3 DEF FilesOf
  <2>6. ASSUME Arrived(b, s)
        PROVE  Arrived(b, r)
    BY <2>2, <2>5, <2>6 DEF Arrived, Cached
  <2>7. Settled(b, r)
    BY <1>1, <2>2, <2>3, <2>4, <2>6 DEF Settled, SceneOK
  <2>8. /\ FilePaths(s.nodes) \subseteq FilePaths(r.nodes)
        /\ src # NoSource => path \in FilePaths(r.nodes)
    BY <2>5 DEF FilePaths, PathsOf
  <2>. QED
    BY <2>2, <2>7, <2>8 DEF r
<1>. QED
  BY <1>2, <1>3, PutIsOneMore

LEMMA FoldersArePut ==
  ASSUME NEW b, NEW s, NEW path, Inserted(b, s), IsFilePath(path)
  PROVE  LET r == PutFolders(s, path)
         IN  Inserted(b, r) /\ r.temp = s.temp /\ r.exec = s.exec
<1>. DEFINE c == [b |-> b, s |-> s, path |-> path]
            n == Len(path) - 1
            put == CHOOSE g: g = [k \in 0 .. n |->
                                    IF k = 0 THEN s ELSE Descend(c, g[k - 1], k)]
<1>1. n \in Nat
  BY LenProperties DEF IsFilePath, Paths
<1>2. AllTheWay(c, s, 0)
  BY DEF AllTheWay
<1>5. PutFolders(s, path) = put[n]
  BY DEF PutFolders, Descend
<1>6. c.b = b /\ c.s = s /\ c.path = path
  OBVIOUS
<1>. HIDE DEF c, put
<1>3. ASSUME NEW k \in 1 .. n, NEW d, AllTheWay(c, d, k - 1)
      PROVE  AllTheWay(c, Descend(c, d, k), k)
  <2>. DEFINE p == SubSeq(path, 1, k)
  <2>1. IsFolderPath(p) /\ Len(p) >= 1
    BY FoldersOnTheWay
  <2>2. Inserted(b, d) /\ d.temp = s.temp /\ d.exec = s.exec
    BY <1>3, <1>6 DEF AllTheWay
  <2>7. Descend(c, d, k) = PutFolder(d, p)
    BY <1>6 DEF Descend
  <2>. HIDE DEF p
  <2>3. CASE At(d.nodes, p) # {}
    BY <1>6, <2>2, <2>3, <2>7 DEF AllTheWay, PutFolder
  <2>4. CASE At(d.nodes, p) = {}
    <3>. DEFINE r == Put(d, p, NoSource)
    <3>1. MayBePut(p, NoSource) /\ Settled(b, d)
      BY <2>1, <2>2 DEF MayBePut, Inserted
    <3>2. /\ Settled(b, r)
          /\ r.temp = d.temp /\ r.exec = d.exec
          /\ \/ r.outcome = "full"
             \/ /\ r.outcome = d.outcome
                /\ FilePaths(d.nodes) \subseteq FilePaths(r.nodes)
      <4>. DEFINE x == NoSource
      <4>1. MayBePut(p, x) /\ (x # NoSource => p \notin FilePaths(b.nodes) \intersect Cached(d))
        BY <3>1
      <4>. HIDE DEF x
      <4>2. LET q == Put(d, p, x)
            IN  /\ Settled(b, q)
                /\ q.temp = d.temp /\ q.exec = d.exec
                /\ \/ q.outcome = "full"
                   \/ /\ q.outcome = d.outcome
                      /\ FilePaths(d.nodes) \subseteq FilePaths(q.nodes)
                      /\ x # NoSource => p \in FilePaths(q.nodes)
        BY <2>4, <3>1, <4>1, PutSettles
      <4>. QED
        BY <4>2 DEF x
    <3>. HIDE DEF r
    <3>3. Inserted(b, r)
      BY <2>2, <3>2 DEF Inserted
    <3>. QED
      BY <1>6, <2>2, <2>4, <2>7, <3>2, <3>3 DEF AllTheWay, PutFolder, r
  <2>. QED
    BY <2>3, <2>4
<1>4. AllTheWay(c, put[n], n)
  <2>. HIDE DEF n
  <2>. QED
    BY <1>1, <1>2, <1>3, Descent!LoopKeeps DEF put
<1>. QED
  BY <1>4, <1>5, <1>6 DEF AllTheWay

\* The paths that a copy of a file may get.
CopiesOf(path) == {Front(path) \o <<Title(Last(path)[1], k)>>: k \in Nat}

\* A title that no node has is found, since there are more numbers than nodes.
LEMMA CopyIsFree ==
  ASSUME NEW ns, NodesOK(ns), NEW path, IsFilePath(path)
  PROVE  LET p == CopyPath(ns, path)
         IN  IsFilePath(p) /\ At(ns, p) = {} /\ p \in CopiesOf(path)
<1>. DEFINE t == Last(path)[1]
            Copied(k) == Front(path) \o <<Title(t, k)>>
            K == {k \in 1 .. MaxNodes + 1: At(ns, Copied(k)) = {}}
<1>1. t \in FileNames
  BY DEF IsFilePath, Last, EntryTitles
<1>2. ASSUME NEW k \in Nat
      PROVE  /\ IsFilePath(Copied(k)) /\ Len(Copied(k)) = Len(path)
             /\ Copied(k)[Len(path)] = <<t, k>>
  <2>1. Title(t, k) \in EntryTitles /\ Title(t, k) = <<t, k>>
    BY <1>1 DEF Title, EntryTitles
  <2>2. /\ Front(path) \in Seq(FolderTitles \union EntryTitles)
        /\ Len(Front(path)) = Len(path) - 1
    BY BeginningOfFilePath, SeqMonotonic
  <2>3. Len(path) \in Nat /\ Len(path) >= 1
    BY LenProperties DEF IsFilePath, Paths
  <2>. DEFINE u == Title(t, k)
  <2>. HIDE DEF u, t
  <2>4. /\ <<u>> \in Seq(FolderTitles \union EntryTitles) /\ Len(<<u>>) = 1
        /\ <<u>>[1] = u
    BY <2>1 DEF u
  <2>5. (Front(path) \o <<u>>)[Len(path)] = u
    <3>1. Len(path) \in 1 .. Len(Front(path)) + Len(<<u>>) /\ ~(Len(path) <= Len(Front(path)))
          /\ Len(path) - Len(Front(path)) = 1
      BY <2>2, <2>3, <2>4
    <3>. QED
      BY <2>2, <2>4, <3>1, ConcatProperties
  <2>. QED
    BY <2>1, <2>5, Retitled DEF u
<1>. HIDE DEF Copied, t
<1>3. K # {}
  <2>. SUFFICES ASSUME K = {}
                PROVE  FALSE
    OBVIOUS
  <2>. DEFINE S == 1 .. MaxNodes + 1
              T == 1 .. MaxNodes
              f == [k \in S |-> CHOOSE n \in DOMAIN ns: ns[n].path = Copied(k)]
  <2>1. ASSUME NEW k \in S
        PROVE  f[k] \in T /\ f[k] \in DOMAIN ns /\ ns[f[k]].path = Copied(k)
    <3>1. \E n \in DOMAIN ns: ns[n].path = Copied(k)
      BY DEF At
    <3>2. f[k] \in DOMAIN ns /\ ns[f[k]].path = Copied(k)
      BY <3>1
    <3>. QED
      BY <3>2 DEF NodesOK
  <2>2. f \in [S -> T]
    BY <2>1
  <2>3. /\ IsFiniteSet(S) /\ IsFiniteSet(T)
        /\ Cardinality(T) < Cardinality(S)
    <3>1. Cardinality(S) = MaxNodes + 1 /\ IsFiniteSet(S)
      BY FS_Interval, ConstantsAreNumbers
    <3>2. Cardinality(T) = MaxNodes /\ IsFiniteSet(T)
      BY FS_Interval, ConstantsAreNumbers
    <3>. QED
      BY <3>1, <3>2, ConstantsAreNumbers
  <2>. HIDE DEF f
  <2>4. PICK j \in S, k \in S: j # k /\ f[j] = f[k]
    <3>. HIDE DEF S, T
    <3>. QED
      BY <2>2, <2>3, FS_PigeonHole
  <2>5. Copied(j) = Copied(k)
    BY <2>1, <2>4
  <2>6. j \in Nat /\ k \in Nat
    BY ConstantsAreNumbers
  <2>7. <<t, j>> = <<t, k>>
    BY <1>2, <2>5, <2>6
  <2>. QED
    BY <2>4, <2>7
<1>4. K \subseteq Nat /\ \A k \in K: At(ns, Copied(k)) = {}
  BY ConstantsAreNumbers
<1>5. CopyPath(ns, path) = Copied(Min(K))
  BY DEF CopyPath, Copied, t
<1>. HIDE DEF K
<1>6. Min(K) \in K /\ Min(K) \in Nat
  BY <1>3, <1>4, MinIsThere
<1>7. Copied(Min(K)) \in CopiesOf(path)
  BY <1>6 DEF Copied, t, CopiesOf
<1>. QED
  BY <1>2, <1>4, <1>5, <1>6, <1>7

\* createHierarchy keeps the entries that there are, or replaces one of which
\* nothing is left that was extracted.
LEMMA HierarchyIsCreated ==
  ASSUME NEW b, NEW s, NEW path, NEW src, NEW onConflict,
         Inserted(b, s), IsFilePath(path), src \in Sources,
         onConflict = "Replace" => path \notin Cached(s)
  PROVE  LET r == CreateHierarchy(s, path, src, onConflict)
         IN  Inserted(b, r) /\ r.temp = s.temp /\ r.exec = s.exec
<1>. DEFINE r == CreateHierarchy(s, path, src, onConflict)
            f == PutFolders(s, path)
            existing == At(f.nodes, path)
            copied == CopyPath(f.nodes, path)
            Cases ==
              IF f.outcome # "done" THEN f
              ELSE IF existing = {} THEN Put(f, path, src)
              ELSE CASE onConflict = "Replace" ->
                          Put(RemoveNodes(f, existing), path, src)
                     [] onConflict = "Copy"    ->
                          IF Last(copied)[2] > MaxCopy
                          THEN [f EXCEPT !.outcome = "full"]
                          ELSE Put(f, copied, src)
                     [] OTHER                  -> [f EXCEPT !.outcome = "thrown"]
<1>1. /\ Inserted(b, f) /\ Settled(b, f)
      /\ f.temp = s.temp /\ f.exec = s.exec
  BY FoldersArePut DEF Inserted
<1>2. r = Cases
  BY DEF CreateHierarchy
<1>3. src # NoSource /\ MayBePut(path, src)
  BY NoSourceIsNone DEF MayBePut
<1>4. /\ NodesOK(f.nodes) /\ IsScene(f)
      /\ \A n \in DOMAIN f.nodes: f.nodes[n].path = path => n \in FilesOf(f.nodes)
  <2>1. NodesOK(f.nodes) /\ IsScene(f)
    BY <1>1 DEF Settled, SceneOK
  <2>2. ~IsFolderPath(path)
    BY TitlesDiffer, ElementOfSeq DEF IsFilePath, IsFolderPath
  <2>. HIDE DEF f
  <2>. QED
    BY <2>1, <2>2, PathsAreSequences
<1>. HIDE DEF f, r
<1>5. ASSUME NEW p, MayBePut(p, src), At(f.nodes, p) = {}, f.outcome = "done"
      PROVE  LET q == Put(f, p, src)
             IN  Inserted(b, q) /\ q.temp = s.temp /\ q.exec = s.exec
  <2>. DEFINE q == Put(f, p, src)
  <2>1. FilePaths(b.nodes) \subseteq FilePaths(f.nodes)
    BY <1>1, <1>5 DEF Inserted
  <2>2. p \notin FilePaths(f.nodes)
    BY <1>5 DEF At, FilePaths, PathsOf, FilesOf
  <2>3. /\ Settled(b, q)
        /\ q.temp = f.temp /\ q.exec = f.exec
        /\ \/ q.outcome = "full"
           \/ FilePaths(f.nodes) \subseteq FilePaths(q.nodes)
    BY <1>1, <1>5, <2>1, <2>2, PutSettles
  <2>. HIDE DEF q
  <2>. QED
    BY <1>1, <2>1, <2>3 DEF Inserted, q
<1>6. ASSUME f.outcome = "done", existing # {}, onConflict = "Replace"
      PROVE  LET q == Put(RemoveNodes(f, existing), path, src)
             IN  Inserted(b, q) /\ q.temp = s.temp /\ q.exec = s.exec
  <2>. DEFINE g == RemoveNodes(f, existing)
              q == Put(g, path, src)
  <2>1. /\ Settled(b, g) /\ g.nodes = Without(f.nodes, existing)
        /\ g.temp = f.temp /\ g.exec = f.exec /\ g.outcome = f.outcome
    BY <1>1, RemovalSettles
  <2>. HIDE DEF g
  <2>2. /\ At(g.nodes, path) = {}
        /\ FilePaths(f.nodes) \subseteq FilePaths(g.nodes) \union {path}
    BY <2>1 DEF At, Without, FilePaths, PathsOf, FilesOf
  <2>3. path \notin FilePaths(b.nodes) \intersect Cached(g)
    BY <1>1, <1>6, <2>1 DEF Cached
  <2>4. /\ Settled(b, q)
        /\ q.temp = g.temp /\ q.exec = g.exec
        /\ \/ q.outcome = "full"
           \/ /\ FilePaths(g.nodes) \subseteq FilePaths(q.nodes)
              /\ path \in FilePaths(q.nodes)
    <3>1. Settled(b, g) /\ MayBePut(path, src) /\ At(g.nodes, path) = {}
      BY <1>3, <2>1, <2>2
    <3>2. src # NoSource => path \notin FilePaths(b.nodes) \intersect Cached(g)
      BY <2>3
    <3>. HIDE DEF existing, copied, q
    <3>3. LET u == Put(g, path, src)
          IN  /\ Settled(b, u)
              /\ u.temp = g.temp /\ u.exec = g.exec
              /\ \/ u.outcome = "full"
                 \/ /\ u.outcome = g.outcome
                    /\ FilePaths(g.nodes) \subseteq FilePaths(u.nodes)
                    /\ src # NoSource => path \in FilePaths(u.nodes)
      BY ONLY <3>1, <3>2, PutSettles
    <3>. QED
      BY <1>3, <3>3 DEF q
  <2>5. FilePaths(b.nodes) \subseteq FilePaths(f.nodes)
    BY <1>1, <1>6 DEF Inserted
  <2>. HIDE DEF q
  <2>6. Inserted(b, q) /\ q.temp = s.temp /\ q.exec = s.exec
    BY <1>1, <2>1, <2>2, <2>4, <2>5 DEF Inserted
  <2>. QED
    BY <2>6 DEF q, g
<1>7. ASSUME NEW o \in {"full", "thrown"}
      PROVE  LET q == [f EXCEPT !.outcome = o]
             IN  f.outcome = "done" =>
                   Inserted(b, q) /\ q.temp = s.temp /\ q.exec = s.exec
  <2>. DEFINE q == [f EXCEPT !.outcome = o]
  <2>1. /\ IsScene(q) /\ q.nodes = f.nodes /\ q.delete = f.delete
        /\ q.temp = f.temp /\ q.exec = f.exec /\ q.outcome = o
    BY <1>4 DEF IsScene
  <2>. HIDE DEF q
  <2>2. f.outcome = "done" => Settled(b, q)
    BY <1>1, <2>1 DEF Settled, SceneOK, Arrived, Cached
  <2>3. f.outcome = "done" => Inserted(b, q)
    BY <1>1, <2>1, <2>2 DEF Inserted
  <2>. QED
    BY <1>1, <2>1, <2>3 DEF q
<1>8. IsFilePath(copied) /\ At(f.nodes, copied) = {} /\ MayBePut(copied, src)
  <2>1. IsFilePath(copied) /\ At(f.nodes, copied) = {}
    BY <1>4, CopyIsFree
  <2>. QED
    BY <2>1 DEF MayBePut
<1>. DEFINE Good(q) == Inserted(b, q) /\ q.temp = s.temp /\ q.exec = s.exec
<1>9. /\ Good(f)
      /\ f.outcome = "done" =>
           /\ existing = {} => Good(Put(f, path, src))
           /\ existing # {} /\ onConflict = "Replace" =>
                Good(Put(RemoveNodes(f, existing), path, src))
           /\ Good([f EXCEPT !.outcome = "full"])
           /\ Good([f EXCEPT !.outcome = "thrown"])
           /\ Good(Put(f, copied, src))
  BY <1>1, <1>3, <1>5, <1>6, <1>7, <1>8
<1>10. Good(Cases)
  <2>. HIDE DEF Good, existing, copied
  <2>1. CASE f.outcome # "done"
    BY <1>9, <2>1
  <2>2. CASE f.outcome = "done" /\ existing = {}
    BY <1>9, <2>2
  <2>3. CASE f.outcome = "done" /\ existing # {} /\ onConflict = "Replace"
    BY <1>9, <2>3
  <2>4. CASE f.outcome = "done" /\ existing # {} /\ onConflict = "Copy"
    BY <1>9, <2>4
  <2>5. CASE f.outcome = "done" /\ existing # {} /\ onConflict \notin {"Replace", "Copy"}
    BY <1>9, <2>5
  <2>. QED
    BY <2>1, <2>2, <2>3, <2>4, <2>5
<1>. QED
  BY <1>2, <1>10 DEF r

LEMMA LeftOfLeftOf ==
  ASSUME NEW f, NEW g, NEW h, LeftOf(f, g), LeftOf(g, h)
  PROVE  LeftOf(f, h)
BY DEF LeftOf

\* What is cleared is no longer cached.
LEMMA ClearedIsInserted ==
  ASSUME NEW b, NEW s, NEW path, Inserted(b, s)
  PROVE  LET r == Clear(s, path)
         IN  Inserted(b, r) /\ path \notin Cached(r)
<1>. DEFINE r == Clear(s, path)
<1>1. IsScene(s) /\ LeftOf(s.temp, b.temp) /\ LeftOf(s.exec, b.exec)
  BY DEF Inserted, Settled, SceneOK
<1>2. /\ IsScene(r) /\ r.nodes = s.nodes /\ r.delete = s.delete
      /\ r.outcome = s.outcome
      /\ r.temp = Without(s.temp, {path}) /\ r.exec = Without(s.exec, {path})
  BY <1>1 DEF IsScene, Clear
<1>. HIDE DEF r
<1>3. /\ LeftOf(r.temp, s.temp) /\ LeftOf(r.exec, s.exec)
      /\ path \notin Cached(r) /\ Cached(r) \subseteq Cached(s)
  BY <1>2 DEF LeftOf, Without, Cached
<1>4. LeftOf(r.temp, b.temp) /\ LeftOf(r.exec, b.exec)
  BY <1>1, <1>3, LeftOfLeftOf
<1>5. Arrived(b, s) => Arrived(b, r)
  BY <1>2, <1>3 DEF Arrived
<1>6. Settled(b, r)
  BY <1>2, <1>4, <1>5 DEF Inserted, Settled, SceneOK
<1>7. Inserted(b, r)
  BY <1>2, <1>6 DEF Inserted
<1>. QED
  BY <1>3, <1>7 DEF r

LEMMA NodeIsInserted ==
  ASSUME NEW b, NEW s, NEW dir, NEW d, NEW answer,
         Inserted(b, s), IsFolderPath(dir), IsFilePath(d.path), d.src \in Sources
  PROVE  Inserted(b, InsertNode(s, dir, d, answer))
<1>. DEFINE path == dir \o d.path
            resolution == IF path \in DOMAIN answer THEN answer[path] ELSE "Unset"
            t == IF resolution = "Unset" THEN s ELSE Clear(s, path)
<1>1. InsertNode(s, dir, d, answer) =
        IF s.outcome # "done" \/ resolution = "Skip" THEN s
        ELSE CreateHierarchy(t, path, d.src, resolution)
  BY DEF InsertNode
<1>2. IsFilePath(path)
  BY PathBelowFolder
<1>. HIDE DEF path, resolution
<1>3. Inserted(b, t) /\ (resolution = "Replace" => path \notin Cached(t))
  BY ClearedIsInserted
<1>. HIDE DEF t
<1>4. Inserted(b, CreateHierarchy(t, path, d.src, resolution))
  BY <1>2, <1>3, HierarchyIsCreated
<1>. QED
  BY <1>1, <1>4

InsertOne(c, d, i) == InsertNode(d, c.dir, c.list[i], c.answer)

StillInserted(c, d, i) == Inserted(c.b, d)

Insertion == INSTANCE Iteration WITH Step <- InsertOne, Good <- StillInserted

\* Descriptors, one after the other.
Parcels(list) ==
  /\ Len(list) \in Nat
  /\ \A i \in 1 .. Len(list): IsFilePath(list[i].path) /\ list[i].src \in Sources

LEMMA NodeSetIsInserted ==
  ASSUME NEW b, NEW s, NEW dir, NEW list, NEW answer,
         Inserted(b, s), IsFolderPath(dir), Parcels(list)
  PROVE  Inserted(b, CreateNodeSet(s, dir, list, answer))
<1>. DEFINE c == [b |-> b, dir |-> dir, list |-> list, answer |-> answer]
            n == Len(list)
            insert == CHOOSE g: g = [i \in 0 .. n |->
                                       IF i = 0 THEN s ELSE InsertOne(c, g[i - 1], i)]
<1>1. n \in Nat
  BY DEF Parcels
<1>2. StillInserted(c, s, 0)
  BY DEF StillInserted
<1>3. CreateNodeSet(s, dir, list, answer) = insert[n]
  BY DEF CreateNodeSet, InsertOne
<1>4. c.b = b /\ c.dir = dir /\ c.list = list /\ c.answer = answer
  OBVIOUS
<1>. HIDE DEF c, insert
<1>5. ASSUME NEW i \in 1 .. n, NEW d, StillInserted(c, d, i - 1)
      PROVE  StillInserted(c, InsertOne(c, d, i), i)
  <2>1. Inserted(b, d)
    BY <1>4, <1>5 DEF StillInserted
  <2>2. IsFilePath(list[i].path) /\ list[i].src \in Sources
    BY DEF Parcels
  <2>3. Inserted(b, InsertNode(d, dir, list[i], answer))
    BY <2>1, <2>2, NodeIsInserted
  <2>. QED
    BY <1>4, <2>3 DEF StillInserted, InsertOne
<1>6. StillInserted(c, insert[n], n)
  <2>. HIDE DEF n
  <2>. QED
    BY <1>1, <1>2, <1>5, Insertion!LoopKeeps DEF insert
<1>. QED
  BY <1>3, <1>4, <1>6 DEF StillInserted

LoadOne(c, d, i) == LoadEntry(d, c.d, c.list[i])

Loading == INSTANCE Iteration WITH Step <- LoadOne, Good <- StillInserted

EntriesOK(d) ==
  /\ d.layout \in 1 .. MaxLayouts
  /\ IsFiniteSet(d.entries)
  /\ \A e \in d.entries: IsFilePath(e.path) /\ e.bytes \in Bytes \union {Garbage}

\* A finite set can be put in order.
LEMMA InOrder ==
  ASSUME NEW S, IsFiniteSet(S)
  PROVE  /\ Cardinality(S) \in Nat
         /\ SetToSeq(S) \in [1 .. Cardinality(S) -> S]
         /\ Len(SetToSeq(S)) = Cardinality(S)
<1>. DEFINE n == Cardinality(S)
<1>1. n \in Nat
  BY FS_CardinalityType
<1>2. PICK f \in Bijection(1 .. n, S): TRUE
  BY FS_CardinalityType DEF ExistsBijection
<1>3. f \in [1 .. n -> S] /\ IsInjective(f)
  BY <1>2 DEF Bijection, Injection, IsInjective
<1>4. SetToSeq(S) \in [1 .. n -> S]
  BY <1>3 DEF SetToSeq
<1>. HIDE DEF n
<1>5. Len(SetToSeq(S)) = n
  BY <1>1, <1>4
<1>. QED
  BY <1>1, <1>4, <1>5 DEF n

LEMMA EntriesAreLoaded ==
  ASSUME NEW b, NEW s, NEW d, Inserted(b, s), EntriesOK(d)
  PROVE  Inserted(b, Loaded(s, d))
<1>. DEFINE list == SetToSeq(d.entries)
            c == [b |-> b, d |-> d, list |-> list]
            n == Len(list)
            load == CHOOSE g: g = [i \in 0 .. n |->
                                     IF i = 0 THEN s ELSE LoadOne(c, g[i - 1], i)]
<1>1. n \in Nat /\ \A i \in 1 .. n: list[i] \in d.entries
  BY InOrder DEF EntriesOK
<1>2. StillInserted(c, s, 0)
  BY DEF StillInserted
<1>3. Loaded(s, d) = load[n]
  BY DEF Loaded, LoadOne
<1>. HIDE DEF list
<1>4. c.b = b /\ c.d = d /\ c.list = list
  OBVIOUS
<1>. HIDE DEF c, load
<1>5. ASSUME NEW i \in 1 .. n, NEW t, StillInserted(c, t, i - 1)
      PROVE  StillInserted(c, LoadOne(c, t, i), i)
  <2>1. Inserted(b, t)
    BY <1>4, <1>5 DEF StillInserted
  <2>. DEFINE e == list[i]
              src == [layout |-> d.layout, bytes |-> e.bytes]
  <2>2. IsFilePath(e.path) /\ src \in Sources
    BY <1>1, ConstantsAreNumbers DEF EntriesOK, Sources
  <2>3. Inserted(b, CreateHierarchy(t, e.path, src, "Copy"))
    BY <2>1, <2>2, HierarchyIsCreated
  <2>. QED
    BY <1>4, <2>3 DEF StillInserted, LoadOne, LoadEntry
<1>6. StillInserted(c, load[n], n)
  <2>. HIDE DEF n
  <2>. QED
    BY <1>1, <1>2, <1>5, Loading!LoopKeeps DEF load
<1>. QED
  BY <1>3, <1>4, <1>6 DEF StillInserted

(***************************************************************************)
(* Entries that are taken away.                                            *)
(***************************************************************************)
DeleteStep(c, d, i) == DeleteOne(d, i)

RemoveStep(c, d, i) == RemoveFromHierarchy(d, c.list[i])

StillSettled(c, d, i) == Settled(c.b, d)

Deletion == INSTANCE Iteration WITH Step <- DeleteStep, Good <- StillSettled
Removal == INSTANCE Iteration WITH Step <- RemoveStep, Good <- StillSettled

LEMMA HierarchyIsRemoved ==
  ASSUME NEW b, NEW s, NEW n, Settled(b, s)
  PROVE  Settled(b, RemoveFromHierarchy(s, n))
<1>1. \E S: RemoveFromHierarchy(s, n) = RemoveNodes(s, S)
  BY DEF RemoveFromHierarchy
<1>. QED
  BY <1>1, RemovalSettles

\* Another outcome is all that changes.
LEMMA OutcomeSettles ==
  ASSUME NEW b, NEW s, Settled(b, s), NEW o \in {"done", "thrown", "dangling"},
         s.outcome # "full"
  PROVE  LET r == [s EXCEPT !.outcome = o]
         IN  Settled(b, r) /\ r.outcome = o /\ r.nodes = s.nodes
<1>. DEFINE r == [s EXCEPT !.outcome = o]
<1>1. IsScene(s)
  BY DEF Settled, SceneOK
<1>2. /\ IsScene(r) /\ r.nodes = s.nodes /\ r.delete = s.delete
      /\ r.temp = s.temp /\ r.exec = s.exec /\ r.outcome = o
  BY <1>1 DEF IsScene
<1>. HIDE DEF r
<1>3. Settled(b, r)
  BY <1>2 DEF Settled, SceneOK, Arrived, Cached
<1>. QED
  BY <1>2, <1>3 DEF r

LEMMA OneIsDeleted ==
  ASSUME NEW b, NEW s, NEW i, Settled(b, s)
  PROVE  Settled(b, DeleteOne(s, i))
<1>1. CASE s.outcome # "done"
  BY <1>1 DEF DeleteOne
<1>2. CASE s.outcome = "done" /\ s.delete[i] = Gone
  <2>1. Settled(b, [s EXCEPT !.outcome = "dangling"])
    BY <1>2, OutcomeSettles
  <2>. QED
    BY <1>2, <2>1 DEF DeleteOne
<1>3. CASE s.outcome = "done" /\ s.delete[i] # Gone
  BY <1>3, HierarchyIsRemoved DEF DeleteOne
<1>. QED
  BY <1>1, <1>2, <1>3

LEMMA AllAreDeleted ==
  ASSUME NEW b, NEW s, Settled(b, s)
  PROVE  Settled(b, DeleteAll(s))
<1>. DEFINE c == [b |-> b]
            n == Len(s.delete)
            delete_ == CHOOSE g: g = [i \in 0 .. n |->
                                        IF i = 0 THEN s ELSE DeleteStep(c, g[i - 1], i)]
<1>1. n \in Nat
  BY LenProperties DEF Settled, SceneOK, Held
<1>2. StillSettled(c, s, 0)
  BY DEF StillSettled
<1>3. DeleteAll(s) = delete_[n]
  BY DEF DeleteAll, DeleteStep
<1>4. c.b = b
  OBVIOUS
<1>. HIDE DEF c, delete_
<1>5. ASSUME NEW i \in 1 .. n, NEW d, StillSettled(c, d, i - 1)
      PROVE  StillSettled(c, DeleteStep(c, d, i), i)
  BY <1>4, <1>5, OneIsDeleted DEF StillSettled, DeleteStep
<1>6. StillSettled(c, delete_[n], n)
  <2>. HIDE DEF n
  <2>. QED
    BY <1>1, <1>2, <1>5, Deletion!LoopKeeps DEF delete_
<1>. QED
  BY <1>3, <1>4, <1>6 DEF StillSettled

LEMMA CommitSettles ==
  ASSUME NEW b, NEW s, Settled(b, s)
  PROVE  Settled(b, Commit(s))
<1>. DEFINE d == DeleteAll(s)
            r == [d EXCEPT !.delete = <<>>]
<1>1. Settled(b, d) /\ IsScene(d)
  BY AllAreDeleted DEF Settled, SceneOK
<1>. HIDE DEF d
<1>2. /\ IsScene(r) /\ r.nodes = d.nodes /\ r.delete = <<>>
      /\ r.temp = d.temp /\ r.exec = d.exec /\ r.outcome = d.outcome
  BY <1>1 DEF IsScene
<1>3. Commit(s) = r
  BY DEF Commit, d
<1>. HIDE DEF r
<1>4. Held(r.nodes, r.delete)
  <2>1. <<>> \in Seq(Nat) /\ DOMAIN <<>> = {}
    OBVIOUS
  <2>. QED
    BY <1>2, <2>1 DEF Held
<1>5. Settled(b, r)
  BY <1>1, <1>2, <1>4 DEF Settled, SceneOK, Arrived, Cached
<1>. QED
  BY <1>3, <1>5

LEMMA SelectionIsRemoved ==
  ASSUME NEW b, NEW s, NEW list, Len(list) \in Nat, Settled(b, s), NEW r,
         r = LET remove[i \in 0 .. Len(list)] ==
                   IF i = 0 THEN s ELSE RemoveFromHierarchy(remove[i - 1], list[i])
             IN  remove[Len(list)]
  PROVE  Settled(b, r)
<1>. DEFINE c == [b |-> b, list |-> list]
            n == Len(list)
            remove == CHOOSE g: g = [i \in 0 .. n |->
                                       IF i = 0 THEN s ELSE RemoveStep(c, g[i - 1], i)]
<1>2. StillSettled(c, s, 0)
  BY DEF StillSettled
<1>3. r = remove[n]
  BY DEF RemoveStep
<1>4. c.b = b /\ c.list = list
  OBVIOUS
<1>. HIDE DEF c, remove
<1>5. ASSUME NEW i \in 1 .. n, NEW d, StillSettled(c, d, i - 1)
      PROVE  StillSettled(c, RemoveStep(c, d, i), i)
  BY <1>4, <1>5, HierarchyIsRemoved DEF StillSettled, RemoveStep
<1>6. StillSettled(c, remove[n], n)
  <2>. HIDE DEF n
  <2>1. n \in Nat
    BY DEF n
  <2>. QED
    BY <2>1, <1>2, <1>5, Removal!LoopKeeps DEF remove
<1>. QED
  BY <1>3, <1>4, <1>6 DEF StillSettled

\* The entries of the parcel come in, and those that are to go, go.
LEMMA FilesAreAdded ==
  ASSUME NEW s, NEW dir, NEW list, NEW answer,
         Inserted(s, s), IsFolderPath(dir), Parcels(list)
  PROVE  Settled(s, AddFilesFromPbo(s, dir, list, answer))
<1>. DEFINE created == CreateNodeSet(s, dir, list, answer)
<1>1. Settled(s, s)
  BY DEF Inserted
<1>2. Settled(s, created)
  BY NodeSetIsInserted DEF Inserted
<1>3. AddFilesFromPbo(s, dir, list, answer) =
        IF answer = Refused THEN s
        ELSE IF created.outcome = "done" THEN Commit(created) ELSE created
  BY DEF AddFilesFromPbo
<1>. HIDE DEF created
<1>. QED
  BY <1>1, <1>2, <1>3, CommitSettles

LEMMA DragSettles ==
  ASSUME NEW b, NEW s, NEW action, Settled(b, s)
  PROVE  Settled(b, DragEnds(s, action))
<1>1. CASE action # "move" \/ s.outcome = "full"
  BY <1>1 DEF DragEnds
<1>2. CASE ~(action # "move" \/ s.outcome = "full")
  <2>. DEFINE t == Commit([s EXCEPT !.outcome = "done"])
  <2>1. Settled(b, t)
    BY <1>2, OutcomeSettles, CommitSettles
  <2>2. IsScene(t) /\ s.outcome \in {"done", "thrown", "dangling"}
    BY <1>2, <2>1 DEF Settled, SceneOK
  <2>. HIDE DEF t
  <2>3. DragEnds(s, action) =
          [t EXCEPT !.outcome = IF t.outcome = "done" THEN s.outcome ELSE t.outcome]
    BY <1>2 DEF DragEnds, t
  <2>4. CASE t.outcome = "done"
    <3>. DEFINE o == s.outcome
    <3>1. DragEnds(s, action) = [t EXCEPT !.outcome = o]
      BY <2>3, <2>4
    <3>2. o \in {"done", "thrown", "dangling"}
      BY <2>2
    <3>. HIDE DEF o
    <3>3. Settled(b, [t EXCEPT !.outcome = o])
      BY <2>1, <2>4, <3>2, OutcomeSettles
    <3>. QED
      BY <3>1, <3>3
  <2>5. CASE t.outcome # "done"
    <3>1. [t EXCEPT !.outcome = t.outcome] = t
      BY <2>2 DEF IsScene
    <3>. QED
      BY <2>1, <2>3, <2>5, <3>1
  <2>. QED
    BY <2>4, <2>5
<1>. QED
  BY <1>1, <1>2

(***************************************************************************)
(* The type invariant.                                                     *)
(***************************************************************************)
CacheItems == [bytes: Bytes \union {Garbage, "edited"},
               state: {"same", "changed", "gone"}, locked: BOOLEAN]

Taking == {"copy", "cut", "drag"}

ClipboardOK ==
  /\ IsFiniteSet(clipboard)
  /\ \A d \in clipboard: IsFilePath(d.path) /\ d.src \in Sources

CachesOK ==
  /\ \A p \in DOMAIN temp: temp[p] \in Bytes \union {Garbage, Partial}
  /\ \A p \in DOMAIN exec: exec[p] \in Seq(CacheItems) /\ exec[p] # <<>>

OpOK ==
  /\ op \in [kind: Taking \union {"none", "open"}, sel: SUBSET DOMAIN nodes,
             todo: SUBSET DOMAIN nodes,
             file: Bytes \union {Garbage, "none", "edited"},
             cancelled: BOOLEAN, failed: BOOLEAN]
  /\ op.todo \subseteq FilesBelow(nodes, op.sel)
  /\ op.kind = "none" => op = Idle
  /\ op.kind = "open" => \E n \in FilesOf(nodes): op.sel = {n}

UserOK ==
  /\ outcome \in {"done", "thrown", "dangling", "undefined"}
  /\ gesture \in {"none", "copy", "cut", "stale"}
  /\ cut # {} => gesture = "cut"

\* The nodes that are selected are there as long as the operation goes on, and
\* whatever is remembered of nodes would make proper nodes again.
TInv ==
  /\ NodesOK(nodes)
  /\ EntriesOK(disk)
  /\ Held(nodes, delete)
  /\ ClipboardOK
  /\ CachesOK
  /\ OpOK
  /\ UserOK

LEMMA TypeIsImplied == TInv => TypeOK
<1>. SUFFICES ASSUME TInv
              PROVE  TypeOK
  OBVIOUS
<1>1. \A n \in DOMAIN nodes:
        /\ Len(nodes[n].path) \in 1 .. MaxDepth
        /\ nodes[n].src.layout \in -1 .. MaxLayouts
        /\ nodes[n].src.bytes \in Bytes \union {Garbage, "none"}
  <2>1. ASSUME NEW x \in Sources \union {NoSource}
        PROVE  /\ x.layout \in -1 .. MaxLayouts
               /\ x.bytes \in Bytes \union {Garbage, "none"}
    BY ConstantsAreNumbers DEF Sources, NoSource
  <2>. QED
    BY <2>1 DEF TInv, NodesOK, NodeOK
<1>2. DOMAIN nodes \subseteq 1 .. MaxNodes
  BY DEF TInv, NodesOK
<1>3. \A i \in DOMAIN delete: delete[i] \in {Gone} \union DOMAIN nodes
  BY DEF TInv, Held
<1>4. disk.layout \in 1 .. MaxLayouts
  BY DEF TInv, EntriesOK
<1>5. op.kind \in {"none", "copy", "cut", "drag", "open"}
  BY DEF TInv, OpOK, Taking
<1>6. \A p \in DOMAIN temp: temp[p] \in Bytes \union {Garbage, Partial}
  BY DEF TInv, CachesOK
<1>7. \A p \in DOMAIN exec: exec[p] # <<>>
  BY DEF TInv, CachesOK
<1>8. UserOK
  BY DEF TInv
<1>. QED
  BY <1>1, <1>2, <1>3, <1>4, <1>5, <1>6, <1>7, <1>8 DEF TypeOK, UserOK

\* The scene at the beginning of an operation.
LEMMA SceneIsInserted ==
  ASSUME NodesOK(nodes), Held(nodes, delete)
  PROVE  /\ Inserted(Scene, Scene) /\ Settled(Scene, Scene)
         /\ Scene.nodes = nodes /\ Scene.delete = delete
         /\ Scene.temp = temp /\ Scene.exec = exec /\ Scene.outcome = "done"
<1>. DEFINE s == Scene
<1>1. /\ IsScene(s) /\ s.nodes = nodes /\ s.delete = delete
      /\ s.temp = temp /\ s.exec = exec /\ s.outcome = "done"
  BY DEF Scene, IsScene
<1>. HIDE DEF s
<1>2. SceneOK(s)
  BY <1>1 DEF SceneOK
<1>3. LeftOf(s.temp, s.temp) /\ LeftOf(s.exec, s.exec) /\ Arrived(s, s)
  BY DEF LeftOf, Arrived
<1>4. Inserted(s, s) /\ Settled(s, s)
  BY <1>2, <1>3 DEF Inserted, Settled
<1>. QED
  BY <1>1, <1>4 DEF s

LEMMA NothingIsInserted ==
  LET empty == [nodes |-> <<>>, temp |-> <<>>, exec |-> <<>>, delete |-> <<>>,
                removed |-> {}, outcome |-> "done"]
  IN  Inserted(empty, empty)
<1>. DEFINE s == [nodes |-> <<>>, temp |-> <<>>, exec |-> <<>>, delete |-> <<>>,
                  removed |-> {}, outcome |-> "done"]
<1>1. /\ IsScene(s) /\ s.nodes = <<>> /\ s.delete = <<>>
      /\ s.temp = <<>> /\ s.exec = <<>> /\ s.outcome = "done"
  BY DEF IsScene
<1>. HIDE DEF s
<1>2. DOMAIN <<>> = {} /\ <<>> \in Seq(Nat)
  OBVIOUS
<1>3. NodesOK(s.nodes) /\ Held(s.nodes, s.delete)
  BY <1>1, <1>2 DEF NodesOK, Held
<1>4. LeftOf(s.temp, s.temp) /\ LeftOf(s.exec, s.exec) /\ Arrived(s, s)
  BY DEF LeftOf, Arrived
<1>5. Inserted(s, s)
  BY <1>1, <1>3, <1>4 DEF Inserted, Settled, SceneOK
<1>. QED
  BY <1>5 DEF s

\* The entries that the PBO is opened with are proper ones.
LEMMA EntriesAreOK == EntriesOK([layout |-> 1, entries |-> Entries])
<1>1. ASSUME NEW e \in Entries
      PROVE  IsFilePath(e.path) /\ e.bytes \in Bytes
  <2>. DEFINE p == e.path
              N == FileNames \union FolderNames
  <2>1. p \in Seq(N \X Nat) /\ p # <<>>
    BY NamesAssumption
  <2>2. Len(p) \in Nat /\ Len(p) >= 1 /\ DOMAIN p = 1 .. Len(p)
    BY <2>1, LenProperties, EmptySeq
  <2>3. \A k \in 1 .. Len(p): p[k] \in N \X Nat
    BY <2>1, ElementOfSeq
  <2>4. p[Len(p)] \in EntryTitles
    <3>1. p[Len(p)][1] \in FileNames
      BY DEF FileNames, Last
    <3>2. Len(p) \in 1 .. Len(p)
      BY <2>2
    <3>3. p[Len(p)] \in N \X Nat
      BY <2>3, <3>2
    <3>. QED
      BY <3>1, <3>3 DEF EntryTitles
  <2>5. ASSUME NEW k \in 1 .. Len(p), k < Len(p)
        PROVE  p[k] \in FolderTitles
    <3>1. p[k] \in ToSet(Front(p))
      <4>. DEFINE n == Len(p) - 1
      <4>1. n \in Int /\ 1 \in Int /\ k \in 1 .. n /\ n - 1 + 1 = n /\ 1 + k - 1 = k
        BY <2>2, <2>5
      <4>2. \A i \in 1 .. n: p[i] \in N \X Nat
        BY <2>2, <2>3
      <4>3. Front(p) = SubSeq(p, 1, n)
        BY DEF Front
      <4>. HIDE DEF n
      <4>4. /\ SubSeq(p, 1, n) \in Seq(N \X Nat)
            /\ Len(SubSeq(p, 1, n)) = n
            /\ SubSeq(p, 1, n)[k] = p[k]
        BY <4>1, <4>2, SubSeqProperties
      <4>5. k \in DOMAIN SubSeq(p, 1, n)
        BY <4>1, <4>4, LenProperties
      <4>. QED
        BY <4>3, <4>4, <4>5 DEF ToSet
    <3>2. p[k][1] \in FolderNames
      BY <3>1 DEF FolderNames
    <3>. QED
      BY <2>3, <3>2 DEF FolderTitles
  <2>6. p \in Paths
    <3>1. \A k \in 1 .. Len(p): p[k] \in FolderTitles \union EntryTitles
      <4>1. ASSUME NEW x \in N \X Nat
            PROVE  x \in FolderTitles \union EntryTitles
        BY DEF FolderTitles, EntryTitles
      <4>. QED
        BY <2>3, <4>1
    <3>2. p = [k \in 1 .. Len(p) |-> p[k]]
      BY <2>1, LenProperties
    <3>3. p \in [1 .. Len(p) -> FolderTitles \union EntryTitles]
      BY <3>1, <3>2
    <3>. QED
      BY <2>2, <3>3, SeqDef DEF Paths
  <2>. QED
    BY <2>2, <2>4, <2>5, <2>6, ContentsAssumption DEF IsFilePath
<1>. QED
  BY <1>1, NamesAssumption, ConstantsAreNumbers DEF EntriesOK

LEMMA TypeInit == Init => TInv
<1>. SUFFICES ASSUME Init
              PROVE  TInv
  OBVIOUS
<1>. DEFINE empty == [nodes |-> <<>>, temp |-> <<>>, exec |-> <<>>, delete |-> <<>>,
                      removed |-> {}, outcome |-> "done"]
            d == [layout |-> 1, entries |-> Entries]
<1>1. nodes = Loaded(empty, d).nodes /\ disk = d
  BY DEF Init
<1>2. EntriesOK(disk)
  BY <1>1, EntriesAreOK
<1>3. NodesOK(nodes)
  <2>1. Inserted(empty, Loaded(empty, d))
    <3>1. Inserted(empty, empty) /\ EntriesOK(d)
      BY NothingIsInserted, EntriesAreOK
    <3>. HIDE DEF empty, d
    <3>. QED
      BY <3>1, EntriesAreLoaded
  <2>. QED
    BY <1>1, <2>1 DEF Inserted, Settled, SceneOK
<1>4. DOMAIN <<>> = {} /\ <<>> \in Seq(Nat) /\ IsFiniteSet({})
  BY FS_EmptySet
<1>5. Held(nodes, delete) /\ ClipboardOK /\ CachesOK
  BY <1>4 DEF Init, Held, ClipboardOK, CachesOK
<1>6. OpOK
  BY DEF Init, OpOK, Idle
<1>7. UserOK
  BY DEF Init, UserOK
<1>. QED
  BY <1>2, <1>3, <1>5, <1>6, <1>7 DEF TInv

(***************************************************************************)
(* What the user takes.                                                    *)
(***************************************************************************)
Reuse(c, d, i) == TryReuse(c.cache, d, i, FALSE)

\* X are items that may be cached.
Reused(c, d, i) ==
  /\ d \in [found: BOOLEAN, bytes: {"none"} \union {x.bytes: x \in c.X},
            kept: Seq(c.X), outcome: {"done", "undefined"}]
  /\ d.found => /\ d.kept # <<>>
                /\ \E x \in c.X: x.state = "same" /\ x.bytes = d.bytes

Reuses == INSTANCE Iteration WITH Step <- Reuse, Good <- Reused

LEMMA OneMoreItem ==
  ASSUME NEW X, NEW s \in Seq(X), NEW x \in X
  PROVE  Append(s, x) \in Seq(X) /\ Append(s, x) # <<>>
BY AppendProperties

\* What is kept of a cache is of the kind of what was in it, and what is found
\* is a file that nobody has changed.
LEMMA FoundIsCached ==
  ASSUME NEW X, NEW cache \in Seq(X)
  PROVE  LET r == TryFindExisting(cache)
         IN  /\ r.found \in BOOLEAN /\ r.kept \in Seq(X)
             /\ r.outcome \in {"done", "undefined"}
             /\ r.found => /\ r.kept # <<>>
                           /\ \E x \in X: x.state = "same" /\ x.bytes = r.bytes
<1>. DEFINE c == [cache |-> cache, X |-> X]
            base == [found |-> FALSE, bytes |-> "none", kept |-> <<>>,
                     outcome |-> "done"]
            n == Len(cache)
            try == CHOOSE g: g = [i \in 0 .. n |->
                                    IF i = 0 THEN base ELSE Reuse(c, g[i - 1], i)]
<1>1. n \in Nat /\ \A i \in 1 .. n: cache[i] \in X
  BY LenProperties, ElementOfSeq
<1>2. Reused(c, base, 0)
  BY DEF Reused
<1>3. TryFindExisting(cache) = try[n]
  BY DEF TryFindExisting, TryAll, Reuse
<1>4. c.cache = cache /\ c.X = X
  OBVIOUS
<1>. HIDE DEF c, try, base
<1>5. ASSUME NEW i \in 1 .. n, NEW d, Reused(c, d, i - 1)
      PROVE  Reused(c, Reuse(c, d, i), i)
  <2>. DEFINE file == cache[i]
              more == Append(d.kept, file)
  <2>1. /\ d \in [found: BOOLEAN, bytes: {"none"} \union {x.bytes: x \in X},
                  kept: Seq(X), outcome: {"done", "undefined"}]
        /\ d.found => /\ d.kept # <<>>
                      /\ \E x \in X: x.state = "same" /\ x.bytes = d.bytes
    BY <1>4, <1>5 DEF Reused
  <2>2. file \in X
    BY <1>1
  <2>. HIDE DEF file
  <2>3. more \in Seq(X) /\ more # <<>>
    BY <2>1, <2>2, OneMoreItem
  <2>4. Reuse(c, d, i) =
          IF d.found \/ d.outcome # "done" \/ (file.state = "same" /\ file.locked)
          THEN [d EXCEPT !.kept = more]
          ELSE IF file.state = "same"
          THEN [d EXCEPT !.found = TRUE, !.bytes = file.bytes, !.kept = more]
          ELSE IF d.kept = <<>> /\ i < Len(cache)
               THEN [d EXCEPT !.outcome = "undefined"] ELSE d
    BY <1>4 DEF Reuse, TryReuse, file
  <2>. HIDE DEF more, n
  <2>5. CASE d.found \/ d.outcome # "done" \/ (file.state = "same" /\ file.locked)
    BY <1>4, <2>1, <2>3, <2>4, <2>5 DEF Reused
  <2>6. CASE /\ ~(d.found \/ d.outcome # "done" \/ (file.state = "same" /\ file.locked))
             /\ file.state = "same"
    BY <1>4, <2>1, <2>2, <2>3, <2>4, <2>6 DEF Reused
  <2>7. CASE /\ ~(d.found \/ d.outcome # "done" \/ (file.state = "same" /\ file.locked))
             /\ file.state # "same"
    BY <1>4, <2>1, <2>4, <2>7 DEF Reused
  <2>. QED
    BY <2>5, <2>6, <2>7
<1>6. Reused(c, try[n], n)
  <2>. HIDE DEF n
  <2>. QED
    BY <1>1, <1>2, <1>5, Reuses!LoopKeeps DEF try
<1>. QED
  BY <1>3, <1>4, <1>6 DEF Reused

LEMMA ReadGivesBytes ==
  ASSUME NEW d, NEW src \in Sources
  PROVE  Read(d, src) \in Bytes \union {Garbage}
BY DEF Read, Sources

LEMMA NodesAreFinite ==
  ASSUME NodesOK(nodes), NEW S \in SUBSET DOMAIN nodes
  PROVE  IsFiniteSet(S)
<1>. DEFINE N == 1 .. MaxNodes
<1>1. IsFiniteSet(N)
  BY FS_Interval, ConstantsAreNumbers
<1>2. S \in SUBSET N
  BY DEF NodesOK
<1>. QED
  BY <1>1, <1>2, FS_Subset

LEMMA FilesBelowAreNodes ==
  ASSUME NEW ns, NEW S
  PROVE  /\ FilesBelow(ns, S) \subseteq FilesOf(ns)
         /\ FilesOf(ns) \subseteq DOMAIN ns
BY DEF FilesBelow, FilesOf, Below

LEMMA TypeLaunch ==
  ASSUME TInv, NEW kind \in Taking, NEW S \in Selections, Launch(kind, S),
         delete' = <<>> \/ delete' = SetToSeq(S)
  PROVE  TInv'
<1>1. S \subseteq DOMAIN nodes
  BY DEF Selections
<1>2. OpOK'
  BY <1>1, FilesBelowAreNodes DEF Launch, OpOK, Idle, Taking
<1>3. Held(nodes, delete)'
  <2>1. IsFiniteSet(S)
    BY <1>1, NodesAreFinite DEF TInv
  <2>. DEFINE n == Cardinality(S)
              d == SetToSeq(S)
  <2>2. n \in Nat /\ d \in [1 .. n -> S]
    BY <2>1, InOrder
  <2>3. S \subseteq Nat
    BY <1>1, ConstantsAreNumbers DEF TInv, NodesOK
  <2>. HIDE DEF n, d
  <2>4. d \in [1 .. n -> Nat] /\ \A i \in DOMAIN d: d[i] \in DOMAIN nodes
    BY <1>1, <2>2, <2>3
  <2>5. Held(nodes, d)
    BY <2>2, <2>4, SeqDef DEF Held
  <2>6. Held(nodes, <<>>)
    BY DEF Held
  <2>. QED
    BY <2>5, <2>6 DEF Launch, d
<1>4. UserOK'
  BY DEF TInv, Launch, UserOK, user
<1>. QED
  BY <1>2, <1>3, <1>4 DEF TInv, Launch, ClipboardOK, CachesOK, EntriesOK

LEMMA TypeTake ==
  ASSUME TInv, op.kind = "none", Take
  PROVE  TInv'
<1>1. ASSUME NEW S \in Selections, SelectionCopy(S) \/ SelectionCut(S) \/ DragStarted(S)
      PROVE  TInv'
  <2>1. \E kind \in Taking: Launch(kind, S)
    BY <1>1 DEF SelectionCopy, SelectionCut, DragStarted, TakeFiles, Taking
  <2>2. delete' = <<>> \/ delete' = SetToSeq(S)
    BY <1>1 DEF SelectionCopy, SelectionCut, DragStarted
  <2>. QED
    BY <2>1, <2>2, TypeLaunch
<1>2. ASSUME NEW n \in DOMAIN nodes, SelectionOpen(n)
      PROVE  TInv'
  <2>1. n \in FilesOf(nodes)
    BY <1>2 DEF SelectionOpen, FilesOf
  <2>2. OpOK'
    BY <1>2, <2>1, FilesBelowAreNodes DEF SelectionOpen, Launch, OpOK, Idle, Taking
  <2>3. UserOK'
    BY <1>2 DEF TInv, SelectionOpen, Launch, UserOK, user
  <2>. QED
    BY <1>2, <2>2, <2>3 DEF TInv, SelectionOpen, Launch, ClipboardOK, CachesOK, EntriesOK
<1>. QED
  BY <1>1, <1>2 DEF Take

(***************************************************************************)
(* The worker and the viewers.                                             *)
(***************************************************************************)
LEMMA TypeSynced ==
  ASSUME TInv, NEW n \in op.todo, NEW x \in Bytes \union {Garbage, Partial},
         NEW t, NEW o, Synced(n, t, o),
         t = temp \/ t = Extended(temp, nodes[n].path, x),
         \/ o = [op EXCEPT !.todo = @ \ {n}]
         \/ o = [op EXCEPT !.todo = {}, !.failed = TRUE]
  PROVE  TInv'
<1>1. OpOK'
  <2>1. op \in [kind: Taking, sel: SUBSET DOMAIN nodes,
                todo: SUBSET DOMAIN nodes,
                file: Bytes \union {Garbage, "none", "edited"},
                cancelled: BOOLEAN, failed: BOOLEAN]
    BY DEF TInv, OpOK, Synced, Taking
  <2>2. op' = o /\ nodes' = nodes /\ op.todo \subseteq FilesBelow(nodes, op.sel)
    BY DEF Synced, TInv, OpOK
  <2>3. /\ op' \in [kind: Taking, sel: SUBSET DOMAIN nodes,
                    todo: SUBSET DOMAIN nodes,
                    file: Bytes \union {Garbage, "none", "edited"},
                    cancelled: BOOLEAN, failed: BOOLEAN]
        /\ op'.sel = op.sel /\ op'.todo \subseteq op.todo
    BY <2>1, <2>2
  <2>. QED
    BY <2>2, <2>3 DEF OpOK, Taking
<1>2. CachesOK'
  BY DEF TInv, CachesOK, Synced, Extended
<1>. QED
  BY <1>1, <1>2 DEF TInv, Synced, ClipboardOK, UserOK, user, EntriesOK

LEMMA TypeExecSync ==
  ASSUME TInv, NEW n \in op.todo, ExecSync(n)
  PROVE  TInv'
<1>. DEFINE path == nodes[n].path
            old == IF path \in DOMAIN exec THEN exec[path] ELSE <<>>
            cache == TryFindExisting(old)
            bytes == Read(disk, nodes[n].src)
            file == [bytes |-> bytes, locked |-> FALSE,
                     state |-> IF op.cancelled THEN "gone" ELSE "same"]
            fname == IF cache.found THEN cache.bytes ELSE bytes
            items == IF cache.found THEN cache.kept ELSE cache.kept \o <<file>>
<1>1. /\ op' = [op EXCEPT !.todo = {}, !.file = fname]
      /\ exec' = Extended(exec, path, items)
      /\ outcome' = cache.outcome /\ op.kind = "open"
      /\ UNCHANGED <<nodes, disk, delete, clipboard, temp, user, meant, given>>
  BY DEF ExecSync
<1>2. bytes \in Bytes \union {Garbage}
  <2>1. n \in FilesOf(nodes)
    BY FilesBelowAreNodes DEF TInv, OpOK
  <2>2. NodesOK(nodes) /\ n \in DOMAIN nodes
    BY <2>1, FilesBelowAreNodes DEF TInv
  <2>3. nodes[n].src \in Sources
    BY <2>1, <2>2, PathsAreSequences
  <2>. QED
    BY <2>3, ReadGivesBytes
<1>3. old \in Seq(CacheItems)
  BY DEF TInv, CachesOK
<1>. HIDE DEF old, bytes
<1>4. /\ cache.found \in BOOLEAN /\ cache.kept \in Seq(CacheItems)
      /\ cache.outcome \in {"done", "undefined"}
      /\ cache.found => /\ cache.kept # <<>>
                        /\ cache.bytes \in Bytes \union {Garbage, "edited"}
  <2>1. /\ cache.found \in BOOLEAN /\ cache.kept \in Seq(CacheItems)
        /\ cache.outcome \in {"done", "undefined"}
        /\ cache.found => /\ cache.kept # <<>>
                          /\ \E x \in CacheItems: x.state = "same" /\ x.bytes = cache.bytes
    BY <1>3, FoundIsCached
  <2>2. \A x \in CacheItems: x.bytes \in Bytes \union {Garbage, "edited"}
    BY DEF CacheItems
  <2>. QED
    BY <2>1, <2>2
<1>5. file \in CacheItems
  BY <1>2 DEF CacheItems
<1>. HIDE DEF cache, file
<1>6. items \in Seq(CacheItems) /\ items # <<>>
  <2>1. Append(cache.kept, file) = cache.kept \o <<file>>
    BY <1>4, <1>5, AppendIsConcat
  <2>. QED
    BY <1>4, <1>5, <2>1, OneMoreItem
<1>7. fname \in Bytes \union {Garbage, "edited"}
  BY <1>2, <1>4
<1>. HIDE DEF items, fname, path
<1>8. OpOK'
  <2>1. op' \in [kind: {"open"}, sel: SUBSET DOMAIN nodes, todo: {{}},
                 file: Bytes \union {Garbage, "none", "edited"},
                 cancelled: BOOLEAN, failed: BOOLEAN]
        /\ op'.sel = op.sel
    BY <1>1, <1>7 DEF TInv, OpOK
  <2>2. \E m \in FilesOf(nodes): op.sel = {m}
    BY <1>1 DEF TInv, OpOK
  <2>. QED
    BY <1>1, <2>1, <2>2 DEF OpOK, Taking
<1>9. CachesOK'
  BY <1>1, <1>6 DEF TInv, CachesOK, Extended
<1>10. UserOK'
  BY <1>1, <1>4 DEF TInv, UserOK, user
<1>. QED
  BY <1>1, <1>8, <1>9, <1>10 DEF TInv, ClipboardOK, EntriesOK

LEMMA TypeWorker ==
  ASSUME TInv, Worker
  PROVE  TInv'
<1>1. PICK n \in op.todo: SyncPboFileNode(n) \/ SyncFails(n) \/ ExecSync(n)
  BY DEF Worker
<1>2. CASE SyncPboFileNode(n)
  <2>1. n \in FilesOf(nodes) /\ n \in DOMAIN nodes /\ NodesOK(nodes)
    BY FilesBelowAreNodes DEF TInv, OpOK
  <2>2. nodes[n].src \in Sources
    BY <2>1, PathsAreSequences
  <2>3. Read(disk, nodes[n].src) \in Bytes \union {Garbage, Partial}
    BY <2>2, ReadGivesBytes
  <2>. DEFINE t == IF nodes[n].path \in DOMAIN temp \/ op.cancelled THEN temp
                   ELSE Extended(temp, nodes[n].path, Read(disk, nodes[n].src))
              o == [op EXCEPT !.todo = @ \ {n}]
  <2>4. Synced(n, t, o)
    BY <1>2 DEF SyncPboFileNode
  <2>. QED
    BY <2>3, <2>4, TypeSynced
<1>3. CASE SyncFails(n)
  <2>. DEFINE t == Extended(temp, nodes[n].path, Partial)
              o == [op EXCEPT !.todo = {}, !.failed = TRUE]
  <2>1. Synced(n, t, o)
    BY <1>3 DEF SyncFails
  <2>2. Partial \in Bytes \union {Garbage, Partial}
    OBVIOUS
  <2>. QED
    BY <2>1, <2>2, TypeSynced
<1>. QED
  BY <1>1, <1>2, <1>3, TypeExecSync

LEMMA TypeViewer ==
  ASSUME TInv, Viewer
  PROVE  TInv'
<1>1. PICK path \in DOMAIN exec: \E i \in DOMAIN exec[path]:
        ViewerWrites(path, i) \/ ViewerLocks(path, i)
  BY DEF Viewer
<1>2. PICK i \in DOMAIN exec[path]: ViewerWrites(path, i) \/ ViewerLocks(path, i)
  BY <1>1
<1>. DEFINE s == exec[path]
<1>3. s \in Seq(CacheItems) /\ s # <<>> /\ i \in 1 .. Len(s) /\ s[i] \in CacheItems
  <2>1. s \in Seq(CacheItems) /\ s # <<>>
    BY DEF TInv, CachesOK
  <2>. QED
    BY <1>2, <2>1, LenProperties, ElementOfSeq
<1>4. PICK file \in CacheItems: ViewerTouches(path, i, file)
  <2>. DEFINE w == [bytes |-> "edited", state |-> "changed", locked |-> FALSE]
              l == [s[i] EXCEPT !.locked = ~@]
  <2>1. w \in CacheItems /\ l \in CacheItems
    BY <1>3 DEF CacheItems
  <2>2. ViewerTouches(path, i, w) \/ ViewerTouches(path, i, l)
    BY <1>2 DEF ViewerWrites, ViewerLocks
  <2>. QED
    BY <2>1, <2>2
<1>5. exec' = [exec EXCEPT ![path] = [s EXCEPT ![i] = file]]
  BY <1>4 DEF ViewerTouches
<1>6. /\ [s EXCEPT ![i] = file] \in Seq(CacheItems)
      /\ [s EXCEPT ![i] = file] # <<>>
  <2>. DEFINE t == [s EXCEPT ![i] = file]
  <2>1. t \in Seq(CacheItems) /\ Len(t) = Len(s)
    BY <1>3, ExceptSeq
  <2>2. Len(s) # 0
    BY <1>3, EmptySeq
  <2>. QED
    BY <2>1, <2>2, EmptySeq
<1>7. CachesOK'
  <2>1. temp' = temp
    BY <1>4 DEF ViewerTouches
  <2>. HIDE DEF s
  <2>. QED
    BY <1>5, <1>6, <2>1 DEF TInv, CachesOK
<1>8. UserOK'
  BY <1>4 DEF TInv, UserOK, ViewerTouches, user
<1>. QED
  BY <1>4, <1>7, <1>8 DEF TInv, ViewerTouches, ClipboardOK, OpOK, EntriesOK

(***************************************************************************)
(* What the user has taken comes into the document, or leaves it.          *)
(***************************************************************************)
Descriptor(ns, m, n) ==
  [node |-> m,
   path |-> SubSeq(ns[m].path, Len(ns[n].path), Len(ns[m].path)),
   src  |-> ns[m].src]

LEMMA DescriptorOK ==
  ASSUME NodesOK(nodes), NEW n \in DOMAIN nodes, NEW m \in FilesBelow(nodes, {n})
  PROVE  LET d == Descriptor(nodes, m, n)
         IN  IsFilePath(d.path) /\ d.src \in Sources
<1>. DEFINE p == nodes[n].path
            q == nodes[m].path
<1>1. m \in FilesOf(nodes) /\ m \in DOMAIN nodes /\ IsPrefix(p, q)
  BY DEF FilesBelow, Below, FilesOf
<1>2. IsFilePath(q) /\ nodes[m].src \in Sources /\ p \in Paths /\ Len(p) \in 1 .. MaxDepth
  BY <1>1, PathsAreSequences
<1>3. Len(p) \in 1 .. Len(q)
  <2>1. Len(p) <= Len(q)
    BY <1>1 DEF IsPrefix
  <2>2. Len(p) \in Nat /\ Len(q) \in Nat
    BY <1>2, LenProperties DEF Paths, IsFilePath
  <2>. QED
    BY <1>2, <2>1, <2>2, ConstantsAreNumbers
<1>4. IsFilePath(SubSeq(q, Len(p), Len(q)))
  BY <1>2, <1>3, EndOfFilePath
<1>. QED
  BY <1>2, <1>4 DEF Descriptor

LEMMA PackedFiles ==
  ASSUME NodesOK(nodes), NEW S \in SUBSET DOMAIN nodes
  PROVE  /\ IsFiniteSet(Pack(S))
         /\ \A d \in Pack(S): IsFilePath(d.path) /\ d.src \in Sources
<1>1. ASSUME NEW d \in Pack(S)
      PROVE  \E n \in S: \E m \in FilesBelow(nodes, {n}): d = Descriptor(nodes, m, n)
  BY DEF Pack, Descriptor
<1>2. \A d \in Pack(S): IsFilePath(d.path) /\ d.src \in Sources
  BY <1>1, DescriptorOK
<1>. DEFINE N == DOMAIN nodes
            T == N \X N
            f == [x \in T |-> Descriptor(nodes, x[1], x[2])]
            R == {f[x]: x \in T}
<1>3. IsFiniteSet(N)
  BY NodesAreFinite
<1>4. IsFiniteSet(T)
  BY <1>3, FS_Product
<1>5. IsFiniteSet(R)
  <2>1. f \in Surjection(T, R)
    BY DEF Surjection
  <2>. HIDE DEF f, R, T
  <2>. QED
    BY <1>4, <2>1, FS_Surjection
<1>6. Pack(S) \subseteq R
  <2>1. ASSUME NEW d \in Pack(S)
        PROVE  d \in R
    <3>1. PICK n \in S: \E m \in FilesBelow(nodes, {n}): d = Descriptor(nodes, m, n)
      BY <1>1
    <3>2. PICK m \in FilesBelow(nodes, {n}): d = Descriptor(nodes, m, n)
      BY <3>1
    <3>3. m \in N /\ n \in N
      BY FilesBelowAreNodes
    <3>4. <<m, n>> \in T /\ f[<<m, n>>] = d
      BY <3>2, <3>3
    <3>. QED
      BY <3>4
  <2>. QED
    BY <2>1
<1>7. IsFiniteSet(Pack(S))
  <2>. HIDE DEF R
  <2>. QED
    BY <1>5, <1>6, FS_Subset
<1>. QED
  BY <1>2, <1>7

LEMMA ParcelsInAnyOrder ==
  ASSUME NEW P, IsFiniteSet(P), NEW list \in SetToSeqs(P),
         \A d \in P: IsFilePath(d.path) /\ d.src \in Sources
  PROVE  Parcels(list)
<1>. DEFINE n == Cardinality(P)
<1>1. n \in Nat
  BY FS_CardinalityType
<1>2. list \in [1 .. n -> P]
  BY DEF SetToSeqs
<1>. HIDE DEF n
<1>3. Len(list) = n
  BY <1>1, <1>2
<1>. QED
  BY <1>1, <1>2, <1>3 DEF Parcels

LEMMA FoldersHavePaths ==
  ASSUME NodesOK(nodes), NEW dir \in Folders
  PROVE  IsFolderPath(dir)
<1>1. IsFolderPath(<<>>)
  BY DEF IsFolderPath
<1>2. ASSUME NEW n \in DOMAIN nodes \ FilesOf(nodes)
      PROVE  IsFolderPath(nodes[n].path)
  BY PathsAreSequences
<1>. QED
  BY <1>1, <1>2 DEF Folders

\* What an operation leaves.
LEMMA TypeBecomes ==
  ASSUME TInv, NEW s, Settled(Scene, s), Becomes(s), op' = Idle,
         disk' = disk, clipboard' = clipboard,
         gesture' \in {"none", "copy", "cut", "stale"},
         cut' # {} => gesture' = "cut"
  PROVE  TInv'
<1>1. /\ nodes' = s.nodes /\ temp' = s.temp /\ exec' = s.exec
      /\ delete' = s.delete /\ outcome' = s.outcome /\ s.outcome # "full"
  BY DEF Becomes
<1>2. /\ NodesOK(s.nodes) /\ Held(s.nodes, s.delete)
      /\ s.outcome \in {"done", "thrown", "dangling", "full"}
      /\ LeftOf(s.temp, temp) /\ LeftOf(s.exec, exec)
  BY DEF Settled, SceneOK, Scene
<1>3. CachesOK'
  BY <1>1, <1>2 DEF TInv, CachesOK, LeftOf
<1>4. OpOK'
  BY DEF OpOK, Idle
<1>5. UserOK'
  BY <1>1, <1>2 DEF UserOK
<1>. QED
  BY <1>1, <1>2, <1>3, <1>4, <1>5 DEF TInv, ClipboardOK, EntriesOK

LEMMA TypeEnds ==
  ASSUME TInv, OpenExecute \/ CopyOrCutExecute
  PROVE  TInv'
<1>1. OpOK'
  <2>1. op' = Idle
    BY DEF OpenExecute, CopyOrCutExecute
  <2>. QED
    BY <2>1 DEF OpOK, Idle
<1>2. NodesOK(nodes) /\ op.sel \in SUBSET DOMAIN nodes
  BY DEF TInv, OpOK
<1>3. CASE OpenExecute
  BY <1>1, <1>3 DEF TInv, OpenExecute, ClipboardOK, CachesOK, UserOK, user, EntriesOK
<1>4. CASE CopyOrCutExecute
  <2>1. clipboard' = clipboard \/ clipboard' = Pack(op.sel)
    BY <1>4 DEF CopyOrCutExecute
  <2>2. ClipboardOK'
    BY <1>2, <2>1, PackedFiles DEF TInv, ClipboardOK
  <2>3. UserOK'
    BY <1>4 DEF TInv, UserOK, CopyOrCutExecute
  <2>. QED
    BY <1>1, <1>4, <2>2, <2>3 DEF TInv, CopyOrCutExecute, CachesOK, EntriesOK
<1>. QED
  BY <1>3, <1>4

\* What a paste and a drop make of the scene.
LEMMA PasteSettles ==
  ASSUME TInv, NEW dir \in Folders, NEW answer, NEW list \in SetToSeqs(clipboard)
  PROVE  Settled(Scene, AddFilesFromPbo(Scene, dir, list, answer))
<1>1. Inserted(Scene, Scene)
  BY SceneIsInserted DEF TInv
<1>2. IsFolderPath(dir)
  BY FoldersHavePaths DEF TInv
<1>3. Parcels(list)
  BY ParcelsInAnyOrder DEF TInv, ClipboardOK
<1>. QED
  BY <1>1, <1>2, <1>3, FilesAreAdded

LEMMA DropSettles ==
  ASSUME TInv, NEW dir \in Folders, NEW answer, NEW list \in SetToSeqs(Pack(op.sel)),
         NEW action
  PROVE  Settled(Scene, DragEnds(AddFilesFromPbo(Scene, dir, list, answer), action))
<1>1. Inserted(Scene, Scene)
  BY SceneIsInserted DEF TInv
<1>2. IsFolderPath(dir)
  BY FoldersHavePaths DEF TInv
<1>3. /\ IsFiniteSet(Pack(op.sel))
      /\ \A d \in Pack(op.sel): IsFilePath(d.path) /\ d.src \in Sources
  BY PackedFiles DEF TInv, OpOK
<1>4. Parcels(list)
  BY <1>3, ParcelsInAnyOrder
<1>. QED
  BY <1>1, <1>2, <1>4, FilesAreAdded, DragSettles

LEMMA TypePaste ==
  ASSUME TInv, op.kind = "none", Paste
  PROVE  TInv'
<1>1. PICK dir \in Folders: \E answer \in Answers(dir, clipboard):
        \E list \in SetToSeqs(clipboard): SelectionPaste(dir, list, answer)
  BY DEF Paste
<1>6. PICK answer \in Answers(dir, clipboard):
        \E list \in SetToSeqs(clipboard): SelectionPaste(dir, list, answer)
  BY <1>1
<1>7. PICK list \in SetToSeqs(clipboard): SelectionPaste(dir, list, answer)
  BY <1>6
<1>. DEFINE s == AddFilesFromPbo(Scene, dir, list, answer)
<1>2. Settled(Scene, s)
  BY PasteSettles
<1>. HIDE DEF s
<1>3. PasteTo(s, dir, answer)
  BY <1>7 DEF SelectionPaste, s
<1>4. /\ Becomes(s) /\ op' = op /\ disk' = disk /\ clipboard' = clipboard
      /\ gesture' \in {"copy", gesture}
      /\ cut' = {} \/ (cut' = cut /\ gesture' = gesture)
  BY <1>3 DEF PasteTo
<1>5. op' = Idle
  BY <1>4 DEF TInv, OpOK
<1>. QED
  BY <1>2, <1>4, <1>5, TypeBecomes DEF TInv, UserOK

LEMMA TypeDrop ==
  ASSUME TInv, Drop
  PROVE  TInv'
<1>1. ASSUME NEW dir \in Folders, NEW answer \in Answers(dir, Pack(op.sel)),
             NEW list \in SetToSeqs(Pack(op.sel)), NEW action \in {"move", "copy"},
             DropHere(dir, list, answer, action)
      PROVE  TInv'
  <2>. DEFINE s == DragEnds(AddFilesFromPbo(Scene, dir, list, answer), action)
  <2>1. Settled(Scene, s)
    BY DropSettles
  <2>2. /\ Becomes(s) /\ op' = Idle /\ disk' = disk /\ clipboard' = clipboard
        /\ gesture' \in {gesture, "stale"} /\ cut' = {}
    BY <1>1 DEF DropHere, Dragged
  <2>. HIDE DEF s
  <2>. QED
    BY <2>1, <2>2, TypeBecomes DEF TInv, UserOK
<1>2. ASSUME NEW action \in {"move", "copy", "none"}, DropElsewhere(action)
      PROVE  TInv'
  <2>. DEFINE s == DragEnds(Scene, action)
  <2>1. Settled(Scene, s)
    BY SceneIsInserted, DragSettles DEF TInv
  <2>2. /\ Becomes(s) /\ op' = Idle /\ disk' = disk /\ clipboard' = clipboard
        /\ gesture' \in {gesture, "stale"} /\ cut' = {}
    BY <1>2 DEF DropElsewhere, Dragged
  <2>. HIDE DEF s
  <2>. QED
    BY <2>1, <2>2, TypeBecomes DEF TInv, UserOK
<1>3. CASE DragFailed
  <2>1. OpOK' /\ UserOK'
    BY <1>3 DEF DragFailed, OpOK, Idle, UserOK
  <2>. QED
    BY <1>3, <2>1 DEF TInv, DragFailed, ClipboardOK, CachesOK, EntriesOK
<1>. QED
  BY <1>1, <1>2, <1>3 DEF Drop

(***************************************************************************)
(* What else is done to the document.                                      *)
(***************************************************************************)
LEMMA TypeEdit ==
  ASSUME TInv, op.kind = "none", NEW s, Settled(Scene, s), NEW gone, Edit(s, gone)
  PROVE  TInv'
<1>1. /\ Becomes(s) /\ op' = op /\ disk' = disk /\ clipboard' = clipboard
      /\ \/ gesture' = "stale" /\ cut' = {}
         \/ gesture' = gesture /\ cut' = cut
  BY DEF Edit, Edited
<1>2. op' = Idle
  BY <1>1 DEF TInv, OpOK
<1>. QED
  BY <1>1, <1>2, TypeBecomes DEF TInv, UserOK

\* A file from outside has no folders with it.
LEMMA AddedIsParcel ==
  ASSUME NEW name \in FileTitles, NEW bytes \in External
  PROVE  LET d == Added(Title(name, 0), bytes)
         IN  IsFilePath(d.path) /\ d.src \in Sources /\ Parcels(<<d>>)
<1>. DEFINE d == Added(Title(name, 0), bytes)
            t == Title(name, 0)
<1>1. IsFilePath(d.path) /\ d.src \in Sources
  <2>1. t \in EntryTitles
    BY DEF Title, EntryTitles, FileNames
  <2>2. d.path = <<t>> /\ d.src = [layout |-> 0, bytes |-> bytes]
    BY DEF Added, Own
  <2>3. d.src \in Sources
    BY <2>2, ContentsAssumption, ConstantsAreNumbers DEF Sources
  <2>. HIDE DEF t
  <2>4. IsFilePath(<<t>>)
    <3>1. /\ <<t>> \in Seq(FolderTitles \union EntryTitles) /\ Len(<<t>>) = 1
          /\ <<t>>[1] = t
      BY <2>1
    <3>. QED
      BY <2>1, <3>1 DEF IsFilePath, Paths
  <2>. QED
    BY <2>2, <2>3, <2>4
<1>. HIDE DEF d
<1>2. Parcels(<<d>>)
  <2>1. Len(<<d>>) = 1 /\ <<d>>[1] = d
    OBVIOUS
  <2>. QED
    BY <1>1, <2>1 DEF Parcels
<1>. QED
  BY <1>1, <1>2 DEF d

LEMMA AddedSettles ==
  ASSUME TInv, NEW dir \in Folders, NEW name \in FileTitles, NEW bytes \in External,
         NEW answer
  PROVE  Settled(Scene, IF answer = Refused THEN Scene
                        ELSE CreateNodeSet(Scene, dir,
                               <<Added(Title(name, 0), bytes)>>, answer))
<1>. DEFINE d == Added(Title(name, 0), bytes)
<1>1. Inserted(Scene, Scene) /\ Settled(Scene, Scene)
  BY SceneIsInserted DEF TInv
<1>2. IsFolderPath(dir)
  BY FoldersHavePaths DEF TInv
<1>3. Parcels(<<d>>)
  BY AddedIsParcel
<1>. HIDE DEF d
<1>4. Settled(Scene, CreateNodeSet(Scene, dir, <<d>>, answer))
  BY <1>1, <1>2, <1>3, NodeSetIsInserted DEF Inserted
<1>. QED
  BY <1>1, <1>4 DEF d

LEMMA RenamedSettles ==
  ASSUME TInv, NEW n \in FilesOf(nodes), NEW name \in FileTitles,
         At(nodes, Front(nodes[n].path) \o <<Title(name, 0)>>) = {}
  PROVE  Settled(Scene, [Scene EXCEPT !.nodes[n].path =
                           Front(nodes[n].path) \o <<Title(name, 0)>>])
<1>. DEFINE path == Front(nodes[n].path) \o <<Title(name, 0)>>
            b == Scene
            r == [b EXCEPT !.nodes[n].path = path]
            t == Title(name, 0)
<1>1. /\ Settled(b, b) /\ b.nodes = nodes /\ b.delete = delete
      /\ b.temp = temp /\ b.exec = exec /\ b.outcome = "done"
  BY SceneIsInserted DEF TInv
<1>2. /\ n \in DOMAIN nodes /\ IsFilePath(nodes[n].path)
      /\ Len(nodes[n].path) \in 1 .. MaxDepth /\ nodes[n].src \in Sources
  BY FilesBelowAreNodes, PathsAreSequences DEF TInv
<1>3. IsFilePath(path) /\ Len(path) = Len(nodes[n].path)
  <2>1. t \in EntryTitles
    BY DEF Title, EntryTitles, FileNames
  <2>. HIDE DEF t
  <2>2. IsFilePath(Front(nodes[n].path) \o <<t>>)
        /\ Len(Front(nodes[n].path) \o <<t>>) = Len(nodes[n].path)
    BY <1>2, <2>1, Retitled
  <2>. QED
    BY <2>2 DEF t
<1>4. At(nodes, path) = {}
  OBVIOUS
<1>. HIDE DEF path, b
<1>5. /\ IsScene(r) /\ r.nodes = [b.nodes EXCEPT ![n].path = path]
      /\ r.delete = b.delete
      /\ r.temp = b.temp /\ r.exec = b.exec /\ r.outcome = b.outcome
  <2>1. IsScene(b)
    BY <1>1 DEF Settled, SceneOK
  <2>. QED
    BY <2>1 DEF IsScene
<1>. HIDE DEF r
<1>6. NodeOK(nodes[n])
  BY <1>2 DEF TInv, NodesOK
<1>7. /\ DOMAIN r.nodes = DOMAIN nodes
      /\ \A m \in DOMAIN nodes: m # n => r.nodes[m] = nodes[m]
      /\ r.nodes[n] = [nodes[n] EXCEPT !.path = path]
  BY <1>1, <1>2, <1>5
<1>8. r.nodes[n].path = path /\ r.nodes[n].src = nodes[n].src
      /\ r.nodes[n] \in [path: Paths, src: Sources \union {NoSource}]
  BY <1>3, <1>6, <1>7 DEF NodeOK, IsFilePath
<1>9. NodeOK(r.nodes[n])
  BY <1>2, <1>3, <1>8, NoSourceIsNone DEF NodeOK
<1>10. NodesOK(r.nodes)
  <2>1. \A m \in DOMAIN nodes: nodes[m].path # path
    BY <1>4 DEF At
  <2>2. \A k, m \in DOMAIN nodes: r.nodes[k].path = r.nodes[m].path => k = m
    BY <1>7, <1>8, <2>1 DEF TInv, NodesOK
  <2>3. \A m \in DOMAIN nodes: NodeOK(r.nodes[m])
    BY <1>7, <1>9 DEF TInv, NodesOK
  <2>. QED
    BY <1>7, <2>2, <2>3 DEF TInv, NodesOK
<1>11. Held(r.nodes, r.delete)
  BY <1>1, <1>5, <1>7 DEF TInv, Held
<1>12. Arrived(b, r)
  <2>1. path \notin FilePaths(nodes)
    BY <1>4 DEF At, FilePaths, PathsOf, FilesOf
  <2>2. FilesOf(r.nodes) = FilesOf(nodes)
    BY <1>7, <1>8 DEF FilesOf
  <2>3. \A m \in FilesOf(nodes): m = n \/ r.nodes[m] = nodes[m]
    BY <1>7 DEF FilesOf
  <2>. QED
    BY <1>1, <1>8, <2>1, <2>2, <2>3 DEF Arrived
<1>13. Settled(b, r)
  <2>1. LeftOf(r.temp, b.temp) /\ LeftOf(r.exec, b.exec)
    BY <1>5 DEF LeftOf
  <2>. QED
    BY <1>1, <1>5, <1>10, <1>11, <1>12, <2>1 DEF Settled, SceneOK
<1>. QED
  BY <1>13 DEF r, b, path

\* Whatever edits the document settles.
LEMMA EditsSettle ==
  ASSUME TInv, NEW dir, NEW name, NEW bytes, NEW answer, NEW S, NEW list, NEW n
  PROVE  /\ /\ dir \in Folders /\ name \in FileTitles /\ bytes \in External
            /\ AddFile(dir, Title(name, 0), bytes, answer)
            => \E s, gone: Settled(Scene, s) /\ Edit(s, gone)
         /\ S \in Selections /\ list \in SetToSeqs(S) /\ SelectionRemove(list)
            => \E s, gone: Settled(Scene, s) /\ Edit(s, gone)
         /\ n \in DOMAIN nodes /\ name \in FileTitles
            /\ SelectionRename(n, Title(name, 0))
            => \E s, gone: Settled(Scene, s) /\ Edit(s, gone)
<1>1. ASSUME dir \in Folders, name \in FileTitles, bytes \in External,
             AddFile(dir, Title(name, 0), bytes, answer)
      PROVE  \E s, gone: Settled(Scene, s) /\ Edit(s, gone)
  <2>. DEFINE s == IF answer = Refused THEN Scene
                   ELSE CreateNodeSet(Scene, dir,
                          <<Added(Title(name, 0), bytes)>>, answer)
  <2>1. Settled(Scene, s)
    BY <1>1, AddedSettles
  <2>2. Edit(s, Replaced(answer))
    BY <1>1 DEF AddFile
  <2>. HIDE DEF s
  <2>. QED
    BY <2>1, <2>2
<1>2. ASSUME S \in Selections, list \in SetToSeqs(S), SelectionRemove(list)
      PROVE  \E s, gone: Settled(Scene, s) /\ Edit(s, gone)
  <2>. DEFINE s == LET remove[i \in 0 .. Len(list)] ==
                         IF i = 0 THEN Scene
                         ELSE RemoveFromHierarchy(remove[i - 1], list[i])
                   IN  remove[Len(list)]
  <2>1. Len(list) \in Nat
    <3>. DEFINE k == Cardinality(S)
    <3>1. IsFiniteSet(S)
      BY <1>2, NodesAreFinite DEF TInv, Selections
    <3>2. k \in Nat /\ list \in [1 .. k -> S]
      BY <1>2, <3>1, FS_CardinalityType DEF SetToSeqs
    <3>. HIDE DEF k
    <3>. QED
      BY <3>2
  <2>2. Settled(Scene, Scene)
    BY SceneIsInserted DEF TInv
  <2>3. Settled(Scene, s)
    BY <2>1, <2>2, SelectionIsRemoved
  <2>4. Edit(s, FilesBelow(nodes, ToSet(list)))
    BY <1>2 DEF SelectionRemove
  <2>. HIDE DEF s
  <2>. QED
    BY <2>3, <2>4
<1>3. ASSUME n \in DOMAIN nodes, name \in FileTitles, SelectionRename(n, Title(name, 0))
      PROVE  \E s, gone: Settled(Scene, s) /\ Edit(s, gone)
  <2>. DEFINE s == [Scene EXCEPT !.nodes[n].path =
                      Front(nodes[n].path) \o <<Title(name, 0)>>]
  <2>1. n \in FilesOf(nodes)
        /\ At(nodes, Front(nodes[n].path) \o <<Title(name, 0)>>) = {}
        /\ Edit(s, {})
    BY <1>3 DEF SelectionRename, FilesOf
  <2>2. Settled(Scene, s)
    BY <1>3, <2>1, RenamedSettles
  <2>. HIDE DEF s
  <2>. QED
    BY <2>1, <2>2
<1>. QED
  BY <1>1, <1>2, <1>3

\* After a save the nodes are the same, and refer to what they referred to.
LEMMA SavedAgain ==
  ASSUME NodesOK(nodes), disk.layout \in Nat, Save
  PROVE  /\ NodesOK(nodes')
         /\ DOMAIN nodes' = DOMAIN nodes /\ FilesOf(nodes') = FilesOf(nodes)
         /\ \A n \in DOMAIN nodes: nodes'[n].path = nodes[n].path
         /\ \A n \in FilesOf(nodes):
              Read(disk', nodes'[n].src) = Read(disk, nodes[n].src)
<1>. DEFINE layout == disk.layout + 1
            Again(n) == IF nodes[n].src = NoSource THEN nodes[n]
                        ELSE [nodes[n] EXCEPT !.src = [layout |-> layout,
                                                       bytes |-> Read(disk, @)]]
<1>1. /\ layout \in 0 .. MaxLayouts /\ layout \in Nat /\ disk'.layout = layout
      /\ nodes' = [n \in DOMAIN nodes |-> Again(n)]
  BY ConstantsAreNumbers DEF Save
<1>2. ASSUME NEW n \in FilesOf(nodes)
      PROVE  /\ NodeOK(Again(n)) /\ Again(n).path = nodes[n].path
             /\ Again(n).src # NoSource
             /\ Read(disk', Again(n).src) = Read(disk, nodes[n].src)
  <2>. DEFINE x == nodes[n]
              src == [layout |-> layout, bytes |-> Read(disk, x.src)]
  <2>1. /\ n \in DOMAIN nodes /\ x.src # NoSource /\ NodeOK(x)
    BY DEF FilesOf, NodesOK
  <2>2. x \in [path: Paths, src: Sources \union {NoSource}] /\ x.src \in Sources
    BY <2>1 DEF NodeOK
  <2>3. src \in Sources
    <3>1. Read(disk, x.src) \in Bytes \union {Garbage}
      BY <2>2, ReadGivesBytes
    <3>. QED
      BY <1>1, <3>1 DEF Sources
  <2>4. Again(n) = [x EXCEPT !.src = src]
    BY <2>1
  <2>5. Read(disk', src) = src.bytes /\ src.bytes = Read(disk, x.src)
    BY <1>1 DEF Read
  <2>. HIDE DEF src, x
  <2>6. /\ Again(n) \in [path: Paths, src: Sources \union {NoSource}]
        /\ Again(n).path = x.path /\ Again(n).src = src
    BY <2>2, <2>3, <2>4
  <2>7. src # NoSource
    BY <2>3, NoSourceIsNone
  <2>8. NodeOK(Again(n))
    BY <2>1, <2>6, <2>7 DEF NodeOK
  <2>. QED
    BY <2>5, <2>6, <2>7, <2>8 DEF x
<1>3. ASSUME NEW n \in DOMAIN nodes, n \notin FilesOf(nodes)
      PROVE  Again(n) = nodes[n] /\ NodeOK(nodes[n]) /\ nodes[n].src = NoSource
  BY <1>3 DEF FilesOf, NodesOK
<1>. HIDE DEF Again, layout
<1>4. /\ DOMAIN nodes' = DOMAIN nodes
      /\ \A n \in DOMAIN nodes: nodes'[n] = Again(n)
  BY <1>1
<1>5. /\ \A n \in DOMAIN nodes: NodeOK(nodes'[n]) /\ nodes'[n].path = nodes[n].path
  BY <1>2, <1>3, <1>4
<1>6. FilesOf(nodes') = FilesOf(nodes)
  BY <1>2, <1>3, <1>4 DEF FilesOf
<1>7. \A n \in FilesOf(nodes): Read(disk', nodes'[n].src) = Read(disk, nodes[n].src)
  BY <1>2, <1>4 DEF FilesOf
<1>8. NodesOK(nodes')
  BY <1>4, <1>5 DEF NodesOK
<1>. QED
  BY <1>4, <1>5, <1>6, <1>7, <1>8

\* The entries that are saved are proper ones.
LEMMA EntriesNowAreOK ==
  ASSUME NodesOK(nodes)
  PROVE  /\ IsFiniteSet(EntriesNow)
         /\ \A e \in EntriesNow: IsFilePath(e.path) /\ e.bytes \in Bytes \union {Garbage}
<1>. DEFINE F == FilesOf(nodes)
            Entry(n) == [path |-> nodes[n].path, bytes |-> Read(disk, nodes[n].src)]
            f == [n \in F |-> Entry(n)]
<1>1. EntriesNow = {Entry(n): n \in F}
  BY DEF EntriesNow
<1>2. IsFiniteSet(F)
  BY NodesAreFinite DEF FilesOf
<1>3. ASSUME NEW n \in F
      PROVE  IsFilePath(Entry(n).path) /\ Entry(n).bytes \in Bytes \union {Garbage}
  <2>1. n \in DOMAIN nodes
    BY DEF FilesOf
  <2>2. IsFilePath(nodes[n].path) /\ nodes[n].src \in Sources
    BY <2>1, PathsAreSequences
  <2>. QED
    BY <2>2, ReadGivesBytes
<1>. HIDE DEF Entry, F
<1>4. f \in Surjection(F, EntriesNow)
  <2>1. f \in [F -> EntriesNow]
    BY <1>1
  <2>2. \A e \in EntriesNow: \E n \in F: f[n] = e
    BY <1>1
  <2>. QED
    BY <2>1, <2>2 DEF Surjection
<1>5. IsFiniteSet(EntriesNow)
  BY <1>2, <1>4, FS_Surjection
<1>. QED
  BY <1>1, <1>3, <1>5

LEMMA TypeSave ==
  ASSUME TInv, op.kind = "none", Save
  PROVE  TInv'
<1>1. disk.layout \in Nat /\ NodesOK(nodes)
  BY ConstantsAreNumbers DEF TInv, EntriesOK
<1>2. NodesOK(nodes') /\ DOMAIN nodes' = DOMAIN nodes
  BY <1>1, SavedAgain
<1>3. EntriesOK(disk')
  <2>1. /\ disk'.layout = disk.layout + 1 /\ disk'.entries = EntriesNow
        /\ disk.layout < MaxLayouts
    BY DEF Save
  <2>. QED
    BY <1>1, <2>1, EntriesNowAreOK, ConstantsAreNumbers DEF EntriesOK
<1>4. OpOK'
  <2>1. op' = Idle
    BY DEF TInv, OpOK, Save
  <2>. QED
    BY <2>1 DEF OpOK, Idle
<1>5. Held(nodes', delete')
  BY <1>2 DEF TInv, Save, Held
<1>. QED
  BY <1>2, <1>3, <1>4, <1>5 DEF TInv, Save, user, ClipboardOK, CachesOK, UserOK

\* What the reader makes of the PBO is a proper tree again.
LEMMA ReopenedSettles ==
  ASSUME TInv
  PROVE  LET s == Loaded(RemoveNodes(Scene, DOMAIN nodes), disk)
         IN  NodesOK(s.nodes) /\ Held(s.nodes, s.delete)
<1>. DEFINE b == RemoveNodes(Scene, DOMAIN nodes)
            s == Loaded(b, disk)
<1>1. Settled(Scene, Scene) /\ Scene.outcome = "done"
  BY SceneIsInserted DEF TInv
<1>2. Settled(Scene, b)
  BY <1>1, RemovalSettles
<1>. HIDE DEF b
<1>3. SceneOK(b)
  BY <1>2 DEF Settled
<1>4. LeftOf(b.temp, b.temp) /\ LeftOf(b.exec, b.exec) /\ Arrived(b, b)
  BY DEF LeftOf, Arrived
<1>5. Inserted(b, b)
  BY <1>3, <1>4 DEF Inserted, Settled
<1>6. Inserted(b, s)
  BY <1>5, EntriesAreLoaded DEF TInv
<1>7. NodesOK(s.nodes) /\ Held(s.nodes, s.delete)
  BY <1>6 DEF Inserted, Settled, SceneOK
<1>. QED
  BY <1>7 DEF b

LEMMA TypeReopen ==
  ASSUME TInv, op.kind = "none", Reopen
  PROVE  TInv'
<1>. DEFINE s == Loaded(RemoveNodes(Scene, DOMAIN nodes), disk)
<1>1. NodesOK(s.nodes) /\ Held(s.nodes, s.delete)
  BY ReopenedSettles
<1>2. /\ nodes' = s.nodes /\ delete' = s.delete
      /\ temp' = <<>> /\ exec' = <<>> /\ outcome' = "done" /\ cut' = {}
      /\ gesture' \in {"stale", gesture}
      /\ disk' = disk /\ clipboard' = clipboard /\ op' = op
  BY DEF Reopen
<1>. HIDE DEF s
<1>3. OpOK'
  <2>1. op' = Idle
    BY <1>2 DEF TInv, OpOK
  <2>. QED
    BY <2>1 DEF OpOK, Idle
<1>4. CachesOK'
  BY <1>2 DEF CachesOK
<1>5. UserOK'
  BY <1>2 DEF TInv, UserOK
<1>. QED
  BY <1>1, <1>2, <1>3, <1>4, <1>5 DEF TInv, EntriesOK, ClipboardOK

LEMMA TypeChange ==
  ASSUME TInv, op.kind = "none", Change
  PROVE  TInv'
<1>1. ASSUME NEW dir \in Folders, NEW name \in FileTitles, NEW bytes \in External,
             \E answer \in Answers(dir, {Added(Title(name, 0), bytes)}):
               AddFile(dir, Title(name, 0), bytes, answer)
      PROVE  TInv'
  BY <1>1, EditsSettle, TypeEdit
<1>2. ASSUME NEW S \in Selections, \E list \in SetToSeqs(S): SelectionRemove(list)
      PROVE  TInv'
  BY <1>2, EditsSettle, TypeEdit
<1>3. ASSUME NEW n \in DOMAIN nodes, NEW name \in FileTitles,
             SelectionRename(n, Title(name, 0))
      PROVE  TInv'
  BY <1>3, EditsSettle, TypeEdit
<1>. QED
  BY <1>1, <1>2, <1>3, TypeSave, TypeReopen DEF Change

LEMMA TypeCancel ==
  ASSUME TInv, Cancel
  PROVE  TInv'
<1>1. op' \in [kind: Taking \union {"none", "open"}, sel: SUBSET DOMAIN nodes,
               todo: SUBSET DOMAIN nodes,
               file: Bytes \union {Garbage, "none", "edited"},
               cancelled: BOOLEAN, failed: BOOLEAN]
      /\ op'.kind = op.kind /\ op'.sel = op.sel /\ op'.todo = op.todo
      /\ op.kind # "none"
  BY DEF Cancel, TInv, OpOK
<1>2. nodes' = nodes
  BY DEF Cancel
<1>3. OpOK'
  BY <1>1, <1>2 DEF TInv, OpOK
<1>. QED
  BY <1>3 DEF Cancel, TInv, EntriesOK, ClipboardOK, CachesOK, UserOK, user

LEMMA TypeNext ==
  ASSUME TInv, [Next]_vars
  PROVE  TInv'
<1>1. CASE UNCHANGED vars
  BY <1>1 DEF vars, TInv, EntriesOK, ClipboardOK, CachesOK, OpOK, UserOK
<1>2. CASE Next
  <2>1. CASE op.kind = "none" /\ (Take \/ Paste \/ Change \/ Viewer)
    BY <2>1, TypeTake, TypePaste, TypeChange, TypeViewer
  <2>2. CASE Cancel \/ Worker \/ OpenExecute \/ CopyOrCutExecute \/ Drop
    BY <2>2, TypeCancel, TypeWorker, TypeEnds, TypeDrop
  <2>. QED
    BY <1>2, <2>1, <2>2 DEF Next
<1>. QED
  BY <1>1, <1>2

\* Whatever is cut, copied, dragged, pasted, dropped, opened, added, removed,
\* renamed and saved (ui/treewidget/treewidget.cpp, model/pbomodel.cpp): the
\* tree keeps to proper nodes, and DeleteOp, the descriptors and the caches to
\* what nodes are made of, whether or not any of the mishaps come about.
THEOREM TypeCorrect == Spec => []TypeOK
<1>1. Init => TInv
  BY TypeInit
<1>2. TInv /\ [Next]_vars => TInv'
  BY TypeNext
<1>3. TInv => TypeOK
  BY TypeIsImplied
<1>. QED
  BY <1>1, <1>2, <1>3, PTL DEF Spec

(***************************************************************************)
(* Other programs find the contents of the entries.                        *)
(***************************************************************************)
\* What was extracted has the path of an entry, or of one that left its path.
Known == DOMAIN temp \union DOMAIN exec \subseteq FilePaths(nodes) \union vacated

\* What is extracted at the path of an entry is its contents, unless that
\* failed, or a viewer has changed the file.
TempFresh(n) ==
  nodes[n].path \in DOMAIN temp =>
    temp[nodes[n].path] \in {Partial, Read(disk, nodes[n].src)}

ExecFresh(n) ==
  nodes[n].path \in DOMAIN exec =>
    \A i \in DOMAIN exec[nodes[n].path]:
      exec[nodes[n].path][i].state = "same" =>
        exec[nodes[n].path][i].bytes = Read(disk, nodes[n].src)

Fresh == \A n \in FilesOf(nodes): TempFresh(n) /\ ExecFresh(n)

\* An operation that goes well leaves the contents of all it has taken.
Taken(m) ==
  /\ nodes[m].path \in DOMAIN temp => temp[nodes[m].path] = Read(disk, nodes[m].src)
  /\ m \in op.todo \/ op.cancelled \/ nodes[m].path \in DOMAIN temp

OpFresh ==
  /\ op.kind \in Taking =>
       /\ \A n \in op.sel: \A p \in vacated: ~IsPrefix(nodes[n].path, p)
       /\ ~op.failed => \A m \in FilesBelow(nodes, op.sel): Taken(m)
  /\ op.kind = "open" /\ op.todo = {} /\ ~op.failed =>
       \A n \in op.sel: op.file = Read(disk, nodes[n].src)

FInv == TInv /\ Known /\ Fresh /\ OpFresh /\ OthersGetTheEntries

LEMMA FreshInit == Init => FInv
<1>. SUFFICES ASSUME Init
              PROVE  FInv
  OBVIOUS
<1>1. temp = <<>> /\ exec = <<>> /\ op = Idle /\ given = NoFiles
  BY DEF Init
<1>2. DOMAIN <<>> = {}
  OBVIOUS
<1>3. Known /\ Fresh
  BY <1>1, <1>2 DEF Known, Fresh, TempFresh, ExecFresh
<1>4. OpFresh
  BY <1>1 DEF OpFresh, Idle, Taking
<1>5. OthersGetTheEntries
  BY <1>1 DEF OthersGetTheEntries, NoFiles, Given
<1>. QED
  BY <1>3, <1>4, <1>5, TypeInit DEF FInv

LEMMA NothingRuns ==
  ASSUME op' = Idle
  PROVE  OpFresh'
BY DEF OpFresh, Idle, Taking

LEMMA NothingGiven ==
  ASSUME given' = NoFiles
  PROVE  OthersGetTheEntries'
BY DEF OthersGetTheEntries, NoFiles, Given

\* An entry that arrives at a path finds no file that was extracted for
\* another one: its own path was never left.
LEMMA FreshBecomes ==
  ASSUME "vacated" \notin Mishaps, TInv, Known, Fresh,
         NEW s, Settled(Scene, s), Becomes(s), disk' = disk
  PROVE  Known' /\ Fresh'
<1>1. /\ nodes' = s.nodes /\ temp' = s.temp /\ exec' = s.exec /\ s.outcome # "full"
      /\ vacated' = vacated \union (FilePaths(nodes) \ FilePaths(s.nodes))
      /\ (FilePaths(s.nodes) \ FilePaths(nodes)) \intersect vacated = {}
  BY DEF Becomes, Only
<1>2. /\ LeftOf(s.temp, temp) /\ LeftOf(s.exec, exec)
      /\ \A n \in FilesOf(s.nodes):
           \/ n \in FilesOf(nodes) /\ s.nodes[n] = nodes[n]
           \/ s.nodes[n].path \notin FilePaths(nodes) \intersect Cached(s)
  BY <1>1 DEF Settled, Arrived, Scene
<1>3. Cached(s) \subseteq FilePaths(nodes) \union vacated
  BY <1>2 DEF Known, LeftOf, Cached
<1>4. Known'
  BY <1>1, <1>3 DEF Known, Cached
<1>5. ASSUME NEW n \in FilesOf(s.nodes), s.nodes[n].path \in Cached(s)
      PROVE  n \in FilesOf(nodes) /\ s.nodes[n] = nodes[n]
  <2>1. s.nodes[n].path \in FilePaths(s.nodes)
    BY DEF FilePaths, PathsOf
  <2>. QED
    BY <1>1, <1>2, <1>3, <1>5, <2>1
<1>6. ASSUME NEW n \in FilesOf(s.nodes)
      PROVE  TempFresh(n)' /\ ExecFresh(n)'
  <2>1. TempFresh(n)'
    BY <1>1, <1>2, <1>5 DEF Fresh, TempFresh, LeftOf, Cached
  <2>2. ExecFresh(n)'
    BY <1>1, <1>2, <1>5 DEF Fresh, ExecFresh, LeftOf, Cached
  <2>. QED
    BY <2>1, <2>2
<1>. QED
  BY <1>1, <1>4, <1>6 DEF Fresh

LEMMA FreshTake ==
  ASSUME {"vacated", "retry"} \intersect Mishaps = {}, FInv, Take
  PROVE  Known' /\ Fresh' /\ OpFresh' /\ OthersGetTheEntries'
<1>1. ASSUME NEW kind, NEW S, Launch(kind, S)
      PROVE  /\ Known' /\ Fresh' /\ OthersGetTheEntries'
             /\ op'.kind = kind /\ op'.sel = S /\ op'.todo = FilesBelow(nodes, S)
             /\ nodes' = nodes /\ temp' = temp /\ disk' = disk /\ vacated' = vacated
  BY <1>1, NothingGiven
     DEF Launch, user, FInv, Known, Fresh, TempFresh, ExecFresh, Idle
<1>2. ASSUME NEW kind \in Taking, NEW S \in Selections, TakeFiles(kind, S)
      PROVE  OpFresh'
  <2>1. Launch(kind, S)
    BY <1>2 DEF TakeFiles
  <2>2. \A n \in S: \A p \in vacated: ~IsPrefix(nodes[n].path, p)
    BY <1>2 DEF TakeFiles, Only
  <2>3. ASSUME NEW m \in FilesBelow(nodes, S)
        PROVE  nodes[m].path \in DOMAIN temp
                 => temp[nodes[m].path] = Read(disk, nodes[m].src)
    <3>1. m \in FilesOf(nodes)
      BY FilesBelowAreNodes
    <3>2. TempFresh(m)
      BY <3>1 DEF FInv, Fresh
    <3>3. nodes[m].path \in DOMAIN temp => temp[nodes[m].path] # Partial
      BY <1>2 DEF TakeFiles, Only, PathsOf
    <3>. QED
      BY <3>2, <3>3 DEF TempFresh
  <2>4. \A m \in FilesBelow(nodes, S): Taken(m)'
    BY <1>1, <2>1, <2>3 DEF Taken
  <2>. QED
    BY <1>1, <2>1, <2>2, <2>4 DEF OpFresh, Taking
<1>3. ASSUME NEW n \in DOMAIN nodes, SelectionOpen(n)
      PROVE  OpFresh'
  <2>1. Launch("open", {n}) /\ n \in FilesOf(nodes)
    BY <1>3 DEF SelectionOpen, FilesOf
  <2>2. FilesBelow(nodes, {n}) = {n}
    BY <2>1, FilesAreLeaves DEF FInv, TInv
  <2>. QED
    BY <1>1, <2>1, <2>2 DEF OpFresh, Taking
<1>4. \/ \E S \in Selections: \E kind \in Taking: TakeFiles(kind, S)
      \/ \E n \in DOMAIN nodes: SelectionOpen(n)
  BY DEF Take, SelectionCopy, SelectionCut, DragStarted, Taking
<1>5. \E kind, S: Launch(kind, S)
  BY <1>4 DEF TakeFiles, SelectionOpen
<1>. QED
  BY <1>1, <1>2, <1>3, <1>4, <1>5

LEMMA FreshCancel ==
  ASSUME FInv, Cancel
  PROVE  Known' /\ Fresh' /\ OpFresh' /\ OthersGetTheEntries'
<1>1. /\ op'.kind = op.kind /\ op'.sel = op.sel /\ op'.todo = op.todo
      /\ op'.cancelled = TRUE /\ op'.failed = op.failed /\ op'.file = op.file
  BY DEF Cancel, FInv, TInv, OpOK
<1>2. UNCHANGED <<nodes, disk, temp, exec, vacated, given>>
  BY DEF Cancel, user
<1>3. Known' /\ Fresh' /\ OthersGetTheEntries'
  BY <1>2 DEF FInv, Known, Fresh, TempFresh, ExecFresh, OthersGetTheEntries
<1>4. \A m: Taken(m) => Taken(m)'
  BY <1>1, <1>2 DEF Taken
<1>5. OpFresh'
  BY <1>1, <1>2, <1>4 DEF FInv, OpFresh
<1>. QED
  BY <1>3, <1>5

\* A file that is extracted, or a part of it, is that of its entry only.
LEMMA FreshSynced ==
  ASSUME FInv, NEW n \in op.todo, NEW x, NEW o,
         x \in {Partial, Read(disk, nodes[n].src)},
         Synced(n, Extended(temp, nodes[n].path, x), o),
         nodes[n].path \notin DOMAIN temp
  PROVE  /\ Known' /\ Fresh'
         /\ DOMAIN temp' = DOMAIN temp \union {nodes[n].path}
         /\ temp'[nodes[n].path] = x
         /\ \A p \in DOMAIN temp: temp'[p] = temp[p]
<1>1. /\ temp' = Extended(temp, nodes[n].path, x)
      /\ UNCHANGED <<nodes, disk, exec, vacated, given>>
  BY DEF Synced, user
<1>2. n \in FilesOf(nodes)
  BY FilesBelowAreNodes DEF FInv, TInv, OpOK
<1>3. /\ DOMAIN temp' = DOMAIN temp \union {nodes[n].path}
      /\ temp'[nodes[n].path] = x
      /\ \A p \in DOMAIN temp: temp'[p] = temp[p]
  BY <1>1 DEF Extended
<1>4. Known'
  BY <1>1, <1>2, <1>3 DEF FInv, Known, FilePaths, PathsOf
<1>5. ASSUME NEW m \in FilesOf(nodes)
      PROVE  TempFresh(m)' /\ ExecFresh(m)'
  <2>1. nodes[m].path = nodes[n].path => m = n
    BY <1>2, FilesBelowAreNodes DEF FInv, TInv, NodesOK
  <2>2. TempFresh(m)'
    BY <1>1, <1>3, <2>1 DEF FInv, Fresh, TempFresh
  <2>3. ExecFresh(m)'
    BY <1>1 DEF FInv, Fresh, ExecFresh
  <2>. QED
    BY <2>2, <2>3
<1>. QED
  BY <1>1, <1>3, <1>4, <1>5 DEF Fresh

LEMMA FreshSync ==
  ASSUME FInv, NEW n \in op.todo, SyncPboFileNode(n) \/ SyncFails(n)
  PROVE  Known' /\ Fresh' /\ OpFresh' /\ OthersGetTheEntries'
<1>. DEFINE path == nodes[n].path
            bytes == Read(disk, nodes[n].src)
<1>1. /\ op.kind \in Taking /\ UNCHANGED <<nodes, disk, exec, vacated, given>>
  BY DEF SyncPboFileNode, SyncFails, Synced, Taking, user
<1>2. OthersGetTheEntries'
  BY <1>1 DEF FInv, OthersGetTheEntries
<1>3. /\ op \in [kind: Taking \union {"none", "open"}, sel: SUBSET DOMAIN nodes,
                 todo: SUBSET DOMAIN nodes,
                 file: Bytes \union {Garbage, "none", "edited"},
                 cancelled: BOOLEAN, failed: BOOLEAN]
      /\ op.todo \subseteq FilesBelow(nodes, op.sel) /\ NodesOK(nodes)
  BY DEF FInv, TInv, OpOK
<1>4. CASE SyncFails(n)
  <2>1. /\ Synced(n, Extended(temp, path, Partial),
                  [op EXCEPT !.todo = {}, !.failed = TRUE])
        /\ path \notin DOMAIN temp
    BY <1>4 DEF SyncFails
  <2>2. Known' /\ Fresh'
    <3>. DEFINE x == Partial
                o == [op EXCEPT !.todo = {}, !.failed = TRUE]
    <3>1. x \in {Partial, Read(disk, nodes[n].src)}
      OBVIOUS
    <3>2. Synced(n, Extended(temp, nodes[n].path, x), o)
      BY <2>1
    <3>3. nodes[n].path \notin DOMAIN temp
      BY <2>1
    <3>. HIDE DEF x, o, path, bytes
    <3>4. /\ Known' /\ Fresh'
          /\ DOMAIN temp' = DOMAIN temp \union {nodes[n].path}
          /\ temp'[nodes[n].path] = x
          /\ \A p \in DOMAIN temp: temp'[p] = temp[p]
      BY <3>1, <3>2, <3>3, FreshSynced
    <3>. QED
      BY <3>4
  <2>3. op'.kind = op.kind /\ op'.sel = op.sel /\ op'.failed = TRUE
    BY <1>3, <2>1 DEF Synced
  <2>4. OpFresh'
    BY <1>1, <2>3 DEF FInv, OpFresh, Taking
  <2>. QED
    BY <1>2, <2>2, <2>4
<1>5. CASE SyncPboFileNode(n)
  <2>. DEFINE o == [op EXCEPT !.todo = @ \ {n}]
              stays == path \in DOMAIN temp \/ op.cancelled
  <2>1. Synced(n, IF stays THEN temp ELSE Extended(temp, path, bytes), o)
    BY <1>5 DEF SyncPboFileNode
  <2>2. /\ op'.kind = op.kind /\ op'.sel = op.sel /\ op'.failed = op.failed
        /\ op'.cancelled = op.cancelled /\ op'.todo = op.todo \ {n}
    BY <1>3, <2>1 DEF Synced
  <2>3. CASE stays
    <3>1. temp' = temp
      BY <2>1, <2>3 DEF Synced
    <3>2. Known' /\ Fresh'
      BY <1>1, <3>1 DEF FInv, Known, Fresh, TempFresh, ExecFresh
    <3>3. \A m: Taken(m) => Taken(m)'
      BY <1>1, <2>2, <2>3, <3>1 DEF Taken
    <3>4. OpFresh'
      BY <1>1, <2>2, <3>3 DEF FInv, OpFresh, Taking
    <3>. QED
      BY <1>2, <3>2, <3>4
  <2>4. CASE ~stays
    <3>1. Synced(n, Extended(temp, path, bytes), o) /\ path \notin DOMAIN temp
      BY <2>1, <2>4
    <3>2. /\ Known' /\ Fresh'
          /\ DOMAIN temp' = DOMAIN temp \union {path}
          /\ temp'[path] = bytes
          /\ \A p \in DOMAIN temp: temp'[p] = temp[p]
      <4>. HIDE DEF o, bytes, path
      <4>1. bytes \in {Partial, Read(disk, nodes[n].src)}
        BY DEF bytes
      <4>2. /\ Synced(n, Extended(temp, nodes[n].path, bytes), o)
            /\ nodes[n].path \notin DOMAIN temp
        BY <3>1 DEF path
      <4>. QED
        BY <4>1, <4>2, FreshSynced DEF path
    <3>3. ASSUME NEW m \in FilesBelow(nodes, op.sel), Taken(m)
          PROVE  Taken(m)'
      <4>1. nodes[m].path = path => m = n
        BY <1>3, FilesBelowAreNodes DEF NodesOK
      <4>. QED
        BY <1>1, <2>2, <3>2, <3>3, <4>1 DEF Taken
    <3>4. OpFresh'
      BY <1>1, <2>2, <3>3 DEF FInv, OpFresh, Taking
    <3>. QED
      BY <1>2, <3>2, <3>4
  <2>. QED
    BY <2>3, <2>4
<1>. QED
  BY <1>4, <1>5

LEMMA FreshExecSync ==
  ASSUME FInv, NEW n \in op.todo, ExecSync(n)
  PROVE  Known' /\ Fresh' /\ OpFresh' /\ OthersGetTheEntries'
<1>. DEFINE path == nodes[n].path
            old == IF path \in DOMAIN exec THEN exec[path] ELSE <<>>
            cache == TryFindExisting(old)
            bytes == Read(disk, nodes[n].src)
            file == [bytes |-> bytes, locked |-> FALSE,
                     state |-> IF op.cancelled THEN "gone" ELSE "same"]
            fname == IF cache.found THEN cache.bytes ELSE bytes
            items == IF cache.found THEN cache.kept ELSE cache.kept \o <<file>>
            X == {x \in CacheItems: x.state = "same" => x.bytes = bytes}
<1>1. /\ op' = [op EXCEPT !.todo = {}, !.file = fname]
      /\ exec' = Extended(exec, path, items)
      /\ op.kind = "open"
      /\ UNCHANGED <<nodes, disk, temp, vacated, given>>
  BY DEF ExecSync, user
<1>2. /\ n \in FilesOf(nodes) /\ n \in DOMAIN nodes /\ NodesOK(nodes)
      /\ op.todo \subseteq FilesBelow(nodes, op.sel)
  BY FilesBelowAreNodes DEF FInv, TInv, OpOK
<1>3. bytes \in Bytes \union {Garbage}
  BY <1>2, PathsAreSequences, ReadGivesBytes
<1>4. op.sel = {n}
  <2>1. PICK m \in FilesOf(nodes): op.sel = {m}
    BY <1>1 DEF FInv, TInv, OpOK
  <2>2. FilesBelow(nodes, {m}) = {m}
    BY <1>2, FilesAreLeaves
  <2>. QED
    BY <1>2, <2>1, <2>2
<1>5. old \in Seq(X)
  <2>1. ASSUME path \in DOMAIN exec
        PROVE  exec[path] \in Seq(X)
    <3>1. exec[path] \in Seq(CacheItems)
      BY <2>1 DEF FInv, TInv, CachesOK
    <3>2. \A i \in DOMAIN exec[path]: exec[path][i] \in CacheItems
      BY <3>1, ElementOfSeq
    <3>3. \A i \in DOMAIN exec[path]:
            exec[path][i].state = "same" => exec[path][i].bytes = bytes
      BY <1>2, <2>1 DEF FInv, Fresh, ExecFresh
    <3>. DEFINE s == exec[path]
                k == Len(s)
    <3>. HIDE DEF X, bytes, path
    <3>4. \A i \in DOMAIN s: s[i] \in X
      BY <3>2, <3>3 DEF X
    <3>5. k \in Nat /\ DOMAIN s = 1 .. k /\ s = [i \in 1 .. k |-> s[i]]
      BY <3>1, LenProperties
    <3>. HIDE DEF s, k
    <3>6. s \in [1 .. k -> X]
      BY <3>4, <3>5
    <3>. QED
      BY <3>5, <3>6, SeqDef DEF s
  <2>. QED
    BY <2>1
<1>. HIDE DEF old
<1>6. /\ cache.found \in BOOLEAN /\ cache.kept \in Seq(X)
      /\ cache.found => /\ cache.kept # <<>>
                        /\ \E x \in X: x.state = "same" /\ x.bytes = cache.bytes
  <2>. HIDE DEF X
  <2>. QED
    BY <1>5, FoundIsCached
<1>7. fname = bytes
  BY <1>6
<1>8. file \in X
  BY <1>3 DEF CacheItems
<1>. HIDE DEF cache, file, X
<1>9. items \in Seq(X)
  <2>1. Append(cache.kept, file) = cache.kept \o <<file>>
    BY <1>6, <1>8, AppendIsConcat
  <2>. QED
    BY <1>6, <1>8, <2>1, OneMoreItem
<1>10. \A i \in DOMAIN items: items[i].state = "same" => items[i].bytes = bytes
  <2>. HIDE DEF items
  <2>1. \A i \in DOMAIN items: items[i] \in X
    BY <1>9, ElementOfSeq
  <2>. QED
    BY <2>1 DEF X
<1>. HIDE DEF items, fname
<1>11. /\ DOMAIN exec' = DOMAIN exec \union {path}
       /\ exec'[path] = items
       /\ \A p \in DOMAIN exec: p # path => exec'[p] = exec[p]
  BY <1>1 DEF Extended
<1>12. Known'
  BY <1>1, <1>2, <1>11 DEF FInv, Known, FilePaths, PathsOf
<1>13. ASSUME NEW m \in FilesOf(nodes)
       PROVE  TempFresh(m)' /\ ExecFresh(m)'
  <2>1. TempFresh(m)'
    BY <1>1 DEF FInv, Fresh, TempFresh
  <2>2. CASE m = n
    <3>. HIDE DEF path, bytes
    <3>1. ExecFresh(n)'
      BY <1>1, <1>10, <1>11 DEF ExecFresh, path, bytes
    <3>. QED
      BY <2>1, <2>2, <3>1
  <2>3. CASE m # n
    <3>1. nodes[m].path # path
      BY <1>2, <2>3 DEF NodesOK, FilesOf
    <3>2. ExecFresh(m)
      BY DEF FInv, Fresh
    <3>3. ExecFresh(m)'
      BY <1>1, <1>11, <3>1, <3>2 DEF ExecFresh
    <3>. QED
      BY <2>1, <3>3
  <2>. QED
    BY <2>2, <2>3
<1>14. OpFresh'
  <2>1. /\ op'.kind = "open" /\ op'.sel = {n} /\ op'.file = bytes
    BY <1>1, <1>4, <1>7 DEF FInv, TInv, OpOK
  <2>. QED
    BY <1>1, <2>1 DEF OpFresh, Taking
<1>15. OthersGetTheEntries'
  BY <1>1 DEF FInv, OthersGetTheEntries
<1>. QED
  BY <1>1, <1>12, <1>13, <1>14, <1>15 DEF Fresh

\* A viewer makes of the file it shows one that is not reused any more, or
\* leaves its contents alone.
LEMMA FreshViewer ==
  ASSUME FInv, op.kind = "none", Viewer
  PROVE  Known' /\ Fresh' /\ OpFresh' /\ OthersGetTheEntries'
<1>1. PICK path \in DOMAIN exec: \E i \in DOMAIN exec[path]:
        ViewerWrites(path, i) \/ ViewerLocks(path, i)
  BY DEF Viewer
<1>2. PICK i \in DOMAIN exec[path]: ViewerWrites(path, i) \/ ViewerLocks(path, i)
  BY <1>1
<1>. DEFINE s == exec[path]
<1>3. s[i] \in CacheItems
  <2>1. s \in Seq(CacheItems)
    BY DEF FInv, TInv, CachesOK
  <2>. QED
    BY <1>2, <2>1, ElementOfSeq
<1>4. \E file: /\ ViewerTouches(path, i, file)
               /\ file.state = "same" => file.bytes = s[i].bytes
  <2>. DEFINE w == [bytes |-> "edited", state |-> "changed", locked |-> FALSE]
              l == [s[i] EXCEPT !.locked = ~@]
  <2>1. w.state # "same" /\ l.bytes = s[i].bytes
    BY <1>3 DEF CacheItems
  <2>2. ViewerTouches(path, i, w) \/ ViewerTouches(path, i, l)
    BY <1>2 DEF ViewerWrites, ViewerLocks
  <2>. HIDE DEF w, l
  <2>. QED
    BY <2>1, <2>2
<1>5. PICK file: /\ ViewerTouches(path, i, file)
                 /\ file.state = "same" => file.bytes = s[i].bytes
  BY <1>4
<1>6. /\ exec' = [exec EXCEPT ![path] = [s EXCEPT ![i] = file]]
      /\ UNCHANGED <<nodes, disk, temp, op, vacated>> /\ given' = NoFiles
      /\ s[i].state = "same"
  BY <1>5 DEF ViewerTouches, user
<1>7. /\ DOMAIN exec' = DOMAIN exec
      /\ \A p \in DOMAIN exec: p # path => exec'[p] = exec[p]
      /\ DOMAIN (exec'[path]) = DOMAIN s
      /\ \A j \in DOMAIN s: exec'[path][j] = IF j = i THEN file ELSE s[j]
  <2>. HIDE DEF s
  <2>. QED
    BY <1>6
<1>8. \A p \in DOMAIN exec: /\ DOMAIN (exec'[p]) = DOMAIN exec[p]
        /\ \A j \in DOMAIN exec[p]: exec'[p][j].state = "same" =>
             exec[p][j].state = "same" /\ exec'[p][j].bytes = exec[p][j].bytes
  BY <1>5, <1>6, <1>7
<1>. HIDE DEF s
<1>9. Known'
  BY <1>6, <1>7 DEF FInv, Known
<1>10. ASSUME NEW m \in FilesOf(nodes)
       PROVE  TempFresh(m)' /\ ExecFresh(m)'
  <2>1. TempFresh(m)'
    BY <1>6 DEF FInv, Fresh, TempFresh
  <2>2. ExecFresh(m)'
    BY <1>6, <1>7, <1>8 DEF FInv, Fresh, ExecFresh
  <2>. QED
    BY <2>1, <2>2
<1>11. op' = Idle
  BY <1>6 DEF FInv, TInv, OpOK
<1>. QED
  BY <1>6, <1>9, <1>10, <1>11, NothingRuns, NothingGiven DEF Fresh

\* There is nothing at the URLs but the entries, and each of them is there.
LEMMA FoundAreExpected ==
  ASSUME FInv, op.kind \in Taking, op.todo = {}, ~op.cancelled, ~op.failed
  PROVE  Found(op.sel) = Expected(op.sel)
<1>1. op.sel \subseteq DOMAIN nodes
  BY DEF FInv, TInv, OpOK
<1>2. ASSUME NEW m \in FilesBelow(nodes, op.sel)
      PROVE  /\ nodes[m].path \in DOMAIN temp
             /\ temp[nodes[m].path] = Read(disk, nodes[m].src)
             /\ \E n \in op.sel: IsPrefix(nodes[n].path, nodes[m].path)
  <2>1. Taken(m)
    BY DEF FInv, OpFresh
  <2>. QED
    BY <2>1 DEF Taken, FilesBelow, Below
<1>3. ASSUME NEW n \in op.sel, NEW q \in DOMAIN temp, IsPrefix(nodes[n].path, q)
      PROVE  \E m \in FilesBelow(nodes, op.sel): q = nodes[m].path
  <2>1. q \notin vacated
    BY <1>3 DEF FInv, OpFresh
  <2>2. q \in FilePaths(nodes)
    BY <2>1 DEF FInv, Known
  <2>3. PICK m \in FilesOf(nodes): q = nodes[m].path
    BY <2>2 DEF FilePaths, PathsOf
  <2>4. m \in FilesBelow(nodes, op.sel)
    BY <1>1, <1>3, <2>3 DEF FilesBelow, Below, FilesOf
  <2>. QED
    BY <2>3, <2>4
<1>4. ASSUME NEW x \in Found(op.sel)
      PROVE  x \in Expected(op.sel)
  <2>1. PICK n \in op.sel: \E q \in DOMAIN temp:
          IsPrefix(nodes[n].path, q) /\ x = <<q, temp[q]>>
    BY DEF Found
  <2>2. PICK q \in DOMAIN temp: IsPrefix(nodes[n].path, q) /\ x = <<q, temp[q]>>
    BY <2>1
  <2>3. PICK m \in FilesBelow(nodes, op.sel): q = nodes[m].path
    BY <1>3, <2>2
  <2>4. x = <<nodes[m].path, Read(disk, nodes[m].src)>>
    BY <1>2, <2>2, <2>3
  <2>. QED
    BY <2>4 DEF Expected
<1>5. ASSUME NEW x \in Expected(op.sel)
      PROVE  x \in Found(op.sel)
  <2>1. PICK m \in FilesBelow(nodes, op.sel):
          x = <<nodes[m].path, Read(disk, nodes[m].src)>>
    BY DEF Expected
  <2>2. PICK n \in op.sel: IsPrefix(nodes[n].path, nodes[m].path)
    BY <1>2
  <2>3. x = <<nodes[m].path, temp[nodes[m].path]>> /\ nodes[m].path \in DOMAIN temp
    BY <1>2, <2>1
  <2>4. x \in {<<p, temp[p]>>: p \in {q \in DOMAIN temp: IsPrefix(nodes[n].path, q)}}
    BY <2>2, <2>3
  <2>. QED
    BY <2>4 DEF Found
<1>. QED
  BY <1>4, <1>5

\* What is given to other programs when an operation ends well.
LEMMA GivenAreExpected ==
  ASSUME FInv, op.kind \in Taking, op.todo = {}, ~op.cancelled, ~op.failed,
         given' = Given(Expected(op.sel), Found(op.sel))
  PROVE  OthersGetTheEntries'
BY FoundAreExpected DEF OthersGetTheEntries, Given

LEMMA FreshEnds ==
  ASSUME FInv, OpenExecute \/ CopyOrCutExecute
  PROVE  Known' /\ Fresh' /\ OpFresh' /\ OthersGetTheEntries'
<1>1. op' = Idle /\ UNCHANGED <<nodes, disk, temp, exec, vacated>>
  BY DEF OpenExecute, CopyOrCutExecute, user
<1>2. Known' /\ Fresh' /\ OpFresh'
  BY <1>1, NothingRuns DEF FInv, Known, Fresh, TempFresh, ExecFresh
<1>3. CASE CopyOrCutExecute
  <2>1. CASE op.cancelled \/ op.failed
    BY <1>2, <1>3, <2>1, NothingGiven DEF CopyOrCutExecute
  <2>2. CASE ~op.cancelled /\ ~op.failed
    <3>1. /\ given' = Given(Expected(op.sel), Found(op.sel))
          /\ op.kind \in Taking /\ op.todo = {}
      BY <1>3, <2>2 DEF CopyOrCutExecute, Taking
    <3>. QED
      BY <1>2, <2>2, <3>1, GivenAreExpected
  <2>. QED
    BY <2>1, <2>2
<1>4. CASE OpenExecute
  <2>1. CASE op.cancelled \/ op.failed
    BY <1>2, <1>4, <2>1, NothingGiven DEF OpenExecute
  <2>2. CASE ~op.cancelled /\ ~op.failed
    <3>1. PICK n \in FilesOf(nodes): op.sel = {n}
      BY <1>4 DEF OpenExecute, FInv, TInv, OpOK
    <3>2. (CHOOSE m \in op.sel: TRUE) = n
      BY <3>1
    <3>3. given' = Given(Expected({n}), {<<nodes[n].path, op.file>>})
      BY <1>4, <2>2, <3>2 DEF OpenExecute
    <3>4. op.file = Read(disk, nodes[n].src)
      BY <1>4, <2>2, <3>1 DEF OpenExecute, FInv, OpFresh
    <3>5. FilesBelow(nodes, {n}) = {n}
      BY FilesAreLeaves DEF FInv, TInv
    <3>6. Expected({n}) = {<<nodes[n].path, Read(disk, nodes[n].src)>>}
      BY <3>5 DEF Expected
    <3>. QED
      BY <1>2, <3>3, <3>4, <3>6 DEF OthersGetTheEntries, Given
  <2>. QED
    BY <2>1, <2>2
<1>. QED
  BY <1>3, <1>4

LEMMA FreshDrop ==
  ASSUME "vacated" \notin Mishaps, FInv, Drop
  PROVE  Known' /\ Fresh' /\ OpFresh' /\ OthersGetTheEntries'
<1>1. op.kind \in Taking /\ op.todo = {}
  BY DEF Drop, Taking
<1>2. ASSUME NEW s, Settled(Scene, s), Becomes(s), Dragged
      PROVE  Known' /\ Fresh' /\ OpFresh' /\ OthersGetTheEntries'
  <2>1. Known' /\ Fresh'
    BY <1>2, FreshBecomes DEF Dragged, FInv
  <2>2. OpFresh'
    BY <1>2, NothingRuns DEF Dragged
  <2>3. OthersGetTheEntries'
    BY <1>1, <1>2, GivenAreExpected DEF Dragged
  <2>. QED
    BY <2>1, <2>2, <2>3
<1>3. ASSUME NEW dir \in Folders, NEW answer \in Answers(dir, Pack(op.sel)),
             NEW list \in SetToSeqs(Pack(op.sel)), NEW action \in {"move", "copy"},
             DropHere(dir, list, answer, action)
      PROVE  Known' /\ Fresh' /\ OpFresh' /\ OthersGetTheEntries'
  <2>. DEFINE s == DragEnds(AddFilesFromPbo(Scene, dir, list, answer), action)
  <2>1. Settled(Scene, s)
    BY DropSettles DEF FInv
  <2>2. Becomes(s) /\ Dragged
    BY <1>3 DEF DropHere
  <2>. HIDE DEF s
  <2>. QED
    BY <1>2, <2>1, <2>2
<1>4. ASSUME NEW action \in {"move", "copy", "none"}, DropElsewhere(action)
      PROVE  Known' /\ Fresh' /\ OpFresh' /\ OthersGetTheEntries'
  <2>. DEFINE s == DragEnds(Scene, action)
  <2>1. Settled(Scene, s)
    BY SceneIsInserted, DragSettles DEF TInv, FInv
  <2>2. Becomes(s) /\ Dragged
    BY <1>4 DEF DropElsewhere
  <2>. HIDE DEF s
  <2>. QED
    BY <1>2, <2>1, <2>2
<1>5. CASE DragFailed
  <2>1. op' = Idle /\ given' = NoFiles /\ UNCHANGED <<nodes, disk, temp, exec, vacated>>
    BY <1>5 DEF DragFailed
  <2>2. Known' /\ Fresh'
    BY <2>1 DEF FInv, Known, Fresh, TempFresh, ExecFresh
  <2>. QED
    BY <2>1, <2>2, NothingRuns, NothingGiven
<1>. QED
  BY <1>3, <1>4, <1>5 DEF Drop

\* A paste, and whatever else edits the document while nothing runs.
LEMMA FreshEdited ==
  ASSUME "vacated" \notin Mishaps, FInv, op.kind = "none",
         NEW s, Settled(Scene, s), Becomes(s),
         disk' = disk, op' = op, given' = NoFiles
  PROVE  Known' /\ Fresh' /\ OpFresh' /\ OthersGetTheEntries'
<1>1. Known' /\ Fresh'
  BY FreshBecomes DEF FInv
<1>2. op' = Idle
  BY DEF FInv, TInv, OpOK
<1>. QED
  BY <1>1, <1>2, NothingRuns, NothingGiven

LEMMA FreshPaste ==
  ASSUME "vacated" \notin Mishaps, FInv, op.kind = "none", Paste
  PROVE  Known' /\ Fresh' /\ OpFresh' /\ OthersGetTheEntries'
<1>1. PICK dir \in Folders: \E answer \in Answers(dir, clipboard):
        \E list \in SetToSeqs(clipboard): SelectionPaste(dir, list, answer)
  BY DEF Paste
<1>2. PICK answer \in Answers(dir, clipboard):
        \E list \in SetToSeqs(clipboard): SelectionPaste(dir, list, answer)
  BY <1>1
<1>3. PICK list \in SetToSeqs(clipboard): SelectionPaste(dir, list, answer)
  BY <1>2
<1>. DEFINE s == AddFilesFromPbo(Scene, dir, list, answer)
<1>4. Settled(Scene, s)
  BY PasteSettles DEF FInv
<1>5. Becomes(s) /\ disk' = disk /\ op' = op /\ given' = NoFiles
  BY <1>3 DEF SelectionPaste, PasteTo
<1>. HIDE DEF s
<1>. QED
  BY <1>4, <1>5, FreshEdited

LEMMA FreshChange ==
  ASSUME "vacated" \notin Mishaps, FInv, op.kind = "none", Change
  PROVE  Known' /\ Fresh' /\ OpFresh' /\ OthersGetTheEntries'
<1>1. ASSUME NEW s, NEW gone, Settled(Scene, s), Edit(s, gone)
      PROVE  Known' /\ Fresh' /\ OpFresh' /\ OthersGetTheEntries'
  BY <1>1, FreshEdited DEF Edit, Edited
<1>2. ASSUME NEW dir \in Folders, NEW name \in FileTitles, NEW bytes \in External,
             \E answer \in Answers(dir, {Added(Title(name, 0), bytes)}):
               AddFile(dir, Title(name, 0), bytes, answer)
      PROVE  Known' /\ Fresh' /\ OpFresh' /\ OthersGetTheEntries'
  BY <1>1, <1>2, EditsSettle DEF FInv
<1>3. ASSUME NEW S \in Selections, \E list \in SetToSeqs(S): SelectionRemove(list)
      PROVE  Known' /\ Fresh' /\ OpFresh' /\ OthersGetTheEntries'
  BY <1>1, <1>3, EditsSettle DEF FInv
<1>4. ASSUME NEW n \in DOMAIN nodes, NEW name \in FileTitles,
             SelectionRename(n, Title(name, 0))
      PROVE  Known' /\ Fresh' /\ OpFresh' /\ OthersGetTheEntries'
  BY <1>1, <1>4, EditsSettle DEF FInv
<1>5. CASE Save
  <2>1. disk.layout \in Nat /\ NodesOK(nodes)
    BY ConstantsAreNumbers DEF FInv, TInv, EntriesOK
  <2>2. /\ FilesOf(nodes') = FilesOf(nodes)
        /\ \A n \in FilesOf(nodes): /\ nodes'[n].path = nodes[n].path
                                    /\ Read(disk', nodes'[n].src)
                                         = Read(disk, nodes[n].src)
    BY <1>5, <2>1, SavedAgain DEF FilesOf
  <2>3. UNCHANGED <<temp, exec, op, vacated>> /\ given' = NoFiles
    BY <1>5 DEF Save, user
  <2>4. FilePaths(nodes') = FilePaths(nodes)
    BY <2>2 DEF FilePaths, PathsOf
  <2>5. Known'
    BY <2>3, <2>4 DEF FInv, Known
  <2>6. ASSUME NEW n \in FilesOf(nodes)
        PROVE  TempFresh(n)' /\ ExecFresh(n)'
    BY <2>2, <2>3 DEF FInv, Fresh, TempFresh, ExecFresh
  <2>7. op' = Idle
    BY <2>3 DEF FInv, TInv, OpOK
  <2>. QED
    BY <2>2, <2>3, <2>5, <2>6, <2>7, NothingRuns, NothingGiven DEF Fresh
<1>6. CASE Reopen
  <2>1. temp' = <<>> /\ exec' = <<>> /\ op' = op /\ given' = NoFiles
    BY <1>6 DEF Reopen
  <2>2. DOMAIN <<>> = {}
    OBVIOUS
  <2>3. Known' /\ Fresh'
    BY <2>1, <2>2 DEF Known, Fresh, TempFresh, ExecFresh
  <2>4. op' = Idle
    BY <2>1 DEF FInv, TInv, OpOK
  <2>. QED
    BY <2>1, <2>3, <2>4, NothingRuns, NothingGiven
<1>. QED
  BY <1>2, <1>3, <1>4, <1>5, <1>6 DEF Change

LEMMA FreshNext ==
  ASSUME {"vacated", "retry"} \intersect Mishaps = {}, FInv, [Next]_vars
  PROVE  FInv'
<1>1. TInv'
  BY TypeNext DEF FInv
<1>2. Known' /\ Fresh' /\ OpFresh' /\ OthersGetTheEntries'
  <2>1. CASE UNCHANGED vars
    BY <2>1 DEF vars, FInv, Known, Fresh, TempFresh, ExecFresh, OpFresh, Taken,
                OthersGetTheEntries
  <2>2. CASE op.kind = "none" /\ (Take \/ Paste \/ Change \/ Viewer)
    BY <2>2, FreshTake, FreshPaste, FreshChange, FreshViewer
  <2>3. CASE Worker
    BY <2>3, FreshSync, FreshExecSync DEF Worker
  <2>4. CASE Cancel \/ OpenExecute \/ CopyOrCutExecute \/ Drop
    BY <2>4, FreshCancel, FreshEnds, FreshDrop
  <2>. QED
    BY <2>1, <2>2, <2>3, <2>4 DEF Next
<1>. QED
  BY <1>1, <1>2 DEF FInv

\* The files that TempBackend and ExecBackend have extracted, and that nobody
\* looks at again (io/bb/tempbackend.cpp, execbackend.cpp), are what their
\* entries contain when they are given to another program or to a viewer, even
\* after removals, replacements, saves and viewers' writes.  It takes two
\* mishaps not to come about: that an entry comes to a path another one has
\* left, and that an extraction that failed is begun again.
THEOREM FilesGivenAreEntries ==
  ASSUME {"vacated", "retry"} \intersect Mishaps = {}
  PROVE  Spec => []OthersGetTheEntries
<1>1. Init => FInv
  BY FreshInit
<1>2. FInv /\ [Next]_vars => FInv'
  BY FreshNext
<1>3. FInv => OthersGetTheEntries
  BY DEF FInv
<1>. QED
  BY <1>1, <1>2, <1>3, PTL DEF Spec

(***************************************************************************)
(* No operation ends half-way.                                             *)
(***************************************************************************)
\* Every folder on the way to a node is there.
Closed(ns) ==
  \A n \in DOMAIN ns: \A k \in 1 .. Len(ns[n].path) - 1:
    At(ns, SubSeq(ns[n].path, 1, k)) # {}

\* Since its beginning b, a scene s has kept its nodes as they were, but for
\* those that were removed, which had paths in P.
Tidy(b, s, P) ==
  /\ s.removed \intersect DOMAIN s.nodes = {}
  /\ DOMAIN s.delete = DOMAIN b.delete
  /\ \A i \in DOMAIN b.delete: s.delete[i] = b.delete[i] \/ b.delete[i] \in s.removed
  /\ \A n \in DOMAIN b.nodes: \/ n \in s.removed /\ b.nodes[n].path \in P
                              \/ n \in DOMAIN s.nodes /\ s.nodes[n] = b.nodes[n]
  /\ s.outcome # "full" => Closed(s.nodes)

Neat(b, s, P) == SceneOK(s) /\ Tidy(b, s, P)

LEMMA NodePaths ==
  ASSUME NEW ns, NodesOK(ns), NEW n \in DOMAIN ns
  PROVE  /\ ns[n].path \in Seq(FolderTitles \union EntryTitles)
         /\ Len(ns[n].path) \in Nat /\ Len(ns[n].path) >= 1
BY PathsAreSequences, ConstantsAreNumbers, LenProperties DEF Paths

\* A beginning of a path.
LEMMA Beginning ==
  ASSUME NEW S, NEW p \in Seq(S), NEW k \in 1 .. Len(p)
  PROVE  /\ SubSeq(p, 1, k) \in Seq(S) /\ Len(SubSeq(p, 1, k)) = k
         /\ \A i \in 1 .. k: SubSeq(p, 1, k)[i] = p[i]
         /\ IsPrefix(SubSeq(p, 1, k), p)
<1>1. /\ Len(p) \in Nat /\ k \in Int /\ 1 \in Int /\ k \in Nat
      /\ \A i \in 1 .. k: p[i] \in S
  BY LenProperties, ElementOfSeq
<1>. DEFINE q == SubSeq(p, 1, k)
<1>2. q \in Seq(S) /\ Len(q) = k /\ \A i \in 1 .. k: q[i] = p[i]
  BY <1>1, SubSeqProperties
<1>. HIDE DEF q
<1>3. IsPrefix(q, p)
  BY <1>1, <1>2, PrefixIsBeginning
<1>. QED
  BY <1>2, <1>3 DEF q

LEMMA EverySceneSettles ==
  ASSUME NEW s, SceneOK(s)
  PROVE  Settled(s, s)
BY DEF Settled, LeftOf, Arrived

\* The folders of a path are there, one after the other.
FoldersUpTo(ns, path, k) == \A j \in 1 .. k: At(ns, SubSeq(path, 1, j)) # {}

\* The scene r is s with a new node, if there is room for one.
PutNeatly(b, s, P, path, src, r) ==
  /\ Neat(b, r, P)
  /\ FilePaths(r.nodes) \subseteq
       FilePaths(s.nodes) \union IF src = NoSource THEN {} ELSE {path}
  /\ \/ r.outcome = "full"
     \/ /\ r.outcome = s.outcome
        /\ At(r.nodes, path) # {}
        /\ \A p: At(s.nodes, p) # {} => At(r.nodes, p) # {}

\* What a new node needs of the tree is that its folder is there.
LEMMA PutIsNeat ==
  ASSUME NEW b, NEW s, NEW P, NEW path, NEW src, Neat(b, s, P),
         MayBePut(path, src), At(s.nodes, path) = {},
         s.outcome # "full" => FoldersUpTo(s.nodes, path, Len(path) - 1)
  PROVE  PutNeatly(b, s, P, path, src, Put(s, path, src))
<1>. DEFINE r == Put(s, path, src)
<1>1. /\ SceneOK(s) /\ Tidy(b, s, P) /\ IsScene(s) /\ NodesOK(s.nodes)
  BY DEF Neat, SceneOK
<1>2. SceneOK(r)
  <2>1. path \notin FilePaths(s.nodes)
    BY DEF At, FilePaths, PathsOf, FilesOf
  <2>2. Settled(s, s)
    BY <1>1, EverySceneSettles
  <2>3. Settled(s, r)
    BY <2>1, <2>2, PutSettles
  <2>. QED
    BY <2>3 DEF Settled
<1>3. CASE r = [s EXCEPT !.outcome = "full"]
  <2>1. /\ r.nodes = s.nodes /\ r.delete = s.delete /\ r.removed = s.removed
        /\ r.outcome = "full"
    BY <1>1, <1>3 DEF IsScene
  <2>. HIDE DEF r
  <2>2. Tidy(b, r, P)
    BY <1>1, <2>1 DEF Tidy
  <2>. QED
    BY <1>2, <2>1, <2>2 DEF Neat, r, PutNeatly
<1>4. CASE \E id \in (1 .. MaxNodes) \ (DOMAIN s.nodes \union s.removed):
             r = [s EXCEPT !.nodes = Enlarged(@, id, path, src)]
  <2>1. PICK id \in (1 .. MaxNodes) \ (DOMAIN s.nodes \union s.removed):
          r = [s EXCEPT !.nodes = Enlarged(@, id, path, src)]
    BY <1>4
  <2>2. /\ r.nodes = Enlarged(s.nodes, id, path, src)
        /\ r.delete = s.delete /\ r.removed = s.removed /\ r.outcome = s.outcome
    BY <1>1, <2>1 DEF IsScene
  <2>. HIDE DEF r
  <2>3. /\ DOMAIN r.nodes = DOMAIN s.nodes \union {id}
        /\ r.nodes[id] = [path |-> path, src |-> src]
        /\ \A n \in DOMAIN s.nodes: r.nodes[n] = s.nodes[n]
    BY <2>1, <2>2 DEF Enlarged
  <2>4. /\ At(r.nodes, path) # {}
        /\ \A p: At(s.nodes, p) # {} => At(r.nodes, p) # {}
    BY <2>3 DEF At
  <2>5. FilePaths(r.nodes) \subseteq
          FilePaths(s.nodes) \union IF src = NoSource THEN {} ELSE {path}
    BY <2>3 DEF FilePaths, PathsOf, FilesOf
  <2>6. ASSUME s.outcome # "full"
        PROVE  Closed(r.nodes)
    <3>1. Closed(s.nodes)
      BY <1>1, <2>6 DEF Tidy
    <3>2. ASSUME NEW n \in DOMAIN r.nodes, NEW k \in 1 .. Len(r.nodes[n].path) - 1
          PROVE  At(s.nodes, SubSeq(r.nodes[n].path, 1, k)) # {}
      <4>1. CASE n = id
        <5>1. r.nodes[n].path = path
          BY <2>3, <4>1
        <5>. QED
          BY <2>6, <3>2, <5>1 DEF FoldersUpTo
      <4>2. CASE n # id
        <5>1. n \in DOMAIN s.nodes /\ r.nodes[n] = s.nodes[n]
          BY <2>3, <4>2
        <5>. QED
          BY <3>1, <3>2, <5>1 DEF Closed
      <4>. QED
        BY <4>1, <4>2
    <3>. QED
      BY <2>4, <3>2 DEF Closed
  <2>7. Tidy(b, r, P)
    BY <1>1, <2>1, <2>2, <2>3, <2>6 DEF Tidy
  <2>. QED
    BY <1>2, <2>2, <2>4, <2>5, <2>7 DEF Neat, r, PutNeatly
<1>. QED
  BY <1>3, <1>4, PutIsOneMore

RemovedNeatly(b, s, P, S, r) ==
  /\ Neat(b, r, P) /\ r.outcome = s.outcome
  /\ r.nodes = Without(s.nodes, S)
  /\ r.removed = s.removed \union S
  /\ DOMAIN r.delete = DOMAIN s.delete
  /\ \A i \in DOMAIN s.delete: s.delete[i] \notin S => r.delete[i] = s.delete[i]

\* Nodes that are removed take along what is below them.
LEMMA RemovalIsNeat ==
  ASSUME NEW b, NEW s, NEW P, NEW S, Neat(b, s, P), S \subseteq DOMAIN s.nodes,
         \A n \in S: n \in DOMAIN b.nodes => b.nodes[n].path \in P,
         \A n \in S: \A m \in DOMAIN s.nodes:
           IsPrefix(s.nodes[n].path, s.nodes[m].path) => m \in S
  PROVE  RemovedNeatly(b, s, P, S, RemoveNodes(s, S))
<1>. DEFINE r == RemoveNodes(s, S)
<1>1. /\ SceneOK(s) /\ Tidy(b, s, P) /\ IsScene(s) /\ NodesOK(s.nodes)
  BY DEF Neat, SceneOK
<1>2. SceneOK(r)
  <2>1. Settled(s, r)
    BY <1>1, EverySceneSettles, RemovalSettles
  <2>. QED
    BY <2>1 DEF Settled
<1>3. /\ r.nodes = Without(s.nodes, S) /\ r.removed = s.removed \union S
      /\ r.outcome = s.outcome
      /\ r.delete = [i \in DOMAIN s.delete |->
                       IF s.delete[i] \in S THEN Gone ELSE s.delete[i]]
  BY <1>1 DEF RemoveNodes, IsScene
<1>. HIDE DEF r
<1>4. /\ DOMAIN r.nodes = DOMAIN s.nodes \ S
      /\ \A n \in DOMAIN r.nodes: r.nodes[n] = s.nodes[n]
  BY <1>3 DEF Without
<1>5. ASSUME s.outcome # "full"
      PROVE  Closed(r.nodes)
  <2>1. ASSUME NEW n \in DOMAIN r.nodes, NEW k \in 1 .. Len(r.nodes[n].path) - 1
        PROVE  At(r.nodes, SubSeq(r.nodes[n].path, 1, k)) # {}
    <3>. DEFINE p == s.nodes[n].path
                q == SubSeq(p, 1, k)
    <3>1. n \in DOMAIN s.nodes /\ n \notin S /\ r.nodes[n] = s.nodes[n]
      BY <1>4
    <3>2. p \in Seq(FolderTitles \union EntryTitles) /\ Len(p) \in Nat
      BY <1>1, <3>1, NodePaths
    <3>3. IsPrefix(q, p)
      BY <2>1, <3>1, <3>2, Beginning
    <3>4. At(s.nodes, q) # {}
      BY <1>1, <1>5, <2>1, <3>1 DEF Tidy, Closed
    <3>5. PICK m \in DOMAIN s.nodes: s.nodes[m].path = q
      BY <3>4 DEF At
    <3>6. m \notin S
      BY <3>1, <3>3, <3>5
    <3>. QED
      BY <1>4, <3>1, <3>5, <3>6 DEF At
  <2>. QED
    BY <2>1 DEF Closed
<1>6. Tidy(b, r, P)
  BY <1>1, <1>3, <1>4, <1>5 DEF Tidy
<1>. QED
  BY <1>2, <1>3, <1>6 DEF Neat, r, RemovedNeatly

LEMMA BeginningOfBeginning ==
  ASSUME NEW S, NEW p \in Seq(S), NEW k \in 1 .. Len(p), NEW j \in 1 .. k
  PROVE  SubSeq(SubSeq(p, 1, k), 1, j) = SubSeq(p, 1, j)
<1>. DEFINE q == SubSeq(p, 1, k)
<1>1. Len(p) \in Nat /\ k \in Nat /\ j \in 1 .. Len(p)
  BY LenProperties
<1>2. q \in Seq(S) /\ Len(q) = k /\ \A i \in 1 .. k: q[i] = p[i]
  BY Beginning
<1>. HIDE DEF q
<1>3. /\ SubSeq(q, 1, j) \in Seq(S) /\ Len(SubSeq(q, 1, j)) = j
      /\ \A i \in 1 .. j: SubSeq(q, 1, j)[i] = q[i]
  BY <1>2, Beginning
<1>4. /\ SubSeq(p, 1, j) \in Seq(S) /\ Len(SubSeq(p, 1, j)) = j
      /\ \A i \in 1 .. j: SubSeq(p, 1, j)[i] = p[i]
  BY <1>1, Beginning
<1>5. \A i \in 1 .. j: SubSeq(q, 1, j)[i] = SubSeq(p, 1, j)[i]
  BY <1>1, <1>2, <1>3, <1>4
<1>6. SubSeq(q, 1, j) = SubSeq(p, 1, j)
  BY <1>3, <1>4, <1>5, SeqEqual
<1>. QED
  BY <1>6 DEF q

\* Another title leaves an entry in its folder.
LEMMA RetitledBeside ==
  ASSUME NEW p, IsFilePath(p), NEW u \in EntryTitles, NEW q, q = Front(p) \o <<u>>
  PROVE  /\ IsFilePath(q) /\ Len(q) = Len(p)
         /\ Front(q) = Front(p) /\ Last(q) = u
         /\ \A j \in 1 .. Len(p) - 1: SubSeq(q, 1, j) = SubSeq(p, 1, j)
<1>. DEFINE f == Front(p)
            S == FolderTitles \union EntryTitles
<1>1. u \in EntryTitles
  OBVIOUS
<1>2. /\ p \in Seq(S) /\ Len(p) \in Nat /\ Len(p) >= 1
  BY LenProperties DEF IsFilePath, Paths
<1>3. /\ f \in Seq(S) /\ Len(f) = Len(p) - 1 /\ f = SubSeq(p, 1, Len(p) - 1)
  BY BeginningOfFilePath, SeqMonotonic DEF Front
<1>0. q = f \o <<u>>
  OBVIOUS
<1>. HIDE DEF f
<1>4. IsFilePath(q) /\ Len(q) = Len(p)
  BY <1>0, <1>1, Retitled DEF f
<1>5. /\ <<u>> \in Seq(S) /\ Len(<<u>>) = 1 /\ <<u>>[1] = u
  BY <1>1
<1>6. /\ q \in Seq(S)
      /\ \A i \in 1 .. Len(p): q[i] = IF i <= Len(f) THEN f[i] ELSE u
  <2>. DEFINE v == <<u>>
  <2>1. v \in Seq(S) /\ Len(v) = 1 /\ v[1] = u /\ q = f \o v /\ f \in Seq(S)
    BY <1>0, <1>3, <1>5
  <2>. HIDE DEF v
  <2>5. /\ f \o v \in Seq(S)
        /\ Len(f \o v) = Len(f) + Len(v)
        /\ \A i \in 1 .. Len(f) + Len(v):
             (f \o v)[i] = IF i <= Len(f) THEN f[i] ELSE v[i - Len(f)]
    BY <2>1, ConcatProperties
  <2>2. /\ q \in Seq(S)
        /\ \A i \in 1 .. Len(f) + Len(v):
             q[i] = IF i <= Len(f) THEN f[i] ELSE v[i - Len(f)]
    BY <2>1, <2>5
  <2>3. ASSUME NEW i \in 1 .. Len(p)
        PROVE  /\ i \in 1 .. Len(f) + Len(v)
               /\ i > Len(f) => i - Len(f) = 1
    BY <1>2, <1>3, <2>1
  <2>4. ASSUME NEW i \in 1 .. Len(p)
        PROVE  q[i] = IF i <= Len(f) THEN f[i] ELSE u
    <3>1. i <= Len(f) \/ i > Len(f)
      BY <1>2, <1>3
    <3>. QED
      BY <2>1, <2>2, <2>3, <3>1
  <2>. QED
    BY <2>2, <2>4
<1>. HIDE DEF S
<1>7. \A i \in 1 .. Len(p) - 1: q[i] = f[i] /\ f[i] = p[i]
  <2>. DEFINE n == Len(p) - 1
  <2>1. n \in Int /\ 1 \in Int /\ f = SubSeq(p, 1, n) /\ \A i \in 1 .. n: p[i] \in S
    BY <1>2, <1>3, ElementOfSeq
  <2>2. ASSUME NEW i \in 1 .. n
        PROVE  i \in 1 .. Len(p) /\ i <= Len(f)
    BY <1>2, <1>3
  <2>3. \A i \in 1 .. n: q[i] = f[i]
    BY <1>6, <2>2
  <2>. HIDE DEF n
  <2>4. \A i \in 1 .. n: f[i] = p[i]
    BY <2>1, SubSeqProperties
  <2>. QED
    BY <2>3, <2>4 DEF n
<1>8. q[Len(p)] = u
  <2>1. Len(p) \in 1 .. Len(p) /\ ~(Len(p) <= Len(f))
    BY <1>2, <1>3
  <2>. QED
    BY <1>6, <2>1
<1>9. ASSUME NEW j \in 1 .. Len(p) - 1
      PROVE  SubSeq(q, 1, j) = SubSeq(p, 1, j)
  <2>1. j \in 1 .. Len(p) /\ j \in 1 .. Len(q) /\ j \in Nat
    BY <1>2, <1>4
  <2>2. /\ SubSeq(q, 1, j) \in Seq(S) /\ Len(SubSeq(q, 1, j)) = j
        /\ \A i \in 1 .. j: SubSeq(q, 1, j)[i] = q[i]
    BY <1>6, <2>1, Beginning
  <2>3. /\ SubSeq(p, 1, j) \in Seq(S) /\ Len(SubSeq(p, 1, j)) = j
        /\ \A i \in 1 .. j: SubSeq(p, 1, j)[i] = p[i]
    BY <1>2, <2>1, Beginning
  <2>4. \A i \in 1 .. j: i \in 1 .. Len(p) - 1
    BY <1>2, <2>1
  <2>5. \A i \in 1 .. j: SubSeq(q, 1, j)[i] = SubSeq(p, 1, j)[i]
    BY <1>7, <2>2, <2>3, <2>4
  <2>. QED
    BY <2>2, <2>3, <2>5, SeqEqual
<1>10. Front(q) = f
  <2>1. Front(q) \in Seq(S) /\ Len(Front(q)) = Len(p) - 1
    BY <1>4, BeginningOfFilePath, SeqMonotonic DEF S
  <2>2. Front(q) = SubSeq(q, 1, Len(p) - 1)
    BY <1>4 DEF Front
  <2>3. CASE Len(p) = 1
    <3>1. Len(f) = 0 /\ Len(Front(q)) = 0
      BY <1>3, <2>1, <2>3
    <3>2. f = <<>> /\ Front(q) = <<>>
      BY <1>3, <2>1, <3>1, EmptySeq
    <3>. QED
      BY <3>2
  <2>4. CASE Len(p) # 1
    <3>1. Len(p) - 1 \in 1 .. Len(p) - 1
      BY <1>2, <2>4
    <3>2. SubSeq(q, 1, Len(p) - 1) = SubSeq(p, 1, Len(p) - 1)
      BY <1>9, <3>1
    <3>. QED
      BY <1>3, <2>2, <3>2
  <2>. QED
    BY <2>3, <2>4
<1>11. Last(q) = u
  BY <1>4, <1>8 DEF Last
<1>. QED
  BY <1>4, <1>9, <1>10, <1>11 DEF f

\* A copy is in the same folder.
LEMMA CopiesAreBeside ==
  ASSUME NEW p, IsFilePath(p), NEW q \in CopiesOf(p)
  PROVE  /\ IsFilePath(q) /\ Len(q) = Len(p)
         /\ Front(q) = Front(p) /\ Last(q)[1] = Last(p)[1]
         /\ \A j \in 1 .. Len(p) - 1: SubSeq(q, 1, j) = SubSeq(p, 1, j)
<1>. PICK k \in Nat: q = Front(p) \o <<Title(Last(p)[1], k)>>
  BY DEF CopiesOf
<1>. DEFINE t == Last(p)[1]
            u == Title(t, k)
<1>1. u \in EntryTitles /\ u = <<t, k>>
  <2>1. t \in FileNames
    BY DEF IsFilePath, Last, EntryTitles
  <2>. HIDE DEF t
  <2>. QED
    BY <2>1 DEF Title, EntryTitles
<1>2. q = Front(p) \o <<u>>
  OBVIOUS
<1>3. u \in EntryTitles
  BY <1>1
<1>. HIDE DEF u, t
<1>4. \A x \in EntryTitles: q = Front(p) \o <<x>> =>
        /\ IsFilePath(q) /\ Len(q) = Len(p) /\ Front(q) = Front(p) /\ Last(q) = x
        /\ \A j \in 1 .. Len(p) - 1: SubSeq(q, 1, j) = SubSeq(p, 1, j)
  BY RetitledBeside
<1>5. /\ IsFilePath(q) /\ Len(q) = Len(p) /\ Front(q) = Front(p) /\ Last(q) = u
      /\ \A j \in 1 .. Len(p) - 1: SubSeq(q, 1, j) = SubSeq(p, 1, j)
  BY <1>2, <1>3, <1>4
<1>. QED
  BY <1>1, <1>5 DEF t

NeatDescent(c, d, k) ==
  /\ Neat(c.b, d, c.P) /\ d.outcome \in {"full", c.s.outcome}
  /\ d.outcome # "full" => FoldersUpTo(d.nodes, c.path, k)
  /\ FilePaths(d.nodes) \subseteq FilePaths(c.s.nodes)

Descents == INSTANCE Iteration WITH Step <- Descend, Good <- NeatDescent

LEMMA FoldersAreNeat ==
  ASSUME NEW b, NEW s, NEW P, NEW path, Neat(b, s, P), IsFilePath(path)
  PROVE  LET r == PutFolders(s, path)
         IN  /\ Neat(b, r, P) /\ r.outcome \in {"full", s.outcome}
             /\ r.outcome # "full" => FoldersUpTo(r.nodes, path, Len(path) - 1)
             /\ FilePaths(r.nodes) \subseteq FilePaths(s.nodes)
<1>. DEFINE c == [b |-> b, s |-> s, P |-> P, path |-> path]
            n == Len(path) - 1
            put == CHOOSE g: g = [k \in 0 .. n |->
                                    IF k = 0 THEN s ELSE Descend(c, g[k - 1], k)]
<1>1. n \in Nat
  BY LenProperties DEF IsFilePath, Paths
<1>2. NeatDescent(c, s, 0)
  BY DEF NeatDescent, FoldersUpTo
<1>3. PutFolders(s, path) = put[n]
  BY DEF PutFolders, Descend
<1>4. c.b = b /\ c.s = s /\ c.P = P /\ c.path = path
  OBVIOUS
<1>. HIDE DEF c, put
<1>5. ASSUME NEW k \in 1 .. n, NEW d, NeatDescent(c, d, k - 1)
      PROVE  NeatDescent(c, Descend(c, d, k), k)
  <2>. DEFINE p == SubSeq(path, 1, k)
              x == NoSource
              r == Put(d, p, x)
  <2>1. IsFolderPath(p) /\ Len(p) = k /\ k \in Nat
    BY <1>1, FoldersOnTheWay
  <2>2. /\ Neat(b, d, P) /\ d.outcome \in {"full", s.outcome}
        /\ d.outcome # "full" => FoldersUpTo(d.nodes, path, k - 1)
        /\ FilePaths(d.nodes) \subseteq FilePaths(s.nodes)
    BY <1>4, <1>5 DEF NeatDescent
  <2>3. Descend(c, d, k) = IF At(d.nodes, p) # {} THEN d ELSE r
    BY <1>4 DEF Descend, PutFolder
  <2>4. ASSUME NEW ns, FoldersUpTo(ns, path, k - 1), At(ns, p) # {}
        PROVE  FoldersUpTo(ns, path, k)
    <3>1. \A j \in 1 .. k: j = k \/ j \in 1 .. k - 1
      BY <2>1
    <3>. QED
      BY <2>4, <3>1 DEF FoldersUpTo
  <2>5. CASE At(d.nodes, p) # {}
    <3>1. NeatDescent(c, d, k)
      BY <1>4, <2>2, <2>4, <2>5 DEF NeatDescent
    <3>. QED
      BY <2>3, <2>5, <3>1
  <2>6. CASE At(d.nodes, p) = {}
    <3>1. MayBePut(p, x)
      BY <1>1, <2>1 DEF MayBePut
    <3>2. d.outcome # "full" =>
            \A j \in 1 .. Len(p) - 1: At(d.nodes, SubSeq(p, 1, j)) # {}
      <4>1. \A j \in 1 .. k - 1: SubSeq(p, 1, j) = SubSeq(path, 1, j)
        <5>1. path \in Seq(FolderTitles \union EntryTitles)
          BY DEF IsFilePath, Paths
        <5>2. k \in 1 .. Len(path) /\ Len(path) \in Nat
          BY <1>1, <5>1, LenProperties
        <5>. QED
          BY <5>1, <5>2, BeginningOfBeginning
      <4>. QED
        BY <2>1, <2>2, <4>1 DEF FoldersUpTo
    <3>. HIDE DEF p, x
    <3>3. PutNeatly(b, d, P, p, x, Put(d, p, x))
      BY <2>2, <2>6, <3>1, <3>2, PutIsNeat DEF FoldersUpTo
    <3>. HIDE DEF r
    <3>4. /\ Neat(b, r, P) /\ FilePaths(r.nodes) \subseteq FilePaths(d.nodes)
          /\ \/ r.outcome = "full"
             \/ /\ r.outcome = d.outcome
                /\ At(r.nodes, p) # {}
                /\ \A y: At(d.nodes, y) # {} => At(r.nodes, y) # {}
      BY <3>3 DEF r, x, PutNeatly
    <3>5. r.outcome # "full" => FoldersUpTo(r.nodes, path, k - 1)
      BY <2>2, <3>4 DEF FoldersUpTo
    <3>6. NeatDescent(c, r, k)
      BY <1>4, <2>2, <2>4, <3>4, <3>5 DEF NeatDescent
    <3>. QED
      BY <2>3, <2>6, <3>6
  <2>. QED
    BY <2>5, <2>6
<1>6. NeatDescent(c, put[n], n)
  <2>. HIDE DEF n
  <2>. QED
    BY <1>1, <1>2, <1>5, Descents!LoopKeeps DEF put
<1>. QED
  BY <1>3, <1>4, <1>6 DEF NeatDescent

CreatedNeatly(b, s, P, path, onConflict, r) ==
  /\ Neat(b, r, P) /\ r.outcome \in {"full", s.outcome}
  /\ FilePaths(r.nodes) \subseteq
       FilePaths(s.nodes) \union {path}
       \union IF onConflict = "Copy" THEN CopiesOf(path) ELSE {}

\* createHierarchy throws nothing where there is an answer, or no conflict.
LEMMA HierarchyIsNeat ==
  ASSUME NEW b, NEW s, NEW P, NEW path, NEW src, NEW onConflict,
         Neat(b, s, P), s.outcome \in {"done", "full"},
         IsFilePath(path), src \in Sources,
         onConflict \in {"Unset", "Copy", "Replace"},
         onConflict = "Replace" => path \in P,
         onConflict = "Unset" => path \notin FilePaths(s.nodes)
  PROVE  CreatedNeatly(b, s, P, path, onConflict,
                       CreateHierarchy(s, path, src, onConflict))
<1>. DEFINE r == CreateHierarchy(s, path, src, onConflict)
            f == PutFolders(s, path)
            existing == At(f.nodes, path)
            copied == CopyPath(f.nodes, path)
            Good(q) == CreatedNeatly(b, s, P, path, onConflict, q)
<1>1. /\ Neat(b, f, P) /\ f.outcome \in {"full", s.outcome}
      /\ f.outcome # "full" => FoldersUpTo(f.nodes, path, Len(path) - 1)
      /\ FilePaths(f.nodes) \subseteq FilePaths(s.nodes)
  BY FoldersAreNeat
<1>2. /\ r = IF f.outcome # "done" THEN f
             ELSE IF existing = {} THEN Put(f, path, src)
             ELSE CASE onConflict = "Replace" ->
                          Put(RemoveNodes(f, existing), path, src)
                     [] onConflict = "Copy"    ->
                          IF Last(copied)[2] > MaxCopy
                          THEN [f EXCEPT !.outcome = "full"]
                          ELSE Put(f, copied, src)
                     [] OTHER                  -> [f EXCEPT !.outcome = "thrown"]
  BY DEF CreateHierarchy
<1>3. src # NoSource /\ MayBePut(path, src) /\ Len(path) \in Nat
      /\ path \in Seq(FolderTitles \union EntryTitles)
  BY NoSourceIsNone, LenProperties DEF MayBePut, IsFilePath, Paths
<1>4. /\ NodesOK(f.nodes) /\ IsScene(f)
      /\ \A n \in DOMAIN f.nodes: f.nodes[n].path = path => n \in FilesOf(f.nodes)
  <2>1. NodesOK(f.nodes) /\ IsScene(f)
    BY <1>1 DEF Neat, SceneOK
  <2>2. ~IsFolderPath(path)
    BY TitlesDiffer, ElementOfSeq DEF IsFilePath, IsFolderPath
  <2>. HIDE DEF f
  <2>. QED
    BY <2>1, <2>2, PathsAreSequences
<1>. HIDE DEF f, r
<1>5. existing # {} => path \in FilePaths(f.nodes)
  BY <1>4 DEF At, FilePaths, PathsOf
<1>6. /\ IsFilePath(copied) /\ At(f.nodes, copied) = {} /\ MayBePut(copied, src)
      /\ copied \in CopiesOf(path)
      /\ Len(copied) = Len(path)
      /\ \A k \in 1 .. Len(path) - 1: SubSeq(copied, 1, k) = SubSeq(path, 1, k)
  <2>1. IsFilePath(copied) /\ At(f.nodes, copied) = {} /\ copied \in CopiesOf(path)
    BY <1>4, CopyIsFree
  <2>. HIDE DEF copied
  <2>. QED
    BY <1>3, <2>1, CopiesAreBeside DEF MayBePut
<1>7. ASSUME NEW g, NEW p, Neat(b, g, P), MayBePut(p, src), At(g.nodes, p) = {},
             g.outcome = "done",
             p = path \/ (onConflict = "Copy" /\ p \in CopiesOf(path)),
             FilePaths(g.nodes) \subseteq FilePaths(s.nodes),
             FoldersUpTo(g.nodes, p, Len(p) - 1),
             s.outcome = "done"
      PROVE  Good(Put(g, p, src))
  <2>. DEFINE q == Put(g, p, src)
  <2>2. PutNeatly(b, g, P, p, src, q)
    BY <1>7, PutIsNeat
  <2>. HIDE DEF q
  <2>3. Good(q)
    BY <1>3, <1>7, <2>2 DEF PutNeatly, CreatedNeatly
  <2>. QED
    BY <2>3 DEF q
<1>8. ASSUME f.outcome # "done"
      PROVE  Good(r)
  <2>1. r = f
    BY <1>2, <1>8
  <2>. QED
    BY <1>1, <2>1 DEF CreatedNeatly
<1>9. ASSUME f.outcome = "done"
      PROVE  Good(r)
  <2>1. /\ s.outcome = "done" /\ FoldersUpTo(f.nodes, path, Len(path) - 1)
    BY <1>1, <1>9
  <2>2. CASE existing = {}
    <3>1. Good(Put(f, path, src))
      <4>1. At(f.nodes, path) = {}
        BY <2>2
      <4>. HIDE DEF existing, Good
      <4>. QED
        BY <1>1, <1>3, <1>7, <1>9, <2>1, <4>1
    <3>2. r = Put(f, path, src)
      BY <1>2, <1>9, <2>2
    <3>. QED
      BY <3>1, <3>2
  <2>3. CASE existing # {} /\ onConflict = "Copy"
    <3>1. Good(Put(f, copied, src))
      <4>1. FoldersUpTo(f.nodes, copied, Len(copied) - 1)
        <5>. HIDE DEF copied, existing
        <5>. QED
          BY <1>6, <2>1 DEF FoldersUpTo
      <4>. HIDE DEF copied, existing, Good
      <4>. QED
        BY <1>1, <1>6, <1>7, <1>9, <2>1, <2>3, <4>1
    <3>2. Good([f EXCEPT !.outcome = "full"])
      <4>. DEFINE q == [f EXCEPT !.outcome = "full"]
      <4>1. /\ IsScene(q) /\ q.nodes = f.nodes /\ q.delete = f.delete
            /\ q.removed = f.removed /\ q.outcome = "full"
        BY <1>4 DEF IsScene
      <4>. HIDE DEF q
      <4>2. SceneOK(q) /\ Tidy(b, q, P)
        BY <1>1, <4>1 DEF Neat, SceneOK, Tidy
      <4>3. Good(q)
        BY <1>1, <4>1, <4>2 DEF Neat, CreatedNeatly
      <4>. QED
        BY <4>3 DEF q
    <3>. HIDE DEF Good, existing, copied
    <3>3. r = IF Last(copied)[2] > MaxCopy THEN [f EXCEPT !.outcome = "full"]
              ELSE Put(f, copied, src)
      BY <1>2, <1>9, <2>3
    <3>. QED
      BY <3>1, <3>2, <3>3
  <2>4. CASE existing # {} /\ onConflict = "Replace"
    <3>. DEFINE g == RemoveNodes(f, existing)
    <3>1. /\ existing \subseteq DOMAIN f.nodes
          /\ \A n \in existing: f.nodes[n].path = path /\ n \in FilesOf(f.nodes)
      BY <1>4 DEF At
    <3>2. \A n \in existing: n \in DOMAIN b.nodes => b.nodes[n].path \in P
      <4>1. ASSUME NEW n \in existing, n \in DOMAIN b.nodes
            PROVE  b.nodes[n].path \in P
        <5>1. n \notin f.removed
          BY <1>1, <3>1 DEF Neat, Tidy
        <5>2. f.nodes[n] = b.nodes[n]
          BY <1>1, <4>1, <5>1 DEF Neat, Tidy
        <5>. QED
          BY <2>4, <3>1, <5>2
      <4>. QED
        BY <4>1
    <3>3. ASSUME NEW n \in existing, NEW m \in DOMAIN f.nodes,
                 IsPrefix(f.nodes[n].path, f.nodes[m].path)
          PROVE  m \in existing
      <4>1. f.nodes[n].path = path /\ (IsFilePath(f.nodes[m].path) \/ IsFolderPath(f.nodes[m].path))
        BY <1>4, <3>1, PathsAreSequences
      <4>2. f.nodes[m].path = path
        BY <3>3, <4>1, NothingBelowFilePath
      <4>. QED
        BY <4>2 DEF At
    <3>4. /\ Neat(b, g, P) /\ g.outcome = "done"
          /\ g.nodes = Without(f.nodes, existing)
      <4>. HIDE DEF existing
      <4>1. RemovedNeatly(b, f, P, existing, g)
        BY <1>1, <3>1, <3>2, <3>3, RemovalIsNeat
      <4>. QED
        BY <4>1, <1>9 DEF RemovedNeatly
    <3>. HIDE DEF g
    <3>5. /\ At(g.nodes, path) = {}
          /\ FilePaths(g.nodes) \subseteq FilePaths(f.nodes)
      BY <3>4 DEF At, Without, FilePaths, PathsOf, FilesOf
    <3>6. FoldersUpTo(g.nodes, path, Len(path) - 1)
      <4>1. ASSUME NEW k \in 1 .. Len(path) - 1
            PROVE  At(g.nodes, SubSeq(path, 1, k)) # {}
        <5>1. PICK m \in DOMAIN f.nodes: f.nodes[m].path = SubSeq(path, 1, k)
          BY <2>1 DEF FoldersUpTo, At
        <5>2. Len(f.nodes[m].path) = k /\ k # Len(path)
          BY <1>3, <5>1, FoldersOnTheWay
        <5>3. m \notin existing
          BY <3>1, <5>2
        <5>. QED
          BY <3>4, <5>1, <5>3 DEF At, Without
      <4>. QED
        BY <4>1 DEF FoldersUpTo
    <3>7. Good(Put(g, path, src))
      <4>2. FilePaths(g.nodes) \subseteq FilePaths(s.nodes)
        BY <1>1, <3>5
      <4>. HIDE DEF existing, Good
      <4>. QED
        BY <1>3, <1>7, <2>1, <3>4, <3>5, <3>6, <4>2
    <3>. HIDE DEF Good
    <3>8. r = Put(g, path, src)
      BY <1>2, <1>9, <2>4 DEF g
    <3>. QED
      BY <3>7, <3>8
  <2>5. CASE existing # {} /\ onConflict = "Unset"
    BY <1>1, <1>5, <2>5
  <2>. QED
    BY <2>2, <2>3, <2>4, <2>5
<1>. QED
  BY <1>8, <1>9 DEF r, Good

(***************************************************************************)
(* createNodeSet and loadFile throw nothing.                               *)
(***************************************************************************)
\* Nothing of the tree is in the caches.
LEMMA ClearedIsNeat ==
  ASSUME NEW b, NEW s, NEW P, NEW path, Neat(b, s, P)
  PROVE  LET r == Clear(s, path)
         IN  Neat(b, r, P) /\ r.outcome = s.outcome /\ r.nodes = s.nodes
<1>. DEFINE r == Clear(s, path)
<1>1. IsScene(s) /\ SceneOK(s) /\ Tidy(b, s, P)
  BY DEF Neat, SceneOK
<1>2. /\ IsScene(r) /\ r.nodes = s.nodes /\ r.delete = s.delete
      /\ r.outcome = s.outcome /\ r.removed = s.removed
  BY <1>1 DEF IsScene, Clear
<1>. HIDE DEF r
<1>3. SceneOK(r) /\ Tidy(b, r, P)
  BY <1>1, <1>2 DEF SceneOK, Tidy
<1>. QED
  BY <1>2, <1>3 DEF Neat, r

\* What the user has answered for a path, if anything.
Resolution(answer, path) == IF path \in DOMAIN answer THEN answer[path] ELSE "Unset"

\* The paths that the insertion of a file may give to files.
Claims(answer, path) ==
  {path} \union IF Resolution(answer, path) = "Copy" THEN CopiesOf(path) ELSE {}

Answered(answer, path, P) ==
  /\ Resolution(answer, path) \in {"Unset", "Skip", "Copy", "Replace"}
  /\ Resolution(answer, path) = "Replace" => path \in P

InsertedNeatly(b, s, P, answer, path, r) ==
  /\ Neat(b, r, P) /\ r.outcome \in {"full", s.outcome}
  /\ FilePaths(r.nodes) \subseteq FilePaths(s.nodes) \union Claims(answer, path)

LEMMA InsertionIsNeat ==
  ASSUME NEW b, NEW s, NEW P, NEW dir, NEW d, NEW answer,
         Neat(b, s, P), s.outcome \in {"done", "full"},
         IsFolderPath(dir), IsFilePath(d.path), d.src \in Sources,
         Answered(answer, dir \o d.path, P),
         Resolution(answer, dir \o d.path) = "Unset" =>
           dir \o d.path \notin FilePaths(s.nodes)
  PROVE  InsertedNeatly(b, s, P, answer, dir \o d.path, InsertNode(s, dir, d, answer))
<1>. DEFINE path == dir \o d.path
            resolution == Resolution(answer, path)
            t == IF resolution = "Unset" THEN s ELSE Clear(s, path)
            r == CreateHierarchy(t, path, d.src, resolution)
<1>1. InsertNode(s, dir, d, answer) =
        IF s.outcome # "done" \/ resolution = "Skip" THEN s ELSE r
  BY DEF InsertNode, Resolution
<1>2. IsFilePath(path)
  BY PathBelowFolder
<1>3. /\ resolution \in {"Unset", "Skip", "Copy", "Replace"}
      /\ resolution = "Replace" => path \in P
      /\ resolution = "Unset" => path \notin FilePaths(s.nodes)
      /\ Claims(answer, path) =
           {path} \union IF resolution = "Copy" THEN CopiesOf(path) ELSE {}
  BY DEF Answered, Claims
<1>. HIDE DEF path, resolution
<1>4. Neat(b, t, P) /\ t.outcome = s.outcome /\ t.nodes = s.nodes
  BY ClearedIsNeat
<1>. HIDE DEF t
<1>5. CASE s.outcome # "done" \/ resolution = "Skip"
  <2>1. InsertedNeatly(b, s, P, answer, path, s)
    BY DEF InsertedNeatly
  <2>. QED
    BY <1>1, <1>5, <2>1 DEF path
<1>6. CASE ~(s.outcome # "done" \/ resolution = "Skip")
  <2>1. CreatedNeatly(b, t, P, path, resolution, r)
    BY <1>2, <1>3, <1>4, <1>6, HierarchyIsNeat
  <2>. HIDE DEF r
  <2>2. InsertedNeatly(b, s, P, answer, path, r)
    BY <1>3, <1>4, <2>1 DEF CreatedNeatly, InsertedNeatly
  <2>. QED
    BY <1>1, <1>6, <2>2 DEF path
<1>. QED
  BY <1>5, <1>6

\* A file for which nobody was asked, because its path was free, finds it free,
\* since no other file of the set comes to it.
Unclaimed(list, dir, answer) ==
  \A i, j \in 1 .. Len(list):
    /\ i # j
    /\ Resolution(answer, dir \o list[j].path) = "Unset"
    => dir \o list[j].path \notin Claims(answer, dir \o list[i].path)

StillFree(c, d, i) ==
  /\ Neat(c.b, d, c.P) /\ d.outcome \in {"done", "full"}
  /\ \A j \in 1 .. Len(c.list):
       /\ j > i
       /\ Resolution(c.answer, c.dir \o c.list[j].path) = "Unset"
       => c.dir \o c.list[j].path \notin FilePaths(d.nodes)

NeatInsertion == INSTANCE Iteration WITH Step <- InsertOne, Good <- StillFree

LEMMA NodeSetIsNeat ==
  ASSUME NEW s, NEW P, NEW dir, NEW list, NEW answer,
         Neat(s, s, P), s.outcome = "done", IsFolderPath(dir), Parcels(list),
         \A i \in 1 .. Len(list): Answered(answer, dir \o list[i].path, P),
         \A i \in 1 .. Len(list):
           Resolution(answer, dir \o list[i].path) = "Unset" =>
             dir \o list[i].path \notin FilePaths(s.nodes),
         Unclaimed(list, dir, answer)
  PROVE  LET r == CreateNodeSet(s, dir, list, answer)
         IN  Neat(s, r, P) /\ r.outcome \in {"done", "full"}
<1>. DEFINE c == [b |-> s, P |-> P, dir |-> dir, list |-> list, answer |-> answer]
            n == Len(list)
            insert == CHOOSE g: g = [i \in 0 .. n |->
                                       IF i = 0 THEN s ELSE InsertOne(c, g[i - 1], i)]
<1>1. n \in Nat
  BY DEF Parcels
<1>2. StillFree(c, s, 0)
  BY DEF StillFree
<1>3. CreateNodeSet(s, dir, list, answer) = insert[n]
  BY DEF CreateNodeSet, InsertOne
<1>4. c.b = s /\ c.P = P /\ c.dir = dir /\ c.list = list /\ c.answer = answer
  OBVIOUS
<1>. HIDE DEF c, insert
<1>5. ASSUME NEW i \in 1 .. n, NEW d, StillFree(c, d, i - 1)
      PROVE  StillFree(c, InsertOne(c, d, i), i)
  <2>. DEFINE r == InsertNode(d, dir, list[i], answer)
  <2>1. /\ Neat(s, d, P) /\ d.outcome \in {"done", "full"}
        /\ \A j \in 1 .. n: /\ j > i - 1
                            /\ Resolution(answer, dir \o list[j].path) = "Unset"
                            => dir \o list[j].path \notin FilePaths(d.nodes)
    BY <1>4, <1>5 DEF StillFree
  <2>2. IsFilePath(list[i].path) /\ list[i].src \in Sources
    BY DEF Parcels
  <2>3. i > i - 1 /\ \A j \in 1 .. n: j > i => j > i - 1 /\ i # j
    BY <1>1
  <2>4. InsertedNeatly(s, d, P, answer, dir \o list[i].path, r)
    BY <2>1, <2>2, <2>3, InsertionIsNeat
  <2>. HIDE DEF r
  <2>5. ASSUME NEW j \in 1 .. n, j > i,
               Resolution(answer, dir \o list[j].path) = "Unset"
        PROVE  dir \o list[j].path \notin FilePaths(r.nodes)
    <3>1. dir \o list[j].path \notin Claims(answer, dir \o list[i].path)
      BY <2>3, <2>5 DEF Unclaimed
    <3>. QED
      BY <2>1, <2>3, <2>4, <2>5, <3>1 DEF InsertedNeatly
  <2>6. StillFree(c, r, i)
    BY <1>4, <2>1, <2>4, <2>5 DEF StillFree, InsertedNeatly
  <2>. QED
    BY <1>4, <2>6 DEF InsertOne, r
<1>6. StillFree(c, insert[n], n)
  <2>. HIDE DEF n
  <2>. QED
    BY <1>1, <1>2, <1>5, NeatInsertion!LoopKeeps DEF insert
<1>. QED
  BY <1>3, <1>4, <1>6 DEF StillFree

StillLoading(c, d, i) == Neat(c.b, d, c.P) /\ d.outcome \in {"done", "full"}

NeatLoading == INSTANCE Iteration WITH Step <- LoadOne, Good <- StillLoading

LEMMA LoadingIsNeat ==
  ASSUME NEW s, NEW P, NEW d, Neat(s, s, P), s.outcome = "done", EntriesOK(d)
  PROVE  LET r == Loaded(s, d)
         IN  Neat(s, r, P) /\ r.outcome \in {"done", "full"}
<1>. DEFINE list == SetToSeq(d.entries)
            c == [b |-> s, P |-> P, d |-> d, list |-> list]
            n == Len(list)
            load == CHOOSE g: g = [i \in 0 .. n |->
                                     IF i = 0 THEN s ELSE LoadOne(c, g[i - 1], i)]
<1>1. n \in Nat /\ \A i \in 1 .. n: list[i] \in d.entries
  BY InOrder DEF EntriesOK
<1>2. StillLoading(c, s, 0)
  BY DEF StillLoading
<1>3. Loaded(s, d) = load[n]
  BY DEF Loaded, LoadOne
<1>. HIDE DEF list
<1>4. c.b = s /\ c.P = P /\ c.d = d /\ c.list = list
  OBVIOUS
<1>. HIDE DEF c, load
<1>5. ASSUME NEW i \in 1 .. n, NEW t, StillLoading(c, t, i - 1)
      PROVE  StillLoading(c, LoadOne(c, t, i), i)
  <2>1. Neat(s, t, P) /\ t.outcome \in {"done", "full"}
    BY <1>4, <1>5 DEF StillLoading
  <2>. DEFINE e == list[i]
              src == [layout |-> d.layout, bytes |-> e.bytes]
              r == CreateHierarchy(t, e.path, src, "Copy")
  <2>2. IsFilePath(e.path) /\ src \in Sources
    BY <1>1, ConstantsAreNumbers DEF EntriesOK, Sources
  <2>3. CreatedNeatly(s, t, P, e.path, "Copy", r)
    <3>. DEFINE how == "Copy"
    <3>1. /\ how \in {"Unset", "Copy", "Replace"}
          /\ how = "Replace" => e.path \in P
          /\ how = "Unset" => e.path \notin FilePaths(t.nodes)
      OBVIOUS
    <3>. HIDE DEF how, e, src
    <3>2. CreatedNeatly(s, t, P, e.path, how, CreateHierarchy(t, e.path, src, how))
      BY <2>1, <2>2, <3>1, HierarchyIsNeat
    <3>. QED
      BY <3>2 DEF how
  <2>4. LoadOne(c, t, i) = r
    BY <1>4 DEF LoadOne, LoadEntry
  <2>. HIDE DEF r
  <2>. QED
    BY <1>4, <2>1, <2>3, <2>4 DEF StillLoading, CreatedNeatly
<1>6. StillLoading(c, load[n], n)
  <2>. HIDE DEF n
  <2>. QED
    BY <1>1, <1>2, <1>5, NeatLoading!LoopKeeps DEF load
<1>. QED
  BY <1>3, <1>4, <1>6 DEF StillLoading

(***************************************************************************)
(* A removal takes no other node that was to be removed along.             *)
(***************************************************************************)
\* Neither path begins the other.
Aside(p, q) == ~IsPrefix(p, q) /\ ~IsPrefix(q, p)

\* Where two such paths part.
LEMMA PathsPart ==
  ASSUME NEW S, NEW p \in Seq(S), NEW q \in Seq(S), Aside(p, q)
  PROVE  \E k \in 1 .. Len(p):
           /\ k <= Len(q) /\ p[k] # q[k]
           /\ \A i \in 1 .. k - 1: p[i] = q[i]
<1>. DEFINE D == {k \in 1 .. Len(p): k <= Len(q) /\ p[k] # q[k]}
<1>1. Len(p) \in Nat /\ Len(q) \in Nat
  BY LenProperties
<1>2. D # {}
  <2>. SUFFICES ASSUME D = {} PROVE FALSE
    OBVIOUS
  <2>1. \A k \in 1 .. Len(p): k <= Len(q) => p[k] = q[k]
    OBVIOUS
  <2>2. CASE Len(p) <= Len(q)
    <3>1. \A k \in 1 .. Len(p): p[k] = q[k]
      BY <1>1, <2>1, <2>2
    <3>2. IsPrefix(p, q)
      BY <2>2, <3>1, PrefixIsBeginning
    <3>. QED
      BY <3>2 DEF Aside
  <2>3. CASE Len(q) <= Len(p)
    <3>1. \A k \in 1 .. Len(q): q[k] = p[k]
      BY <1>1, <2>1, <2>3
    <3>2. IsPrefix(q, p)
      BY <2>3, <3>1, PrefixIsBeginning
    <3>. QED
      BY <3>2 DEF Aside
  <2>. QED
    BY <1>1, <2>2, <2>3
<1>3. D \subseteq Nat
  BY <1>1
<1>4. PICK k \in D: \A j \in D: k <= j
  <2>. HIDE DEF D
  <2>. QED
    BY <1>2, <1>3, Descent!LeastIsThere
<1>5. ASSUME NEW i \in 1 .. k - 1
      PROVE  p[i] = q[i]
  <2>1. k \in Nat /\ i \in 1 .. Len(p) /\ i <= Len(q) /\ ~(k <= i)
    BY <1>1, <1>4
  <2>2. i \notin D
    BY <1>4, <2>1
  <2>. QED
    BY <2>1, <2>2
<1>. QED
  BY <1>4, <1>5

LEMMA PrefixOfPrefix ==
  ASSUME NEW S, NEW p \in Seq(S), NEW q \in Seq(S), NEW r \in Seq(S),
         IsPrefix(p, q), IsPrefix(q, r)
  PROVE  IsPrefix(p, r)
<1>1. Len(p) \in Nat /\ Len(q) \in Nat /\ Len(r) \in Nat
  BY LenProperties
<1>2. /\ Len(p) <= Len(q) /\ \A i \in 1 .. Len(p): p[i] = q[i]
      /\ Len(q) <= Len(r) /\ \A i \in 1 .. Len(q): q[i] = r[i]
  BY PrefixIsBeginning
<1>3. Len(p) <= Len(r) /\ \A i \in 1 .. Len(p): p[i] = r[i]
  BY <1>1, <1>2
<1>. QED
  BY <1>3, PrefixIsBeginning

\* What is in the folder of the first k titles of a path.
ChildrenOn(ns, path, k) ==
  {m \in DOMAIN ns: Len(ns[m].path) = k + 1 /\ IsPrefix(SubSeq(path, 1, k), ns[m].path)}

\* The folder that two paths have in common has two children.
LEMMA CommonFolderStays ==
  ASSUME NEW ns, NodesOK(ns), Closed(ns), NEW n \in DOMAIN ns, NEW m \in DOMAIN ns,
         Aside(ns[n].path, ns[m].path)
  PROVE  \E k \in 1 .. Len(ns[n].path):
           /\ Cardinality(ChildrenOn(ns, ns[n].path, k - 1)) # 1
           /\ \A j \in k .. Len(ns[n].path):
                ~IsPrefix(SubSeq(ns[n].path, 1, j), ns[m].path)
<1>. DEFINE S == FolderTitles \union EntryTitles
            p == ns[n].path
            q == ns[m].path
<1>1. /\ p \in Seq(S) /\ q \in Seq(S) /\ Len(p) \in Nat /\ Len(q) \in Nat
  BY NodePaths
<1>2. PICK k \in 1 .. Len(p): /\ k <= Len(q) /\ p[k] # q[k]
                              /\ \A i \in 1 .. k - 1: p[i] = q[i]
  <2>1. Aside(p, q)
    OBVIOUS
  <2>. HIDE DEF p, q, S
  <2>. QED
    BY <1>1, <2>1, PathsPart
<1>3. k \in Nat /\ k >= 1 /\ k \in 1 .. Len(q) /\ k - 1 < k
  BY <1>1, <1>2
<1>4. ASSUME NEW x \in DOMAIN ns, NEW j \in 1 .. Len(ns[x].path)
      PROVE  \E y \in DOMAIN ns: ns[y].path = SubSeq(ns[x].path, 1, j)
  <2>1. ns[x].path \in Seq(S) /\ Len(ns[x].path) \in Nat
    BY NodePaths
  <2>2. CASE j = Len(ns[x].path)
    BY <2>1, <2>2, SubSeqFull
  <2>3. CASE j # Len(ns[x].path)
    <3>1. j \in 1 .. Len(ns[x].path) - 1
      BY <2>1, <2>3
    <3>. QED
      BY <3>1 DEF Closed, At
  <2>. QED
    BY <2>2, <2>3
<1>5. PICK x \in DOMAIN ns: ns[x].path = SubSeq(p, 1, k)
  BY <1>2, <1>4
<1>6. PICK y \in DOMAIN ns: ns[y].path = SubSeq(q, 1, k)
  BY <1>3, <1>4
<1>. DEFINE a == SubSeq(p, 1, k)
            b == SubSeq(q, 1, k)
            f == SubSeq(p, 1, k - 1)
<1>. HIDE DEF p, q, S
<1>7. /\ a \in Seq(S) /\ Len(a) = k /\ \A i \in 1 .. k: a[i] = p[i]
      /\ b \in Seq(S) /\ Len(b) = k /\ \A i \in 1 .. k: b[i] = q[i]
  BY <1>1, <1>2, <1>3, Beginning
<1>8. f \in Seq(S) /\ Len(f) = k - 1 /\ \A i \in 1 .. k - 1: f[i] = p[i]
  <2>. DEFINE l == k - 1
  <2>1. /\ l \in Int /\ 1 \in Int /\ l \in Nat
        /\ \A i \in 1 .. l: i \in 1 .. Len(p)
    BY <1>1, <1>3
  <2>2. \A i \in 1 .. l: p[i] \in S
    BY <1>1, <2>1, ElementOfSeq
  <2>. HIDE DEF l
  <2>3. SubSeq(p, 1, l) \in Seq(S) /\ Len(SubSeq(p, 1, l)) = l
        /\ \A i \in 1 .. l: SubSeq(p, 1, l)[i] = p[i]
    BY <2>1, <2>2, SubSeqProperties
  <2>. QED
    BY <2>3 DEF l
<1>. HIDE DEF a, b, f
<1>9. IsPrefix(f, a) /\ IsPrefix(f, b)
  <2>1. /\ Len(f) <= Len(a) /\ \A i \in 1 .. Len(f): f[i] = a[i]
        /\ Len(f) <= Len(b) /\ \A i \in 1 .. Len(f): f[i] = b[i]
    BY <1>2, <1>3, <1>7, <1>8
  <2>. QED
    BY <1>7, <1>8, <2>1, PrefixIsBeginning
<1>10. x # y
  <2>1. a[k] # b[k]
    BY <1>2, <1>3, <1>7
  <2>. QED
    BY <1>5, <1>6, <2>1 DEF a, b
<1>11. Cardinality(ChildrenOn(ns, p, k - 1)) # 1
  <2>. DEFINE C == ChildrenOn(ns, p, k - 1)
  <2>1. x \in C /\ y \in C
    <3>1. Len(ns[x].path) = k - 1 + 1 /\ Len(ns[y].path) = k - 1 + 1
      BY <1>3, <1>5, <1>6, <1>7 DEF a, b
    <3>. QED
      BY <1>5, <1>6, <1>9, <3>1 DEF ChildrenOn, a, b, f
  <2>2. IsFiniteSet(C)
    <3>1. C \subseteq 1 .. MaxNodes
      BY DEF ChildrenOn, NodesOK
    <3>2. IsFiniteSet(1 .. MaxNodes)
      BY FS_Interval, ConstantsAreNumbers
    <3>. HIDE DEF C
    <3>. QED
      BY <3>1, <3>2, FS_Subset
  <2>. HIDE DEF C
  <2>3. ASSUME Cardinality(C) = 1
        PROVE  FALSE
    <3>1. \E z: C = {z}
      BY <2>2, <2>3, FS_Singleton
    <3>. QED
      BY <1>10, <2>1, <3>1
  <2>. QED
    BY <2>3 DEF C
<1>12. ASSUME NEW j \in k .. Len(p), IsPrefix(SubSeq(p, 1, j), q)
       PROVE  FALSE
  <2>1. j \in 1 .. Len(p) /\ k \in 1 .. j
    BY <1>1, <1>3
  <2>. DEFINE u == SubSeq(p, 1, j)
  <2>2. u \in Seq(S) /\ Len(u) = j /\ \A i \in 1 .. j: u[i] = p[i]
    BY <1>1, <2>1, Beginning
  <2>3. IsPrefix(u, q)
    BY <1>12
  <2>. HIDE DEF u
  <2>4. \A i \in 1 .. j: u[i] = q[i]
    BY <1>1, <2>2, <2>3, PrefixIsBeginning
  <2>. QED
    BY <1>2, <1>3, <2>1, <2>2, <2>4
<1>. QED
  BY <1>2, <1>11, <1>12 DEF p, q

\* What goes with the node n: others, but none aside.
GoneWith(b, s, n, r) ==
  \E S \in SUBSET DOMAIN s.nodes:
    /\ RemovedNeatly(b, s, Paths, S, r)
    /\ \A m \in DOMAIN s.nodes: Aside(s.nodes[n].path, s.nodes[m].path) => m \notin S

LEMMA HierarchyGoesAlone ==
  ASSUME NEW b, NEW s, Neat(b, s, Paths), s.outcome # "full", NEW n \in DOMAIN s.nodes
  PROVE  GoneWith(b, s, n, RemoveFromHierarchy(s, n))
<1>. DEFINE T == FolderTitles \union EntryTitles
            ns == s.nodes
            path == ns[n].path
            K == {k \in 1 .. Len(path):
                    \A j \in k .. Len(path) - 1: Cardinality(ChildrenOn(ns, path, j)) = 1}
            top == Min(K)
            start == SubSeq(path, 1, top)
            S == Below(ns, At(ns, start))
            r == RemoveFromHierarchy(s, n)
<1>1. r = RemoveNodes(s, S)
  BY DEF RemoveFromHierarchy, ChildrenOn
<1>2. /\ NodesOK(ns) /\ Closed(ns) /\ Tidy(b, s, Paths)
  BY DEF Neat, SceneOK, Tidy
<1>3. path \in Seq(T) /\ Len(path) \in Nat /\ Len(path) >= 1
  BY <1>2, NodePaths
<1>4. top \in K
  <2>1. Len(path) \in K /\ K \subseteq Nat
    BY <1>3
  <2>. HIDE DEF K
  <2>. QED
    BY <2>1, MinIsThere
<1>5. S = {m \in DOMAIN ns: \E x \in DOMAIN ns:
                              ns[x].path = start /\ IsPrefix(start, ns[m].path)}
  BY DEF Below, At
<1>6. top \in 1 .. Len(path) /\ top \in Nat
      /\ \A j \in top .. Len(path) - 1: Cardinality(ChildrenOn(ns, path, j)) = 1
  BY <1>3, <1>4
<1>. HIDE DEF K, top, S, r
<1>7. ASSUME NEW m \in DOMAIN ns, Aside(path, ns[m].path)
      PROVE  m \notin S
  <2>1. PICK k \in 1 .. Len(path):
          /\ Cardinality(ChildrenOn(ns, path, k - 1)) # 1
          /\ \A j \in k .. Len(path): ~IsPrefix(SubSeq(path, 1, j), ns[m].path)
    <3>1. n \in DOMAIN ns /\ Aside(ns[n].path, ns[m].path)
      BY <1>7
    <3>. HIDE DEF T, ns
    <3>. QED
      BY <1>2, <1>7, <3>1, CommonFolderStays
  <2>2. ~(k - 1 \in top .. Len(path) - 1)
    BY <1>6, <2>1
  <2>3. top \in k .. Len(path)
    BY <1>3, <1>6, <2>1, <2>2
  <2>. QED
    BY <1>5, <2>1, <2>3
<1>8. S \in SUBSET DOMAIN ns
  BY <1>5
<1>9. ASSUME NEW x \in S, NEW m \in DOMAIN ns, IsPrefix(ns[x].path, ns[m].path)
      PROVE  m \in S
  <2>1. x \in DOMAIN ns /\ IsPrefix(start, ns[x].path)
        /\ \E y \in DOMAIN ns: ns[y].path = start
    BY <1>5
  <2>2. /\ ns[x].path \in Seq(T) /\ ns[m].path \in Seq(T) /\ start \in Seq(T)
    <3>1. start \in Seq(T)
      BY <1>3, <1>6, Beginning
    <3>. QED
      BY <1>2, <2>1, <3>1, NodePaths
  <2>. DEFINE p == ns[x].path
              q == ns[m].path
  <2>3. IsPrefix(p, q) /\ IsPrefix(start, p) /\ p \in Seq(T) /\ q \in Seq(T)
    BY <1>9, <2>1, <2>2
  <2>. HIDE DEF start, T, p, q
  <2>4. IsPrefix(start, q)
    BY <2>2, <2>3, PrefixOfPrefix
  <2>. QED
    BY <1>5, <2>1, <2>4 DEF q
<1>10. \A x \in S: x \in DOMAIN b.nodes => b.nodes[x].path \in Paths
  <2>1. ASSUME NEW x \in S, x \in DOMAIN b.nodes
        PROVE  b.nodes[x].path \in Paths
    <3>1. x \in DOMAIN ns /\ ns[x].path \in Paths
      BY <1>2, <1>8, PathsAreSequences
    <3>2. b.nodes[x].path \in Paths \/ ns[x] = b.nodes[x]
      BY <1>2, <2>1 DEF Tidy
    <3>. QED
      BY <3>1, <3>2
  <2>. QED
    BY <2>1
<1>11. RemovedNeatly(b, s, Paths, S, r)
  BY <1>1, <1>8, <1>9, <1>10, RemovalIsNeat
<1>12. GoneWith(b, s, n, r)
  BY <1>7, <1>8, <1>11 DEF GoneWith
<1>. QED
  BY <1>12 DEF r

\* The pointers d are to nodes of which none is below another.
Apart(ns, d) ==
  \A i \in DOMAIN d:
    /\ d[i] \in DOMAIN ns
    /\ \A j \in DOMAIN d: i # j => ~IsPrefix(ns[d[i]].path, ns[d[j]].path)

\* After i rounds of a removal of those in the list, the others are still there.
StillApart(c, d, i) ==
  /\ Neat(c.b, d, Paths) /\ d.outcome = "done"
  /\ \A j \in DOMAIN c.list: j > i => c.list[j] \in DOMAIN d.nodes

LEMMA OneGoesAlone ==
  ASSUME NEW c, NEW d, NEW i \in DOMAIN c.list, DOMAIN c.list \subseteq Nat,
         Apart(c.b.nodes, c.list), StillApart(c, d, i - 1)
  PROVE  StillApart(c, RemoveFromHierarchy(d, c.list[i]), i)
<1>. DEFINE n == c.list[i]
            r == RemoveFromHierarchy(d, n)
<1>1. /\ Neat(c.b, d, Paths) /\ Tidy(c.b, d, Paths) /\ d.outcome = "done"
      /\ \A j \in DOMAIN c.list: j > i - 1 => c.list[j] \in DOMAIN d.nodes
  BY DEF StillApart, Neat
<1>2. i \in Nat /\ i > i - 1 /\ \A j \in DOMAIN c.list: j > i => j > i - 1 /\ i # j
  OBVIOUS
<1>3. n \in DOMAIN d.nodes
  BY <1>1, <1>2
<1>4. \A j \in DOMAIN c.list: c.list[j] \in DOMAIN d.nodes =>
        c.list[j] \in DOMAIN c.b.nodes /\ d.nodes[c.list[j]] = c.b.nodes[c.list[j]]
  BY <1>1 DEF Tidy, Apart
<1>. HIDE DEF n, r
<1>5. GoneWith(c.b, d, n, r)
  BY <1>1, <1>3, HierarchyGoesAlone DEF r
<1>6. PICK S \in SUBSET DOMAIN d.nodes:
        /\ RemovedNeatly(c.b, d, Paths, S, r)
        /\ \A m \in DOMAIN d.nodes:
             Aside(d.nodes[n].path, d.nodes[m].path) => m \notin S
  BY <1>5 DEF GoneWith
<1>7. ASSUME NEW j \in DOMAIN c.list, j > i
      PROVE  c.list[j] \in DOMAIN r.nodes
  <2>. DEFINE m == c.list[j]
  <2>1. m \in DOMAIN d.nodes
    BY <1>1, <1>2, <1>7
  <2>2. Aside(c.b.nodes[n].path, c.b.nodes[m].path)
    BY <1>2, <1>7 DEF Apart, Aside, n
  <2>3. d.nodes[n] = c.b.nodes[n] /\ d.nodes[m] = c.b.nodes[m]
    BY <1>3, <1>4, <2>1 DEF n
  <2>4. m \notin S
    BY <1>6, <2>1, <2>2, <2>3
  <2>. QED
    BY <1>6, <2>1, <2>4 DEF RemovedNeatly, Without
<1>8. StillApart(c, r, i)
  BY <1>1, <1>6, <1>7 DEF StillApart, RemovedNeatly
<1>. QED
  BY <1>8 DEF r, n

NeatDeletion == INSTANCE Iteration WITH Step <- DeleteStep, Good <- StillApart
NeatRemoval == INSTANCE Iteration WITH Step <- RemoveStep, Good <- StillApart

\* commit finds all that it deletes.
LEMMA DeletionIsNeat ==
  ASSUME NEW s, Neat(s, s, Paths), s.outcome = "done", Apart(s.nodes, s.delete)
  PROVE  LET r == DeleteAll(s)
         IN  Neat(s, r, Paths) /\ r.outcome = "done"
<1>. DEFINE c == [b |-> s, list |-> s.delete]
            n == Len(s.delete)
            delete_ == CHOOSE g: g = [i \in 0 .. n |->
                                        IF i = 0 THEN s ELSE DeleteStep(c, g[i - 1], i)]
<1>1. n \in Nat /\ DOMAIN s.delete = 1 .. n /\ DOMAIN s.nodes \subseteq 1 .. MaxNodes
  BY LenProperties DEF Neat, SceneOK, Held, NodesOK
<1>2. StillApart(c, s, 0)
  BY DEF StillApart, Apart
<1>3. DeleteAll(s) = delete_[n]
  BY DEF DeleteAll, DeleteStep
<1>4. c.b = s /\ c.list = s.delete
  OBVIOUS
<1>. HIDE DEF c, delete_
<1>5. ASSUME NEW i \in 1 .. n, NEW d, StillApart(c, d, i - 1)
      PROVE  StillApart(c, DeleteStep(c, d, i), i)
  <2>1. /\ i \in DOMAIN c.list /\ DOMAIN c.list \subseteq Nat
        /\ Apart(c.b.nodes, c.list)
    BY <1>1, <1>4
  <2>2. /\ Tidy(s, d, Paths) /\ d.outcome = "done" /\ c.list[i] \in DOMAIN d.nodes
        /\ NodesOK(d.nodes)
    <3>1. i > i - 1
      BY <1>1
    <3>. QED
      BY <1>4, <1>5, <2>1, <3>1 DEF StillApart, Neat, SceneOK
  <2>3. d.delete[i] = c.list[i]
    BY <1>4, <2>1, <2>2 DEF Tidy
  <2>4. d.delete[i] # Gone
    <3>1. c.list[i] \in 1 .. MaxNodes /\ MaxNodes \in Nat
      BY <2>2, ConstantsAreNumbers DEF NodesOK
    <3>. QED
      BY <2>3, <3>1 DEF Gone
  <2>5. DeleteStep(c, d, i) = RemoveFromHierarchy(d, c.list[i])
    BY <2>2, <2>3, <2>4 DEF DeleteStep, DeleteOne
  <2>. QED
    BY <1>5, <2>1, <2>5, OneGoesAlone
<1>6. StillApart(c, delete_[n], n)
  <2>. HIDE DEF n
  <2>. QED
    BY <1>1, <1>2, <1>5, NeatDeletion!LoopKeeps DEF delete_
<1>. QED
  BY <1>3, <1>4, <1>6 DEF StillApart

LEMMA CommitIsNeat ==
  ASSUME NEW s, Neat(s, s, Paths), s.outcome = "done", Apart(s.nodes, s.delete)
  PROVE  LET r == Commit(s)
         IN  Neat(r, r, Paths) /\ r.outcome = "done" /\ r.delete = <<>>
<1>. DEFINE d == DeleteAll(s)
            r == Commit(s)
<1>1. Neat(s, d, Paths) /\ d.outcome = "done"
  BY DeletionIsNeat
<1>2. IsScene(d) /\ Closed(d.nodes) /\ d.removed \intersect DOMAIN d.nodes = {}
  BY <1>1 DEF Neat, SceneOK, Tidy
<1>. HIDE DEF d
<1>3. r = [d EXCEPT !.delete = <<>>]
  BY DEF Commit, d
<1>4. /\ r.nodes = d.nodes /\ r.removed = d.removed
      /\ r.outcome = d.outcome /\ r.delete = <<>>
  BY <1>2, <1>3 DEF IsScene
<1>5. SceneOK(r)
  <2>1. Settled(s, s)
    BY EverySceneSettles DEF Neat
  <2>2. Settled(s, Commit(s))
    BY <2>1, CommitSettles
  <2>. QED
    BY <2>2 DEF Settled
<1>. HIDE DEF r
<1>6. Neat(r, r, Paths) /\ r.outcome = "done" /\ r.delete = <<>>
  BY <1>1, <1>2, <1>4, <1>5 DEF Neat, Tidy
<1>. QED
  BY <1>6 DEF r

LEMMA SelectionGoesNeatly ==
  ASSUME NEW s, NEW list, Len(list) \in Nat, DOMAIN list = 1 .. Len(list),
         Neat(s, s, Paths), s.outcome = "done", Apart(s.nodes, list), NEW r,
         r = LET remove[i \in 0 .. Len(list)] ==
                   IF i = 0 THEN s ELSE RemoveFromHierarchy(remove[i - 1], list[i])
             IN  remove[Len(list)]
  PROVE  Neat(s, r, Paths) /\ r.outcome = "done"
<1>. DEFINE c == [b |-> s, list |-> list]
            n == Len(list)
            remove == CHOOSE g: g = [i \in 0 .. n |->
                                       IF i = 0 THEN s ELSE RemoveStep(c, g[i - 1], i)]
<1>2. StillApart(c, s, 0)
  BY DEF StillApart, Apart
<1>3. r = remove[n]
  BY DEF RemoveStep
<1>4. c.b = s /\ c.list = list
  OBVIOUS
<1>. HIDE DEF c, remove
<1>5. ASSUME NEW i \in 1 .. n, NEW d, StillApart(c, d, i - 1)
      PROVE  StillApart(c, RemoveStep(c, d, i), i)
  <2>1. /\ i \in DOMAIN c.list /\ DOMAIN c.list \subseteq Nat
        /\ Apart(c.b.nodes, c.list)
    BY <1>4
  <2>. QED
    BY <1>5, <2>1, OneGoesAlone DEF RemoveStep
<1>6. StillApart(c, remove[n], n)
  <2>. HIDE DEF n
  <2>1. n \in Nat
    BY DEF n
  <2>. QED
    BY <2>1, <1>2, <1>5, NeatRemoval!LoopKeeps DEF remove
<1>. QED
  BY <1>3, <1>4, <1>6 DEF StillApart

(***************************************************************************)
(* The user's answers are enough, and what is to go is there.              *)
(***************************************************************************)
\* The paths at which the user wants entries replaced.
Replacing(answer) == {p \in DOMAIN answer: answer[p] = "Replace"}

\* Below one folder, files have one path, or are side by side, only if they do
\* so of themselves.
LEMMA SidesBelowFolder ==
  ASSUME NEW dir, IsFolderPath(dir), NEW p, IsFilePath(p), NEW q, IsFilePath(q)
  PROVE  /\ dir \o p = dir \o q => p = q
         /\ /\ Len(dir \o p) = Len(dir \o q)
            /\ Front(dir \o p) = Front(dir \o q)
            /\ Last(dir \o p)[1] = Last(dir \o q)[1]
            => Front(p) = Front(q) /\ Last(p)[1] = Last(q)[1]
<1>. DEFINE S == FolderTitles \union EntryTitles
            l == Len(dir)
            a == dir \o p
            b == dir \o q
<1>1. /\ dir \in Seq(S) /\ p \in Seq(S) /\ q \in Seq(S)
      /\ l \in Nat /\ Len(p) \in Nat /\ Len(q) \in Nat /\ Len(p) >= 1 /\ Len(q) >= 1
  BY FolderPathIsPath, LenProperties DEF IsFilePath, Paths
<1>. HIDE DEF S
<1>2. /\ a \in Seq(S) /\ Len(a) = l + Len(p)
      /\ \A i \in 1 .. l + Len(p): a[i] = IF i <= l THEN dir[i] ELSE p[i - l]
  BY <1>1, ConcatProperties
<1>3. /\ b \in Seq(S) /\ Len(b) = l + Len(q)
      /\ \A i \in 1 .. l + Len(q): b[i] = IF i <= l THEN dir[i] ELSE q[i - l]
  BY <1>1, ConcatProperties
<1>. HIDE DEF a, b
<1>4. \A i \in 1 .. Len(p): a[l + i] = p[i]
  <2>1. ASSUME NEW i \in 1 .. Len(p)
        PROVE  a[l + i] = p[i]
    <3>1. l + i \in 1 .. l + Len(p) /\ ~(l + i <= l) /\ l + i - l = i
      BY <1>1
    <3>. QED
      BY <1>2, <3>1
  <2>. QED
    BY <2>1
<1>5. \A i \in 1 .. Len(q): b[l + i] = q[i]
  <2>1. ASSUME NEW i \in 1 .. Len(q)
        PROVE  b[l + i] = q[i]
    <3>1. l + i \in 1 .. l + Len(q) /\ ~(l + i <= l) /\ l + i - l = i
      BY <1>1
    <3>. QED
      BY <1>3, <3>1
  <2>. QED
    BY <2>1
<1>6. ASSUME a = b
      PROVE  p = q
  <2>1. Len(p) = Len(q)
    BY <1>1, <1>2, <1>3, <1>6
  <2>2. \A i \in 1 .. Len(p): p[i] = q[i]
    BY <1>4, <1>5, <1>6, <2>1
  <2>. QED
    BY <1>1, <2>1, <2>2, SeqEqual
<1>7. ASSUME Len(a) = Len(b), Front(a) = Front(b), Last(a)[1] = Last(b)[1]
      PROVE  Front(p) = Front(q) /\ Last(p)[1] = Last(q)[1]
  <2>. DEFINE n == Len(p)
  <2>1. Len(q) = n /\ n \in Nat /\ n >= 1 /\ Len(a) = l + n /\ Len(b) = l + n
    <3>1. l + Len(p) = l + Len(q)
      BY <1>2, <1>3, <1>7
    <3>2. Len(p) = Len(q)
      BY <1>1, <3>1
    <3>. QED
      BY <1>1, <1>2, <1>3, <3>2
  <2>2. Last(p) = Last(a) /\ Last(q) = Last(b)
    <3>1. n \in 1 .. n
      BY <2>1
    <3>. QED
      BY <1>4, <1>5, <2>1, <3>1 DEF Last
  <2>3. ASSUME NEW i \in 1 .. n - 1
        PROVE  p[i] = q[i]
    <3>. DEFINE m == l + n - 1
    <3>1. /\ l + i \in 1 .. m /\ m \in Nat /\ m \in 1 .. Len(a) /\ m \in 1 .. Len(b)
          /\ i \in 1 .. Len(p) /\ i \in 1 .. Len(q)
      BY <1>1, <2>1
    <3>2. Front(a) = SubSeq(a, 1, m) /\ Front(b) = SubSeq(b, 1, m)
      BY <2>1 DEF Front
    <3>. HIDE DEF m
    <3>3. SubSeq(a, 1, m)[l + i] = a[l + i]
      BY <1>2, <3>1, Beginning
    <3>4. SubSeq(b, 1, m)[l + i] = b[l + i]
      BY <1>3, <3>1, Beginning
    <3>5. a[l + i] = b[l + i]
      BY <1>7, <3>2, <3>3, <3>4
    <3>. QED
      BY <1>4, <1>5, <3>1, <3>5
  <2>4. Front(p) = Front(q)
    <3>. DEFINE m == n - 1
    <3>1. Front(p) = SubSeq(p, 1, m) /\ Front(q) = SubSeq(q, 1, m)
      BY <2>1 DEF Front
    <3>2. m \in Nat /\ m \in Int /\ 1 \in Int /\ \A i \in 1 .. m: p[i] \in S /\ q[i] \in S /\ p[i] = q[i]
      <4>1. \A i \in 1 .. m: i \in 1 .. Len(p) /\ i \in 1 .. Len(q)
        BY <2>1
      <4>. QED
        BY <1>1, <2>1, <2>3, <4>1, ElementOfSeq
    <3>. HIDE DEF m
    <3>. DEFINE f == SubSeq(p, 1, m)
                g == SubSeq(q, 1, m)
    <3>3. f \in Seq(S) /\ Len(f) = m /\ \A i \in 1 .. m: f[i] = p[i]
      BY <1>1, <3>2, SubSeqProperties
    <3>4. g \in Seq(S) /\ Len(g) = m /\ \A i \in 1 .. m: g[i] = q[i]
      BY <1>1, <3>2, SubSeqProperties
    <3>. HIDE DEF f, g
    <3>5. f = g
      BY <3>2, <3>3, <3>4, SeqEqual
    <3>. QED
      BY <3>1, <3>5 DEF f, g
  <2>. QED
    BY <1>7, <2>2, <2>4
<1>. QED
  BY <1>6, <1>7 DEF a, b

\* No two files of the parcel have one path, and no copy gets the title of
\* another one.
Distinct(parcel) == \A c, d \in parcel: c.path = d.path => c = d

OwnTitles(dir, parcel, answer) ==
  \A c, d \in parcel:
    /\ c # d /\ Resolution(answer, dir \o c.path) = "Copy"
    => ~(Front(c.path) = Front(d.path) /\ Last(c.path)[1] = Last(d.path)[1])

LEMMA NoneIsClaimed ==
  ASSUME NEW dir, IsFolderPath(dir), NEW list, Parcels(list), NEW parcel,
         \A i \in 1 .. Len(list): list[i] \in parcel,
         \A i, j \in 1 .. Len(list): i # j => list[i] # list[j],
         NEW answer, Distinct(parcel), OwnTitles(dir, parcel, answer)
  PROVE  Unclaimed(list, dir, answer)
<1>1. ASSUME NEW i \in 1 .. Len(list), NEW j \in 1 .. Len(list), i # j,
             dir \o list[j].path \in Claims(answer, dir \o list[i].path)
      PROVE  FALSE
  <2>. DEFINE c == list[i]
              d == list[j]
              p == c.path
              q == d.path
  <2>1. c \in parcel /\ d \in parcel /\ c # d /\ p # q
    BY <1>1 DEF Distinct
  <2>2. IsFilePath(p) /\ IsFilePath(q)
    BY DEF Parcels
  <2>. HIDE DEF p, q
  <2>3. IsFilePath(dir \o p)
    BY <2>2, PathBelowFolder
  <2>4. CASE dir \o q = dir \o p
    BY <2>1, <2>2, <2>4, SidesBelowFolder
  <2>5. CASE Resolution(answer, dir \o p) = "Copy" /\ dir \o q \in CopiesOf(dir \o p)
    <3>1. /\ Len(dir \o q) = Len(dir \o p)
          /\ Front(dir \o q) = Front(dir \o p)
          /\ Last(dir \o q)[1] = Last(dir \o p)[1]
      BY <2>3, <2>5, CopiesAreBeside
    <3>2. Front(p) = Front(q) /\ Last(p)[1] = Last(q)[1]
      BY <2>2, <3>1, SidesBelowFolder
    <3>. QED
      BY <2>1, <2>5, <3>2 DEF OwnTitles, p, q
  <2>. QED
    BY <1>1, <2>4, <2>5 DEF Claims, p, q
<1>. QED
  BY <1>1 DEF Unclaimed

(***************************************************************************)
(* What the user has taken comes in, or goes, as a whole.                  *)
(***************************************************************************)
LEMMA SceneIsNeat ==
  ASSUME NodesOK(nodes), Held(nodes, delete), Closed(nodes), NEW P
  PROVE  /\ Neat(Scene, Scene, P) /\ Scene.outcome = "done"
         /\ Scene.nodes = nodes /\ Scene.delete = delete /\ Scene.exec = exec
<1>. DEFINE s == Scene
<1>1. /\ s.nodes = nodes /\ s.delete = delete /\ s.removed = {}
      /\ s.outcome = "done" /\ s.exec = exec
  BY DEF Scene
<1>2. SceneOK(s)
  BY SceneIsInserted DEF Inserted, Settled
<1>. HIDE DEF s
<1>3. Neat(s, s, P)
  BY <1>1, <1>2 DEF Neat, Tidy
<1>. QED
  BY <1>1, <1>3 DEF s

\* A file whose path is taken has an answer, and any other finds it free.
LEMMA ConflictsAreAnswered ==
  ASSUME NEW dir, NEW parcel, NEW answer \in Answers(dir, parcel), answer # Refused,
         NEW d \in parcel
  PROVE  /\ Answered(answer, dir \o d.path, Replacing(answer))
         /\ Resolution(answer, dir \o d.path) = "Unset" =>
              dir \o d.path \notin FilePaths(nodes)
<1>. DEFINE path == dir \o d.path
            C == Conflicts(dir, parcel)
<1>1. answer \in [C -> {"Skip", "Copy", "Replace"}]
  BY DEF Answers
<1>2. path \in C \/ At(nodes, path) = {}
  BY DEF Conflicts
<1>3. At(nodes, path) = {} => path \notin FilePaths(nodes)
  BY DEF At, FilePaths, PathsOf, FilesOf
<1>. HIDE DEF path, C
<1>4. /\ Answered(answer, path, Replacing(answer))
      /\ Resolution(answer, path) = "Unset" => path \notin FilePaths(nodes)
  BY <1>1, <1>2, <1>3 DEF Answered, Resolution, Replacing
<1>. QED
  BY <1>4 DEF path

LEMMA SetIsNeat ==
  ASSUME TInv, Closed(nodes), NEW dir \in Folders, NEW parcel, Distinct(parcel),
         NEW answer \in Answers(dir, parcel), answer # Refused,
         OwnTitles(dir, parcel, answer), NEW list, Parcels(list),
         \A i \in 1 .. Len(list): list[i] \in parcel,
         \A i, j \in 1 .. Len(list): i # j => list[i] # list[j]
  PROVE  LET r == CreateNodeSet(Scene, dir, list, answer)
         IN  Neat(Scene, r, Replacing(answer)) /\ r.outcome \in {"done", "full"}
<1>. DEFINE s == Scene
            P == Replacing(answer)
<1>1. Neat(s, s, P) /\ s.outcome = "done" /\ s.nodes = nodes
  BY SceneIsNeat DEF TInv
<1>2. IsFolderPath(dir)
  BY FoldersHavePaths DEF TInv
<1>. HIDE DEF s
<1>3. \A i \in 1 .. Len(list):
        /\ Answered(answer, dir \o list[i].path, P)
        /\ Resolution(answer, dir \o list[i].path) = "Unset" =>
             dir \o list[i].path \notin FilePaths(s.nodes)
  BY <1>1, ConflictsAreAnswered
<1>4. Unclaimed(list, dir, answer)
  BY <1>2, NoneIsClaimed
<1>. HIDE DEF P
<1>5. LET r == CreateNodeSet(s, dir, list, answer)
      IN  Neat(s, r, P) /\ r.outcome \in {"done", "full"}
  BY <1>1, <1>2, <1>3, <1>4, NodeSetIsNeat
<1>. QED
  BY <1>5 DEF s, P

\* An operation has come to its end, unless there is no room for it.
Completed(r) ==
  \/ r.outcome = "full"
  \/ Neat(r, r, Paths) /\ r.outcome = "done" /\ r.delete = <<>>

LEMMA OrderedParcel ==
  ASSUME NEW P, IsFiniteSet(P), NEW list \in SetToSeqs(P)
  PROVE  /\ Len(list) \in Nat /\ DOMAIN list = 1 .. Len(list)
         /\ \A i \in 1 .. Len(list): list[i] \in P
         /\ \A i, j \in 1 .. Len(list): i # j => list[i] # list[j]
<1>. DEFINE n == Cardinality(P)
<1>1. n \in Nat
  BY FS_CardinalityType
<1>2. /\ list \in [1 .. n -> P]
      /\ \A i, j \in 1 .. n: list[i] = list[j] => i = j
  BY DEF SetToSeqs, IsInjective
<1>. HIDE DEF n
<1>3. Len(list) = n
  BY <1>1, <1>2
<1>. QED
  BY <1>1, <1>2, <1>3

LEMMA PathBeginsItself ==
  ASSUME NEW S, NEW p \in Seq(S)
  PROVE  IsPrefix(p, p)
<1>1. Len(p) \in Nat
  BY LenProperties
<1>2. IsPrefix(p, p) <=> Len(p) <= Len(p) /\ \A i \in 1 .. Len(p): p[i] = p[i]
  BY PrefixIsBeginning
<1>. QED
  BY <1>1, <1>2

\* Unless the user moves something onto itself, what is to go is still there
\* when what comes in is in.
LEMMA MovedNeatly ==
  ASSUME TInv, Closed(nodes), {"onto itself", "taken title"} \intersect Mishaps = {},
         NEW S, Apart(nodes, delete), \A i \in DOMAIN delete: delete[i] \in S,
         NEW parcel, IsFiniteSet(parcel), Distinct(parcel),
         \A d \in parcel: IsFilePath(d.path) /\ d.src \in Sources,
         NEW dir \in Folders, NEW answer \in Answers(dir, parcel), answer # Refused,
         PlainMove(S, dir, parcel, answer), NEW list \in SetToSeqs(parcel)
  PROVE  Completed(AddFilesFromPbo(Scene, dir, list, answer))
<1>. DEFINE s == Scene
            P == Replacing(answer)
            r == CreateNodeSet(s, dir, list, answer)
<1>1. s.nodes = nodes /\ s.delete = delete
  BY DEF Scene
<1>2. OwnTitles(dir, parcel, answer)
  <2>1. ~ \E c, d \in parcel: /\ c # d /\ dir \o c.path \in DOMAIN answer
                              /\ answer[dir \o c.path] = "Copy"
                              /\ Front(c.path) = Front(d.path)
                              /\ Last(c.path)[1] = Last(d.path)[1]
    BY DEF PlainMove, Only
  <2>. QED
    BY <2>1 DEF OwnTitles, Resolution
<1>3. /\ Parcels(list)
      /\ \A i \in 1 .. Len(list): list[i] \in parcel
      /\ \A i, j \in 1 .. Len(list): i # j => list[i] # list[j]
  BY ParcelsInAnyOrder, OrderedParcel
<1>4. Neat(s, r, P) /\ r.outcome \in {"done", "full"}
  BY <1>2, <1>3, SetIsNeat
<1>5. ASSUME NEW i \in DOMAIN delete
      PROVE  delete[i] \in DOMAIN nodes /\ nodes[delete[i]].path \notin P
  <2>. DEFINE n == delete[i]
              p == nodes[n].path
  <2>1. n \in DOMAIN nodes /\ n \in S
    BY DEF Apart
  <2>2. ASSUME p \in P
        PROVE  FALSE
    <3>1. p \in DOMAIN answer /\ answer[p] = "Replace"
      BY <2>2 DEF Replacing
    <3>2. p \in Conflicts(dir, parcel)
      BY <3>1 DEF Answers
    <3>3. PICK d \in parcel: p = dir \o d.path
      BY <3>2 DEF Conflicts
    <3>4. IsPrefix(p, p)
      <4>1. p \in Seq(FolderTitles \union EntryTitles)
        BY <2>1, NodePaths DEF TInv
      <4>. HIDE DEF p
      <4>. QED
        BY <4>1, PathBeginsItself
    <3>5. "onto itself" \in Mishaps
      BY <2>1, <3>1, <3>3, <3>4 DEF PlainMove, Only
    <3>. QED
      BY <3>5
  <2>. QED
    BY <2>1, <2>2
<1>6. AddFilesFromPbo(s, dir, list, answer) =
        IF r.outcome = "done" THEN Commit(r) ELSE r
  BY DEF AddFilesFromPbo
<1>. HIDE DEF s, P, r
<1>7. CASE r.outcome = "done"
  <2>1. Tidy(s, r, P) /\ SceneOK(r)
    BY <1>4 DEF Neat
  <2>2. /\ DOMAIN r.delete = DOMAIN delete
        /\ \A i \in DOMAIN delete:
             /\ delete[i] \in DOMAIN r.nodes /\ r.nodes[delete[i]] = nodes[delete[i]]
             /\ r.delete[i] = delete[i]
    <3>1. DOMAIN r.delete = DOMAIN delete
      BY <1>1, <2>1 DEF Tidy
    <3>2. ASSUME NEW i \in DOMAIN delete
          PROVE  /\ delete[i] \in DOMAIN r.nodes
                 /\ r.nodes[delete[i]] = nodes[delete[i]]
                 /\ r.delete[i] = delete[i]
      <4>1. delete[i] \in DOMAIN nodes /\ nodes[delete[i]].path \notin P
        BY <1>5
      <4>2. delete[i] \in DOMAIN r.nodes /\ r.nodes[delete[i]] = nodes[delete[i]]
        BY <1>1, <2>1, <4>1 DEF Tidy
      <4>3. delete[i] \notin r.removed
        BY <2>1, <4>2 DEF Tidy
      <4>. QED
        BY <1>1, <2>1, <4>2, <4>3 DEF Tidy
    <3>. QED
      BY <3>1, <3>2
  <2>3. Apart(r.nodes, r.delete)
    BY <2>2 DEF Apart
  <2>4. Neat(r, r, Paths)
    BY <1>7, <2>1 DEF Neat, Tidy
  <2>5. Completed(Commit(r))
    BY <1>7, <2>3, <2>4, CommitIsNeat DEF Completed
  <2>. QED
    BY <1>6, <1>7, <2>5 DEF s
<1>8. CASE r.outcome # "done"
  BY <1>4, <1>6, <1>8 DEF Completed, s
<1>. QED
  BY <1>7, <1>8

\* The end of a drag finds nothing more to delete.
LEMMA NothingMoreGoes ==
  ASSUME NEW s, Neat(s, s, Paths), s.outcome = "done", Apart(s.nodes, s.delete),
         NEW action
  PROVE  /\ action = "move" => Completed(DragEnds(s, action))
         /\ action # "move" => DragEnds(s, action) = s
<1>. DEFINE t == [s EXCEPT !.outcome = "done"]
            r == Commit(s)
<1>1. IsScene(s)
  BY DEF Neat, SceneOK
<1>2. t = s
  BY <1>1 DEF IsScene
<1>3. Neat(r, r, Paths) /\ r.outcome = "done" /\ r.delete = <<>>
  BY CommitIsNeat
<1>4. IsScene(r)
  BY <1>3 DEF Neat, SceneOK
<1>5. action = "move" =>
        DragEnds(s, action) =
          [Commit(t) EXCEPT !.outcome = IF @ = "done" THEN s.outcome ELSE @]
  BY DEF DragEnds
<1>6. action # "move" => DragEnds(s, action) = s
  BY DEF DragEnds
<1>. HIDE DEF t, r
<1>7. action = "move" => DragEnds(s, action) = [r EXCEPT !.outcome = "done"]
  BY <1>2, <1>3, <1>5 DEF r
<1>8. [r EXCEPT !.outcome = "done"] = r
  BY <1>3, <1>4 DEF IsScene
<1>9. action = "move" => Completed(DragEnds(s, action))
  BY <1>3, <1>7, <1>8 DEF Completed
<1>. QED
  BY <1>6, <1>9

LEMMA DragIsNeat ==
  ASSUME NEW s, Completed(s), NEW action
  PROVE  Completed(DragEnds(s, action))
<1>1. CASE s.outcome = "full"
  BY <1>1 DEF DragEnds
<1>2. CASE s.outcome # "full"
  <2>1. Neat(s, s, Paths) /\ s.outcome = "done" /\ s.delete = <<>>
    BY <1>2 DEF Completed
  <2>2. DOMAIN <<>> = {}
    OBVIOUS
  <2>3. Apart(s.nodes, s.delete)
    BY <2>1, <2>2 DEF Apart
  <2>. QED
    BY <2>1, <2>3, NothingMoreGoes
<1>. QED
  BY <1>1, <1>2

(***************************************************************************)
(* What DeleteOp, the clipboard and the caches remember is of use as long  *)
(* as the user goes on with it.                                            *)
(***************************************************************************)
\* The nodes that are to go when what the user has begun is done.
MayGo ==
  IF op.kind = "copy" THEN {} ELSE IF op.kind \in Taking THEN op.sel ELSE cut

Scheduled ==
  op.kind \in Taking \/ gesture # "stale" =>
    Apart(nodes, delete) /\ \A i \in DOMAIN delete: delete[i] \in MayGo

Parcelled == Distinct(clipboard) /\ (op.kind \in Taking => Distinct(Pack(op.sel)))

\* Of the files extracted for an entry, only the last may be of no use.
Usable(cache) == \A i \in 1 .. Len(cache): i < Len(cache) => cache[i].state = "same"

Reusable == \A p \in DOMAIN exec: Usable(exec[p])

NInv ==
  /\ TInv /\ NothingDangles
  /\ Closed(nodes) /\ Scheduled /\ Parcelled /\ Reusable

LEMMA DangleInit == Init => NInv
<1>. SUFFICES ASSUME Init
              PROVE  NInv
  OBVIOUS
<1>1. TInv
  BY TypeInit
<1>. DEFINE empty == [nodes |-> <<>>, temp |-> <<>>, exec |-> <<>>, delete |-> <<>>,
                      removed |-> {}, outcome |-> "done"]
            d == [layout |-> 1, entries |-> Entries]
            s == Loaded(empty, d)
<1>2. DOMAIN <<>> = {}
  OBVIOUS
<1>3. Neat(empty, empty, {}) /\ empty.outcome = "done"
  <2>1. SceneOK(empty)
    BY NothingIsInserted DEF Inserted, Settled
  <2>2. /\ empty.nodes = <<>> /\ empty.delete = <<>> /\ empty.removed = {}
        /\ empty.outcome = "done"
    OBVIOUS
  <2>. HIDE DEF empty
  <2>. QED
    BY <1>2, <2>1, <2>2 DEF Neat, Tidy, Closed
<1>4. EntriesOK(d)
  BY EntriesAreOK
<1>5. nodes = s.nodes /\ s.outcome = "done"
  BY DEF Init
<1>6. Neat(empty, s, {})
  <2>. HIDE DEF empty, d
  <2>. QED
    BY <1>3, <1>4, LoadingIsNeat
<1>7. Closed(nodes)
  <2>. HIDE DEF s, empty
  <2>. QED
    BY <1>5, <1>6 DEF Neat, Tidy
<1>8. Scheduled /\ Parcelled /\ Reusable
  BY <1>2 DEF Init, Scheduled, Apart, Parcelled, Distinct, Reusable, Idle, Taking
<1>9. NothingDangles
  BY DEF Init, NothingDangles
<1>. QED
  BY <1>1, <1>7, <1>8, <1>9 DEF NInv

LEMMA InjectiveOrder ==
  ASSUME NEW S, IsFiniteSet(S)
  PROVE  /\ SetToSeq(S) \in [1 .. Cardinality(S) -> S]
         /\ \A i, j \in 1 .. Cardinality(S): i # j => SetToSeq(S)[i] # SetToSeq(S)[j]
<1>. DEFINE n == Cardinality(S)
<1>1. PICK f \in Bijection(1 .. n, S): TRUE
  BY FS_CardinalityType DEF ExistsBijection
<1>2. f \in [1 .. n -> S] /\ IsInjective(f)
  BY <1>1 DEF Bijection, Injection, IsInjective
<1>3. SetToSeq(S) \in [1 .. n -> S] /\ IsInjective(SetToSeq(S))
  BY <1>2 DEF SetToSeq
<1>. HIDE DEF n
<1>4. DOMAIN SetToSeq(S) = 1 .. n
  BY <1>3
<1>5. \A i, j \in 1 .. n: SetToSeq(S)[i] = SetToSeq(S)[j] => i = j
  BY <1>3, <1>4 DEF IsInjective
<1>. QED
  BY <1>3, <1>5 DEF n

LEMMA DangleTake ==
  ASSUME "homonyms" \notin Mishaps, NInv, op.kind = "none", Take
  PROVE  NothingDangles' /\ Closed(nodes)' /\ Scheduled' /\ Parcelled' /\ Reusable'
<1>0. NodesOK(nodes) /\ Closed(nodes) /\ Distinct(clipboard) /\ Reusable
  BY DEF NInv, TInv, Parcelled
<1>1. ASSUME NEW kind \in Taking, NEW S \in Selections, TakeFiles(kind, S),
             delete' = IF kind = "copy" THEN <<>> ELSE SetToSeq(S)
      PROVE  /\ NothingDangles' /\ Closed(nodes)' /\ Scheduled' /\ Parcelled'
             /\ Reusable'
  <2>1. /\ op'.kind = kind /\ op'.sel = S /\ outcome' = "done"
        /\ nodes' = nodes /\ clipboard' = clipboard /\ exec' = exec
    BY <1>1 DEF TakeFiles, Launch, Idle
  <2>2. Distinct(Pack(S))
    BY <1>1 DEF TakeFiles, Only, Distinct
  <2>3. Parcelled'
    BY <1>0, <2>1, <2>2 DEF Parcelled, Pack, FilesBelow, Below, FilesOf
  <2>4. NothingDangles' /\ Closed(nodes)' /\ Reusable'
    BY <1>0, <2>1 DEF NothingDangles, Reusable
  <2>5. Apart(nodes, delete') /\ \A i \in DOMAIN delete': kind # "copy" /\ delete'[i] \in S
    <3>1. CASE kind = "copy"
      <4>1. delete' = <<>> /\ DOMAIN <<>> = {}
        BY <1>1, <3>1
      <4>. QED
        BY <4>1 DEF Apart
    <3>2. CASE kind # "copy"
      <4>1. S \subseteq DOMAIN nodes /\ IsFiniteSet(S)
        BY <1>0, NodesAreFinite DEF Selections
      <4>2. /\ delete' \in [1 .. Cardinality(S) -> S]
            /\ \A i, j \in DOMAIN delete': i # j => delete'[i] # delete'[j]
        <5>. DEFINE n == Cardinality(S)
        <5>1. delete' = SetToSeq(S)
          BY <1>1, <3>2
        <5>2. /\ delete' \in [1 .. n -> S]
              /\ \A i, j \in 1 .. n: i # j => delete'[i] # delete'[j]
          BY <4>1, <5>1, InjectiveOrder
        <5>. HIDE DEF n
        <5>3. \A i, j \in DOMAIN delete': i # j => delete'[i] # delete'[j]
          BY <5>2
        <5>. QED
          BY <5>2, <5>3 DEF n
      <4>3. \A m, n \in S: m # n => ~IsPrefix(nodes[n].path, nodes[m].path)
        BY <4>1 DEF Selections, Below
      <4>. QED
        BY <3>2, <4>1, <4>2, <4>3 DEF Apart
    <3>. QED
      BY <3>1, <3>2
  <2>6. Scheduled'
    BY <2>1, <2>5 DEF Scheduled, MayGo
  <2>. QED
    BY <2>3, <2>4, <2>6
<1>2. ASSUME NEW S \in Selections, SelectionCopy(S) \/ SelectionCut(S) \/ DragStarted(S)
      PROVE  /\ NothingDangles' /\ Closed(nodes)' /\ Scheduled' /\ Parcelled'
             /\ Reusable'
  <2>1. CASE SelectionCopy(S)
    BY <1>1, <2>1 DEF SelectionCopy, Taking
  <2>2. CASE SelectionCut(S)
    BY <1>1, <2>2 DEF SelectionCut, Taking
  <2>3. CASE DragStarted(S)
    BY <1>1, <2>3 DEF DragStarted, Taking
  <2>. QED
    BY <1>2, <2>1, <2>2, <2>3
<1>3. ASSUME NEW n \in DOMAIN nodes, SelectionOpen(n)
      PROVE  /\ NothingDangles' /\ Closed(nodes)' /\ Scheduled' /\ Parcelled'
             /\ Reusable'
  <2>1. /\ op'.kind = "open" /\ outcome' = "done"
        /\ nodes' = nodes /\ clipboard' = clipboard /\ exec' = exec
        /\ delete' = delete /\ cut' = cut /\ gesture' = gesture
    BY <1>3 DEF SelectionOpen, Launch, Idle, user
  <2>2. NothingDangles' /\ Closed(nodes)' /\ Reusable' /\ Parcelled'
    BY <1>0, <2>1 DEF NothingDangles, Reusable, Parcelled, Taking
  <2>3. Scheduled'
    BY <2>1 DEF NInv, Scheduled, MayGo, Taking
  <2>. QED
    BY <2>2, <2>3
<1>. QED
  BY <1>2, <1>3 DEF Take

(***************************************************************************)
(* The worker, the viewers, and the ends of what runs in the background.   *)
(***************************************************************************)
IsSearch(d) ==
  d \in [found: {d.found}, bytes: {d.bytes}, kept: {d.kept}, outcome: {d.outcome}]

LEMMA OneMoreKept ==
  ASSUME NEW X, NEW s \in Seq(X), NEW x \in X,
         \A k \in 1 .. Len(s): s[k].state = "same"
  PROVE  /\ Append(s, x) \in Seq(X) /\ Len(Append(s, x)) = Len(s) + 1
         /\ \A k \in 1 .. Len(Append(s, x)):
              \/ Append(s, x)[k].state = "same"
              \/ k = Len(Append(s, x)) /\ Append(s, x)[k] = x
<1>. DEFINE t == Append(s, x)
<1>1. /\ t \in Seq(X) /\ Len(t) = Len(s) + 1 /\ t[Len(s) + 1] = x
      /\ \A k \in 1 .. Len(s): t[k] = s[k]
  BY AppendProperties
<1>2. Len(s) \in Nat
  BY LenProperties
<1>. HIDE DEF t
<1>3. ASSUME NEW k \in 1 .. Len(t)
      PROVE  t[k].state = "same" \/ (k = Len(t) /\ t[k] = x)
  <2>1. k \in 1 .. Len(s) \/ k = Len(s) + 1
    BY <1>1, <1>2
  <2>. QED
    BY <1>1, <2>1
<1>. QED
  BY <1>1, <1>3 DEF t

\* A search that has passed over some of the items.
StillUsable(c, d, i) ==
  /\ IsSearch(d) /\ d.outcome = "done" /\ d.found \in BOOLEAN /\ d.kept \in Seq(c.X)
  /\ \A k \in 1 .. Len(d.kept): \/ d.kept[k].state = "same"
                                \/ k = Len(d.kept) /\ d.found /\ i = Len(c.cache)

UsableReuses == INSTANCE Iteration WITH Step <- Reuse, Good <- StillUsable

\* tryFindExisting never goes on from an item it has erased.
LEMMA SearchEnds ==
  ASSUME NEW X, NEW cache \in Seq(X), Usable(cache)
  PROVE  LET r == TryFindExisting(cache)
         IN  /\ r.outcome = "done" /\ r.found \in BOOLEAN /\ r.kept \in Seq(X)
             /\ \A k \in 1 .. Len(r.kept): \/ r.kept[k].state = "same"
                                           \/ k = Len(r.kept) /\ r.found
<1>. DEFINE c == [cache |-> cache, X |-> X]
            base == [found |-> FALSE, bytes |-> "none", kept |-> <<>>,
                     outcome |-> "done"]
            n == Len(cache)
            try == CHOOSE g: g = [i \in 0 .. n |->
                                    IF i = 0 THEN base ELSE Reuse(c, g[i - 1], i)]
<1>1. n \in Nat /\ \A i \in 1 .. n: cache[i] \in X
  BY LenProperties, ElementOfSeq
<1>2. StillUsable(c, base, 0)
  <2>1. /\ IsSearch(base) /\ base.outcome = "done" /\ base.found = FALSE
        /\ base.kept = <<>>
    BY DEF IsSearch
  <2>. HIDE DEF base
  <2>2. <<>> \in Seq(c.X) /\ 1 .. Len(<<>>) = {}
    OBVIOUS
  <2>3. base.kept \in Seq(c.X) /\ 1 .. Len(base.kept) = {}
    BY <2>1, <2>2
  <2>. QED
    BY <2>1, <2>3 DEF StillUsable
<1>3. TryFindExisting(cache) = try[n]
  BY DEF TryFindExisting, TryAll, Reuse
<1>4. c.cache = cache /\ c.X = X
  OBVIOUS
<1>. HIDE DEF c, try, base
<1>5. ASSUME NEW i \in 1 .. n, NEW d, StillUsable(c, d, i - 1)
      PROVE  StillUsable(c, Reuse(c, d, i), i)
  <2>. DEFINE file == cache[i]
              more == Append(d.kept, file)
  <2>1. /\ IsSearch(d) /\ d.outcome = "done" /\ d.found \in BOOLEAN /\ d.kept \in Seq(X)
        /\ \A k \in 1 .. Len(d.kept): d.kept[k].state = "same"
    <3>1. i - 1 # n
      BY <1>1
    <3>. QED
      BY <1>4, <1>5, <3>1 DEF StillUsable
  <2>2. file \in X /\ (i < n => file.state = "same")
    BY <1>1 DEF Usable
  <2>. HIDE DEF file
  <2>3. /\ more \in Seq(X)
        /\ \A k \in 1 .. Len(more):
             more[k].state = "same" \/ (k = Len(more) /\ more[k] = file)
    BY <2>1, <2>2, OneMoreKept
  <2>4. Reuse(c, d, i) =
          IF d.found \/ (file.state = "same" /\ file.locked)
          THEN [d EXCEPT !.kept = more]
          ELSE IF file.state = "same"
          THEN [d EXCEPT !.found = TRUE, !.bytes = file.bytes, !.kept = more]
          ELSE d
    <3>1. Reuse(c, d, i) =
            IF d.found \/ d.outcome # "done" \/ (file.state = "same" /\ file.locked)
            THEN [d EXCEPT !.kept = more]
            ELSE IF file.state = "same"
            THEN [d EXCEPT !.found = TRUE, !.bytes = file.bytes, !.kept = more]
            ELSE IF d.kept = <<>> /\ i < n
                 THEN [d EXCEPT !.outcome = "undefined"] ELSE d
      BY <1>4 DEF Reuse, TryReuse, file
    <3>. HIDE DEF more, n
    <3>. QED
      BY <2>1, <2>2, <3>1
  <2>5. i < n \/ i = n
    BY <1>1
  <2>. HIDE DEF more
  <2>6. CASE d.found \/ (file.state = "same" /\ file.locked)
    <3>. DEFINE r == [d EXCEPT !.kept = more]
    <3>1. /\ IsSearch(r) /\ r.outcome = "done" /\ r.found = d.found /\ r.kept = more
      BY <2>1 DEF IsSearch
    <3>2. Reuse(c, d, i) = r
      BY <2>4, <2>6
    <3>. HIDE DEF r
    <3>3. StillUsable(c, r, i)
      BY <1>4, <2>1, <2>2, <2>3, <2>5, <2>6, <3>1 DEF StillUsable
    <3>. QED
      BY <3>2, <3>3
  <2>7. CASE ~(d.found \/ (file.state = "same" /\ file.locked)) /\ file.state = "same"
    <3>. DEFINE r == [d EXCEPT !.found = TRUE, !.bytes = file.bytes, !.kept = more]
    <3>1. /\ IsSearch(r) /\ r.outcome = "done" /\ r.found = TRUE /\ r.kept = more
      BY <2>1 DEF IsSearch
    <3>2. Reuse(c, d, i) = r
      BY <2>4, <2>7
    <3>. HIDE DEF r
    <3>3. StillUsable(c, r, i)
      BY <1>4, <2>3, <2>7, <3>1 DEF StillUsable
    <3>. QED
      BY <3>2, <3>3
  <2>8. CASE ~(d.found \/ (file.state = "same" /\ file.locked)) /\ file.state # "same"
    <3>1. Reuse(c, d, i) = d
      BY <2>4, <2>8
    <3>2. StillUsable(c, d, i)
      BY <1>4, <2>1 DEF StillUsable
    <3>. QED
      BY <3>1, <3>2
  <2>. QED
    BY <2>6, <2>7, <2>8
<1>6. StillUsable(c, try[n], n)
  <2>. HIDE DEF n
  <2>. QED
    BY <1>1, <1>2, <1>5, UsableReuses!LoopKeeps DEF try
<1>. QED
  BY <1>3, <1>4, <1>6 DEF StillUsable

LEMMA DangleExecSync ==
  ASSUME NInv, NEW n \in op.todo, ExecSync(n)
  PROVE  NothingDangles' /\ Reusable'
<1>. DEFINE path == nodes[n].path
            old == IF path \in DOMAIN exec THEN exec[path] ELSE <<>>
            cache == TryFindExisting(old)
            bytes == Read(disk, nodes[n].src)
            file == [bytes |-> bytes, locked |-> FALSE,
                     state |-> IF op.cancelled THEN "gone" ELSE "same"]
            items == IF cache.found THEN cache.kept ELSE cache.kept \o <<file>>
<1>1. exec' = Extended(exec, path, items) /\ outcome' = cache.outcome
  BY DEF ExecSync
<1>. DEFINE X == CacheItems \union {file}
<1>2. old \in Seq(X) /\ Usable(old)
  <2>1. \A p \in DOMAIN exec: exec[p] \in Seq(CacheItems) /\ Usable(exec[p])
    BY DEF NInv, TInv, CachesOK, Reusable
  <2>2. Usable(<<>>) /\ <<>> \in Seq(CacheItems)
    BY DEF Usable
  <2>3. Seq(CacheItems) \subseteq Seq(X)
    BY SeqMonotonic
  <2>. QED
    BY <2>1, <2>2, <2>3
<1>3. file \in X
  OBVIOUS
<1>. HIDE DEF old, X, file
<1>4. /\ cache.outcome = "done" /\ cache.found \in BOOLEAN /\ cache.kept \in Seq(X)
      /\ \A k \in 1 .. Len(cache.kept): \/ cache.kept[k].state = "same"
                                        \/ k = Len(cache.kept) /\ cache.found
  BY <1>2, SearchEnds
<1>. HIDE DEF cache
<1>5. Usable(items)
  <2>1. CASE cache.found
    <3>1. \A k \in 1 .. Len(cache.kept): k < Len(cache.kept) => k # Len(cache.kept)
      BY <1>4, LenProperties
    <3>. QED
      BY <1>4, <2>1, <3>1 DEF Usable
  <2>2. CASE ~cache.found
    <3>. DEFINE s == cache.kept
                t == Append(s, file)
    <3>1. s \in Seq(X) /\ \A k \in 1 .. Len(s): s[k].state = "same"
      BY <1>4, <2>2
    <3>2. items = t
      BY <1>3, <1>4, <2>2, AppendIsConcat
    <3>. HIDE DEF s
    <3>3. /\ t \in Seq(X)
          /\ \A k \in 1 .. Len(t): t[k].state = "same" \/ (k = Len(t) /\ t[k] = file)
      BY <1>3, <3>1, OneMoreKept
    <3>. HIDE DEF t, items
    <3>4. Len(t) \in Nat
      BY <3>3, LenProperties
    <3>. QED
      BY <3>2, <3>3, <3>4 DEF Usable
  <2>. QED
    BY <2>1, <2>2
<1>. HIDE DEF items, path
<1>6. Reusable'
  BY <1>1, <1>5 DEF NInv, Reusable, Extended
<1>7. NothingDangles'
  BY <1>1, <1>4 DEF NothingDangles
<1>. QED
  BY <1>6, <1>7

\* What an operation that runs in the background leaves alone.
LEMMA DangleStays ==
  ASSUME NInv, nodes' = nodes, delete' = delete, clipboard' = clipboard,
         cut' = cut, gesture' = gesture, op'.kind = op.kind, op'.sel = op.sel
  PROVE  Closed(nodes)' /\ Scheduled' /\ Parcelled'
<1>1. Pack(op.sel)' = Pack(op.sel)
  BY DEF Pack, FilesBelow, Below, FilesOf
<1>2. MayGo' = MayGo
  BY DEF MayGo
<1>. QED
  BY <1>1, <1>2 DEF NInv, Scheduled, Parcelled

LEMMA DangleWorker ==
  ASSUME NInv, Cancel \/ Worker
  PROVE  NothingDangles' /\ Closed(nodes)' /\ Scheduled' /\ Parcelled' /\ Reusable'
<1>0. op \in [kind: Taking \union {"none", "open"}, sel: SUBSET DOMAIN nodes,
              todo: SUBSET DOMAIN nodes,
              file: Bytes \union {Garbage, "none", "edited"},
              cancelled: BOOLEAN, failed: BOOLEAN]
  BY DEF NInv, TInv, OpOK
<1>1. CASE Cancel
  <2>1. op'.kind = op.kind /\ op'.sel = op.sel
    BY <1>0, <1>1 DEF Cancel
  <2>2. Closed(nodes)' /\ Scheduled' /\ Parcelled'
    BY <1>1, <2>1, DangleStays DEF Cancel, user
  <2>. QED
    BY <1>1, <2>2 DEF NInv, Cancel, NothingDangles, Reusable
<1>2. ASSUME NEW n \in op.todo, NEW t, NEW o, Synced(n, t, o),
             o.kind = op.kind, o.sel = op.sel
      PROVE  /\ NothingDangles' /\ Closed(nodes)' /\ Scheduled' /\ Parcelled'
             /\ Reusable'
  <2>1. op'.kind = op.kind /\ op'.sel = op.sel
    BY <1>2 DEF Synced
  <2>2. Closed(nodes)' /\ Scheduled' /\ Parcelled'
    BY <1>2, <2>1, DangleStays DEF Synced, user
  <2>. QED
    BY <1>2, <2>2 DEF NInv, Synced, NothingDangles, Reusable
<1>3. ASSUME NEW n \in op.todo, SyncPboFileNode(n) \/ SyncFails(n)
      PROVE  /\ NothingDangles' /\ Closed(nodes)' /\ Scheduled' /\ Parcelled'
             /\ Reusable'
  <2>. DEFINE o1 == [op EXCEPT !.todo = @ \ {n}]
              o2 == [op EXCEPT !.todo = {}, !.failed = TRUE]
  <2>1. /\ o1.kind = op.kind /\ o1.sel = op.sel
        /\ o2.kind = op.kind /\ o2.sel = op.sel
    BY <1>0
  <2>2. \E t: Synced(n, t, o1) \/ Synced(n, t, o2)
    BY <1>3 DEF SyncPboFileNode, SyncFails
  <2>. HIDE DEF o1, o2
  <2>. QED
    BY <1>2, <2>1, <2>2
<1>4. ASSUME NEW n \in op.todo, ExecSync(n)
      PROVE  /\ NothingDangles' /\ Closed(nodes)' /\ Scheduled' /\ Parcelled'
             /\ Reusable'
  <2>1. op'.kind = op.kind /\ op'.sel = op.sel
    BY <1>0, <1>4 DEF ExecSync
  <2>2. Closed(nodes)' /\ Scheduled' /\ Parcelled'
    BY <1>4, <2>1, DangleStays DEF ExecSync, user
  <2>. QED
    BY <1>4, <2>2, DangleExecSync
<1>. QED
  BY <1>1, <1>3, <1>4 DEF Worker

\* The last item may come to be of no use.
LEMMA OneMoreUseless ==
  ASSUME NEW X, NEW s \in Seq(X), Usable(s), NEW i \in 1 .. Len(s), NEW file \in X,
         i < Len(s) => file.state = "same"
  PROVE  Usable([s EXCEPT ![i] = file])
<1>. DEFINE t == [s EXCEPT ![i] = file]
<1>1. Len(t) = Len(s) /\ \A j \in 1 .. Len(s): t[j] = IF j = i THEN file ELSE s[j]
  BY ExceptSeq
<1>. HIDE DEF t
<1>2. Usable(t)
  BY <1>1 DEF Usable
<1>. QED
  BY <1>2 DEF t

LEMMA DangleViewer ==
  ASSUME "late write" \notin Mishaps, NInv, Viewer
  PROVE  NothingDangles' /\ Closed(nodes)' /\ Scheduled' /\ Parcelled' /\ Reusable'
<1>1. PICK path \in DOMAIN exec: \E i \in DOMAIN exec[path]:
        ViewerWrites(path, i) \/ ViewerLocks(path, i)
  BY DEF Viewer
<1>2. PICK i \in DOMAIN exec[path]: ViewerWrites(path, i) \/ ViewerLocks(path, i)
  BY <1>1
<1>. DEFINE s == exec[path]
<1>3. s \in Seq(CacheItems) /\ i \in 1 .. Len(s) /\ s[i] \in CacheItems /\ Usable(s)
  <2>1. s \in Seq(CacheItems) /\ Usable(s)
    BY DEF NInv, TInv, CachesOK, Reusable
  <2>. QED
    BY <1>2, <2>1, LenProperties, ElementOfSeq
<1>4. \E file: ViewerTouches(path, i, file) /\ (i < Len(s) => file.state = "same")
  <2>. DEFINE w == [bytes |-> "edited", state |-> "changed", locked |-> FALSE]
              l == [s[i] EXCEPT !.locked = ~@]
  <2>1. CASE ViewerWrites(path, i)
    BY <2>1 DEF ViewerWrites, Only
  <2>2. CASE ViewerLocks(path, i)
    <3>1. ViewerTouches(path, i, l) /\ s[i].state = "same"
      BY <2>2 DEF ViewerLocks, ViewerTouches
    <3>2. l.state = s[i].state
      BY <1>3 DEF CacheItems
    <3>. HIDE DEF l
    <3>. QED
      BY <3>1, <3>2
  <2>. QED
    BY <1>2, <2>1, <2>2
<1>5. PICK file: ViewerTouches(path, i, file) /\ (i < Len(s) => file.state = "same")
  BY <1>4
<1>6. /\ exec' = [exec EXCEPT ![path] = [s EXCEPT ![i] = file]]
      /\ outcome' = "done" /\ op' = op
      /\ nodes' = nodes /\ delete' = delete /\ clipboard' = clipboard
      /\ cut' = cut /\ gesture' = gesture
  BY <1>5 DEF ViewerTouches, user
<1>7. Usable([s EXCEPT ![i] = file])
  <2>. DEFINE X == CacheItems \union {file}
  <2>1. s \in Seq(X) /\ file \in X /\ i \in 1 .. Len(s)
    BY <1>3, SeqMonotonic
  <2>. HIDE DEF X, s
  <2>. QED
    BY <1>3, <1>5, <2>1, OneMoreUseless
<1>8. Reusable'
  <2>. HIDE DEF s
  <2>. QED
    BY <1>6, <1>7 DEF NInv, Reusable
<1>9. Closed(nodes)' /\ Scheduled' /\ Parcelled'
  BY <1>6, DangleStays
<1>. QED
  BY <1>6, <1>8, <1>9 DEF NothingDangles

LEMMA DangleEnds ==
  ASSUME NInv, OpenExecute \/ CopyOrCutExecute
  PROVE  NothingDangles' /\ Closed(nodes)' /\ Scheduled' /\ Parcelled' /\ Reusable'
<1>1. /\ op' = Idle /\ Idle.kind = "none" /\ outcome' = "done"
      /\ nodes' = nodes /\ delete' = delete /\ exec' = exec
  BY DEF OpenExecute, CopyOrCutExecute, Idle
<1>2. NothingDangles' /\ Closed(nodes)' /\ Reusable'
  BY <1>1 DEF NInv, NothingDangles, Reusable
<1>3. CASE OpenExecute
  <2>1. /\ clipboard' = clipboard /\ cut' = cut /\ gesture' = gesture
        /\ op.kind = "open"
    BY <1>3 DEF OpenExecute, user
  <2>2. Parcelled' /\ Scheduled'
    BY <1>1, <2>1 DEF NInv, Parcelled, Scheduled, MayGo, Taking
  <2>. QED
    BY <1>2, <2>2
<1>4. CASE CopyOrCutExecute
  <2>0. op.kind \in {"copy", "cut"} /\ op.kind \in Taking
    BY <1>4 DEF CopyOrCutExecute, Taking
  <2>1. CASE op.cancelled \/ op.failed
    <3>1. clipboard' = clipboard /\ gesture' = "stale"
      BY <1>4, <2>1 DEF CopyOrCutExecute
    <3>. QED
      BY <1>1, <1>2, <3>1 DEF NInv, Parcelled, Scheduled, Taking
  <2>2. CASE ~(op.cancelled \/ op.failed)
    <3>1. /\ clipboard' = Pack(op.sel)
          /\ cut' = IF op.kind = "cut" THEN op.sel ELSE {}
      BY <1>4, <2>2 DEF CopyOrCutExecute
    <3>2. Parcelled'
      BY <1>1, <2>0, <3>1 DEF NInv, Parcelled, Taking
    <3>3. cut' = MayGo /\ MayGo' = cut'
      BY <1>1, <2>0, <3>1 DEF MayGo, Taking
    <3>4. Apart(nodes, delete) /\ \A j \in DOMAIN delete: delete[j] \in MayGo
      BY <2>0 DEF NInv, Scheduled
    <3>5. Scheduled'
      BY <1>1, <3>3, <3>4 DEF Scheduled
    <3>. QED
      BY <1>2, <3>2, <3>5
  <2>. QED
    BY <2>1, <2>2
<1>. QED
  BY <1>3, <1>4

\* What an operation leaves that has come to its end.
LEMMA DangleCompleted ==
  ASSUME NInv, NEW s, Settled(Scene, s), Completed(s), Becomes(s),
         op' = Idle, clipboard' = clipboard
  PROVE  NothingDangles' /\ Closed(nodes)' /\ Scheduled' /\ Parcelled' /\ Reusable'
<1>1. /\ nodes' = s.nodes /\ exec' = s.exec /\ delete' = s.delete
      /\ outcome' = s.outcome /\ s.outcome # "full" /\ Idle.kind = "none"
  BY DEF Becomes, Idle
<1>2. Neat(s, s, Paths) /\ s.outcome = "done" /\ s.delete = <<>>
  BY <1>1 DEF Completed
<1>3. Closed(nodes)'
  BY <1>1, <1>2 DEF Neat, Tidy
<1>4. DOMAIN <<>> = {}
  OBVIOUS
<1>5. Scheduled'
  BY <1>1, <1>2, <1>4 DEF Scheduled, Apart
<1>6. LeftOf(s.exec, exec)
  BY DEF Settled, Scene
<1>7. Reusable'
  BY <1>1, <1>6 DEF NInv, Reusable, LeftOf
<1>8. Parcelled'
  BY <1>1 DEF NInv, Parcelled, Taking
<1>. QED
  BY <1>1, <1>2, <1>3, <1>5, <1>7, <1>8 DEF NothingDangles

\* Or one that the user has called off.
LEMMA DangleRefused ==
  ASSUME NInv, Becomes(Scene), op' = Idle, clipboard' = clipboard,
         \/ gesture' = "stale"
         \/ gesture' = gesture /\ cut' = cut /\ op.kind = "none"
  PROVE  NothingDangles' /\ Closed(nodes)' /\ Scheduled' /\ Parcelled' /\ Reusable'
<1>1. /\ nodes' = nodes /\ exec' = exec /\ delete' = delete
      /\ outcome' = "done" /\ Idle.kind = "none"
  BY DEF Becomes, Idle, Scene
<1>2. NothingDangles' /\ Closed(nodes)' /\ Reusable'
  BY <1>1 DEF NInv, NothingDangles, Reusable
<1>3. Parcelled'
  BY <1>1 DEF NInv, Parcelled, Taking
<1>4. Scheduled'
  BY <1>1 DEF NInv, Scheduled, MayGo, Taking
<1>. QED
  BY <1>2, <1>3, <1>4

LEMMA DanglePaste ==
  ASSUME {"stale paste", "onto itself", "taken title"} \intersect Mishaps = {},
         NInv, op.kind = "none", Paste
  PROVE  NothingDangles' /\ Closed(nodes)' /\ Scheduled' /\ Parcelled' /\ Reusable'
<1>1. PICK dir \in Folders: \E answer \in Answers(dir, clipboard):
        \E list \in SetToSeqs(clipboard): SelectionPaste(dir, list, answer)
  BY DEF Paste
<1>2. PICK answer \in Answers(dir, clipboard):
        \E list \in SetToSeqs(clipboard): SelectionPaste(dir, list, answer)
  BY <1>1
<1>3. PICK list \in SetToSeqs(clipboard): SelectionPaste(dir, list, answer)
  BY <1>2
<1>. DEFINE s == AddFilesFromPbo(Scene, dir, list, answer)
<1>4. /\ Becomes(s) /\ clipboard' = clipboard /\ op' = op
      /\ "stale paste" \in Mishaps \/ gesture # "stale"
      /\ answer # Refused => PlainMove(cut, dir, clipboard, answer)
      /\ answer = Refused => gesture' = gesture /\ cut' = cut
  BY <1>3 DEF SelectionPaste, PasteTo, Only
<1>5. op' = Idle
  BY <1>4 DEF NInv, TInv, OpOK
<1>6. CASE answer = Refused
  <2>1. s = Scene
    BY <1>6 DEF AddFilesFromPbo
  <2>. HIDE DEF s
  <2>. QED
    BY <1>4, <1>5, <1>6, <2>1, DangleRefused
<1>7. CASE answer # Refused
  <2>1. Apart(nodes, delete) /\ \A i \in DOMAIN delete: delete[i] \in cut
    BY <1>4 DEF NInv, Scheduled, MayGo, Taking
  <2>2. /\ TInv /\ Closed(nodes) /\ IsFiniteSet(clipboard) /\ Distinct(clipboard)
        /\ \A d \in clipboard: IsFilePath(d.path) /\ d.src \in Sources
    BY DEF NInv, TInv, ClipboardOK, Parcelled
  <2>3. PlainMove(cut, dir, clipboard, answer)
    BY <1>4, <1>7
  <2>4. Completed(s)
    BY <1>7, <2>1, <2>2, <2>3, MovedNeatly
  <2>5. Settled(Scene, s)
    BY <2>2, PasteSettles
  <2>. HIDE DEF s
  <2>. QED
    BY <1>4, <1>5, <2>4, <2>5, DangleCompleted
<1>. QED
  BY <1>6, <1>7

LEMMA DangleDrop ==
  ASSUME {"onto itself", "taken title"} \intersect Mishaps = {}, NInv, Drop
  PROVE  NothingDangles' /\ Closed(nodes)' /\ Scheduled' /\ Parcelled' /\ Reusable'
<1>1. /\ TInv /\ Closed(nodes) /\ Distinct(Pack(op.sel))
      /\ Apart(nodes, delete) /\ \A i \in DOMAIN delete: delete[i] \in op.sel
  BY DEF Drop, NInv, Scheduled, MayGo, Parcelled, Taking
<1>2. ASSUME NEW action, Becomes(DragEnds(Scene, action)), op' = Idle,
             clipboard' = clipboard, action # "move" => gesture' = "stale"
      PROVE  /\ NothingDangles' /\ Closed(nodes)' /\ Scheduled' /\ Parcelled'
             /\ Reusable'
  <2>. DEFINE b == Scene
              s == DragEnds(b, action)
  <2>1. /\ Neat(b, b, Paths) /\ b.outcome = "done"
        /\ b.nodes = nodes /\ b.delete = delete
    BY <1>1, SceneIsNeat DEF TInv
  <2>2. Settled(b, s)
    BY <1>1, SceneIsInserted, DragSettles DEF TInv
  <2>. HIDE DEF b
  <2>3. /\ action = "move" => Completed(s)
        /\ action # "move" => s = b
    BY <1>1, <2>1, NothingMoreGoes
  <2>4. Becomes(s)
    BY <1>2 DEF b
  <2>. HIDE DEF s
  <2>5. CASE action = "move"
    BY <1>2, <2>2, <2>3, <2>4, <2>5, DangleCompleted DEF b
  <2>6. CASE action # "move"
    BY <1>2, <2>3, <2>4, <2>6, DangleRefused DEF b
  <2>. QED
    BY <2>5, <2>6
<1>3. ASSUME NEW dir \in Folders, NEW answer \in Answers(dir, Pack(op.sel)),
             NEW list \in SetToSeqs(Pack(op.sel)), NEW action \in {"move", "copy"},
             DropHere(dir, list, answer, action)
      PROVE  /\ NothingDangles' /\ Closed(nodes)' /\ Scheduled' /\ Parcelled'
             /\ Reusable'
  <2>. DEFINE r == AddFilesFromPbo(Scene, dir, list, answer)
              s == DragEnds(r, action)
  <2>1. /\ Becomes(s) /\ op' = Idle /\ clipboard' = clipboard
        /\ answer # Refused => PlainMove(op.sel, dir, Pack(op.sel), answer)
        /\ answer = Refused => gesture' = "stale"
    BY <1>3 DEF DropHere, Dragged
  <2>2. CASE answer = Refused
    <3>1. r = Scene
      BY <2>2 DEF AddFilesFromPbo
    <3>. HIDE DEF r
    <3>. QED
      BY <1>2, <2>1, <2>2, <3>1
  <2>3. CASE answer # Refused
    <3>1. /\ IsFiniteSet(Pack(op.sel))
          /\ \A d \in Pack(op.sel): IsFilePath(d.path) /\ d.src \in Sources
      BY <1>1, PackedFiles DEF TInv, OpOK
    <3>2. PlainMove(op.sel, dir, Pack(op.sel), answer)
      BY <2>1, <2>3
    <3>3. Completed(r)
      BY <1>1, <2>3, <3>1, <3>2, MovedNeatly
    <3>4. Settled(Scene, s)
      BY <1>1, DropSettles
    <3>. HIDE DEF r
    <3>5. Completed(s)
      BY <3>3, DragIsNeat
    <3>. HIDE DEF s
    <3>. QED
      BY <2>1, <3>4, <3>5, DangleCompleted
  <2>. QED
    BY <2>2, <2>3
<1>4. ASSUME NEW action \in {"move", "copy", "none"}, DropElsewhere(action)
      PROVE  /\ NothingDangles' /\ Closed(nodes)' /\ Scheduled' /\ Parcelled'
             /\ Reusable'
  <2>1. /\ Becomes(DragEnds(Scene, action)) /\ op' = Idle /\ clipboard' = clipboard
        /\ action # "move" => gesture' = "stale"
    BY <1>4 DEF DropElsewhere, Dragged
  <2>. QED
    BY <1>2, <2>1
<1>5. CASE DragFailed
  <2>1. /\ op' = Idle /\ Idle.kind = "none" /\ outcome' = "done" /\ gesture' = "stale"
        /\ nodes' = nodes /\ clipboard' = clipboard /\ exec' = exec
    BY <1>5 DEF DragFailed, Idle
  <2>2. NothingDangles' /\ Closed(nodes)' /\ Reusable'
    BY <2>1 DEF NInv, NothingDangles, Reusable
  <2>3. Parcelled' /\ Scheduled'
    BY <2>1 DEF NInv, Parcelled, Scheduled, Taking
  <2>. QED
    BY <2>2, <2>3
<1>. QED
  BY <1>3, <1>4, <1>5 DEF Drop

(***************************************************************************)
(* What else is done to the document leaves what was cut, or is not a cut  *)
(* any more.                                                               *)
(***************************************************************************)
\* What is still there of what is to go is still to go.
Kept(s) ==
  /\ DOMAIN s.delete = DOMAIN delete
  /\ \A i \in DOMAIN delete: delete[i] \in DOMAIN s.nodes => s.delete[i] = delete[i]
  /\ s.outcome \in {"done", "full"}
  /\ s.outcome = "done" => Closed(s.nodes)

LEMMA TidyIsKept ==
  ASSUME NEW s, NEW P, Tidy(Scene, s, P), s.outcome \in {"done", "full"}
  PROVE  Kept(s)
<1>1. Scene.nodes = nodes /\ Scene.delete = delete
  BY DEF Scene
<1>2. \A i \in DOMAIN delete: delete[i] \in DOMAIN s.nodes => s.delete[i] = delete[i]
  BY <1>1 DEF Tidy
<1>. QED
  BY <1>1, <1>2 DEF Tidy, Kept

LEMMA DangleEdit ==
  ASSUME NInv, op.kind = "none", NEW s, Settled(Scene, s), Kept(s),
         NEW gone, Edit(s, gone)
  PROVE  NothingDangles' /\ Closed(nodes)' /\ Scheduled' /\ Parcelled' /\ Reusable'
<1>1. /\ Becomes(s) /\ clipboard' = clipboard /\ op' = op
      /\ gesture' = IF CutTouched(s) THEN "stale" ELSE gesture
      /\ cut' = IF CutTouched(s) THEN {} ELSE cut
  BY DEF Edit, Edited
<1>2. /\ nodes' = s.nodes /\ exec' = s.exec /\ delete' = s.delete
      /\ outcome' = "done" /\ Closed(s.nodes)
  BY <1>1 DEF Becomes, Kept
<1>3. LeftOf(s.exec, exec)
  BY DEF Settled, Scene
<1>4. Reusable'
  BY <1>2, <1>3 DEF NInv, Reusable, LeftOf
<1>5. Parcelled'
  BY <1>1 DEF NInv, Parcelled, Taking
<1>6. ASSUME gesture' # "stale"
      PROVE  Apart(s.nodes, s.delete) /\ \A i \in DOMAIN s.delete: s.delete[i] \in cut'
  <2>1. ~CutTouched(s) /\ gesture' = gesture /\ cut' = cut
    BY <1>1, <1>6
  <2>2. Apart(nodes, delete) /\ \A i \in DOMAIN delete: delete[i] \in cut
    BY <1>6, <2>1 DEF NInv, Scheduled, MayGo, Taking
  <2>3. ASSUME NEW i \in DOMAIN delete
        PROVE  /\ delete[i] \in DOMAIN s.nodes
               /\ s.nodes[delete[i]].path = nodes[delete[i]].path
    <3>. DEFINE n == delete[i]
                p == nodes[n].path
    <3>1. n \in DOMAIN nodes /\ n \in cut
      BY <2>2 DEF Apart
    <3>2. IsPrefix(p, p)
      <4>1. p \in Seq(FolderTitles \union EntryTitles)
        BY <3>1, NodePaths DEF NInv, TInv
      <4>. HIDE DEF p
      <4>. QED
        BY <4>1, PathBeginsItself
    <3>3. n \in Below(nodes, cut)
      BY <3>1, <3>2 DEF Below
    <3>. HIDE DEF n
    <3>4. {<<m, nodes[m].path>>: m \in Below(nodes, cut)}
            = {<<m, s.nodes[m].path>>: m \in Below(s.nodes, cut)}
      BY <2>1 DEF CutTouched
    <3>5. <<n, p>> \in {<<m, s.nodes[m].path>>: m \in Below(s.nodes, cut)}
      BY <3>3, <3>4
    <3>6. PICK m \in Below(s.nodes, cut): <<n, p>> = <<m, s.nodes[m].path>>
      BY <3>5
    <3>7. n \in DOMAIN s.nodes /\ s.nodes[n].path = p
      BY <3>6 DEF Below
    <3>. QED
      BY <3>7 DEF n
  <2>4. /\ DOMAIN s.delete = DOMAIN delete
        /\ \A i \in DOMAIN delete: s.delete[i] = delete[i]
    BY <2>3 DEF Kept
  <2>5. Apart(s.nodes, s.delete)
    BY <2>2, <2>3, <2>4 DEF Apart
  <2>. QED
    BY <2>1, <2>2, <2>4, <2>5
<1>7. Scheduled'
  BY <1>1, <1>2, <1>6 DEF Scheduled, MayGo, Taking
<1>. QED
  BY <1>2, <1>4, <1>5, <1>7 DEF NothingDangles

LEMMA AddedIsKept ==
  ASSUME TInv, Closed(nodes), NEW dir \in Folders, NEW name \in FileTitles,
         NEW bytes \in External,
         NEW answer \in Answers(dir, {Added(Title(name, 0), bytes)})
  PROVE  Kept(IF answer = Refused THEN Scene
              ELSE CreateNodeSet(Scene, dir, <<Added(Title(name, 0), bytes)>>, answer))
<1>. DEFINE d == Added(Title(name, 0), bytes)
            r == CreateNodeSet(Scene, dir, <<d>>, answer)
            P == Replacing(answer)
<1>1. Parcels(<<d>>)
  BY AddedIsParcel
<1>2. answer \in Answers(dir, {d})
  OBVIOUS
<1>3. Neat(Scene, Scene, P) /\ Scene.outcome = "done"
  BY SceneIsNeat DEF TInv
<1>. HIDE DEF d
<1>4. CASE answer = Refused
  BY <1>3, <1>4, TidyIsKept DEF Neat
<1>5. CASE answer # Refused
  <2>1. Len(<<d>>) = 1 /\ <<d>>[1] = d
    OBVIOUS
  <2>2. Distinct({d}) /\ OwnTitles(dir, {d}, answer)
    BY DEF Distinct, OwnTitles
  <2>. DEFINE list == <<d>>
  <2>3. /\ \A i \in 1 .. Len(list): list[i] \in {d}
        /\ \A i, j \in 1 .. Len(list): i # j => list[i] # list[j]
    BY <2>1
  <2>4. Parcels(list)
    BY <1>1
  <2>. HIDE DEF list
  <2>5. LET q == CreateNodeSet(Scene, dir, list, answer)
        IN  Neat(Scene, q, P) /\ q.outcome \in {"done", "full"}
    BY <1>2, <1>5, <2>2, <2>3, <2>4, SetIsNeat
  <2>6. Neat(Scene, r, P) /\ r.outcome \in {"done", "full"}
    BY <2>5 DEF list
  <2>. HIDE DEF r, P
  <2>7. Kept(r)
    BY <2>6, TidyIsKept DEF Neat
  <2>. QED
    BY <1>5, <2>7 DEF r, d
<1>. QED
  BY <1>4, <1>5 DEF d

LEMMA RemovedIsKept ==
  ASSUME TInv, Closed(nodes), NEW S \in Selections, NEW list \in SetToSeqs(S), NEW r,
         r = LET remove[i \in 0 .. Len(list)] ==
                   IF i = 0 THEN Scene ELSE RemoveFromHierarchy(remove[i - 1], list[i])
             IN  remove[Len(list)]
  PROVE  Kept(r)
<1>1. S \subseteq DOMAIN nodes /\ IsFiniteSet(S)
  BY NodesAreFinite DEF TInv, Selections
<1>2. /\ Len(list) \in Nat /\ DOMAIN list = 1 .. Len(list)
      /\ \A i \in 1 .. Len(list): list[i] \in S
      /\ \A i, j \in 1 .. Len(list): i # j => list[i] # list[j]
  BY <1>1, OrderedParcel
<1>3. \A m, n \in S: m # n => ~IsPrefix(nodes[n].path, nodes[m].path)
  BY <1>1 DEF Selections, Below
<1>4. Apart(nodes, list)
  BY <1>1, <1>2, <1>3 DEF Apart
<1>5. Neat(Scene, Scene, Paths) /\ Scene.outcome = "done" /\ Scene.nodes = nodes
  BY SceneIsNeat DEF TInv
<1>6. Neat(Scene, r, Paths) /\ r.outcome = "done"
  BY <1>2, <1>4, <1>5, SelectionGoesNeatly
<1>. QED
  BY <1>6, TidyIsKept DEF Neat

LEMMA RenamedIsKept ==
  ASSUME TInv, Closed(nodes), NEW n \in FilesOf(nodes), NEW name \in FileTitles
  PROVE  Kept([Scene EXCEPT !.nodes[n].path = Front(nodes[n].path) \o <<Title(name, 0)>>])
<1>. DEFINE t == Title(name, 0)
            old == nodes[n].path
            path == Front(old) \o <<t>>
            b == Scene
            r == [b EXCEPT !.nodes[n].path = path]
<1>1. IsScene(b) /\ b.nodes = nodes /\ b.delete = delete /\ b.outcome = "done"
  BY SceneIsInserted DEF TInv, Settled, SceneOK
<1>2. n \in DOMAIN nodes /\ IsFilePath(old) /\ NodesOK(nodes)
  BY FilesBelowAreNodes, PathsAreSequences DEF TInv
<1>3. t \in EntryTitles
  BY DEF Title, EntryTitles, FileNames
<1>. HIDE DEF t, old
<1>4. /\ Len(path) = Len(old)
      /\ \A j \in 1 .. Len(old) - 1: SubSeq(path, 1, j) = SubSeq(old, 1, j)
  BY <1>2, <1>3, RetitledBeside
<1>. HIDE DEF path, b
<1>5. /\ r.nodes = [nodes EXCEPT ![n].path = path]
      /\ r.delete = delete /\ r.outcome = "done"
  BY <1>1 DEF IsScene
<1>. HIDE DEF r
<1>6. /\ DOMAIN r.nodes = DOMAIN nodes
      /\ \A m \in DOMAIN nodes: m # n => r.nodes[m] = nodes[m]
      /\ r.nodes[n].path = path
  <2>1. nodes[n] \in [path: Paths, src: Sources \union {NoSource}]
    BY <1>2 DEF NodesOK, NodeOK
  <2>. QED
    BY <1>2, <1>5, <2>1
<1>7. ASSUME NEW m \in DOMAIN nodes, NEW k \in 1 .. Len(nodes[m].path) - 1
      PROVE  At(r.nodes, SubSeq(nodes[m].path, 1, k)) # {}
  <2>. DEFINE q == SubSeq(nodes[m].path, 1, k)
  <2>1. PICK x \in DOMAIN nodes: nodes[x].path = q
    BY <1>7 DEF Closed, At
  <2>2. IsFolderPath(q)
    <3>1. CASE m \in FilesOf(nodes)
      BY <1>2, <3>1, PathsAreSequences, FoldersOnTheWay
    <3>2. CASE m \notin FilesOf(nodes)
      <4>. DEFINE p == nodes[m].path
      <4>1. p \in Seq(FolderTitles)
        BY <1>2, <3>2, PathsAreSequences DEF IsFolderPath
      <4>2. k \in 1 .. Len(p)
        <5>1. Len(p) \in Nat
          BY <4>1, LenProperties
        <5>. QED
          BY <5>1
      <4>3. SubSeq(p, 1, k) \in Seq(FolderTitles)
        <5>. HIDE DEF p
        <5>. QED
          BY <4>1, <4>2, Beginning
      <4>. QED
        BY <4>3 DEF IsFolderPath
    <3>. QED
      BY <3>1, <3>2
  <2>. HIDE DEF q
  <2>3. x # n
    <3>1. ASSUME x = n
          PROVE  FALSE
      <4>1. IsFilePath(q)
        BY <1>2, <2>1, <3>1 DEF old
      <4>2. q \in Seq(FolderTitles) /\ Len(q) \in 1 .. Len(q) /\ q[Len(q)] \in EntryTitles
        <5>1. q \in Paths /\ q # <<>>
          BY <4>1 DEF IsFilePath
        <5>2. Len(q) \in Nat /\ Len(q) >= 1
          BY <5>1, LenProperties, EmptySeq DEF Paths
        <5>3. Len(q) \in 1 .. Len(q)
          BY <5>2
        <5>. QED
          BY <2>2, <4>1, <5>3 DEF IsFilePath, IsFolderPath
      <4>3. q[Len(q)] \in FolderTitles
        BY <4>2, ElementOfSeq
      <4>. QED
        BY <4>2, <4>3, TitlesDiffer
    <3>. QED
      BY <3>1
  <2>4. x \in DOMAIN r.nodes /\ r.nodes[x].path = q
    BY <1>6, <2>1, <2>3
  <2>. QED
    BY <2>4 DEF At, q
<1>8. Closed(r.nodes)
  <2>1. ASSUME NEW m \in DOMAIN nodes, NEW k \in 1 .. Len(r.nodes[m].path) - 1
        PROVE  At(r.nodes, SubSeq(r.nodes[m].path, 1, k)) # {}
    <3>1. CASE m = n
      <4>1. k \in 1 .. Len(old) - 1 /\ r.nodes[m].path = path
        BY <1>4, <1>6, <2>1, <3>1
      <4>2. SubSeq(path, 1, k) = SubSeq(old, 1, k)
        BY <1>4, <4>1
      <4>3. At(r.nodes, SubSeq(old, 1, k)) # {}
        BY <1>2, <1>7, <4>1 DEF old
      <4>. QED
        BY <4>1, <4>2, <4>3
    <3>2. CASE m # n
      BY <1>6, <1>7, <2>1, <3>2
    <3>. QED
      BY <3>1, <3>2
  <2>. QED
    BY <1>6, <2>1 DEF Closed
<1>9. Kept(r)
  BY <1>5, <1>8 DEF Kept
<1>. QED
  BY <1>9 DEF r, b, path, old, t

LEMMA DangleReopen ==
  ASSUME NInv, op.kind = "none", Reopen
  PROVE  NothingDangles' /\ Closed(nodes)' /\ Scheduled' /\ Parcelled' /\ Reusable'
<1>. DEFINE a == Scene
            b == RemoveNodes(a, DOMAIN nodes)
            s == Loaded(b, disk)
<1>1. /\ TInv /\ NodesOK(nodes) /\ EntriesOK(disk)
  BY DEF NInv, TInv
<1>2. /\ Neat(a, a, Paths) /\ a.outcome = "done"
      /\ a.nodes = nodes /\ a.delete = delete
  BY SceneIsNeat DEF NInv, TInv
<1>3. /\ s.outcome = "done" /\ nodes' = s.nodes /\ delete' = s.delete
      /\ exec' = <<>> /\ outcome' = "done" /\ cut' = {}
      /\ gesture' = IF gesture = "cut" THEN "stale" ELSE gesture
      /\ clipboard' = clipboard /\ op' = op
  BY DEF Reopen
<1>. HIDE DEF a
<1>4. RemovedNeatly(a, a, Paths, DOMAIN nodes, b)
  <2>1. \A n \in DOMAIN nodes: nodes[n].path \in Paths
    BY <1>1, PathsAreSequences
  <2>2. \A n \in DOMAIN nodes: n \in DOMAIN a.nodes => a.nodes[n].path \in Paths
    BY <1>2, <2>1
  <2>3. \A n \in DOMAIN nodes: \A m \in DOMAIN a.nodes:
          IsPrefix(a.nodes[n].path, a.nodes[m].path) => m \in DOMAIN nodes
    BY <1>2
  <2>4. DOMAIN nodes \subseteq DOMAIN a.nodes
    BY <1>2
  <2>. DEFINE S == DOMAIN nodes
  <2>. HIDE DEF S
  <2>5. RemovedNeatly(a, a, Paths, S, RemoveNodes(a, S))
    BY <1>2, <2>2, <2>3, <2>4, RemovalIsNeat DEF S
  <2>. QED
    BY <2>5 DEF S
<1>. HIDE DEF b
<1>5. Neat(b, b, Paths) /\ b.outcome = "done" /\ DOMAIN b.delete = DOMAIN delete
  BY <1>2, <1>4 DEF RemovedNeatly, Neat, Tidy
<1>6. Neat(b, s, Paths)
  BY <1>1, <1>5, LoadingIsNeat
<1>. HIDE DEF s
<1>7. Closed(nodes)' /\ DOMAIN delete' = DOMAIN delete
  BY <1>3, <1>5, <1>6 DEF Neat, Tidy
<1>8. Scheduled'
  <2>1. CASE gesture' = "stale"
    BY <1>3, <2>1 DEF Scheduled, Taking
  <2>2. CASE gesture' # "stale"
    <3>1. cut = {} /\ gesture # "stale"
      BY <1>1, <1>3, <2>2 DEF TInv, UserOK
    <3>2. \A i \in DOMAIN delete: delete[i] \in {}
      BY <3>1 DEF NInv, Scheduled, MayGo, Taking
    <3>3. DOMAIN delete' = {}
      BY <1>7, <3>2
    <3>. QED
      BY <3>3 DEF Scheduled, Apart
  <2>. QED
    BY <2>1, <2>2
<1>9. Parcelled'
  BY <1>3 DEF NInv, Parcelled, Taking
<1>10. DOMAIN <<>> = {}
  OBVIOUS
<1>11. Reusable'
  BY <1>3, <1>10 DEF Reusable
<1>. QED
  BY <1>3, <1>7, <1>8, <1>9, <1>11 DEF NothingDangles

LEMMA DangleSave ==
  ASSUME NInv, op.kind = "none", Save
  PROVE  NothingDangles' /\ Closed(nodes)' /\ Scheduled' /\ Parcelled' /\ Reusable'
<1>1. disk.layout \in Nat /\ NodesOK(nodes)
  BY ConstantsAreNumbers DEF NInv, TInv, EntriesOK
<1>2. /\ DOMAIN nodes' = DOMAIN nodes
      /\ \A n \in DOMAIN nodes: nodes'[n].path = nodes[n].path
  BY <1>1, SavedAgain
<1>3. /\ outcome' = "done" /\ UNCHANGED <<delete, clipboard, exec, op, gesture, cut>>
  BY DEF Save, user
<1>4. \A p: At(nodes', p) = At(nodes, p)
  BY <1>2 DEF At
<1>5. Closed(nodes')
  BY <1>2, <1>4 DEF NInv, Closed
<1>6. Apart(nodes, delete) => Apart(nodes', delete')
  BY <1>2, <1>3 DEF Apart
<1>7. Scheduled'
  BY <1>3, <1>6 DEF NInv, Scheduled, MayGo, Taking
<1>8. Parcelled' /\ Reusable' /\ NothingDangles'
  BY <1>3 DEF NInv, Parcelled, Taking, Reusable, NothingDangles
<1>. QED
  BY <1>5, <1>7, <1>8

LEMMA DangleChange ==
  ASSUME NInv, op.kind = "none", Change
  PROVE  NothingDangles' /\ Closed(nodes)' /\ Scheduled' /\ Parcelled' /\ Reusable'
<1>0. TInv /\ Closed(nodes)
  BY DEF NInv
<1>1. ASSUME NEW dir \in Folders, NEW name \in FileTitles, NEW bytes \in External,
             NEW answer \in Answers(dir, {Added(Title(name, 0), bytes)}),
             AddFile(dir, Title(name, 0), bytes, answer)
      PROVE  /\ NothingDangles' /\ Closed(nodes)' /\ Scheduled' /\ Parcelled'
             /\ Reusable'
  <2>. DEFINE s == IF answer = Refused THEN Scene
                   ELSE CreateNodeSet(Scene, dir,
                          <<Added(Title(name, 0), bytes)>>, answer)
  <2>1. Settled(Scene, s) /\ Kept(s)
    BY <1>0, AddedSettles, AddedIsKept
  <2>2. Edit(s, Replaced(answer))
    BY <1>1 DEF AddFile
  <2>. HIDE DEF s
  <2>. QED
    BY <2>1, <2>2, DangleEdit
<1>2. ASSUME NEW S \in Selections, NEW list \in SetToSeqs(S), SelectionRemove(list)
      PROVE  /\ NothingDangles' /\ Closed(nodes)' /\ Scheduled' /\ Parcelled'
             /\ Reusable'
  <2>. DEFINE s == LET remove[i \in 0 .. Len(list)] ==
                         IF i = 0 THEN Scene
                         ELSE RemoveFromHierarchy(remove[i - 1], list[i])
                   IN  remove[Len(list)]
  <2>1. Kept(s)
    BY <1>0, RemovedIsKept
  <2>2. Settled(Scene, s)
    <3>1. IsFiniteSet(S)
      BY <1>0, NodesAreFinite DEF TInv, Selections
    <3>2. Len(list) \in Nat
      BY <3>1, OrderedParcel
    <3>3. Settled(Scene, Scene)
      BY <1>0, SceneIsInserted DEF TInv
    <3>. QED
      BY <3>2, <3>3, SelectionIsRemoved
  <2>3. Edit(s, FilesBelow(nodes, ToSet(list)))
    BY <1>2 DEF SelectionRemove
  <2>. HIDE DEF s
  <2>. QED
    BY <2>1, <2>2, <2>3, DangleEdit
<1>3. ASSUME NEW n \in DOMAIN nodes, NEW name \in FileTitles,
             SelectionRename(n, Title(name, 0))
      PROVE  /\ NothingDangles' /\ Closed(nodes)' /\ Scheduled' /\ Parcelled'
             /\ Reusable'
  <2>. DEFINE s == [Scene EXCEPT !.nodes[n].path =
                      Front(nodes[n].path) \o <<Title(name, 0)>>]
  <2>1. n \in FilesOf(nodes)
        /\ At(nodes, Front(nodes[n].path) \o <<Title(name, 0)>>) = {}
        /\ Edit(s, {})
    BY <1>3 DEF SelectionRename, FilesOf
  <2>2. Settled(Scene, s) /\ Kept(s)
    BY <1>0, <2>1, RenamedSettles, RenamedIsKept
  <2>. HIDE DEF s
  <2>. QED
    BY <2>1, <2>2, DangleEdit
<1>. QED
  BY <1>1, <1>2, <1>3, DangleSave, DangleReopen DEF Change

\* What must not happen lest an operation end half-way.
HalfWay == {"stale paste", "onto itself", "taken title", "homonyms", "late write"}

LEMMA DangleNext ==
  ASSUME HalfWay \intersect Mishaps = {}, NInv, [Next]_vars
  PROVE  NInv'
<1>0. /\ "stale paste" \notin Mishaps /\ "onto itself" \notin Mishaps
      /\ "taken title" \notin Mishaps /\ "homonyms" \notin Mishaps
      /\ "late write" \notin Mishaps
  BY DEF HalfWay
<1>1. TInv'
  BY TypeNext DEF NInv
<1>2. NothingDangles' /\ Closed(nodes)' /\ Scheduled' /\ Parcelled' /\ Reusable'
  <2>1. CASE UNCHANGED vars
    <3>1. UNCHANGED <<nodes, delete, clipboard, exec, op, outcome, gesture, cut>>
      BY <2>1 DEF vars
    <3>. QED
      BY <3>1, DangleStays DEF NInv, Reusable, NothingDangles
  <2>2. CASE op.kind = "none" /\ (Take \/ Paste \/ Change \/ Viewer)
    BY <1>0, <2>2, DangleTake, DanglePaste, DangleChange, DangleViewer
  <2>3. CASE Cancel \/ Worker \/ OpenExecute \/ CopyOrCutExecute \/ Drop
    BY <1>0, <2>3, DangleWorker, DangleEnds, DangleDrop
  <2>. QED
    BY <2>1, <2>2, <2>3 DEF Next
<1>. QED
  BY <1>1, <1>2 DEF NInv

\* DeleteOp's plain pointers (ui/treewidget/deleteop.cpp) and the iterator of
\* ExecBackend's cache (io/bb/execbackend.cpp) are used only while what they
\* point to is there, and createNodeSet (model/pbomodel.cpp) throws nothing at
\* which a paste or a drop would end half-way.  It takes one of five mishaps
\* for them to: a paste after the last copy, cut or drag came to nothing, a
\* move onto itself, a copy whose new title another entry has, two entries of
\* one title taken together, or a viewer's write to a file that was opened anew.
THEOREM OperationsEnd ==
  ASSUME HalfWay \intersect Mishaps = {}
  PROVE  Spec => []NothingDangles
<1>1. Init => NInv
  BY DangleInit
<1>2. NInv /\ [Next]_vars => NInv'
  BY DangleNext
<1>3. NInv => NothingDangles
  BY DEF NInv
<1>. QED
  BY <1>1, <1>2, <1>3, PTL DEF Spec
=============================================================================
