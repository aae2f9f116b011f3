----------------------------- MODULE PboTreePaths -----------------------------
(***************************************************************************)
(* What the paths of entries mean in a whole document: the conflicts that  *)
(* are seen before anything is inserted, and the entries that an insertion *)
(* leaves alone, for any titles, any bounds and paths of any length.       *)
(***************************************************************************)
EXTENDS PboTreeProofs

(***************************************************************************)
(* The conflicts that checkConflicts sees, and those that createHierarchy  *)
(* comes to.                                                               *)
(***************************************************************************)

\* PboNode::get, one segment after the other.
Down(c, d, i) == IF d = None THEN None ELSE GetChild(c.nodes, d, c.path[i])

SameWay(c, d, i) == d = c.way[i]

Way == INSTANCE Iteration WITH Step <- Down, Good <- SameWay

\* The way down starts at the node, and takes one child for every segment.
LEMMA WayUnfolds ==
  \A n \in Nat: \A c, base, f:
    /\ f = CHOOSE g: g = [i \in 0 .. n |-> IF i = 0 THEN base
                                           ELSE Down(c, g[i - 1], i)]
    => Way!Unfolds(c, base, f, n)
BY Way!LoopUnfolds

\* What every segment keeps holds after the last one.
LEMMA WayKeeps ==
  \A n \in Nat: \A c, base, f:
    /\ f = CHOOSE g: g = [i \in 0 .. n |-> IF i = 0 THEN base
                                           ELSE Down(c, g[i - 1], i)]
    /\ SameWay(c, base, 0)
    /\ \A i \in 1 .. n: \A d:
         SameWay(c, d, i - 1) => SameWay(c, Down(c, d, i), i)
    => SameWay(c, f[n], n)
BY Way!LoopKeeps

WayDown(nodes, p, path) ==
  CHOOSE g: g = [i \in 0 .. Len(path) |->
                   IF i = 0 THEN p
                   ELSE IF g[i - 1] = None THEN None
                   ELSE GetChild(nodes, g[i - 1], path[i])]

\* PboNode::get returns where the way ends.
LEMMA GetIsTheEnd ==
  ASSUME NEW nodes, NEW p, NEW path
  PROVE  Get(nodes, p, path) = WayDown(nodes, p, path)[Len(path)]
BY DEF Get, WayDown

\* The way down starts at the node, and is None once a child is missing.
LEMMA WayDownUnfolds ==
  ASSUME NEW nodes, NEW p, NEW path, Len(path) \in Nat
  PROVE  LET w == WayDown(nodes, p, path)
         IN  /\ w[0] = p
             /\ \A i \in 1 .. Len(path):
                  w[i] = IF w[i - 1] = None THEN None
                         ELSE GetChild(nodes, w[i - 1], path[i])
<1>. DEFINE c == [nodes |-> nodes, path |-> path]
            n == Len(path)
            w == WayDown(nodes, p, path)
<1>1. w = CHOOSE g: g = [i \in 0 .. n |-> IF i = 0 THEN p ELSE Down(c, g[i - 1], i)]
  BY DEF WayDown, Down
<1>2. \A d, i: Down(c, d, i) = IF d = None THEN None ELSE GetChild(nodes, d, path[i])
  BY DEF Down
<1>3. n \in Nat
  OBVIOUS
<1>. HIDE DEF c, n, w
<1>4. w[0] = p /\ \A i \in 1 .. n: w[i] = Down(c, w[i - 1], i)
  <2>1. Way!Unfolds(c, p, w, n)
    BY <1>1, <1>3, WayUnfolds
  <2>. QED
    BY <2>1 DEF Way!Unfolds
<1>. QED
  BY <1>2, <1>4 DEF n, w

\* Of a path only the part that was walked matters.
LEMMA WayDownPrefix ==
  ASSUME NEW nodes, NEW p, NEW path, NEW other, Len(path) \in Nat,
         Len(other) \in Nat, Len(path) <= Len(other),
         \A i \in 1 .. Len(path): path[i] = other[i]
  PROVE  WayDown(nodes, p, path)[Len(path)] = WayDown(nodes, p, other)[Len(path)]
<1>. DEFINE v == WayDown(nodes, p, path)
            w == WayDown(nodes, p, other)
            c == [nodes |-> nodes, path |-> path, way |-> w]
            n == Len(path)
<1>1. v = CHOOSE g: g = [i \in 0 .. n |-> IF i = 0 THEN p ELSE Down(c, g[i - 1], i)]
  BY DEF WayDown, Down
<1>2. /\ \A d, i: Down(c, d, i) = IF d = None THEN None ELSE GetChild(nodes, d, path[i])
      /\ \A d, i: SameWay(c, d, i) <=> d = w[i]
  BY DEF Down, SameWay
<1>3. n \in Nat /\ n = Len(path) /\ w = WayDown(nodes, p, other)
  OBVIOUS
<1>. HIDE DEF v, w, c, n
<1>4. /\ w[0] = p
      /\ \A i \in 1 .. Len(other):
           w[i] = IF w[i - 1] = None THEN None
                  ELSE GetChild(nodes, w[i - 1], other[i])
  BY <1>3, WayDownUnfolds
<1>5. SameWay(c, p, 0)
  BY <1>2, <1>4
<1>6. ASSUME NEW i \in 1 .. n, NEW d, SameWay(c, d, i - 1)
      PROVE  SameWay(c, Down(c, d, i), i)
  <2>1. i \in 1 .. Len(other) /\ path[i] = other[i]
    BY <1>3
  <2>2. d = w[i - 1]
    BY <1>2, <1>6
  <2>3. Down(c, d, i) = w[i]
    BY <1>2, <1>4, <2>1, <2>2
  <2>. QED
    BY <1>2, <2>3
<1>7. SameWay(c, v[n], n)
  BY <1>1, <1>3, <1>5, <1>6, WayKeeps
<1>8. v[n] = w[n]
  BY <1>2, <1>7
<1>. QED
  BY <1>3, <1>8 DEF v

\* Where the first i segments of a path lead to.
WalksOn(nodes, p, path) ==
  \A i \in 1 .. Len(path):
    Get(nodes, p, SubSeq(path, 1, i)) =
      IF Get(nodes, p, SubSeq(path, 1, i - 1)) = None THEN None
      ELSE GetChild(nodes, Get(nodes, p, SubSeq(path, 1, i - 1)), path[i])

\* PboNode::get of a longer path goes on from where the shorter one led.
LEMMA GetUnfolds ==
  ASSUME NEW nodes, NEW p, NEW path \in Seq(Titles)
  PROVE  /\ Get(nodes, p, SubSeq(path, 1, 0)) = p
         /\ Get(nodes, p, path) = Get(nodes, p, SubSeq(path, 1, Len(path)))
         /\ WalksOn(nodes, p, path)
<1>. DEFINE w == WayDown(nodes, p, path)
<1>1. Len(path) \in Nat
  BY LenProperties
<1>2. ASSUME NEW i \in 0 .. Len(path)
      PROVE  Get(nodes, p, SubSeq(path, 1, i)) = w[i]
  <2>. DEFINE q == SubSeq(path, 1, i)
  <2>1. Len(q) = i /\ \A j \in 1 .. i: q[j] = path[j]
    <3>1. \A j \in 1 .. i: path[j] \in Titles
      BY <1>1, ElementOfSeq
    <3>2. 1 \in Int /\ i \in Int
      BY <1>1
    <3>. QED
      BY <1>1, <3>1, <3>2, SubSeqProperties
  <2>. HIDE DEF q
  <2>2. i \in Nat /\ i <= Len(path)
    BY <1>1
  <2>3. Get(nodes, p, q) = w[i]
    BY <1>1, <2>1, <2>2, GetIsTheEnd, WayDownPrefix
  <2>. QED
    BY <2>3 DEF q
<1>3. /\ w[0] = p
      /\ \A i \in 1 .. Len(path): w[i] = IF w[i - 1] = None THEN None
                                         ELSE GetChild(nodes, w[i - 1], path[i])
  BY <1>1, WayDownUnfolds
<1>4. Get(nodes, p, path) = w[Len(path)]
  BY GetIsTheEnd
<1>5. \A i \in 1 .. Len(path): i \in 0 .. Len(path) /\ i - 1 \in 0 .. Len(path)
  BY <1>1
<1>. HIDE DEF w
<1>. QED
  BY <1>1, <1>2, <1>3, <1>4, <1>5 DEF WalksOn

\* A segment that nobody answered for: it goes on in a folder, is created where
\* nothing is, and is refused otherwise; next is what is there.
SegmentDone(c, next, type, new) ==
  /\ next = None =>
       /\ new.scene.outcome \in {"done", "full"}
       /\ new.scene.outcome = "done" =>
            \A m \in DOMAIN new.scene.tree: new.scene.tree[m].parent # new.node
  /\ next # None /\ type = "Folder" /\ c.scene.tree[next].type # "File" =>
       /\ new.scene.outcome = "done"
       /\ new.scene.tree = c.scene.tree /\ new.node = next
  /\ next # None /\ (type = "File" \/ c.scene.tree[next].type = "File") =>
       new.scene.outcome = "thrown"

\* A segment does what SegmentDone says when nobody has answered.
LEMMA UnansweredSegment ==
  ASSUME NEW c, NEW d, OnTheWay(c, d), AtFolder(d), d.scene.outcome = "done",
         NEW title \in Titles, NEW type \in {"Folder", "File"},
         NEW onConflict, onConflict \notin {"Replace", "Copy"}, NEW lead,
         IF lead = None THEN \A m \in DOMAIN d.scene.tree: d.scene.tree[m].parent # d.node
                        ELSE d.scene.tree = c.scene.tree /\ d.node = lead,
         NEW next, next = IF lead = None THEN None
                          ELSE GetChild(c.scene.tree, lead, title),
         NEW new, new = Put(d, title, type, onConflict)
  PROVE  SegmentDone(c, next, type, new)
<1>. DEFINE s == d.scene
            node == d.node
<1>1. GoodScene(s) /\ Whole(s.tree) /\ Consistent(s.tree) /\ node \in DOMAIN s.tree
      /\ d = [scene |-> s, node |-> node] /\ IsScene(s)
  BY BelowIsThere DEF OnTheWay, GoodScene, Whole
<1>2. GetChild(s.tree, node, title) = next
  <2>1. CASE lead = None
    <3>1. GetChild(s.tree, node, title) = None
      BY <1>1, <2>1, ChildOfKey DEF Below
    <3>. QED
      BY <2>1, <3>1
  <2>2. CASE lead # None
    BY <2>2
  <2>. QED
    BY <2>1, <2>2
<1>3. new = IF next = None THEN Created(d, s, title, type)
            ELSE IF type = "Folder" /\ s.tree[next].type = "Folder"
            THEN [d EXCEPT !.node = next]
            ELSE [d EXCEPT !.scene.outcome = "thrown"]
  BY <1>2 DEF Put
<1>4. CASE next = None
  <2>1. new = Created(d, s, title, type)
    BY <1>3, <1>4
  <2>2. CASE FreeNodes(s) = {} \/ title.copy > MaxCopy
    BY <1>1, <1>4, <2>1, <2>2 DEF Created, IsScene, SegmentDone
  <2>3. CASE ~(FreeNodes(s) = {} \/ title.copy > MaxCopy)
    <3>. DEFINE e == CreateNode(s, node, title, type)
                n == FreshNode(s)
    <3>1. new = [scene |-> e, node |-> n] /\ e = CreateNode(s, node, title, type)
          /\ n = FreshNode(s)
      BY <2>1, <2>3 DEF Created
    <3>. HIDE DEF e, n
    <3>2. title \in AllTitles
      BY CopiesAreTitles, BoundsAssumption
    <3>3. ~HasChild(s.tree, node, title)
      BY <1>1, <1>2, <1>4, ChildIsFound
    <3>4. CreationIsGood(s, node, title, type, n, e)
      BY <1>1, <2>3, <3>1, <3>2, <3>3, CreatedIsGood DEF AtFolder
    <3>5. \A m \in DOMAIN e.tree: e.tree[m].parent # n
      BY <3>4 DEF CreationIsGood
    <3>6. e.outcome = "done"
      BY <3>4 DEF CreationIsGood, NodeCreated
    <3>. QED
      BY <1>4, <3>1, <3>5, <3>6 DEF SegmentDone
  <2>. QED
    BY <2>2, <2>3
<1>5. CASE next # None
  <2>1. lead # None /\ s.tree = c.scene.tree
    BY <1>5
  <2>2. next \in Below(s.tree)
    BY <1>1, <1>2, <1>5, ChildOfKey
  <2>3. s.tree[next].type = "Folder" <=> s.tree[next].type # "File"
    BY <1>1, <2>2 DEF Consistent, TreeShape
  <2>4. CASE type = "Folder" /\ s.tree[next].type = "Folder"
    <3>1. new = [scene |-> s, node |-> next]
      BY <1>1, <1>3, <1>5, <2>4
    <3>. QED
      BY <1>5, <2>1, <2>3, <2>4, <3>1 DEF SegmentDone
  <2>5. CASE ~(type = "Folder" /\ s.tree[next].type = "Folder")
    <3>1. new = [d EXCEPT !.scene.outcome = "thrown"]
      BY <1>3, <1>5, <2>5
    <3>2. new.scene.outcome = "thrown"
      BY <1>1, <3>1 DEF IsScene
    <3>. QED
      BY <1>5, <2>1, <2>3, <2>5, <3>2 DEF SegmentDone
  <2>. QED
    BY <2>4, <2>5
<1>. QED
  BY <1>4, <1>5

\* Where the first i segments lead to, in the tree that was there.
Lead(c, i) == Get(c.scene.tree, c.node, SubSeq(c.path, 1, i))

\* One of the first i segments is a file.
FileInTheWay(c, i) ==
  \E j \in 1 .. i: Lead(c, j) # None /\ c.scene.tree[Lead(c, j)].type = "File"

\* What the first i folders of a path come to when nobody has answered.
Unanswered(c, d, i) ==
  /\ OnTheWay(c, d) /\ AtFolder(d)
  /\ d.scene.outcome = "done" =>
       /\ ~FileInTheWay(c, i)
       /\ IF Lead(c, i) = None
          THEN \A m \in DOMAIN d.scene.tree: d.scene.tree[m].parent # d.node
          ELSE d.scene.tree = c.scene.tree /\ d.node = Lead(c, i)
  /\ d.scene.outcome = "thrown" => FileInTheWay(c, i)

Asking == INSTANCE Iteration WITH Step <- Descend, Good <- Unanswered

\* What every folder keeps holds after the last one.
LEMMA AskingKeeps ==
  \A n \in Nat: \A c, base, f:
    /\ f = CHOOSE g: g = [i \in 0 .. n |-> IF i = 0 THEN base
                                           ELSE Descend(c, g[i - 1], i)]
    /\ Unanswered(c, base, 0)
    /\ \A i \in 1 .. n: \A d:
         Unanswered(c, d, i - 1) => Unanswered(c, Descend(c, d, i), i)
    => Unanswered(c, f[n], n)
BY Asking!LoopKeeps

\* One more folder, with a file in its way or without.
LEMMA AskedOnce ==
  ASSUME NEW c, c.path \in Seq(Titles), c.onConflict \notin {"Replace", "Copy"},
         NEW i \in 1 .. Len(c.path), NEW d, Unanswered(c, d, i - 1)
  PROVE  Unanswered(c, Descend(c, d, i), i)
<1>. DEFINE new == Put(d, c.path[i], "Folder", c.onConflict)
<1>1. Len(c.path) \in Nat /\ i \in Nat /\ i - 1 \in Nat /\ c.path[i] \in Titles
  BY LenProperties, ElementOfSeq
<1>2. Lead(c, i) = IF Lead(c, i - 1) = None THEN None
                   ELSE GetChild(c.scene.tree, Lead(c, i - 1), c.path[i])
  <2>. DEFINE nodes == c.scene.tree
              p == c.node
              path == c.path
  <2>1. path \in Seq(Titles) /\ i \in 1 .. Len(path)
    OBVIOUS
  <2>2. \A j: Lead(c, j) = Get(nodes, p, SubSeq(path, 1, j))
    BY DEF Lead
  <2>. HIDE DEF nodes, p, path
  <2>3. Get(nodes, p, SubSeq(path, 1, i)) =
          IF Get(nodes, p, SubSeq(path, 1, i - 1)) = None THEN None
          ELSE GetChild(nodes, Get(nodes, p, SubSeq(path, 1, i - 1)), path[i])
    <3>1. WalksOn(nodes, p, path)
      BY <2>1, GetUnfolds
    <3>. QED
      BY <2>1, <3>1 DEF WalksOn
  <2>. QED
    BY <2>2, <2>3 DEF nodes, path
<1>3. FileInTheWay(c, i) <=>
        \/ FileInTheWay(c, i - 1)
        \/ Lead(c, i) # None /\ c.scene.tree[Lead(c, i)].type = "File"
  <2>1. \A j: j \in 1 .. i <=> j \in 1 .. i - 1 \/ j = i
    BY <1>1
  <2>. QED
    BY <2>1 DEF FileInTheWay
<1>4. new = Put(d, c.path[i], "Folder", c.onConflict) /\ Descend(c, d, i) = new
  BY DEF Descend
<1>. HIDE DEF new
<1>5. OnTheWay(c, d) /\ AtFolder(d) /\ OnTheWay(c, new) /\ AtFolder(new)
  BY <1>1, <1>4, PutKeeps DEF Unanswered, AtFolder
<1>6. CASE d.scene.outcome # "done"
  <2>1. new = d
    BY <1>4, <1>6 DEF Put
  <2>. QED
    BY <1>3, <1>4, <1>5, <1>6, <2>1 DEF Unanswered
<1>7. CASE d.scene.outcome = "done"
  <2>1. /\ ~FileInTheWay(c, i - 1)
        /\ IF Lead(c, i - 1) = None
           THEN \A m \in DOMAIN d.scene.tree: d.scene.tree[m].parent # d.node
           ELSE d.scene.tree = c.scene.tree /\ d.node = Lead(c, i - 1)
    BY <1>7 DEF Unanswered
  <2>2. /\ Lead(c, i) = None =>
             /\ new.scene.outcome \in {"done", "full"}
             /\ new.scene.outcome = "done" =>
                  \A m \in DOMAIN new.scene.tree: new.scene.tree[m].parent # new.node
        /\ Lead(c, i) # None /\ c.scene.tree[Lead(c, i)].type # "File" =>
             /\ new.scene.outcome = "done"
             /\ new.scene.tree = c.scene.tree /\ new.node = Lead(c, i)
        /\ Lead(c, i) # None /\ c.scene.tree[Lead(c, i)].type = "File" =>
             new.scene.outcome = "thrown"
    <3>1. SegmentDone(c, Lead(c, i), "Folder", new)
      BY <1>1, <1>2, <1>4, <1>5, <1>7, <2>1, UnansweredSegment
    <3>. QED
      BY <3>1 DEF SegmentDone
  <2>3. Unanswered(c, new, i)
    BY <1>3, <1>5, <2>1, <2>2 DEF Unanswered
  <2>. QED
    BY <1>4, <2>3
<1>. QED
  BY <1>6, <1>7

\* createHierarchy, asked without an answer, refuses what IsPathConflict says
\* it has to ask about, and nothing else.
LEMMA RefusalIsForeseen ==
  ASSUME NEW s, GoodScene(s), s.outcome = "done", EmptyFolders(s.tree) = {},
         NEW p \in DOMAIN s.tree, s.tree[p].type # "File",
         NEW path \in Seq(Titles), Len(path) # 0,
         NEW onConflict, onConflict \notin {"Replace", "Copy"},
         NEW e, e = CreateHierarchy(s, p, path, onConflict).scene,
         e.outcome # "full"
  PROVE  e.outcome = "thrown" <=> IsPathConflict(s.tree, p, path)
<1>. DEFINE n == Len(path) - 1
            descend[i \in 0 .. n] ==
              IF i = 0 THEN [scene |-> s, node |-> p]
              ELSE Put(descend[i - 1], path[i], "Folder", onConflict)
            d == descend[n]
            file == Put(d, Last(path), "File", onConflict)
            c == [scene |-> s, node |-> p, path |-> path, onConflict |-> onConflict]
            base == [scene |-> s, node |-> p]
<1>1. e = [file EXCEPT !.scene.changed = @ \/ (s.emits /\ file.scene.outcome = "done")].scene
  BY DEF CreateHierarchy
<1>2. descend = CHOOSE g: g = [i \in 0 .. n |-> IF i = 0 THEN base
                                                ELSE Descend(c, g[i - 1], i)]
  BY DEF Descend
<1>3. /\ n \in Nat /\ n + 1 = Len(path) /\ n = Len(path) - 1
      /\ \A i \in 1 .. n: i \in 1 .. Len(path)
      /\ n + 1 \in 1 .. Len(path) /\ n + 1 - 1 = n
  BY LenProperties
<1>4. c.scene = s /\ c.node = p /\ c.path = path /\ c.onConflict = onConflict
  OBVIOUS
<1>5. base.scene = s /\ base.node = p /\ base = [scene |-> base.scene, node |-> base.node]
  OBVIOUS
<1>6. file = Put(d, Last(path), "File", onConflict) /\ d = descend[n]
  OBVIOUS
<1>. HIDE DEF n, c, base, descend, d, file
<1>7. Unanswered(c, base, 0)
  <2>1. p \in NodesBelow(s.tree, p)
    BY BelowItself
  <2>2. OnTheWay(c, base) /\ AtFolder(base)
    BY <1>4, <1>5, <2>1 DEF OnTheWay, AtFolder, GoodScene
  <2>3. Lead(c, 0) = p
    BY <1>4, GetUnfolds DEF Lead
  <2>4. p # None
    BY DEF GoodScene, Whole, Consistent, TreeShape
  <2>5. ~FileInTheWay(c, 0)
    BY DEF FileInTheWay
  <2>. QED
    BY <1>4, <1>5, <2>2, <2>3, <2>4, <2>5 DEF Unanswered
<1>8. \A i \in 1 .. n: \A x:
        Unanswered(c, x, i - 1) => Unanswered(c, Descend(c, x, i), i)
  BY <1>3, <1>4, AskedOnce
<1>9. Unanswered(c, d, n)
  BY <1>2, <1>3, <1>6, <1>7, <1>8, AskingKeeps
<1>10. Last(path) = path[n + 1] /\ path[n + 1] \in Titles
  BY <1>3, ElementOfSeq DEF Last
<1>11. OnTheWay(c, d) /\ AtFolder(d) /\ OnTheWay(c, file)
  BY <1>4, <1>6, <1>9, <1>10, PutKeeps DEF Unanswered
<1>12. e.outcome = file.scene.outcome
  <2>1. IsScene(file.scene) /\ file = [scene |-> file.scene, node |-> file.node]
    BY <1>11 DEF OnTheWay, GoodScene
  <2>. QED
    BY <1>1, <2>1 DEF IsScene
<1>13. Lead(c, n + 1) = IF Lead(c, n) = None THEN None
                        ELSE GetChild(c.scene.tree, Lead(c, n), path[n + 1])
  BY <1>3, <1>4, GetUnfolds DEF Lead, WalksOn
<1>14. IsPathConflict(s.tree, p, path) <=> Lead(c, n + 1) # None \/ FileInTheWay(c, n)
  <2>1. Lead(c, n + 1) = Get(s.tree, p, path)
    BY <1>3, <1>4, GetUnfolds DEF Lead
  <2>. QED
    BY <1>3, <1>4, <2>1 DEF IsPathConflict, FileInTheWay, Lead
<1>15. CASE d.scene.outcome # "done"
  <2>1. file = d
    BY <1>6, <1>15 DEF Put
  <2>2. d.scene.outcome = "thrown" /\ FileInTheWay(c, n)
    BY <1>9, <1>12, <1>15, <2>1 DEF Unanswered, OnTheWay
  <2>. QED
    BY <1>12, <1>14, <2>1, <2>2
<1>16. CASE d.scene.outcome = "done"
  <2>1. /\ ~FileInTheWay(c, n)
        /\ IF Lead(c, n) = None
           THEN \A m \in DOMAIN d.scene.tree: d.scene.tree[m].parent # d.node
           ELSE d.scene.tree = c.scene.tree /\ d.node = Lead(c, n)
    BY <1>9, <1>16 DEF Unanswered
  <2>2. /\ Lead(c, n + 1) = None => file.scene.outcome \in {"done", "full"}
        /\ Lead(c, n + 1) # None => file.scene.outcome = "thrown"
    <3>1. onConflict \notin {"Replace", "Copy"}
      OBVIOUS
    <3>2. SegmentDone(c, Lead(c, n + 1), "File", file)
      BY <1>6, <1>10, <1>11, <1>13, <1>16, <2>1, <3>1, UnansweredSegment
    <3>. QED
      BY <3>2 DEF SegmentDone
  <2>. QED
    BY <1>12, <1>14, <2>1, <2>2
<1>. QED
  BY <1>15, <1>16

\* The user is asked about what cannot be inserted without an answer, and
\* about nothing else, in every document that edits lead to.
LEMMA WholeForeseesConflicts ==
  ASSUME IInv
  PROVE  ConflictsForeseen
<1>. SUFFICES ASSUME NEW p \in Folders, NEW path \in Paths,
                     NEW e, e = CreateHierarchy(Scene(TRUE), p, path, "Unset").scene,
                     e.outcome # "full"
              PROVE  e.outcome = "thrown" <=> IsPathConflict(tree, p, path)
  BY DEF ConflictsForeseen
<1>1. p \in DOMAIN tree /\ tree[p].type # "File"
  BY DEF Folders
<1>2. DocumentInv
  BY <1>1 DEF IInv
<1>3. path \in Seq(Titles) /\ Len(path) # 0
  BY PathsAreSeqs
<1>. DEFINE s == Scene(TRUE)
<1>4. /\ GoodScene(s) /\ s.tree = tree /\ s.outcome = "done"
      /\ EmptyFolders(s.tree) = {}
  BY <1>2, StartIsGood DEF DocumentInv
<1>5. e = CreateHierarchy(s, p, path, "Unset").scene
  OBVIOUS
<1>. HIDE DEF s
<1>6. e.outcome = "thrown" <=> IsPathConflict(s.tree, p, path)
  BY <1>1, <1>3, <1>4, <1>5, RefusalIsForeseen
<1>. QED
  BY <1>4, <1>6

\* The user is asked about the entries that could not be inserted without an
\* answer, and about no others, whatever has been done to the document.
THEOREM ConflictsAreForeseen == Spec => []ConflictsForeseen
BY DocumentsStayWhole, WholeForeseesConflicts, PTL

(***************************************************************************)
(* The keys from the root to a node.                                       *)
(***************************************************************************)

\* What has the first number, and with each the next one, has them all.
LEMMA NumbersReached ==
  ASSUME NEW N \in Nat, NEW S, 0 \in S, \A i \in 1 .. N: i - 1 \in S => i \in S
  PROVE  \A i \in 0 .. N: i \in S
<1>. DEFINE Bad == {i \in 0 .. N: i \notin S}
<1>1. Bad \subseteq Nat /\ \A i \in Bad: i \in 0 .. N /\ i \notin S
  OBVIOUS
<1>2. \A i \in 0 .. N: i \in Bad \/ i \in S
  OBVIOUS
<1>. HIDE DEF Bad
<1>3. ASSUME Bad # {}
      PROVE  FALSE
  <2>1. PICK i \in Bad: \A j \in Bad: i <= j
    BY <1>1, <1>3, LeastNumber
  <2>2. i \in 1 .. N /\ i - 1 \in 0 .. N /\ ~(i <= i - 1)
    <3>1. i \in 0 .. N /\ i # 0
      BY <1>1
    <3>. QED
      BY <3>1
  <2>3. i - 1 \in S
    BY <1>2, <2>1, <2>2
  <2>. QED
    BY <1>1, <2>2, <2>3
<1>. QED
  BY <1>2, <1>3

Keys == {Key(t): t \in AnyTitle}

Up(c, at, k) == OneUp(c, at)

Anywhere(c, at, k) == TRUE

Climb == INSTANCE Iteration WITH Step <- Up, Good <- Anywhere

\* The way up starts at the node, and goes to the parent each time.
LEMMA ClimbUnfolds ==
  \A n \in Nat: \A c, base, f:
    /\ f = CHOOSE g: g = [k \in 0 .. n |-> IF k = 0 THEN base
                                           ELSE Up(c, g[k - 1], k)]
    => Climb!Unfolds(c, base, f, n)
BY Climb!LoopUnfolds

WayUp(nodes, n) ==
  CHOOSE g: g = [k \in 0 .. MaxNodes |->
                   IF k = 0 THEN [node |-> n, keys |-> <<>>]
                   ELSE OneUp(nodes, g[k - 1])]

\* The path is what has been passed where the way ends.
LEMMA PathIsTheEnd ==
  ASSUME NEW nodes, NEW n
  PROVE  KeyPath(nodes, n) = WayUp(nodes, n)[MaxNodes].keys
BY DEF KeyPath, WayUp

\* The way up, step by step.
LEMMA WayUpUnfolds ==
  ASSUME NEW nodes, NEW n
  PROVE  LET w == WayUp(nodes, n)
         IN  /\ w[0] = [node |-> n, keys |-> <<>>]
             /\ \A k \in 1 .. MaxNodes: w[k] = OneUp(nodes, w[k - 1])
<1>. DEFINE w == WayUp(nodes, n)
            base == [node |-> n, keys |-> <<>>]
<1>1. w = CHOOSE g: g = [k \in 0 .. MaxNodes |-> IF k = 0 THEN base
                                                 ELSE Up(nodes, g[k - 1], k)]
  BY DEF WayUp, Up
<1>2. MaxNodes \in Nat
  BY BoundsAssumption
<1>. HIDE DEF w, base
<1>3. Climb!Unfolds(nodes, base, w, MaxNodes)
  BY <1>1, <1>2, ClimbUnfolds
<1>4. w[0] = base /\ \A k \in 1 .. MaxNodes: w[k] = OneUp(nodes, w[k - 1])
  BY <1>3 DEF Climb!Unfolds, Up
<1>. QED
  BY <1>4 DEF w, base

\* A place on the way up.
Place(nodes, at) ==
  /\ at = [node |-> at.node, keys |-> at.keys]
  /\ at.node \in DOMAIN nodes
  /\ at.keys \in Seq(Keys)

\* From a place a step up leads to a place.
LEMMA OneUpIsPlace ==
  ASSUME NEW nodes, Whole(nodes), NEW at, Place(nodes, at)
  PROVE  Place(nodes, OneUp(nodes, at))
<1>1. CASE at.node = Root
  BY <1>1 DEF OneUp
<1>2. CASE at.node # Root
  <2>1. at.node \in Below(nodes)
    BY <1>2 DEF Place, Below
  <2>2. /\ nodes[at.node].parent \in DOMAIN nodes
        /\ nodes[at.node].title \in AnyTitle
    BY <2>1 DEF Whole, Consistent, TreeShape, Below
  <2>. DEFINE p == nodes[at.node].parent
              key == Key(nodes[at.node].title)
              keys == <<key>> \o at.keys
  <2>3. key \in Keys
    BY <2>2 DEF Keys
  <2>. HIDE DEF key
  <2>4. <<key>> \in Seq(Keys) /\ at.keys \in Seq(Keys)
    BY <2>3 DEF Place
  <2>5. keys \in Seq(Keys)
    BY <2>4, ConcatProperties
  <2>6. OneUp(nodes, at) = [node |-> p, keys |-> keys]
    BY <1>2 DEF OneUp, key
  <2>. HIDE DEF keys, p
  <2>. QED
    BY <2>2, <2>5, <2>6 DEF Place, p
<1>. QED
  BY <1>1, <1>2

\* The way up stays in the tree.
LEMMA WayUpStays ==
  ASSUME NEW nodes, Whole(nodes), NEW n \in DOMAIN nodes
  PROVE  \A k \in 0 .. MaxNodes: Place(nodes, WayUp(nodes, n)[k])
<1>. DEFINE w == WayUp(nodes, n)
            S == {k \in 0 .. MaxNodes: Place(nodes, w[k])}
<1>1. /\ w[0] = [node |-> n, keys |-> <<>>]
      /\ \A k \in 1 .. MaxNodes: w[k] = OneUp(nodes, w[k - 1])
  BY WayUpUnfolds
<1>2. MaxNodes \in Nat
  BY BoundsAssumption
<1>. HIDE DEF w
<1>3. 0 \in S
  <2>1. <<>> \in Seq(Keys)
    BY EmptySeq
  <2>2. Place(nodes, w[0])
    BY <1>1, <2>1 DEF Place
  <2>. QED
    BY <1>2, <2>2
<1>4. \A k \in 1 .. MaxNodes: k - 1 \in S => k \in S
  BY <1>1, OneUpIsPlace
<1>5. \A k \in 0 .. MaxNodes: k \in S
  <2>. HIDE DEF S
  <2>. QED
    BY <1>2, <1>3, <1>4, NumbersReached
<1>. QED
  BY <1>5 DEF w

\* The way up goes nowhere twice: it ends at the root within as many steps as
\* there may be nodes.
LEMMA WayUpEnds ==
  ASSUME NEW nodes, Whole(nodes), NEW n \in DOMAIN nodes
  PROVE  WayUp(nodes, n)[MaxNodes].node = Root
<1>. DEFINE w == WayUp(nodes, n)
<1>1. /\ \A k \in 1 .. MaxNodes: w[k] = OneUp(nodes, w[k - 1])
      /\ \A k \in 0 .. MaxNodes: Place(nodes, w[k])
  BY WayUpUnfolds, WayUpStays
<1>2. MaxNodes \in Nat
  BY BoundsAssumption
<1>3. DOMAIN nodes \subseteq 0 .. MaxNodes
  BY DEF Whole, Typed
<1>. HIDE DEF w
<1>. SUFFICES ASSUME w[MaxNodes].node # Root
              PROVE  FALSE
  BY DEF w
<1>4. \A k \in 0 .. MaxNodes: w[k].node # Root
  <2>. DEFINE S == {j \in 0 .. MaxNodes: w[MaxNodes - j].node # Root}
  <2>1. 0 \in S
    BY <1>2
  <2>2. ASSUME NEW j \in 1 .. MaxNodes, j - 1 \in S
        PROVE  j \in S
    <3>. DEFINE k == MaxNodes - j + 1
    <3>1. k \in 1 .. MaxNodes /\ k - 1 = MaxNodes - j /\ MaxNodes - (j - 1) = k
      BY <1>2
    <3>. HIDE DEF k
    <3>2. w[k] = OneUp(nodes, w[k - 1])
      BY <1>1, <3>1
    <3>3. w[k].node # Root
      BY <2>2, <3>1
    <3>4. w[MaxNodes - j].node # Root
      BY <3>1, <3>2, <3>3 DEF OneUp
    <3>. QED
      BY <1>2, <3>4
  <2>3. \A j \in 0 .. MaxNodes: j \in S
    <3>. HIDE DEF S
    <3>. QED
      BY <1>2, <2>1, <2>2, NumbersReached
  <2>. SUFFICES ASSUME NEW k \in 0 .. MaxNodes
                PROVE  w[k].node # Root
    OBVIOUS
  <2>4. MaxNodes - k \in 0 .. MaxNodes /\ MaxNodes - (MaxNodes - k) = k
    BY <1>2
  <2>. QED
    BY <2>3, <2>4
<1>5. \A k \in 0 .. MaxNodes: w[k].node \in Below(nodes) /\ w[k].node \in 1 .. MaxNodes
  <2>. SUFFICES ASSUME NEW k \in 0 .. MaxNodes
                PROVE  w[k].node \in Below(nodes) /\ w[k].node \in 1 .. MaxNodes
    OBVIOUS
  <2>1. w[k].node \in DOMAIN nodes /\ w[k].node # Root
    BY <1>1, <1>4 DEF Place
  <2>. QED
    BY <1>2, <1>3, <2>1 DEF Below, Root
<1>6. PICK x \in 0 .. MaxNodes, y \in 0 .. MaxNodes:
        x # y /\ w[x].node = w[y].node
  <2>. DEFINE f == [k \in 0 .. MaxNodes |-> w[k].node]
  <2>1. f \in [0 .. MaxNodes -> 1 .. MaxNodes]
    BY <1>5
  <2>2. /\ IsFiniteSet(0 .. MaxNodes) /\ Cardinality(0 .. MaxNodes) = MaxNodes + 1
        /\ IsFiniteSet(1 .. MaxNodes) /\ Cardinality(1 .. MaxNodes) = MaxNodes
    <3>1. 0 \in Int /\ 1 \in Int /\ MaxNodes \in Int /\ ~(0 > MaxNodes)
      BY <1>2
    <3>2. /\ IsFiniteSet(0 .. MaxNodes) /\ Cardinality(0 .. MaxNodes) = MaxNodes - 0 + 1
      BY <3>1, FS_Interval
    <3>3. /\ IsFiniteSet(1 .. MaxNodes)
          /\ Cardinality(1 .. MaxNodes) = IF 1 > MaxNodes THEN 0 ELSE MaxNodes - 1 + 1
      BY <3>1, FS_Interval
    <3>. QED
      BY <1>2, <3>2, <3>3, BoundsAssumption
  <2>3. Cardinality(1 .. MaxNodes) < Cardinality(0 .. MaxNodes)
    BY <1>2, <2>2
  <2>. HIDE DEF f
  <2>4. \E x, y \in 0 .. MaxNodes: x # y /\ f[x] = f[y]
    BY <2>1, <2>2, <2>3, FS_PigeonHole
  <2>. QED
    BY <2>4 DEF f
<1>7. PICK a \in 0 .. MaxNodes, b \in 0 .. MaxNodes:
        a < b /\ w[a].node = w[b].node
  <2>1. x < y \/ y < x
    BY <1>2, <1>6
  <2>. QED
    BY <1>6, <2>1
<1>. DEFINE C == {w[k].node: k \in a .. b - 1}
            X == DOMAIN nodes \ C
<1>8. \A m \in C: m \in Below(nodes) /\ nodes[m].parent \in C
  <2>. SUFFICES ASSUME NEW k \in a .. b - 1
                PROVE  w[k].node \in Below(nodes) /\ nodes[w[k].node].parent \in C
    OBVIOUS
  <2>1. k \in 0 .. MaxNodes /\ k + 1 \in 1 .. MaxNodes /\ k + 1 - 1 = k
        /\ a \in a .. b - 1 /\ (k + 1 \in a .. b - 1 \/ k + 1 = b)
    BY <1>2, <1>7
  <2>2. w[k + 1] = OneUp(nodes, w[k]) /\ w[k].node # Root
    BY <1>1, <1>4, <2>1
  <2>3. w[k + 1].node = nodes[w[k].node].parent
    BY <2>2 DEF OneUp
  <2>4. w[k + 1].node \in C
    BY <1>7, <2>1
  <2>. QED
    BY <1>5, <2>1, <2>3, <2>4
<1>9. w[a].node \in C
  <2>1. a \in a .. b - 1
    BY <1>2, <1>7
  <2>. QED
    BY <2>1
<1>. HIDE DEF C
<1>10. HasChildrenOf(X, nodes)
  BY <1>8 DEF HasChildrenOf, Below
<1>11. Rooted(nodes) /\ Root \in X
  BY <1>8, BelowItself DEF Whole, Rooted, Below
<1>. HIDE DEF X
<1>12. DOMAIN nodes \subseteq X
  BY <1>10, <1>11, BelowIsLeast DEF Rooted
<1>. QED
  BY <1>8, <1>9, <1>12 DEF X, Below

\* A node's key is the last of its path, after those of its parent.
PathsUnfold(nodes) ==
  /\ KeyPath(nodes, Root) = <<>>
  /\ \A n \in DOMAIN nodes: KeyPath(nodes, n) \in Seq(Keys)
  /\ \A n \in Below(nodes):
       /\ Key(nodes[n].title) \in Keys
       /\ KeyPath(nodes, n) =
            KeyPath(nodes, nodes[n].parent) \o <<Key(nodes[n].title)>>

\* Which is so in a whole tree.
LEMMA WholePathsUnfold ==
  ASSUME NEW nodes, Whole(nodes)
  PROVE  PathsUnfold(nodes)
<1>1. MaxNodes \in Nat /\ MaxNodes # 0 /\ Root \in DOMAIN nodes
  BY BoundsAssumption, BelowItself DEF Whole, Rooted
<1>2. ASSUME NEW n \in DOMAIN nodes
      PROVE  KeyPath(nodes, n) \in Seq(Keys)
  <2>1. Place(nodes, WayUp(nodes, n)[MaxNodes])
    BY <1>1, <1>2, WayUpStays
  <2>. QED
    BY <2>1, PathIsTheEnd DEF Place
<1>3. KeyPath(nodes, Root) = <<>>
  <2>. DEFINE w == WayUp(nodes, Root)
              S == {k \in 0 .. MaxNodes: w[k] = [node |-> Root, keys |-> <<>>]}
  <2>1. /\ w[0] = [node |-> Root, keys |-> <<>>]
        /\ \A k \in 1 .. MaxNodes: w[k] = OneUp(nodes, w[k - 1])
    BY WayUpUnfolds
  <2>. HIDE DEF w
  <2>2. 0 \in S
    BY <1>1, <2>1
  <2>3. ASSUME NEW k \in 1 .. MaxNodes, k - 1 \in S
        PROVE  k \in S
    <3>1. w[k - 1].node = Root /\ w[k] = OneUp(nodes, w[k - 1])
      BY <2>1, <2>3
    <3>2. w[k] = w[k - 1]
      BY <3>1 DEF OneUp
    <3>. QED
      BY <2>3, <3>2
  <2>4. \A k \in 0 .. MaxNodes: k \in S
    <3>. HIDE DEF S
    <3>. QED
      BY <1>1, <2>2, <2>3, NumbersReached
  <2>. QED
    BY <1>1, <2>4, PathIsTheEnd DEF w
<1>4. ASSUME NEW n \in Below(nodes)
      PROVE  /\ Key(nodes[n].title) \in Keys
             /\ KeyPath(nodes, n) =
                  KeyPath(nodes, nodes[n].parent) \o <<Key(nodes[n].title)>>
  <2>. DEFINE p == nodes[n].parent
              key == Key(nodes[n].title)
              v == WayUp(nodes, n)
              w == WayUp(nodes, p)
              last == MaxNodes - 1
              S == {k \in 0 .. last: /\ v[k + 1].node = w[k].node
                                     /\ v[k + 1].keys = w[k].keys \o <<key>>}
  <2>1. n \in DOMAIN nodes /\ n # Root /\ p \in DOMAIN nodes /\ nodes[n].title \in AnyTitle
    BY DEF Whole, Consistent, TreeShape, Below
  <2>2. key \in Keys /\ <<key>> \in Seq(Keys)
    BY <2>1 DEF Keys
  <2>3. /\ v[0] = [node |-> n, keys |-> <<>>]
        /\ \A k \in 1 .. MaxNodes: v[k] = OneUp(nodes, v[k - 1])
        /\ \A k \in 0 .. MaxNodes: Place(nodes, v[k])
        /\ v[MaxNodes].node = Root
    BY <2>1, WayUpUnfolds, WayUpStays, WayUpEnds
  <2>4. /\ w[0] = [node |-> p, keys |-> <<>>]
        /\ \A k \in 1 .. MaxNodes: w[k] = OneUp(nodes, w[k - 1])
        /\ \A k \in 0 .. MaxNodes: Place(nodes, w[k])
    BY <2>1, WayUpUnfolds, WayUpStays
  <2>5. last \in Nat /\ last + 1 = MaxNodes /\ last = MaxNodes - 1
    BY <1>1, BoundsAssumption
  <2>6. OneUp(nodes, v[0]) = [node |-> p, keys |-> <<key>> \o <<>>]
    BY <2>1, <2>3 DEF OneUp
  <2>. HIDE DEF v, w, key, p, last
  <2>7. 0 \in S
    <3>1. <<key>> \o <<>> = <<key>> /\ <<>> \o <<key>> = <<key>>
      BY <2>2, ConcatEmptySeq
    <3>2. 1 \in 1 .. MaxNodes /\ 0 \in 0 .. last /\ 1 - 1 = 0 /\ 0 + 1 = 1
      BY <1>1, <2>5
    <3>3. v[1] = [node |-> p, keys |-> <<key>>]
      BY <2>3, <2>6, <3>1, <3>2
    <3>4. v[0 + 1].node = w[0].node /\ v[0 + 1].keys = w[0].keys \o <<key>>
      BY <2>4, <3>1, <3>2, <3>3
    <3>. QED
      BY <3>2, <3>4
  <2>8. ASSUME NEW k \in 1 .. last, k - 1 \in S
        PROVE  k \in S
    <3>1. /\ k \in 1 .. MaxNodes /\ k + 1 \in 1 .. MaxNodes /\ k + 1 - 1 = k
          /\ k - 1 + 1 = k /\ k \in 0 .. last /\ k - 1 \in 0 .. MaxNodes
      BY <2>5
    <3>2. v[k].node = w[k - 1].node /\ v[k].keys = w[k - 1].keys \o <<key>>
      BY <2>8, <3>1
    <3>3. v[k + 1] = OneUp(nodes, v[k]) /\ w[k] = OneUp(nodes, w[k - 1])
      BY <2>3, <2>4, <3>1
    <3>4. CASE w[k - 1].node = Root
      BY <3>1, <3>2, <3>3, <3>4 DEF OneUp
    <3>5. CASE w[k - 1].node # Root
      <4>. DEFINE m == w[k - 1].node
                  up == Key(nodes[m].title)
                  keys == w[k - 1].keys
      <4>1. m \in Below(nodes) /\ keys \in Seq(Keys)
        BY <2>4, <3>1, <3>5 DEF Place, Below
      <4>2. nodes[m].title \in AnyTitle
        BY <4>1 DEF Whole, Consistent, TreeShape, Below
      <4>3. up \in Keys
        BY <4>2 DEF Keys
      <4>4. /\ v[k + 1].node = nodes[m].parent /\ w[k].node = nodes[m].parent
            /\ v[k + 1].keys = <<up>> \o (keys \o <<key>>)
            /\ w[k].keys = <<up>> \o keys
        <5>1. /\ v[k].node = m /\ v[k].keys = keys \o <<key>> /\ m # Root
              /\ w[k - 1].node = m /\ w[k - 1].keys = keys
          BY <3>2, <3>5
        <5>2. OneUp(nodes, v[k]) = [node |-> nodes[m].parent,
                                    keys |-> <<up>> \o (keys \o <<key>>)]
          BY <5>1 DEF OneUp
        <5>3. OneUp(nodes, w[k - 1]) = [node |-> nodes[m].parent,
                                        keys |-> <<up>> \o keys]
          BY <5>1 DEF OneUp
        <5>. DEFINE below == <<up>> \o (keys \o <<key>>)
                    passed == <<up>> \o keys
                    parent == nodes[m].parent
        <5>4. v[k + 1] = [node |-> parent, keys |-> below]
          BY <3>3, <5>2
        <5>5. w[k] = [node |-> parent, keys |-> passed]
          BY <3>3, <5>3
        <5>. HIDE DEF below, passed, parent
        <5>6. /\ v[k + 1].node = parent /\ w[k].node = parent
              /\ v[k + 1].keys = below /\ w[k].keys = passed
          BY <5>4, <5>5
        <5>. QED
          BY <5>6 DEF below, passed, parent
      <4>. HIDE DEF up, keys
      <4>5. <<up>> \in Seq(Keys)
        BY <4>3
      <4>6. (<<up>> \o keys) \o <<key>> = <<up>> \o (keys \o <<key>>)
        BY <2>2, <4>1, <4>5, ConcatAssociative
      <4>. QED
        BY <3>1, <4>4, <4>6
    <3>. QED
      BY <3>4, <3>5
  <2>9. last \in S
    <3>. HIDE DEF S
    <3>1. \A k \in 0 .. last: k \in S
      BY <2>5, <2>7, <2>8, NumbersReached
    <3>. QED
      BY <2>5, <3>1
  <2>10. v[MaxNodes].keys = w[last].keys \o <<key>> /\ w[last].node = Root
    BY <2>3, <2>5, <2>9
  <2>11. w[MaxNodes] = w[last]
    <3>1. MaxNodes \in 1 .. MaxNodes
      BY <1>1
    <3>. QED
      BY <2>4, <2>5, <2>10, <3>1 DEF OneUp
  <2>. QED
    BY <2>2, <2>10, <2>11, PathIsTheEnd DEF v, w, key, p
<1>. QED
  BY <1>2, <1>3, <1>4 DEF PathsUnfold

\* A prefix, element by element.
LEMMA PrefixByElement ==
  ASSUME NEW S, NEW a \in Seq(S), NEW b \in Seq(S)
  PROVE  IsPrefix(a, b) <=>
           Len(a) <= Len(b) /\ \A i \in 1 .. Len(a): a[i] = b[i]
<1>1. Len(a) \in Nat /\ Len(b) \in Nat
  BY LenProperties
<1>2. CASE Len(a) <= Len(b)
  <2>. DEFINE c == SubSeq(b, 1, Len(a))
  <2>1. SubSeq(a, 1, Len(a)) = a
    BY SubSeqFull
  <2>2. c \in Seq(S) /\ Len(c) = Len(a) /\ \A i \in 1 .. Len(a): c[i] = b[i]
    <3>1. \A i \in 1 .. Len(a): b[i] \in S
      BY <1>1, <1>2, ElementOfSeq
    <3>2. 1 \in Int /\ Len(a) \in Int
      BY <1>1
    <3>. QED
      BY <1>1, <3>1, <3>2, SubSeqProperties
  <2>. HIDE DEF c
  <2>3. a = c <=> \A i \in 1 .. Len(a): a[i] = b[i]
    <3>1. ASSUME \A i \in 1 .. Len(a): a[i] = b[i]
          PROVE  a = c
      BY <2>2, <3>1, SeqEqual
    <3>. QED
      BY <2>2, <3>1
  <2>. QED
    BY <1>2, <2>1, <2>3 DEF IsPrefix, c
<1>3. CASE ~(Len(a) <= Len(b))
  BY <1>3 DEF IsPrefix
<1>. QED
  BY <1>2, <1>3

\* Sequences that end with one more key.
LEMMA OneMoreKey ==
  ASSUME NEW S, NEW a \in Seq(S), NEW b \in Seq(S), NEW x \in S, NEW y \in S
  PROVE  /\ a \o <<x>> \in Seq(S)
         /\ a \o <<x>> # <<>>
         /\ a \o <<x>> = b \o <<y>> <=> a = b /\ x = y
<1>1. Append(a, x) = a \o <<x>> /\ Append(b, y) = b \o <<y>>
  BY AppendIsConcat
<1>. QED
  BY <1>1, AppendProperties, AppendInjective

\* What begins a sequence with one more key, and is not all of it, begins the
\* sequence without that key.
LEMMA PrefixOfMore ==
  ASSUME NEW S, NEW a \in Seq(S), NEW b \in Seq(S), NEW y \in S
  PROVE  IsPrefix(a, b \o <<y>>) <=> IsPrefix(a, b) \/ a = b \o <<y>>
<1>1. Len(a) \in Nat /\ Len(b) \in Nat
  BY LenProperties
<1>2. Append(b, y) = b \o <<y>>
  BY AppendIsConcat
<1>. DEFINE c == b \o <<y>>
<1>4. /\ c \in Seq(S) /\ Len(c) = Len(b) + 1
      /\ \A i \in 1 .. Len(b): c[i] = b[i]
  BY <1>2, AppendProperties
<1>. HIDE DEF c
<1>5. IsPrefix(a, c) <=> IsPrefix(a, b) \/ a = c
  <2>1. IsPrefix(a, c) <=> Len(a) <= Len(c) /\ \A i \in 1 .. Len(a): a[i] = c[i]
    BY <1>4, PrefixByElement
  <2>2. IsPrefix(a, b) <=> Len(a) <= Len(b) /\ \A i \in 1 .. Len(a): a[i] = b[i]
    BY PrefixByElement
  <2>3. CASE Len(a) <= Len(b)
    BY <1>1, <1>4, <2>1, <2>2, <2>3
  <2>4. CASE ~(Len(a) <= Len(b))
    <3>1. ASSUME IsPrefix(a, c)
          PROVE  a = c
      <4>1. Len(a) = Len(c)
        BY <1>1, <1>4, <2>1, <2>4, <3>1
      <4>. QED
        BY <1>4, <2>1, <3>1, <4>1, SeqEqual
    <3>2. ASSUME a = c
          PROVE  IsPrefix(a, c)
      BY <1>1, <2>1, <3>2
    <3>. QED
      BY <2>2, <2>4, <3>1, <3>2
  <2>. QED
    BY <2>3, <2>4
<1>. QED
  BY <1>5 DEF c

\* A sequence begins itself, and only the empty one begins the empty one.
LEMMA PrefixOfItself ==
  ASSUME NEW S, NEW a \in Seq(S), NEW e \in Seq(S), e = <<>>
  PROVE  IsPrefix(a, a) /\ (IsPrefix(a, e) <=> a = e)
<1>1. Len(a) \in Nat /\ Len(e) = 0 /\ (a # e => Len(a) # 0)
  BY LenProperties, EmptySeq
<1>2. IsPrefix(a, a)
  <2>1. Len(a) <= Len(a) /\ \A i \in 1 .. Len(a): a[i] = a[i]
    BY <1>1
  <2>. QED
    BY <2>1, PrefixByElement
<1>3. IsPrefix(a, e) => a = e
  <2>1. IsPrefix(a, e) => Len(a) <= Len(e)
    BY DEF IsPrefix
  <2>. QED
    BY <1>1, <2>1
<1>. QED
  BY <1>2, <1>3

\* What the root has, and every child of a node that has it, the tree has.
LEMMA TreeInduction ==
  ASSUME NEW nodes, Rooted(nodes), NEW S, Root \in S,
         \A m \in Below(nodes): nodes[m].parent \in S => m \in S
  PROVE  \A m \in DOMAIN nodes: m \in S
<1>1. HasChildrenOf(S, nodes)
  BY DEF HasChildrenOf
<1>. QED
  BY <1>1, BelowIsLeast DEF Rooted

\* No two nodes have one path.
LEMMA PathsTell ==
  ASSUME NEW nodes, Whole(nodes), NEW a \in DOMAIN nodes, NEW b \in DOMAIN nodes,
         KeyPath(nodes, a) = KeyPath(nodes, b)
  PROVE  a = b
<1>. DEFINE S == {n \in DOMAIN nodes: \A m \in DOMAIN nodes:
                    KeyPath(nodes, m) = KeyPath(nodes, n) => m = n}
<1>1. PathsUnfold(nodes) /\ Rooted(nodes) /\ Consistent(nodes) /\ Root \in DOMAIN nodes
  BY WholePathsUnfold, BelowItself DEF Whole, Rooted
<1>2. \A n \in Below(nodes): /\ n \in DOMAIN nodes /\ nodes[n].parent \in DOMAIN nodes
                             /\ n # Root
  BY <1>1 DEF Consistent, TreeShape, Below
<1>3. \A n \in DOMAIN nodes: KeyPath(nodes, n) = <<>> => n = Root
  <2>. SUFFICES ASSUME NEW n \in Below(nodes)
                PROVE  KeyPath(nodes, n) # <<>>
    BY DEF Below
  <2>1. /\ KeyPath(nodes, nodes[n].parent) \in Seq(Keys)
        /\ Key(nodes[n].title) \in Keys
        /\ KeyPath(nodes, n) =
             KeyPath(nodes, nodes[n].parent) \o <<Key(nodes[n].title)>>
    BY <1>1, <1>2 DEF PathsUnfold
  <2>. QED
    BY <2>1, OneMoreKey
<1>4. Root \in S
  BY <1>1, <1>3 DEF PathsUnfold
<1>5. ASSUME NEW n \in Below(nodes), nodes[n].parent \in S
      PROVE  n \in S
  <2>. SUFFICES ASSUME NEW m \in DOMAIN nodes, KeyPath(nodes, m) = KeyPath(nodes, n)
                PROVE  m = n
    BY <1>2
  <2>1. m # Root
    BY <1>1, <1>2, <1>3 DEF PathsUnfold
  <2>2. m \in Below(nodes)
    BY <2>1 DEF Below
  <2>. DEFINE p == nodes[n].parent
              q == nodes[m].parent
  <2>3. /\ KeyPath(nodes, p) \in Seq(Keys) /\ KeyPath(nodes, q) \in Seq(Keys)
        /\ Key(nodes[n].title) \in Keys /\ Key(nodes[m].title) \in Keys
        /\ KeyPath(nodes, n) = KeyPath(nodes, p) \o <<Key(nodes[n].title)>>
        /\ KeyPath(nodes, m) = KeyPath(nodes, q) \o <<Key(nodes[m].title)>>
    BY <1>1, <1>2, <2>2 DEF PathsUnfold
  <2>4. KeyPath(nodes, p) = KeyPath(nodes, q) /\ Key(nodes[n].title) = Key(nodes[m].title)
    BY <2>3, OneMoreKey
  <2>5. p = q
    BY <1>2, <1>5, <2>2, <2>4
  <2>6. GetChild(nodes, p, nodes[n].title) = n /\ GetChild(nodes, p, nodes[n].title) = m
    BY <1>1, <1>2, <2>2, <2>4, <2>5, ChildOfKey
  <2>. QED
    BY <2>6
<1>6. \A n \in DOMAIN nodes: n \in S
  <2>. HIDE DEF S
  <2>. QED
    BY <1>1, <1>4, <1>5, TreeInduction
<1>. QED
  BY <1>6

\* A node is at or below another if the other's path begins its path.
LEMMA PrefixIsAbove ==
  ASSUME NEW nodes, Whole(nodes), NEW a \in DOMAIN nodes, NEW m \in DOMAIN nodes
  PROVE  IsPrefix(KeyPath(nodes, a), KeyPath(nodes, m)) <=> m \in NodesBelow(nodes, a)
<1>1. /\ PathsUnfold(nodes) /\ Rooted(nodes) /\ Root \in DOMAIN nodes
      /\ \A n \in Below(nodes): n \in DOMAIN nodes /\ nodes[n].parent \in DOMAIN nodes
      /\ a \in NodesBelow(nodes, a) /\ HasChildrenOf(NodesBelow(nodes, a), nodes)
  BY WholePathsUnfold, BelowItself DEF Whole, Rooted, Consistent, TreeShape, Below
<1>2. \A n \in DOMAIN nodes: KeyPath(nodes, n) \in Seq(Keys)
  BY <1>1 DEF PathsUnfold
<1>3. ASSUME NEW n \in Below(nodes)
      PROVE  IsPrefix(KeyPath(nodes, a), KeyPath(nodes, n)) <=>
               \/ IsPrefix(KeyPath(nodes, a), KeyPath(nodes, nodes[n].parent))
               \/ KeyPath(nodes, a) = KeyPath(nodes, n)
  <2>. DEFINE key == Key(nodes[n].title)
  <2>1. /\ key \in Keys
        /\ KeyPath(nodes, n) = KeyPath(nodes, nodes[n].parent) \o <<key>>
    BY <1>1 DEF PathsUnfold
  <2>. DEFINE x == KeyPath(nodes, a)
              y == KeyPath(nodes, nodes[n].parent)
  <2>2. x \in Seq(Keys) /\ y \in Seq(Keys)
    BY <1>1, <1>2
  <2>. HIDE DEF key, x, y
  <2>3. IsPrefix(x, y \o <<key>>) <=> IsPrefix(x, y) \/ x = y \o <<key>>
    BY <2>1, <2>2, PrefixOfMore
  <2>. QED
    BY <2>1, <2>3 DEF x, y
<1>a. /\ IsPrefix(KeyPath(nodes, a), KeyPath(nodes, a))
      /\ IsPrefix(KeyPath(nodes, a), <<>>) <=> KeyPath(nodes, a) = <<>>
  <2>. DEFINE x == KeyPath(nodes, a)
              e == <<>>
  <2>1. x \in Seq(Keys) /\ e \in Seq(Keys) /\ e = <<>>
    BY <1>2, EmptySeq
  <2>. HIDE DEF x, e
  <2>2. IsPrefix(x, x) /\ (IsPrefix(x, e) <=> x = e)
    BY <2>1, PrefixOfItself
  <2>. QED
    BY <2>1, <2>2 DEF x
<1>. DEFINE T == {n \in DOMAIN nodes: IsPrefix(KeyPath(nodes, a), KeyPath(nodes, n))}
            S == {n \in DOMAIN nodes: IsPrefix(KeyPath(nodes, a), KeyPath(nodes, n))
                                        => n \in NodesBelow(nodes, a)}
<1>4. NodesBelow(nodes, a) \subseteq T
  <2>1. HasChildrenOf(T, nodes)
    BY <1>1, <1>3 DEF HasChildrenOf
  <2>3. a \in T
    BY <1>a
  <2>. HIDE DEF T
  <2>. QED
    BY <2>1, <2>3, BelowIsLeast
<1>5. Root \in S
  <2>. SUFFICES ASSUME IsPrefix(KeyPath(nodes, a), KeyPath(nodes, Root))
                PROVE  Root \in NodesBelow(nodes, a)
    BY <1>1
  <2>2. KeyPath(nodes, a) = KeyPath(nodes, Root)
    BY <1>1, <1>a DEF PathsUnfold
  <2>3. a = Root
    BY <1>1, <2>2, PathsTell
  <2>. QED
    BY <1>1, <2>3
<1>6. ASSUME NEW n \in Below(nodes), nodes[n].parent \in S
      PROVE  n \in S
  <2>. SUFFICES ASSUME IsPrefix(KeyPath(nodes, a), KeyPath(nodes, n))
                PROVE  n \in NodesBelow(nodes, a)
    BY <1>1
  <2>1. CASE IsPrefix(KeyPath(nodes, a), KeyPath(nodes, nodes[n].parent))
    BY <1>1, <1>6, <2>1 DEF HasChildrenOf
  <2>2. CASE KeyPath(nodes, a) = KeyPath(nodes, n)
    BY <1>1, <2>2, PathsTell
  <2>. QED
    BY <1>3, <2>1, <2>2
<1>7. \A n \in DOMAIN nodes: n \in S
  <2>. HIDE DEF S
  <2>. QED
    BY <1>1, <1>5, <1>6, TreeInduction
<1>. QED
  BY <1>4, <1>7

\* Nodes keep their paths in a tree with more nodes.
LEMMA PathsStay ==
  ASSUME NEW nodes, Whole(nodes), NEW more, Whole(more), DOMAIN nodes \subseteq DOMAIN more,
         \A m \in DOMAIN nodes: /\ more[m].title = nodes[m].title
                                /\ more[m].parent = nodes[m].parent
  PROVE  \A m \in DOMAIN nodes: KeyPath(nodes, m) = KeyPath(more, m)
<1>. DEFINE S == {m \in DOMAIN nodes: KeyPath(nodes, m) = KeyPath(more, m)}
<1>1. /\ PathsUnfold(nodes) /\ PathsUnfold(more) /\ Rooted(nodes) /\ Root \in DOMAIN nodes
      /\ Below(nodes) \subseteq Below(more)
  BY WholePathsUnfold, BelowItself DEF Whole, Rooted, Below
<1>2. Root \in S
  BY <1>1 DEF PathsUnfold
<1>3. ASSUME NEW m \in Below(nodes), nodes[m].parent \in S
      PROVE  m \in S
  <2>. DEFINE key == Key(nodes[m].title)
              p == nodes[m].parent
  <2>1. /\ m \in DOMAIN nodes /\ more[m].title = nodes[m].title
        /\ more[m].parent = p /\ m \in Below(more)
    BY <1>1 DEF Below
  <2>2. KeyPath(nodes, m) = KeyPath(nodes, p) \o <<key>>
    BY <1>1 DEF PathsUnfold
  <2>3. KeyPath(more, m) = KeyPath(more, p) \o <<key>>
    BY <1>1, <2>1 DEF PathsUnfold
  <2>4. KeyPath(nodes, p) = KeyPath(more, p)
    BY <1>3
  <2>. QED
    BY <2>1, <2>2, <2>3, <2>4
<1>4. \A m \in DOMAIN nodes: m \in S
  <2>. HIDE DEF S
  <2>. QED
    BY <1>1, <1>2, <1>3, TreeInduction
<1>. QED
  BY <1>4

(***************************************************************************)
(* The entries that come with a node, and those that go with one.          *)
(***************************************************************************)

\* There is nothing below a file.
LEMMA NothingBelowFile ==
  ASSUME NEW nodes, Whole(nodes), NEW e \in Entries(nodes), NEW m \in DOMAIN nodes,
         IsPrefix(e, KeyPath(nodes, m))
  PROVE  e = KeyPath(nodes, m) /\ nodes[m].type = "File"
<1>1. PICK f \in DOMAIN nodes: nodes[f].type = "File" /\ e = KeyPath(nodes, f)
  BY DEF Entries
<1>2. m \in NodesBelow(nodes, f)
  BY <1>1, PrefixIsAbove
<1>3. HasChildrenOf({f}, nodes)
  BY <1>1 DEF HasChildrenOf, Whole, FilesAreLeaves
<1>4. m = f
  BY <1>2, <1>3, BelowIsLeast
<1>. QED
  BY <1>1, <1>4

\* The path of a created node, and the entries after it: a file adds its own,
\* and no other is below it.
EntryCreated(s, path, type, n, new) ==
  /\ n \in DOMAIN new.tree
  /\ KeyPath(new.tree, n) = path
  /\ path \notin Entries(s.tree)
  /\ type = "Folder" => Entries(new.tree) = Entries(s.tree)
  /\ type = "File" => /\ Entries(new.tree) = Entries(s.tree) \union {path}
                      /\ \A e \in Entries(s.tree): ~IsPrefix(path, e)

\* What a created node does to the paths and to the entries.
LEMMA CreatedEntries ==
  ASSUME NEW s, GoodScene(s), NEW p \in DOMAIN s.tree, NEW title,
         NEW type \in {"Folder", "File"}, NEW n, NEW new,
         CreationIsGood(s, p, title, type, n, new)
  PROVE  EntryCreated(s, KeyPath(s.tree, p) \o <<Key(title)>>, type, n, new)
<1>. DEFINE nodes == s.tree
            more == new.tree
            path == KeyPath(more, n)
<1>1. Whole(nodes) /\ Whole(more)
  BY DEF GoodScene, CreationIsGood
<1>2. /\ DOMAIN more = DOMAIN nodes \union {n}
      /\ n \notin DOMAIN nodes /\ n \in 1 .. MaxNodes
      /\ \A m \in DOMAIN nodes: /\ more[m].type = nodes[m].type
                                /\ more[m].title = nodes[m].title
                                /\ more[m].parent = nodes[m].parent
      /\ more[n].type = type /\ more[n].title = title /\ more[n].parent = p
      /\ p \in DOMAIN nodes
  BY DEF CreationIsGood, NodeCreated
<1>3. n \in Below(more)
  BY <1>2, BoundsAssumption DEF Below, Root
<1>. HIDE DEF nodes, more
<1>4. \A m \in DOMAIN nodes: KeyPath(nodes, m) = KeyPath(more, m)
  BY <1>1, <1>2, PathsStay
<1>5. path = KeyPath(nodes, p) \o <<Key(title)>>
  <2>1. PathsUnfold(more)
    BY <1>1, WholePathsUnfold
  <2>2. path = KeyPath(more, p) \o <<Key(title)>>
    BY <1>2, <1>3, <2>1 DEF PathsUnfold
  <2>. QED
    BY <1>2, <1>4, <2>2
<1>6. \A m \in DOMAIN nodes: KeyPath(nodes, m) # path
  BY <1>1, <1>2, <1>4, PathsTell
<1>. HIDE DEF path
<1>7. path \notin Entries(nodes)
  BY <1>6 DEF Entries
<1>8. ASSUME NEW e
      PROVE  e \in Entries(more) <=> e \in Entries(nodes) \/ (type = "File" /\ e = path)
  <2>1. ASSUME e \in Entries(more)
        PROVE  e \in Entries(nodes) \/ (type = "File" /\ e = path)
    <3>1. PICK m \in DOMAIN more: more[m].type = "File" /\ e = KeyPath(more, m)
      BY <2>1 DEF Entries
    <3>. QED
      BY <1>2, <1>4, <3>1 DEF Entries, path
  <2>2. ASSUME e \in Entries(nodes)
        PROVE  e \in Entries(more)
    <3>1. PICK m \in DOMAIN nodes: nodes[m].type = "File" /\ e = KeyPath(nodes, m)
      BY <2>2 DEF Entries
    <3>. QED
      BY <1>2, <1>4, <3>1 DEF Entries
  <2>3. ASSUME type = "File", e = path
        PROVE  e \in Entries(more)
    BY <1>2, <2>3 DEF Entries, path
  <2>. QED
    BY <2>1, <2>2, <2>3
<1>9. type = "Folder" => Entries(more) = Entries(nodes)
  BY <1>8
<1>10. type = "File" => Entries(more) = Entries(nodes) \union {path}
  BY <1>8
<1>11. ASSUME type = "File", NEW e \in Entries(nodes), IsPrefix(path, e)
       PROVE  FALSE
  <2>1. e \in Entries(more) /\ path \in Entries(more)
    BY <1>10, <1>11
  <2>2. PICK m \in DOMAIN more: e = KeyPath(more, m)
    BY <2>1 DEF Entries
  <2>3. path = e
    BY <1>1, <1>11, <2>1, <2>2, NothingBelowFile
  <2>. QED
    BY <1>7, <1>11, <2>3
<1>12. n \in DOMAIN more /\ KeyPath(more, n) = path
  BY <1>2 DEF path
<1>13. EntryCreated(s, path, type, n, new)
  <2>1. /\ n \in DOMAIN new.tree /\ KeyPath(new.tree, n) = path
        /\ path \notin Entries(s.tree)
    BY <1>7, <1>12 DEF nodes, more
  <2>2. /\ type = "Folder" => Entries(new.tree) = Entries(s.tree)
        /\ type = "File" => Entries(new.tree) = Entries(s.tree) \union {path}
    BY <1>9, <1>10 DEF nodes, more
  <2>3. type = "File" => \A e \in Entries(s.tree): ~IsPrefix(path, e)
    BY <1>11 DEF nodes
  <2>. QED
    BY <2>1, <2>2, <2>3 DEF EntryCreated
<1>14. path = KeyPath(s.tree, p) \o <<Key(title)>>
  BY <1>5 DEF nodes
<1>. QED
  BY <1>13, <1>14

\* With a node go the entries that begin with its path, and no others.
EntriesRemoved(s, path, new) ==
  /\ \A m \in DOMAIN new.tree: KeyPath(new.tree, m) = KeyPath(s.tree, m)
  /\ Entries(new.tree) = {e \in Entries(s.tree): ~IsPrefix(path, e)}

\* This is what removeNode does to the paths and to the entries.
LEMMA RemovedEntries ==
  ASSUME NEW s, GoodScene(s), NEW n \in Below(s.tree),
         NEW new, new = RemoveNode(s, n)
  PROVE  EntriesRemoved(s, KeyPath(s.tree, n), new)
<1>. DEFINE nodes == s.tree
            left == new.tree
            D == NodesBelow(nodes, n)
<1>1. Whole(nodes) /\ Whole(left) /\ LeftOver(nodes, D, left) /\ n \in DOMAIN nodes
  BY RemovedIsGood DEF GoodScene, NodeRemoved, Below
<1>2. n \in Below(nodes)
  OBVIOUS
<1>. HIDE DEF nodes, left, D
<1>3. \A m \in DOMAIN left: KeyPath(left, m) = KeyPath(nodes, m)
  <2>1. DOMAIN left \subseteq DOMAIN nodes
    BY <1>1 DEF LeftOver
  <2>2. \A m \in DOMAIN left: /\ nodes[m].title = left[m].title
                              /\ nodes[m].parent = left[m].parent
    BY <1>1 DEF LeftOver
  <2>. QED
    BY <1>1, <2>1, <2>2, PathsStay
<1>4. \A m \in DOMAIN nodes: IsPrefix(KeyPath(nodes, n), KeyPath(nodes, m)) <=> m \in D
  BY <1>1, PrefixIsAbove DEF D
<1>5. ASSUME NEW e
      PROVE  e \in Entries(left) <=>
               e \in Entries(nodes) /\ ~IsPrefix(KeyPath(nodes, n), e)
  <2>1. ASSUME e \in Entries(left)
        PROVE  e \in Entries(nodes) /\ ~IsPrefix(KeyPath(nodes, n), e)
    <3>1. PICK m \in DOMAIN left: left[m].type = "File" /\ e = KeyPath(left, m)
      BY <2>1 DEF Entries
    <3>2. /\ m \in DOMAIN nodes /\ m \notin D /\ nodes[m].type = "File"
          /\ e = KeyPath(nodes, m)
      BY <1>1, <1>3, <3>1 DEF LeftOver
    <3>3. ~IsPrefix(KeyPath(nodes, n), e)
      BY <1>4, <3>2
    <3>. QED
      BY <3>2, <3>3 DEF Entries
  <2>2. ASSUME e \in Entries(nodes), ~IsPrefix(KeyPath(nodes, n), e)
        PROVE  e \in Entries(left)
    <3>1. PICK m \in DOMAIN nodes: nodes[m].type = "File" /\ e = KeyPath(nodes, m)
      BY <2>2 DEF Entries
    <3>2. m \notin D
      BY <1>4, <2>2, <3>1
    <3>3. m \in DOMAIN left /\ left[m].type = "File" /\ e = KeyPath(left, m)
      BY <1>1, <1>3, <3>1, <3>2 DEF LeftOver
    <3>. QED
      BY <3>3 DEF Entries
  <2>. QED
    BY <2>1, <2>2
<1>6. Entries(left) = {e \in Entries(nodes): ~IsPrefix(KeyPath(nodes, n), e)}
  BY <1>5
<1>. QED
  BY <1>3, <1>6 DEF nodes, left, EntriesRemoved

(***************************************************************************)
(* One segment of a path that is inserted, with each answer.               *)
(***************************************************************************)

\* A segment that is created, unless there is no room for it.
LEMMA CreatedSegment ==
  ASSUME NEW d, d = [scene |-> d.scene, node |-> d.node], IsScene(d.scene),
         NEW s, GoodScene(s), s.outcome = "done",
         d.node \in DOMAIN s.tree, s.tree[d.node].type # "File",
         NEW title, title.copy <= MaxCopy => title \in AllTitles,
         ~(title.copy <= MaxCopy) => title.copy > MaxCopy,
         ~HasChild(s.tree, d.node, title), NEW type \in {"Folder", "File"},
         NEW new, new = Created(d, s, title, type)
  PROVE  /\ new.scene.outcome \in {"done", "full"}
         /\ new.scene.outcome = "done" =>
              CreationIsGood(s, d.node, title, type, new.node, new.scene)
<1>1. CASE FreeNodes(s) = {} \/ title.copy > MaxCopy
  <2>1. new = [d EXCEPT !.scene.outcome = "full"]
    BY <1>1 DEF Created
  <2>2. new.scene.outcome = "full"
    BY <2>1 DEF IsScene
  <2>. QED
    BY <2>2
<1>2. CASE ~(FreeNodes(s) = {} \/ title.copy > MaxCopy)
  <2>. DEFINE e == CreateNode(s, d.node, title, type)
              n == FreshNode(s)
  <2>1. new = [scene |-> e, node |-> n]
    BY <1>2 DEF Created
  <2>2. e = CreateNode(s, d.node, title, type) /\ n = FreshNode(s)
    OBVIOUS
  <2>. HIDE DEF e, n
  <2>3. title \in AllTitles /\ FreeNodes(s) # {}
    BY <1>2
  <2>4. CreationIsGood(s, d.node, title, type, n, e)
    BY <2>2, <2>3, CreatedIsGood
  <2>5. e.outcome = "done"
    BY <2>4 DEF CreationIsGood, NodeCreated
  <2>. QED
    BY <2>1, <2>4, <2>5
<1>. QED
  BY <1>1, <1>2

\* What is in the way of a segment, in the tree it has got to.
InTheWay(d, title) == GetChild(d.scene.tree, d.node, title)

\* What is known of it.
LEMMA WhoIsInTheWay ==
  ASSUME NEW c, NEW d, OnTheWay(c, d), AtFolder(d), d.scene.outcome = "done",
         NEW title \in Titles, NEW existing, existing = InTheWay(d, title)
  PROVE  /\ GoodScene(d.scene) /\ Whole(d.scene.tree) /\ IsScene(d.scene)
         /\ d = [scene |-> d.scene, node |-> d.node]
         /\ d.node \in DOMAIN d.scene.tree
         /\ d.scene.tree[d.node].type # "File"
         /\ title.copy <= MaxCopy /\ title \in AllTitles /\ Key(title) \in Keys
         /\ KeyPath(d.scene.tree, d.node) \in Seq(Keys)
         /\ existing = None => ~HasChild(d.scene.tree, d.node, title)
         /\ existing # None =>
              /\ existing \in Below(d.scene.tree)
              /\ d.scene.tree[existing].parent = d.node
              /\ KeyPath(d.scene.tree, existing) =
                   KeyPath(d.scene.tree, d.node) \o <<Key(title)>>
<1>1. /\ GoodScene(d.scene) /\ Whole(d.scene.tree) /\ IsScene(d.scene)
      /\ Consistent(d.scene.tree)
      /\ d = [scene |-> d.scene, node |-> d.node]
      /\ d.node \in NodesBelow(d.scene.tree, c.node) /\ c.node \in DOMAIN d.scene.tree
  BY DEF OnTheWay, GoodScene, Whole
<1>2. d.node \in DOMAIN d.scene.tree
  BY <1>1, BelowIsThere
<1>3. d.scene.tree[d.node].type # "File"
  BY DEF AtFolder
<1>4. title.copy <= MaxCopy /\ title \in AllTitles /\ Key(title) \in Keys
  <2>1. title = CopyTitle(title, 0) /\ CopyTitle(title, 0).copy = 0 /\ 0 <= MaxCopy
    BY CopiesAreTitles, BoundsAssumption
  <2>2. title \in AllTitles /\ title \in AnyTitle /\ title.copy = 0
    BY <2>1, CopiesAreTitles
  <2>. QED
    BY <2>1, <2>2 DEF Keys
<1>. DEFINE nodes == d.scene.tree
            node == d.node
<1>5. existing = None => ~HasChild(nodes, node, title)
  BY <1>1, <1>2, ChildIsFound DEF InTheWay
<1>6. PathsUnfold(nodes)
  BY <1>1, WholePathsUnfold
<1>7. ASSUME existing # None
      PROVE  /\ existing \in Below(nodes)
             /\ nodes[existing].parent = node
             /\ KeyPath(nodes, existing) = KeyPath(nodes, node) \o <<Key(title)>>
  <2>1. /\ existing \in Below(nodes)
        /\ nodes[existing].parent = node
        /\ Key(nodes[existing].title) = Key(title)
    BY <1>1, <1>2, <1>7, ChildOfKey DEF InTheWay
  <2>. HIDE DEF nodes, node
  <2>2. KeyPath(nodes, existing) = KeyPath(nodes, node) \o <<Key(title)>>
    BY <1>6, <2>1 DEF PathsUnfold
  <2>. QED
    BY <2>1, <2>2
<1>8. KeyPath(nodes, node) \in Seq(Keys)
  BY <1>2, <1>6 DEF PathsUnfold
<1>. QED
  BY <1>1, <1>2, <1>3, <1>4, <1>5, <1>7, <1>8

\* A segment does what its answer says, where an answer is needed.
LEMMA PutIsOneOf ==
  ASSUME NEW d, d.scene.outcome = "done", NEW title, NEW type, NEW answer
  PROVE  LET existing == InTheWay(d, title)
             passes == type = "Folder" /\ d.scene.tree[existing].type = "Folder"
             new == Put(d, title, type, answer)
         IN  /\ existing = None => new = Created(d, d.scene, title, type)
             /\ existing # None /\ passes => new = [d EXCEPT !.node = existing]
             /\ existing # None /\ ~passes /\ answer = "Replace" =>
                  new = Created(d, RemoveNode(d.scene, existing), title, type)
             /\ existing # None /\ ~passes /\ answer = "Copy" =>
                  new = Created(d, d.scene, PickTitle(d.scene, d.node, title), type)
             /\ existing # None /\ ~passes /\ answer \notin {"Replace", "Copy"} =>
                  new = [d EXCEPT !.scene.outcome = "thrown"]
BY DEF Put, InTheWay

\* After the removal of who is in the way, nobody is.
LEMMA WayIsCleared ==
  ASSUME NEW s, GoodScene(s), NEW p \in DOMAIN s.tree, NEW title,
         NEW n \in Below(s.tree), n = GetChild(s.tree, p, title), s.tree[n].parent = p,
         NEW r, r = RemoveNode(s, n)
  PROVE  /\ GoodScene(r) /\ r.outcome = s.outcome
         /\ p \in DOMAIN r.tree /\ r.tree[p].type = s.tree[p].type
         /\ ~HasChild(r.tree, p, title)
<1>1. Consistent(s.tree) /\ Rooted(s.tree)
  BY DEF GoodScene, Whole
<1>2. NodeRemoved(s, n, r) /\ GoodScene(r)
  BY RemovedIsGood
<1>3. LeftOver(s.tree, NodesBelow(s.tree, n), r.tree) /\ r.outcome = s.outcome
      /\ Consistent(r.tree)
  BY <1>2 DEF NodeRemoved
<1>4. p \notin NodesBelow(s.tree, n)
  BY <1>1, ParentIsNotBelow
<1>5. p \in DOMAIN r.tree /\ r.tree[p].type = s.tree[p].type
  BY <1>3, <1>4 DEF LeftOver
<1>6. ASSUME HasChild(r.tree, p, title)
      PROVE  FALSE
  <2>1. PICK m \in Below(r.tree): /\ r.tree[m].parent = p
                                  /\ Key(r.tree[m].title) = Key(title)
    BY <1>3, <1>5, <1>6, ChildIsFound, ChildOfKey
  <2>2. /\ m \in Below(s.tree) /\ m \notin NodesBelow(s.tree, n)
        /\ s.tree[m].parent = p
        /\ Key(s.tree[m].title) = Key(title)
    BY <1>3, <2>1 DEF LeftOver, Below
  <2>3. n = m
    BY <1>1, <2>2, ChildOfKey
  <2>. QED
    BY <2>2, <2>3, BelowItself
<1>. QED
  BY <1>2, <1>3, <1>5, <1>6

\* A segment that replaces what is in its way leads to its own path.
SegmentReplaced(d, title, type, new) ==
  LET path == KeyPath(d.scene.tree, d.node) \o <<Key(title)>>
      old  == Entries(d.scene.tree)
  IN  /\ new.scene.outcome \in {"done", "full"}
      /\ new.scene.outcome = "done" =>
           /\ KeyPath(new.scene.tree, new.node) = path
           /\ type = "Folder" => Entries(new.scene.tree) = {e \in old: e # path}
           /\ type = "File" => Entries(new.scene.tree) =
                                 {e \in old: ~IsPrefix(path, e)} \union {path}

\* So it does with the answer to replace.
LEMMA ReplacedSegment ==
  ASSUME NEW c, NEW d, OnTheWay(c, d), AtFolder(d), d.scene.outcome = "done",
         NEW title \in Titles, NEW type \in {"Folder", "File"},
         NEW new, new = Put(d, title, type, "Replace")
  PROVE  SegmentReplaced(d, title, type, new)
<1>. DEFINE s == d.scene
            node == d.node
            existing == InTheWay(d, title)
            path == KeyPath(s.tree, node) \o <<Key(title)>>
            old == Entries(s.tree)
            passes == type = "Folder" /\ s.tree[existing].type = "Folder"
            r == RemoveNode(s, existing)
<1>1. /\ GoodScene(s) /\ Whole(s.tree) /\ IsScene(s)
      /\ d = [scene |-> s, node |-> node]
      /\ node \in DOMAIN s.tree /\ s.tree[node].type # "File"
      /\ title.copy <= MaxCopy /\ title \in AllTitles
      /\ existing = None => ~HasChild(s.tree, node, title)
      /\ existing # None => /\ existing \in Below(s.tree)
                            /\ s.tree[existing].parent = node
                            /\ KeyPath(s.tree, existing) = path
  BY WhoIsInTheWay
<1>2. /\ existing = None => new = Created(d, s, title, type)
      /\ existing # None /\ passes => new = [d EXCEPT !.node = existing]
      /\ existing # None /\ ~passes => new = Created(d, r, title, type)
  BY PutIsOneOf
<1>3. /\ r = RemoveNode(s, existing) /\ existing = GetChild(s.tree, node, title)
      /\ s.outcome = "done" /\ s = d.scene /\ node = d.node
      /\ passes <=> type = "Folder" /\ s.tree[existing].type = "Folder"
  BY DEF InTheWay
<1>4. SegmentReplaced(d, title, type, new) <=>
        /\ new.scene.outcome \in {"done", "full"}
        /\ new.scene.outcome = "done" =>
             /\ KeyPath(new.scene.tree, new.node) = path
             /\ type = "Folder" => Entries(new.scene.tree) = {e \in old: e # path}
             /\ type = "File" => Entries(new.scene.tree) =
                                   {e \in old: ~IsPrefix(path, e)} \union {path}
  BY DEF SegmentReplaced
<1>5. path = KeyPath(s.tree, node) \o <<Key(title)>> /\ old = Entries(s.tree)
  OBVIOUS
<1>. HIDE DEF s, node, existing, path, old, passes, r
\* What is created, in the tree that is there or in what the removal leaves.
<1>6. ASSUME NEW t, GoodScene(t), t.outcome = "done", node \in DOMAIN t.tree,
             t.tree[node].type # "File", ~HasChild(t.tree, node, title),
             KeyPath(t.tree, node) = KeyPath(s.tree, node),
             new = Created(d, t, title, type)
      PROVE  /\ new.scene.outcome \in {"done", "full"}
             /\ new.scene.outcome = "done" =>
                  /\ KeyPath(new.scene.tree, new.node) = path
                  /\ path \notin Entries(t.tree)
                  /\ type = "Folder" => Entries(new.scene.tree) = Entries(t.tree)
                  /\ type = "File" =>
                       /\ Entries(new.scene.tree) = Entries(t.tree) \union {path}
                       /\ \A e \in Entries(t.tree): ~IsPrefix(path, e)
  <2>1. title.copy <= MaxCopy => title \in AllTitles
    BY <1>1
  <2>2. ~(title.copy <= MaxCopy) => title.copy > MaxCopy
    BY <1>1
  <2>3. /\ new.scene.outcome \in {"done", "full"}
        /\ new.scene.outcome = "done" =>
             CreationIsGood(t, node, title, type, new.node, new.scene)
    BY <1>1, <1>3, <1>6, <2>1, <2>2, CreatedSegment
  <2>4. CASE new.scene.outcome = "done"
    <3>1. CreationIsGood(t, node, title, type, new.node, new.scene)
      BY <2>3, <2>4
    <3>2. EntryCreated(t, KeyPath(t.tree, node) \o <<Key(title)>>, type,
                       new.node, new.scene)
      BY <1>6, <3>1, CreatedEntries
    <3>3. EntryCreated(t, path, type, new.node, new.scene)
      BY <1>5, <1>6, <3>2
    <3>. QED
      BY <2>3, <3>3 DEF EntryCreated
  <2>. QED
    BY <2>3, <2>4
<1>7. CASE existing = None
  <2>1. /\ new.scene.outcome \in {"done", "full"}
        /\ new.scene.outcome = "done" =>
             /\ KeyPath(new.scene.tree, new.node) = path
             /\ path \notin old
             /\ type = "Folder" => Entries(new.scene.tree) = old
             /\ type = "File" => /\ Entries(new.scene.tree) = old \union {path}
                                 /\ \A e \in old: ~IsPrefix(path, e)
    BY <1>1, <1>2, <1>3, <1>5, <1>6, <1>7
  <2>2. path \notin old => {e \in old: e # path} = old
    OBVIOUS
  <2>3. (\A e \in old: ~IsPrefix(path, e)) => {e \in old: ~IsPrefix(path, e)} = old
    OBVIOUS
  <2>. QED
    BY <1>4, <2>1, <2>2, <2>3
<1>8. CASE existing # None /\ passes
  <2>1. new = [scene |-> s, node |-> existing]
    BY <1>1, <1>2, <1>8
  <2>2. existing \in DOMAIN s.tree /\ KeyPath(s.tree, existing) = path
    BY <1>1, <1>8 DEF Below
  <2>3. path \notin old
    <3>. SUFFICES ASSUME path \in Entries(s.tree)
                  PROVE  FALSE
      BY <1>5
    <3>1. PICK f \in DOMAIN s.tree: s.tree[f].type = "File" /\ KeyPath(s.tree, f) = path
      BY DEF Entries
    <3>2. f = existing
      BY <1>1, <2>2, <3>1, PathsTell
    <3>. QED
      BY <1>3, <1>8, <3>1, <3>2
  <2>4. {e \in old: e # path} = old
    BY <2>3
  <2>. QED
    BY <1>3, <1>4, <1>5, <1>8, <2>1, <2>2, <2>4
<1>9. CASE existing # None /\ ~passes
  <2>1. /\ existing \in Below(s.tree) /\ existing \in DOMAIN s.tree
        /\ s.tree[existing].parent = node
        /\ KeyPath(s.tree, existing) = path
        /\ new = Created(d, r, title, type)
    BY <1>1, <1>2, <1>9 DEF Below
  <2>2. /\ GoodScene(r) /\ r.outcome = "done"
        /\ node \in DOMAIN r.tree /\ r.tree[node].type # "File"
        /\ ~HasChild(r.tree, node, title)
    BY <1>1, <1>3, <2>1, WayIsCleared
  <2>3. /\ \A m \in DOMAIN r.tree: KeyPath(r.tree, m) = KeyPath(s.tree, m)
        /\ Entries(r.tree) = {e \in old: ~IsPrefix(path, e)}
    <3>1. EntriesRemoved(s, KeyPath(s.tree, existing), r)
      BY <1>1, <1>3, <2>1, RemovedEntries
    <3>. QED
      BY <1>5, <2>1, <3>1 DEF EntriesRemoved
  <2>4. /\ new.scene.outcome \in {"done", "full"}
        /\ new.scene.outcome = "done" =>
             /\ KeyPath(new.scene.tree, new.node) = path
             /\ type = "Folder" => Entries(new.scene.tree) = Entries(r.tree)
             /\ type = "File" => Entries(new.scene.tree) = Entries(r.tree) \union {path}
    BY <1>6, <2>1, <2>2, <2>3
  <2>5. ASSUME type = "Folder"
        PROVE  {e \in old: ~IsPrefix(path, e)} = {e \in old: e # path}
    <3>1. s.tree[existing].type = "File"
      BY <1>1, <1>3, <1>9, <2>1, <2>5 DEF Whole, Consistent, TreeShape
    <3>2. path \in old
      BY <1>5, <2>1, <3>1 DEF Entries
    <3>3. ASSUME NEW e \in old
          PROVE  IsPrefix(path, e) <=> e = path
      <4>1. PICK m \in DOMAIN s.tree: e = KeyPath(s.tree, m)
        BY <1>5 DEF Entries
      <4>2. IsPrefix(path, e) => e = path
        BY <1>1, <1>5, <3>2, <4>1, NothingBelowFile
      <4>3. IsPrefix(path, path)
        <5>1. existing \in NodesBelow(s.tree, existing)
          BY BelowItself
        <5>. QED
          BY <1>1, <2>1, <5>1, PrefixIsAbove
      <4>. QED
        BY <4>2, <4>3
    <3>. QED
      BY <3>3
  <2>. QED
    BY <1>4, <2>3, <2>4, <2>5
<1>. QED
  BY <1>7, <1>8, <1>9

\* A segment that is copied takes no entry, and adds one if it is a file.
SegmentCopied(d, type, new) ==
  LET old == Entries(d.scene.tree)
  IN  /\ new.scene.outcome \in {"done", "full"}
      /\ new.scene.outcome = "done" =>
           /\ type = "Folder" => Entries(new.scene.tree) = old
           /\ type = "File" =>
                \E path: path \notin old /\ Entries(new.scene.tree) = old \union {path}

\* So it is with the answer to copy.
LEMMA CopiedSegment ==
  ASSUME NEW c, NEW d, OnTheWay(c, d), AtFolder(d), d.scene.outcome = "done",
         NEW title \in Titles, NEW type \in {"Folder", "File"},
         NEW new, new = Put(d, title, type, "Copy")
  PROVE  SegmentCopied(d, type, new)
<1>. DEFINE s == d.scene
            node == d.node
            existing == InTheWay(d, title)
            picked == PickTitle(s, node, title)
            passes == type = "Folder" /\ s.tree[existing].type = "Folder"
<1>1. /\ GoodScene(s) /\ Whole(s.tree) /\ IsScene(s)
      /\ d = [scene |-> s, node |-> node]
      /\ node \in DOMAIN s.tree /\ s.tree[node].type # "File"
      /\ title.copy <= MaxCopy /\ title \in AllTitles
      /\ existing = None => ~HasChild(s.tree, node, title)
  BY WhoIsInTheWay
<1>2. /\ existing = None => new = Created(d, s, title, type)
      /\ existing # None /\ passes => new = [d EXCEPT !.node = existing]
      /\ existing # None /\ ~passes => new = Created(d, s, picked, type)
  BY PutIsOneOf
<1>3. /\ s.outcome = "done" /\ s = d.scene /\ node = d.node
      /\ passes <=> type = "Folder" /\ s.tree[existing].type = "Folder"
  OBVIOUS
<1>4. /\ ~HasChild(s.tree, node, picked)
      /\ picked.copy \in Nat
      /\ picked.copy <= MaxCopy => picked \in AllTitles
  BY <1>1, PickedTitleIsFree
<1>. HIDE DEF s, node, existing, picked, passes
\* What is created, under the title that came or under another one.
<1>5. ASSUME NEW t, t.copy <= MaxCopy => t \in AllTitles,
             ~(t.copy <= MaxCopy) => t.copy > MaxCopy,
             ~HasChild(s.tree, node, t), new = Created(d, s, t, type)
      PROVE  SegmentCopied(d, type, new)
  <2>1. /\ new.scene.outcome \in {"done", "full"}
        /\ new.scene.outcome = "done" =>
             CreationIsGood(s, node, t, type, new.node, new.scene)
    BY <1>1, <1>3, <1>5, CreatedSegment
  <2>2. ASSUME new.scene.outcome = "done"
        PROVE  EntryCreated(s, KeyPath(s.tree, node) \o <<Key(t)>>, type,
                            new.node, new.scene)
    BY <1>1, <2>1, <2>2, CreatedEntries
  <2>. QED
    BY <1>3, <2>1, <2>2 DEF EntryCreated, SegmentCopied
<1>6. CASE existing = None
  <2>1. ~(title.copy <= MaxCopy) => title.copy > MaxCopy
    BY <1>1
  <2>. QED
    BY <1>1, <1>2, <1>5, <1>6, <2>1
<1>7. CASE existing # None /\ passes
  <2>1. new = [scene |-> s, node |-> existing]
    BY <1>1, <1>2, <1>7
  <2>. QED
    BY <1>3, <1>7, <2>1 DEF SegmentCopied
<1>8. CASE existing # None /\ ~passes
  <2>1. ~(picked.copy <= MaxCopy) => picked.copy > MaxCopy
    BY <1>4, BoundsAssumption
  <2>. QED
    BY <1>2, <1>4, <1>5, <1>8, <2>1
<1>. QED
  BY <1>6, <1>7, <1>8

\* Where the answer is not needed it does not matter.
LEMMA AnswerNotNeeded ==
  ASSUME NEW d, d = [scene |-> d.scene, node |-> d.node], IsScene(d.scene),
         NEW title, NEW type, NEW answer, NEW other, other \notin {"Replace", "Copy"},
         Put(d, title, type, other).scene.outcome # "thrown"
  PROVE  Put(d, title, type, answer) = Put(d, title, type, other)
<1>1. CASE d.scene.outcome # "done"
  BY <1>1 DEF Put
<1>2. CASE d.scene.outcome = "done"
  <2>. DEFINE existing == InTheWay(d, title)
              passes == type = "Folder" /\ d.scene.tree[existing].type = "Folder"
  <2>1. [d EXCEPT !.scene.outcome = "thrown"].scene.outcome = "thrown"
    BY DEF IsScene
  <2>2. existing = None \/ passes
    BY <1>2, <2>1, PutIsOneOf
  <2>. QED
    BY <1>2, <2>2, PutIsOneOf
<1>. QED
  BY <1>1, <1>2

(***************************************************************************)
(* All segments of a path.                                                 *)
(***************************************************************************)

\* An insertion that begins in a whole document, below something that is not a
\* file.
MayInsert(s, p) ==
  /\ GoodScene(s)
  /\ s.outcome = "done"
  /\ EmptyFolders(s.tree) = {}
  /\ p \in DOMAIN s.tree
  /\ s.tree[p].type # "File"

\* The folders of a path one after the other, the file, and the scene at the end.
PathInserted(s, p, path, answer, folder, file, new) ==
  LET c == [scene |-> s, node |-> p]
      n == Len(path) - 1
  IN  /\ folder[0] = c
      /\ \A i \in 1 .. n: folder[i] = Put(folder[i - 1], path[i], "Folder", answer)
      /\ \A i \in 0 .. n: OnTheWay(c, folder[i]) /\ AtFolder(folder[i])
      /\ file = Put(folder[n], path[n + 1], "File", answer)
      /\ new = [file.scene EXCEPT
                  !.changed = @ \/ (s.emits /\ file.scene.outcome = "done")]
      /\ OnTheWay(c, file)
      /\ new.tree = file.scene.tree /\ new.outcome = file.scene.outcome

\* The folders of a path, as many as there are.
LEMMA DescentUnfolds ==
  \A n \in Nat: \A c, base, f:
    /\ f = CHOOSE g: g = [i \in 0 .. n |-> IF i = 0 THEN base
                                           ELSE Descend(c, g[i - 1], i)]
    => Descent!Unfolds(c, base, f, n)
BY Descent!LoopUnfolds

\* This is what createHierarchy does.
LEMMA HierarchyIsInserted ==
  ASSUME NEW s, NEW p, MayInsert(s, p), NEW path \in Seq(Titles), Len(path) # 0,
         NEW answer, NEW new, new = CreateHierarchy(s, p, path, answer).scene
  PROVE  \E folder, file: PathInserted(s, p, path, answer, folder, file, new)
<1>. DEFINE n == Len(path) - 1
            descend[i \in 0 .. n] ==
              IF i = 0 THEN [scene |-> s, node |-> p]
              ELSE Put(descend[i - 1], path[i], "Folder", answer)
            file == Put(descend[n], Last(path), "File", answer)
            d == [scene |-> s, node |-> p, path |-> path, onConflict |-> answer]
            c == [scene |-> s, node |-> p]
<1>1. new = [file EXCEPT !.scene.changed =
               @ \/ (s.emits /\ file.scene.outcome = "done")].scene
  BY DEF CreateHierarchy
<1>2. descend = CHOOSE g: g = [i \in 0 .. n |-> IF i = 0 THEN c
                                                ELSE Descend(d, g[i - 1], i)]
  BY DEF Descend
<1>3. /\ n \in Nat /\ n + 1 = Len(path) /\ n = Len(path) - 1 /\ n \in 0 .. n
      /\ \A i \in 1 .. n: i \in 1 .. Len(path) /\ i \in 0 .. n /\ i - 1 \in 0 .. n
  BY LenProperties
<1>4. /\ c.scene = s /\ c.node = p /\ c = [scene |-> s, node |-> p]
      /\ d.path = path /\ d.onConflict = answer
  OBVIOUS
<1>5. file = Put(descend[n], Last(path), "File", answer)
  OBVIOUS
<1>. HIDE DEF n, c, d, descend, file
<1>6. /\ descend[0] = c
      /\ \A i \in 1 .. n: descend[i] = Put(descend[i - 1], path[i], "Folder", answer)
  <2>1. Descent!Unfolds(d, c, descend, n)
    BY <1>2, <1>3, DescentUnfolds
  <2>. QED
    BY <1>4, <2>1 DEF Descent!Unfolds, Descend
<1>7. OnTheWay(c, c) /\ AtFolder(c)
  <2>1. p \in NodesBelow(s.tree, p)
    BY BelowItself
  <2>. QED
    BY <1>4, <2>1 DEF MayInsert, OnTheWay, AtFolder, GoodScene
<1>8. \A i \in 0 .. n: OnTheWay(c, descend[i]) /\ AtFolder(descend[i])
  <2>. DEFINE S == {i \in 0 .. n: OnTheWay(c, descend[i]) /\ AtFolder(descend[i])}
  <2>1. 0 \in S
    BY <1>3, <1>6, <1>7
  <2>2. ASSUME NEW i \in 1 .. n, i - 1 \in S
        PROVE  i \in S
    <3>1. path[i] \in Titles
      BY <1>3, ElementOfSeq
    <3>2. OnTheWay(c, descend[i - 1]) /\ AtFolder(descend[i - 1])
          /\ descend[i] = Put(descend[i - 1], path[i], "Folder", answer)
      BY <1>6, <2>2
    <3>3. OnTheWay(c, descend[i]) /\ AtFolder(descend[i])
      BY <3>1, <3>2, PutKeeps DEF AtFolder
    <3>. QED
      BY <1>3, <3>3
  <2>3. \A i \in 0 .. n: i \in S
    <3>. HIDE DEF S
    <3>. QED
      BY <1>3, <2>1, <2>2, NumbersReached
  <2>. QED
    BY <2>3
<1>9. Last(path) = path[n + 1] /\ path[n + 1] \in Titles
  BY <1>3, ElementOfSeq DEF Last
<1>10. OnTheWay(c, file)
  BY <1>3, <1>5, <1>8, <1>9, PutKeeps
<1>11. /\ new = [file.scene EXCEPT
                   !.changed = @ \/ (s.emits /\ file.scene.outcome = "done")]
       /\ new.tree = file.scene.tree /\ new.outcome = file.scene.outcome
  <2>1. IsScene(file.scene) /\ file = [scene |-> file.scene, node |-> file.node]
    BY <1>10 DEF OnTheWay, GoodScene
  <2>2. new = [file.scene EXCEPT
                 !.changed = @ \/ (s.emits /\ file.scene.outcome = "done")]
    BY <1>1, <2>1
  <2>. QED
    BY <2>1, <2>2 DEF IsScene
<1>12. PathInserted(s, p, path, answer, descend, file, new)
  BY <1>3, <1>4, <1>5, <1>6, <1>8, <1>9, <1>10, <1>11 DEF PathInserted
<1>. QED
  BY <1>12

\* The keys of the first i segments of a path, below those of a node.
PathTo(keys, path, i) == keys \o [j \in 1 .. i |-> Key(path[j])]

\* The keys of a whole path, below those of a node.
EndOf(keys, path) == keys \o [i \in DOMAIN path |-> Key(path[i])]

\* These are the keys one after the other.
PathGrows(keys, path) ==
  /\ \A i \in 0 .. Len(path): PathTo(keys, path, i) \in Seq(Keys)
  /\ PathTo(keys, path, 0) = keys
  /\ \A i \in 1 .. Len(path):
       /\ Key(path[i]) \in Keys
       /\ PathTo(keys, path, i) = PathTo(keys, path, i - 1) \o <<Key(path[i])>>

\* So it is with every path.
LEMMA EveryPathGrows ==
  ASSUME NEW keys \in Seq(Keys), NEW path \in Seq(Titles)
  PROVE  /\ PathGrows(keys, path)
         /\ PathTo(keys, path, Len(path)) = EndOf(keys, path)
<1>. DEFINE part(i) == [j \in 1 .. i |-> Key(path[j])]
<1>1. Len(path) \in Nat /\ DOMAIN path = 1 .. Len(path)
  BY LenProperties
<1>2. \A i \in 1 .. Len(path): Key(path[i]) \in Keys
  <2>1. ASSUME NEW i \in 1 .. Len(path)
        PROVE  Key(path[i]) \in Keys
    <3>1. path[i] \in Titles
      BY ElementOfSeq
    <3>2. path[i] \in AnyTitle
      BY <3>1, CopiesAreTitles, BoundsAssumption
    <3>. QED
      BY <3>2 DEF Keys
  <2>. QED
    BY <2>1
<1>3. ASSUME NEW i \in 0 .. Len(path)
      PROVE  part(i) \in Seq(Keys) /\ Len(part(i)) = i
  BY <1>1, <1>2
<1>4. ASSUME NEW i \in 1 .. Len(path)
      PROVE  part(i) = part(i - 1) \o <<Key(path[i])>>
  <2>. DEFINE k == i - 1
              key == Key(path[i])
              a == part(k)
              b == part(i)
              c == Append(a, key)
  <2>1. /\ a \in Seq(Keys) /\ Len(a) = k /\ b \in Seq(Keys) /\ Len(b) = i
        /\ key \in Keys /\ k \in Nat /\ i = k + 1 /\ k + 1 \in 1 .. i
    BY <1>1, <1>2, <1>3
  <2>2. /\ \A j \in 1 .. k: a[j] = b[j]
        /\ b[i] = key
    BY <2>1
  <2>. HIDE DEF key, a, b, k
  <2>3. /\ c \in Seq(Keys) /\ Len(c) = k + 1
        /\ \A j \in 1 .. k: c[j] = a[j]
        /\ c[k + 1] = key
    BY <2>1, AppendProperties
  <2>4. c = a \o <<key>>
    BY <2>1, AppendIsConcat
  <2>. HIDE DEF c
  <2>5. \A j \in 1 .. Len(b): b[j] = c[j]
    <3>1. ASSUME NEW j \in 1 .. Len(b)
          PROVE  b[j] = c[j]
      <4>1. j \in 1 .. k \/ j = k + 1
        BY <2>1
      <4>. QED
        BY <2>1, <2>2, <2>3, <4>1
    <3>. QED
      BY <3>1
  <2>6. b = c
    BY <2>1, <2>3, <2>5, SeqEqual
  <2>. QED
    BY <2>4, <2>6 DEF a, b, k, key
<1>5. \A i: PathTo(keys, path, i) = keys \o part(i)
  BY DEF PathTo
<1>6. part(Len(path)) = [i \in DOMAIN path |-> Key(path[i])]
  BY <1>1
<1>7. part(0) = <<>>
  <2>1. part(0) \in Seq(Keys) /\ Len(part(0)) = 0
    BY <1>1, <1>3
  <2>. HIDE DEF part
  <2>. QED
    BY <2>1, EmptySeq
<1>. HIDE DEF part
<1>8. \A i \in 0 .. Len(path): PathTo(keys, path, i) \in Seq(Keys)
  BY <1>3, <1>5, ConcatProperties
<1>9. PathTo(keys, path, 0) = keys
  BY <1>5, <1>7, ConcatEmptySeq
<1>10. ASSUME NEW i \in 1 .. Len(path)
       PROVE  PathTo(keys, path, i) = PathTo(keys, path, i - 1) \o <<Key(path[i])>>
  <2>. DEFINE k == i - 1
              last == <<Key(path[i])>>
  <2>1. part(k) \in Seq(Keys) /\ last \in Seq(Keys) /\ part(i) = part(k) \o last
    <3>1. k \in 0 .. Len(path)
      BY <1>1
    <3>. QED
      BY <1>2, <1>3, <1>4, <3>1
  <2>. HIDE DEF k, last
  <2>2. keys \o (part(k) \o last) = (keys \o part(k)) \o last
    <3>1. ASSUME NEW b \in Seq(Keys), NEW e \in Seq(Keys)
          PROVE  (keys \o b) \o e = keys \o (b \o e)
      BY ConcatAssociative
    <3>. QED
      BY <2>1, <3>1
  <2>. QED
    BY <1>5, <2>1, <2>2 DEF k, last
<1>. QED
  BY <1>2, <1>5, <1>6, <1>8, <1>9, <1>10 DEF PathGrows, EndOf

(***************************************************************************)
(* The entries that are left, with each answer.                            *)
(***************************************************************************)

\* What the first i folders of a path leave when what is in their way is
\* replaced: all entries but the files among them.
FoldersReplaced(s, keys, path, d, i) ==
  /\ d.scene.outcome \in {"done", "full"}
  /\ d.scene.outcome = "done" =>
       /\ KeyPath(d.scene.tree, d.node) = PathTo(keys, path, i)
       /\ Entries(d.scene.tree) =
            {e \in Entries(s.tree): ~IsPrefix(e, PathTo(keys, path, i))}

\* Entries are sequences of keys.
LEMMA EntriesAreSeqs ==
  ASSUME NEW nodes, Whole(nodes), NEW e \in Entries(nodes)
  PROVE  e \in Seq(Keys)
<1>1. PICK m \in DOMAIN nodes: e = KeyPath(nodes, m)
  BY DEF Entries
<1>. QED
  BY <1>1, WholePathsUnfold DEF PathsUnfold

\* One more folder.
LEMMA FolderReplaced ==
  ASSUME NEW s, Whole(s.tree), NEW keys, NEW path \in Seq(Titles), PathGrows(keys, path),
         NEW i \in 1 .. Len(path), NEW c, NEW d, OnTheWay(c, d), AtFolder(d),
         FoldersReplaced(s, keys, path, d, i - 1),
         NEW new, new = Put(d, path[i], "Folder", "Replace")
  PROVE  FoldersReplaced(s, keys, path, new, i)
<1>. DEFINE k == i - 1
            before == PathTo(keys, path, k)
            after == PathTo(keys, path, i)
            old == Entries(s.tree)
<1>1. /\ before \in Seq(Keys) /\ after \in Seq(Keys) /\ path[i] \in Titles
      /\ Key(path[i]) \in Keys /\ after = before \o <<Key(path[i])>>
  <2>1. Len(path) \in Nat
    BY LenProperties
  <2>2. k \in 0 .. Len(path) /\ i \in 0 .. Len(path)
    BY <2>1
  <2>. QED
    BY <2>2, ElementOfSeq DEF PathGrows
<1>2. FoldersReplaced(s, keys, path, d, k)
  OBVIOUS
<1>3. /\ before = PathTo(keys, path, k) /\ after = PathTo(keys, path, i)
      /\ old = Entries(s.tree)
  OBVIOUS
<1>. HIDE DEF k, before, after, old
<1>4. CASE d.scene.outcome # "done"
  <2>1. new = d
    BY <1>4 DEF Put
  <2>. QED
    BY <1>2, <1>4, <2>1 DEF FoldersReplaced
<1>5. CASE d.scene.outcome = "done"
  <2>1. /\ KeyPath(d.scene.tree, d.node) = before
        /\ Entries(d.scene.tree) = {e \in old: ~IsPrefix(e, before)}
    BY <1>2, <1>3, <1>5 DEF FoldersReplaced
  <2>2. SegmentReplaced(d, path[i], "Folder", new)
    BY <1>1, <1>5, ReplacedSegment
  <2>3. /\ new.scene.outcome \in {"done", "full"}
        /\ new.scene.outcome = "done" =>
             /\ KeyPath(new.scene.tree, new.node) = after
             /\ Entries(new.scene.tree) = {e \in Entries(d.scene.tree): e # after}
    BY <1>1, <2>1, <2>2 DEF SegmentReplaced
  <2>4. {e \in Entries(d.scene.tree): e # after} = {e \in old: ~IsPrefix(e, after)}
    <3>1. ASSUME NEW e \in old
          PROVE  ~IsPrefix(e, before) /\ e # after <=> ~IsPrefix(e, after)
      <4>1. e \in Seq(Keys)
        BY <1>3, EntriesAreSeqs
      <4>2. IsPrefix(e, before \o <<Key(path[i])>>) <=>
              IsPrefix(e, before) \/ e = before \o <<Key(path[i])>>
        BY <1>1, <4>1, PrefixOfMore
      <4>. QED
        BY <1>1, <4>2
    <3>. QED
      BY <2>1, <3>1
  <2>. QED
    BY <1>3, <2>3, <2>4 DEF FoldersReplaced
<1>. QED
  BY <1>4, <1>5

\* What can be beside a new entry, and the new one.
Beside(old, end) == {e \in old: ~Comparable(e, end)} \union {end}

\* What a replacement leaves.
LEMMA ReplacementKeepsTheRest ==
  ASSUME NEW s, NEW p, MayInsert(s, p), NEW path \in Seq(Titles), Len(path) # 0,
         NEW new, new = CreateHierarchy(s, p, path, "Replace").scene,
         new.outcome # "full",
         NEW end, end = EndOf(KeyPath(s.tree, p), path)
  PROVE  Entries(new.tree) = Beside(Entries(s.tree), end)
<1>. DEFINE keys == KeyPath(s.tree, p)
            n == Len(path) - 1
            c == [scene |-> s, node |-> p]
            old == Entries(s.tree)
            before == PathTo(keys, path, n)
<1>1. PICK folder, file: PathInserted(s, p, path, "Replace", folder, file, new)
  BY HierarchyIsInserted
<1>2. /\ n \in Nat /\ n + 1 = Len(path) /\ n \in 0 .. n
      /\ \A i \in 1 .. n: i \in 1 .. Len(path) /\ i \in 0 .. n /\ i - 1 \in 0 .. n
      /\ n + 1 \in 1 .. Len(path) /\ n + 1 - 1 = n /\ n \in 0 .. Len(path)
  BY LenProperties
<1>3. /\ Whole(s.tree) /\ p \in DOMAIN s.tree /\ s.tree[p].type # "File"
  BY DEF MayInsert, GoodScene
<1>4. keys \in Seq(Keys)
  BY <1>3, WholePathsUnfold DEF PathsUnfold
<1>5. /\ folder[0] = c
      /\ \A i \in 1 .. n: folder[i] = Put(folder[i - 1], path[i], "Folder", "Replace")
      /\ \A i \in 0 .. n: OnTheWay(c, folder[i]) /\ AtFolder(folder[i])
      /\ file = Put(folder[n], path[n + 1], "File", "Replace")
      /\ OnTheWay(c, file)
      /\ new.tree = file.scene.tree /\ new.outcome = file.scene.outcome
  BY <1>1 DEF PathInserted
<1>6. c.scene = s /\ c.node = p /\ keys = KeyPath(s.tree, p) /\ old = Entries(s.tree)
      /\ before = PathTo(keys, path, n)
  OBVIOUS
<1>. HIDE DEF keys, n, c, old, before
<1>7. PathGrows(keys, path) /\ PathTo(keys, path, n + 1) = end
  BY <1>2, <1>4, <1>6, EveryPathGrows
<1>8. /\ before \in Seq(Keys) /\ end \in Seq(Keys) /\ path[n + 1] \in Titles
      /\ Key(path[n + 1]) \in Keys /\ end = before \o <<Key(path[n + 1])>>
  <2>. DEFINE k == n + 1
  <2>1. k \in 0 .. Len(path) /\ k \in 1 .. Len(path) /\ k - 1 = n
    BY <1>2
  <2>2. path[k] \in Titles
    BY <2>1, ElementOfSeq
  <2>3. end = PathTo(keys, path, k)
    BY <1>7
  <2>. HIDE DEF k
  <2>4. /\ before \in Seq(Keys) /\ end \in Seq(Keys) /\ Key(path[k]) \in Keys
        /\ end = before \o <<Key(path[k])>>
    BY <1>2, <1>6, <1>7, <2>1, <2>3 DEF PathGrows
  <2>. QED
    BY <2>2, <2>4 DEF k
<1>9. FoldersReplaced(s, keys, path, folder[0], 0)
  <2>1. \A e \in Entries(s.tree): ~IsPrefix(e, keys)
    BY <1>3, <1>6, NothingBelowFile
  <2>2. PathTo(keys, path, 0) = keys
    BY <1>7 DEF PathGrows
  <2>3. s.outcome = "done"
    BY DEF MayInsert
  <2>4. Entries(s.tree) = {e \in Entries(s.tree): ~IsPrefix(e, keys)}
    BY <2>1
  <2>. QED
    BY <1>5, <1>6, <2>2, <2>3, <2>4 DEF FoldersReplaced
<1>10. \A i \in 0 .. n: FoldersReplaced(s, keys, path, folder[i], i)
  <2>. DEFINE S == {i \in 0 .. n: FoldersReplaced(s, keys, path, folder[i], i)}
  <2>1. 0 \in S
    BY <1>2, <1>9
  <2>2. ASSUME NEW i \in 1 .. n, i - 1 \in S
        PROVE  i \in S
    <3>1. FoldersReplaced(s, keys, path, folder[i], i)
      BY <1>2, <1>3, <1>5, <1>7, <2>2, FolderReplaced
    <3>. QED
      BY <1>2, <3>1
  <2>3. \A i \in 0 .. n: i \in S
    <3>. HIDE DEF S
    <3>. QED
      BY <1>2, <2>1, <2>2, NumbersReached
  <2>. QED
    BY <2>3
<1>11. FoldersReplaced(s, keys, path, folder[n], n)
  BY <1>2, <1>10
<1>12. folder[n].scene.outcome = "done"
  <2>1. ASSUME folder[n].scene.outcome # "done"
        PROVE  FALSE
    <3>1. file = folder[n]
      BY <1>5, <2>1 DEF Put
    <3>. QED
      BY <1>5, <1>11, <2>1, <3>1 DEF FoldersReplaced
  <2>. QED
    BY <2>1
<1>13. /\ KeyPath(folder[n].scene.tree, folder[n].node) = before
       /\ Entries(folder[n].scene.tree) = {e \in old: ~IsPrefix(e, before)}
  BY <1>6, <1>11, <1>12 DEF FoldersReplaced
<1>14. SegmentReplaced(folder[n], path[n + 1], "File", file)
  BY <1>2, <1>5, <1>8, <1>12, ReplacedSegment
<1>15. Entries(new.tree) =
         {e \in Entries(folder[n].scene.tree): ~IsPrefix(end, e)} \union {end}
  <2>1. file.scene.outcome = "done"
    BY <1>5, <1>14 DEF SegmentReplaced
  <2>. QED
    BY <1>5, <1>8, <1>13, <1>14, <2>1 DEF SegmentReplaced
<1>16. ASSUME NEW e \in old
       PROVE  ~IsPrefix(e, before) /\ ~IsPrefix(end, e) <=> ~Comparable(e, end)
  <2>1. e \in Seq(Keys)
    BY <1>3, <1>6, EntriesAreSeqs
  <2>2. IsPrefix(e, before \o <<Key(path[n + 1])>>) <=>
          IsPrefix(e, before) \/ e = before \o <<Key(path[n + 1])>>
    BY <1>8, <2>1, PrefixOfMore
  <2>3. e = end => IsPrefix(end, e)
    <3>1. <<>> \in Seq(Keys)
      BY EmptySeq
    <3>. QED
      BY <1>8, <3>1, PrefixOfItself
  <2>. QED
    BY <1>8, <2>2, <2>3 DEF Comparable
<1>. QED
  BY <1>6, <1>13, <1>15, <1>16 DEF Beside

\* What the folders of a path leave when what is in their way is kept.
FoldersCopied(s, d) ==
  /\ d.scene.outcome \in {"done", "full"}
  /\ d.scene.outcome = "done" => Entries(d.scene.tree) = Entries(s.tree)

\* A copy leaves every entry, and adds one.
LEMMA CopyAddsOne ==
  ASSUME NEW s, NEW p, MayInsert(s, p), NEW path \in Seq(Titles), Len(path) # 0,
         NEW new, new = CreateHierarchy(s, p, path, "Copy").scene,
         new.outcome # "full"
  PROVE  \E e: e \notin Entries(s.tree) /\ Entries(new.tree) = Entries(s.tree) \union {e}
<1>. DEFINE n == Len(path) - 1
            c == [scene |-> s, node |-> p]
<1>1. PICK folder, file: PathInserted(s, p, path, "Copy", folder, file, new)
  BY HierarchyIsInserted
<1>2. /\ n \in Nat /\ n \in 0 .. n /\ n + 1 \in 1 .. Len(path)
      /\ \A i \in 1 .. n: i \in 1 .. Len(path) /\ i \in 0 .. n /\ i - 1 \in 0 .. n
  BY LenProperties
<1>3. /\ folder[0] = c
      /\ \A i \in 1 .. n: folder[i] = Put(folder[i - 1], path[i], "Folder", "Copy")
      /\ \A i \in 0 .. n: OnTheWay(c, folder[i]) /\ AtFolder(folder[i])
      /\ file = Put(folder[n], path[n + 1], "File", "Copy")
      /\ new.tree = file.scene.tree /\ new.outcome = file.scene.outcome
  BY <1>1 DEF PathInserted
<1>4. c.scene = s
  OBVIOUS
<1>. HIDE DEF n, c
<1>5. FoldersCopied(s, folder[0])
  BY <1>3, <1>4 DEF FoldersCopied, MayInsert
<1>6. ASSUME NEW i \in 1 .. n, FoldersCopied(s, folder[i - 1])
      PROVE  FoldersCopied(s, folder[i])
  <2>. DEFINE d == folder[i - 1]
  <2>1. /\ OnTheWay(c, d) /\ AtFolder(d) /\ FoldersCopied(s, d)
        /\ folder[i] = Put(d, path[i], "Folder", "Copy") /\ path[i] \in Titles
    BY <1>2, <1>3, <1>6, ElementOfSeq
  <2>. HIDE DEF d
  <2>2. CASE d.scene.outcome # "done"
    <3>1. folder[i] = d
      BY <2>1, <2>2 DEF Put
    <3>. QED
      BY <2>1, <3>1
  <2>3. CASE d.scene.outcome = "done"
    <3>1. SegmentCopied(d, "Folder", folder[i])
      BY <2>1, <2>3, CopiedSegment
    <3>. QED
      BY <2>1, <2>3, <3>1 DEF SegmentCopied, FoldersCopied
  <2>. QED
    BY <2>2, <2>3
<1>7. FoldersCopied(s, folder[n])
  <2>. DEFINE S == {i \in 0 .. n: FoldersCopied(s, folder[i])}
  <2>1. 0 \in S
    BY <1>2, <1>5
  <2>2. \A i \in 1 .. n: i - 1 \in S => i \in S
    BY <1>2, <1>6
  <2>3. \A i \in 0 .. n: i \in S
    <3>. HIDE DEF S
    <3>. QED
      BY <1>2, <2>1, <2>2, NumbersReached
  <2>. QED
    BY <1>2, <2>3
<1>8. folder[n].scene.outcome = "done"
  <2>1. ASSUME folder[n].scene.outcome # "done"
        PROVE  FALSE
    <3>1. file = folder[n]
      BY <1>3, <2>1 DEF Put
    <3>. QED
      BY <1>3, <1>7, <2>1, <3>1 DEF FoldersCopied
  <2>. QED
    BY <2>1
<1>9. SegmentCopied(folder[n], "File", file)
  <2>1. path[n + 1] \in Titles
    BY <1>2, ElementOfSeq
  <2>. QED
    BY <1>2, <1>3, <1>8, <2>1, CopiedSegment
<1>. QED
  BY <1>3, <1>7, <1>8, <1>9 DEF SegmentCopied, FoldersCopied

\* An insertion that goes through without an answer is the same with any.
LEMMA AnswersAgree ==
  ASSUME NEW s, NEW p, MayInsert(s, p), NEW path \in Seq(Titles), Len(path) # 0,
         NEW other, other \notin {"Replace", "Copy"},
         NEW asked, asked = CreateHierarchy(s, p, path, other).scene,
         asked.outcome # "thrown", NEW answer,
         NEW new, new = CreateHierarchy(s, p, path, answer).scene
  PROVE  new = asked
<1>. DEFINE n == Len(path) - 1
            c == [scene |-> s, node |-> p]
<1>1. PICK f, file: PathInserted(s, p, path, other, f, file, asked)
  BY HierarchyIsInserted
<1>2. PICK g, last: PathInserted(s, p, path, answer, g, last, new)
  BY HierarchyIsInserted
<1>3. /\ n \in Nat /\ n \in 0 .. n
      /\ \A i \in 1 .. n: i \in 0 .. n /\ i - 1 \in 0 .. n
  BY LenProperties
<1>4. /\ f[0] = c
      /\ \A i \in 1 .. n: f[i] = Put(f[i - 1], path[i], "Folder", other)
      /\ \A i \in 0 .. n: OnTheWay(c, f[i])
      /\ file = Put(f[n], path[n + 1], "File", other)
      /\ asked = [file.scene EXCEPT
                    !.changed = @ \/ (s.emits /\ file.scene.outcome = "done")]
      /\ asked.outcome = file.scene.outcome
  BY <1>1 DEF PathInserted
<1>5. /\ g[0] = c
      /\ \A i \in 1 .. n: g[i] = Put(g[i - 1], path[i], "Folder", answer)
      /\ last = Put(g[n], path[n + 1], "File", answer)
      /\ new = [last.scene EXCEPT
                  !.changed = @ \/ (s.emits /\ last.scene.outcome = "done")]
  BY <1>2 DEF PathInserted
<1>. HIDE DEF n, c
<1>6. ASSUME NEW i \in 1 .. n, f[i - 1].scene.outcome = "thrown" \/ f[i - 1] = g[i - 1]
      PROVE  f[i].scene.outcome = "thrown" \/ f[i] = g[i]
  <2>. DEFINE d == f[i - 1]
              b == g[i - 1]
  <2>1. /\ OnTheWay(c, d) /\ f[i] = Put(d, path[i], "Folder", other)
        /\ g[i] = Put(b, path[i], "Folder", answer)
        /\ d.scene.outcome = "thrown" \/ d = b
    BY <1>3, <1>4, <1>5, <1>6
  <2>. HIDE DEF d, b
  <2>2. CASE d.scene.outcome = "thrown"
    BY <2>1, <2>2 DEF Put
  <2>3. CASE d = b /\ f[i].scene.outcome # "thrown"
    <3>1. IsScene(d.scene) /\ d = [scene |-> d.scene, node |-> d.node]
      BY <2>1 DEF OnTheWay, GoodScene
    <3>2. Put(d, path[i], "Folder", other).scene.outcome # "thrown"
      BY <2>1, <2>3
    <3>3. Put(d, path[i], "Folder", answer) = Put(d, path[i], "Folder", other)
      BY <3>1, <3>2, AnswerNotNeeded
    <3>. QED
      BY <2>1, <2>3, <3>3
  <2>. QED
    BY <2>1, <2>2, <2>3
<1>7. f[n].scene.outcome = "thrown" \/ f[n] = g[n]
  <2>. DEFINE S == {i \in 0 .. n: f[i].scene.outcome = "thrown" \/ f[i] = g[i]}
  <2>1. 0 \in S
    BY <1>3, <1>4, <1>5
  <2>2. \A i \in 1 .. n: i - 1 \in S => i \in S
    BY <1>3, <1>6
  <2>3. \A i \in 0 .. n: i \in S
    <3>. HIDE DEF S
    <3>. QED
      BY <1>3, <2>1, <2>2, NumbersReached
  <2>. QED
    BY <1>3, <2>3
<1>8. f[n] = g[n]
  <2>1. f[n].scene.outcome = "thrown" => file = f[n]
    BY <1>4 DEF Put
  <2>. QED
    BY <1>4, <1>7, <2>1
<1>9. last = file
  <2>1. IsScene(f[n].scene) /\ f[n] = [scene |-> f[n].scene, node |-> f[n].node]
    BY <1>3, <1>4 DEF OnTheWay, GoodScene
  <2>2. Put(f[n], path[n + 1], "File", other).scene.outcome # "thrown"
    BY <1>4
  <2>3. Put(f[n], path[n + 1], "File", answer) = Put(f[n], path[n + 1], "File", other)
    BY <2>1, <2>2, AnswerNotNeeded
  <2>. QED
    BY <1>4, <1>5, <1>8, <2>3
<1>. QED
  BY <1>4, <1>5, <1>9

\* The answer decides about what is in the way of the path and nothing else,
\* in every document that edits lead to.
LEMMA WholeKeepsTheRest ==
  ASSUME IInv
  PROVE  InsertionKeepsTheRest
<1>. DEFINE s == Scene(TRUE)
            old == Entries(tree)
            End(p, path) == EndOf(KeyPath(tree, p), path)
            Now(p, path, r) == CreateHierarchy(s, p, path, r).scene
<1>1. ASSUME NEW p \in Folders, NEW path \in Paths
      PROVE  /\ s.tree = tree /\ MayInsert(s, p)
             /\ path \in Seq(Titles) /\ Len(path) # 0
  <2>1. p \in DOMAIN tree /\ tree[p].type # "File"
    BY DEF Folders
  <2>2. DocumentInv
    BY <2>1 DEF IInv
  <2>3. GoodScene(s) /\ s.tree = tree /\ s.outcome = "done" /\ EmptyFolders(tree) = {}
    BY <2>2, StartIsGood DEF DocumentInv
  <2>. HIDE DEF s
  <2>. QED
    BY <2>1, <2>3, PathsAreSeqs DEF MayInsert
<1>2. /\ \A p, path: End(p, path) = EndOf(KeyPath(tree, p), path)
      /\ \A p, path, r: Now(p, path, r) = CreateHierarchy(s, p, path, r).scene
      /\ old = Entries(tree)
  OBVIOUS
<1>. HIDE DEF s, End, Now, old
<1>3. ASSUME NEW p \in Folders, NEW path \in Paths, Now(p, path, "Replace").outcome # "full"
      PROVE  Entries(Now(p, path, "Replace").tree) =
               Beside(old, End(p, path))
  <2>. DEFINE new == Now(p, path, "Replace")
              end == End(p, path)
  <2>1. /\ new = CreateHierarchy(s, p, path, "Replace").scene
        /\ new.outcome # "full"
        /\ end = EndOf(KeyPath(s.tree, p), path)
    BY <1>1, <1>2, <1>3
  <2>2. s.tree = tree /\ MayInsert(s, p) /\ path \in Seq(Titles) /\ Len(path) # 0
    BY <1>1
  <2>. HIDE DEF new, end
  <2>3. Entries(new.tree) = Beside(Entries(s.tree), end)
    BY <2>1, <2>2, ReplacementKeepsTheRest
  <2>. QED
    BY <1>2, <2>2, <2>3 DEF new, end
<1>4. ASSUME NEW p \in Folders, NEW path \in Paths, Now(p, path, "Copy").outcome # "full"
      PROVE  /\ old \subseteq Entries(Now(p, path, "Copy").tree)
             /\ Cardinality(Entries(Now(p, path, "Copy").tree) \ old) = 1
  <2>1. PICK e: e \notin old /\ Entries(Now(p, path, "Copy").tree) = old \union {e}
    BY <1>1, <1>2, <1>4, CopyAddsOne
  <2>2. Entries(Now(p, path, "Copy").tree) \ old = {e}
    BY <2>1
  <2>. QED
    BY <2>1, <2>2, FS_Singleton
<1>5. ASSUME NEW p \in Folders, NEW path \in Paths, Now(p, path, "Copy").outcome # "full",
             ~IsPathConflict(tree, p, path)
      PROVE  End(p, path) \in Entries(Now(p, path, "Copy").tree)
  <2>1. Now(p, path, "Unset").outcome # "thrown"
    <3>1. CASE Now(p, path, "Unset").outcome = "full"
      BY <3>1
    <3>2. CASE Now(p, path, "Unset").outcome # "full"
      <4>1. /\ GoodScene(s) /\ s.outcome = "done" /\ EmptyFolders(s.tree) = {}
            /\ p \in DOMAIN s.tree /\ s.tree[p].type # "File"
        BY <1>1 DEF MayInsert
      <4>2. Now(p, path, "Unset").outcome = "thrown" <=> IsPathConflict(s.tree, p, path)
        BY <1>1, <1>2, <3>2, <4>1, RefusalIsForeseen
      <4>. QED
        BY <1>1, <1>5, <4>2
    <3>. QED
      BY <3>1, <3>2
  <2>2. /\ Now(p, path, "Copy") = Now(p, path, "Unset")
        /\ Now(p, path, "Replace") = Now(p, path, "Unset")
    BY <1>1, <1>2, <2>1, AnswersAgree
  <2>3. Now(p, path, "Replace").outcome # "full"
    BY <1>5, <2>2
  <2>. QED
    BY <1>3, <2>2, <2>3 DEF Beside
<1>. QED
  BY <1>3, <1>4, <1>5 DEF InsertionKeepsTheRest, Beside, EndOf, s, Now, End, old

\* Whatever has been done to the document, a replacement takes away the entries
\* that cannot be beside the new one and no others, and a copy takes away none
\* and adds one, under its own path if nothing is in its way.
THEOREM InsertionsKeepTheRest == Spec => []InsertionKeepsTheRest
BY DocumentsStayWhole, WholeKeepsTheRest, PTL
=============================================================================
