-------------------------- MODULE ExtentOrderProofs --------------------------
(***************************************************************************)
(* The proof that the keys of the tree stay sorted, so that the index of a *)
(* split has its place and the tree grows where it was searched.           *)
(*                                                                         *)
(* As in ExtentOwnerProofs the theorems are about the behaviours without   *)
(* the two known defects, which do leave extents that overlap.             *)
(***************************************************************************)
EXTENDS ExtentOwnerProofs

\* The path follows the indexes of its nodes.
Linked ==
    \A k \in 1 .. Len(path) - 1 :
       path[k + 1].blk = node[path[k].blk].ents[path[k].pos].pblk

\* There is a place for the new extent among those of leaf b and within its bound.
FitsIn(U, b) ==
    /\ End(newext) <= U[b]
    /\ \A i \in DOMAIN node[b].ents :
          LET e == node[b].ents[i]
          IN  End(e) <= newext.lblk \/ End(newext) <= e.lblk

\* The path in hand, also that of a conversion, is the one of a search for the
\* new extent, throughout a split, and leads to the leaf where it fits.
PlaceInv(U) ==
    /\ pc = "splitat" => Linked
    /\ pc \in {"insert", "grow", "split", "link"} =>
          Arrived(newext.lblk) /\ FitsIn(U, leaf.blk)
    /\ pc = "refind" =>
          \E q : /\ Way(q, newext.lblk)
                 /\ \A k \in 1 .. Len(path) : path[k].blk = q[k]
                 /\ FitsIn(U, q[depth + 1])

\* The key of a split separates what stays from what moves, and the new extent
\* from what moves unless nothing does.
KeyInv(U) ==
    pc \in {"split", "link"} =>
       /\ HasFree(at - 1)
       /\ End(ex) <= key /\ key < U[leaf.blk]
       /\ \/ leaf.pos = node[leaf.blk].max /\ key = newext.lblk
          \/ End(newext) <= key
       /\ np = <<>> =>
             \A j \in DOMAIN node[leaf.blk].ents :
                leaf.pos < j => key <= node[leaf.blk].ents[j].lblk

\* The nodes below the current level are cut behind the path; what was cut off
\* starts at the key and ends where its left half ended before.
HalfInv(U) ==
    pc \in {"split", "link"} /\ np # <<>> =>
       LET right == np[Len(np)]
       IN  /\ \A k \in level + 1 .. Len(path) :
                 Len(node[path[k].blk].ents) = path[k].pos
           /\ U[np[1]] <= U[path[level + 1].blk]
           /\ End(newext) <= U[right]
           /\ \A i \in 1 .. Len(np) - 1 : node[np[i]].ents[1].lblk = key
           /\ Used(right) => key <= node[right].ents[1].lblk /\ key # newext.lblk

\* The length of the extent that was cut can be put back, unless the insertion
\* cannot fail any more.
RestoreInv(U) ==
    pc \in Inserting /\ Converting =>
       \/ pc = "insert" /\ ~ Full(leaf.blk)
       \/ LET es == node[saved.blk].ents
          IN  node[saved.blk].depth = 0 /\ saved.pos \in DOMAIN es =>
                 LET n == es[saved.pos].lblk + saved.len
                 IN  /\ saved.len >= 1 /\ n <= U[saved.blk]
                     /\ \A j \in DOMAIN es : saved.pos < j => n <= es[j].lblk

LocalOrder(U) == PlaceInv(U) /\ KeyInv(U) /\ HalfInv(U) /\ RestoreInv(U)

OrderInv == \E U : /\ U \in [DOMAIN node -> Nat]
                   /\ Sorted(node, U)
                   /\ LocalOrder(U)

-----------------------------------------------------------------------------
(* Facts about entries, searches and paths.                                *)

\* What an entry takes is a range of file blocks, and changing only where an
\* extent is stored or how it is marked does not change it.
LEMMA Ends ==
    ASSUME NEW e \in Entry, NEW d \in Nat
    PROVE  /\ e.lblk \in Nat /\ EndOf(e, d) \in Nat /\ e.lblk <= EndOf(e, d)
           /\ d > 0 => EndOf(e, d) = e.lblk + 1
           /\ d = 0 => EndOf(e, d) = End(e) /\ End(e) = e.lblk + ee_len(e)
<1>1. e.lblk \in Nat /\ ee_len(e) \in Nat
  BY RawLengths DEF Entry
<1> QED
  BY <1>1 DEF EndOf, End

\* Slot p is where a search of a node for file block l ends.
Placed(es, l, p) ==
    /\ p \in 1 .. Len(es)
    /\ p > 1 => es[p].lblk <= l
    /\ \A j \in 1 .. Len(es) : p < j => l < es[j].lblk

LEMMA ClosestIsPlaced ==
    ASSUME NEW es \in Seq(Entry), es # <<>>, NEW l \in Nat, NEW p
    PROVE  Closest(es, l) = p <=> Placed(es, l, p)
<1> DEFINE n == Len(es)
           S == {1} \cup {k \in 2 .. n : es[k].lblk <= l}
<1>1. n \in Nat /\ n # 0 /\ \A k \in 1 .. n : es[k] \in Entry
  BY EmptySeq, LenProperties, ElementOfSeq
<1>2. \A k \in 1 .. n : es[k].lblk \in Nat
  BY <1>1 DEF Entry
<1>3. S \subseteq 1 .. n /\ S # {} /\ 1 \in S
  BY <1>1
<1>4. Closest(es, l) = Max(S)
  BY DEF Closest
<1>5. \A k : k \in S <=> k \in 1 .. n /\ (k > 1 => es[k].lblk <= l)
  BY <1>1, <1>2
<1> HIDE DEF S, n
<1>6. Max(S) \in S /\ \A y \in S : Max(S) >= y
  BY <1>1, <1>3, MaxOfSlots
<1>7. ASSUME p \in S, \A y \in S : p >= y
      PROVE  p = Max(S)
  <2>1. PICK m : m = Max(S)
    OBVIOUS
  <2>2. m \in S /\ m >= p /\ p >= m
    BY <1>6, <1>7, <2>1
  <2>3. m \in Nat /\ p \in Nat
    BY <2>2, <1>1, <1>3, <1>7
  <2> QED
    BY <2>1, <2>2, <2>3
<1>8. Placed(es, l, p) <=> p \in S /\ \A y \in S : p >= y
  <2>1. Placed(es, l, p) => p \in S /\ \A y \in S : p >= y
    <3> SUFFICES ASSUME Placed(es, l, p), NEW y \in S
                 PROVE  p \in S /\ p >= y
      BY <1>3
    <3>1. p \in S
      BY <1>5 DEF Placed, n
    <3>2. ASSUME p < y PROVE FALSE
      BY <3>2, <1>2, <1>3, <1>5, <3>1 DEF Placed, n
    <3> QED
      BY <3>1, <3>2, <1>3
  <2>2. ASSUME p \in S, \A y \in S : p >= y
        PROVE  Placed(es, l, p)
    <3>1. p \in 1 .. n /\ (p > 1 => es[p].lblk <= l)
      BY <1>5, <2>2
    <3>2. ASSUME NEW j \in 1 .. n, p < j
          PROVE  l < es[j].lblk
      <4>1. j \notin S
        BY <2>2, <3>1, <3>2
      <4> QED
        BY <4>1, <3>1, <3>2, <1>2, <1>5
    <3> QED
      BY <3>1, <3>2 DEF Placed, n
  <2> QED
    BY <2>1, <2>2
<1> QED
  BY <1>4, <1>6, <1>7, <1>8

\* The nodes of a path from the root to a leaf.
LEMMA PathFacts ==
    ASSUME IInv, pc \in Working
    PROVE  LET n == Len(path)
           IN  /\ n \in Nat \ {0} /\ n = depth + 1 /\ depth \in Nat /\ path # <<>>
               /\ path[1].blk = Root /\ leaf = path[n] /\ Root \in DOMAIN node
               /\ \A k \in 1 .. n :
                     LET es == node[path[k].blk].ents
                     IN  /\ path[k].blk \in DOMAIN node
                         /\ node[path[k].blk].depth = n - k
                         /\ es \in Seq(Entry) /\ Len(es) \in Nat
                         /\ DOMAIN es = 1 .. Len(es)
                         /\ \A i \in 1 .. Len(es) : es[i] \in Entry /\ es[i].lblk \in Nat
                         /\ k < n => path[k].pos \in 1 .. Len(es) /\ es # <<>>
               /\ \A k, m \in 1 .. n : path[k].blk = path[m].blk => k = m
<1> DEFINE n == Len(path)
<1>1. n = depth + 1 /\ depth \in Nat /\ path # <<>>
  BY WorkingPath
<1>2. path[1].blk = Root /\ leaf = path[n] /\ Root \in DOMAIN node
  BY <1>1 DEF IInv, LocalInv, PathInv, leaf, TreeInv, TreeType
<1>3. ASSUME NEW k \in 1 .. n
      PROVE  LET es == node[path[k].blk].ents
             IN  /\ path[k].blk \in DOMAIN node
                 /\ node[path[k].blk].depth = n - k
                 /\ es \in Seq(Entry) /\ Len(es) \in Nat
                 /\ DOMAIN es = 1 .. Len(es)
                 /\ \A i \in 1 .. Len(es) : es[i] \in Entry /\ es[i].lblk \in Nat
                 /\ k < n => path[k].pos \in 1 .. Len(es) /\ es # <<>>
  <2>1. /\ path[k].blk \in DOMAIN node
        /\ node[path[k].blk].depth = depth - (k - 1)
        /\ k < n => path[k].pos \in 1 .. Len(node[path[k].blk].ents)
    BY <1>3 DEF IInv, LocalInv, PathInv
  <2> DEFINE es == node[path[k].blk].ents
  <2>2. /\ es \in Seq(Entry) /\ Len(es) \in Nat /\ DOMAIN es = 1 .. Len(es)
        /\ \A i \in 1 .. Len(es) : es[i] \in Entry
    BY <2>1, LiveNode
  <2>3. \A i \in 1 .. Len(es) : es[i].lblk \in Nat
    BY <2>2 DEF Entry
  <2>4. k < n => es # <<>>
    BY <2>1, <2>2, EmptySeq
  <2>5. node[path[k].blk].depth = n - k
    BY <2>1, <1>1, <1>3
  <2> QED
    BY <2>1, <2>2, <2>3, <2>4, <2>5
<1>4. ASSUME NEW k \in 1 .. n, NEW m \in 1 .. n, path[k].blk = path[m].blk
      PROVE  k = m
  BY <1>1, <1>3, <1>4
<1> QED
  BY <1>1, <1>2, <1>3, <1>4

\* The path of a search for l, on given nodes.
On(nd, pt, l) ==
    /\ \A k \in 1 .. Len(pt) - 1 :
          LET es == nd[pt[k].blk].ents
          IN  Placed(es, l, pt[k].pos) /\ pt[k + 1].blk = es[pt[k].pos].pblk
    /\ LET f == pt[Len(pt)]
           es == nd[f.blk].ents
       IN  IF 1 \in DOMAIN es THEN Placed(es, l, f.pos) ELSE f.pos = 0

LEMMA ArrivedOn ==
    ASSUME IInv, pc \in Working, NEW l \in Nat, Arrived(l)
    PROVE  On(node, path, l) /\ Linked
<1> DEFINE n == Len(path)
<1>1. /\ n \in Nat \ {0} /\ leaf = path[n]
      /\ \A k \in 1 .. n : LET es == node[path[k].blk].ents
                           IN  es \in Seq(Entry) /\ (k < n => es # <<>>)
  BY PathFacts
<1>2. ASSUME NEW k \in 1 .. n - 1
      PROVE  LET es == node[path[k].blk].ents
             IN  Placed(es, l, path[k].pos) /\ path[k + 1].blk = es[path[k].pos].pblk
  <2>1. k \in 1 .. n /\ k < n
    BY <1>1
  <2> DEFINE es == node[path[k].blk].ents
  <2>2. path[k].pos = Closest(es, l) /\ path[k + 1].blk = es[path[k].pos].pblk
    BY DEF Arrived, Searched
  <2>3. es \in Seq(Entry) /\ es # <<>>
    BY <1>1, <2>1
  <2> HIDE DEF es
  <2>4. Placed(es, l, path[k].pos)
    BY <2>2, <2>3, ClosestIsPlaced
  <2> QED
    BY <2>2, <2>4 DEF es
<1>3. ASSUME Used(leaf.blk)
      PROVE  Placed(node[leaf.blk].ents, l, leaf.pos)
  <2> DEFINE es == node[leaf.blk].ents
  <2>1. leaf.pos = Closest(es, l)
    BY <1>3 DEF Arrived
  <2>2. es \in Seq(Entry)
    BY <1>1
  <2>3. es # <<>>
    BY <1>3, <2>2, UsedWhenNonEmpty DEF Used
  <2> HIDE DEF es
  <2>4. Placed(es, l, leaf.pos)
    BY <2>1, <2>2, <2>3, ClosestIsPlaced
  <2> QED
    BY <2>4 DEF es
<1>4. ~ Used(leaf.blk) => leaf.pos = 0
  BY DEF Arrived
<1>5. Linked
  BY <1>2 DEF Linked
<1> QED
  BY <1>1, <1>2, <1>3, <1>4, <1>5 DEF On, Used

\* The other way round, for the state after a step.
LEMMA OnArrives ==
    ASSUME NEW n \in Nat \ {0}, n = Len(path'),
           \A k \in 1 .. n : LET es == node'[path'[k].blk].ents
                             IN  es \in Seq(Entry) /\ (k < n => es # <<>>),
           newext'.lblk \in Nat, On(node', path', newext'.lblk)
    PROVE  Arrived(newext.lblk)'
<1>1. leaf' = path'[n]
  BY DEF leaf
<1> DEFINE l == newext'.lblk
<1>2. ASSUME NEW k \in 1 .. Len(path') - 1
      PROVE  LET es == node'[path'[k].blk].ents
             IN  path'[k].pos = Closest(es, l) /\ path'[k + 1].blk = es[path'[k].pos].pblk
  <2>1. k \in 1 .. n /\ k < n
    OBVIOUS
  <2> DEFINE es == node'[path'[k].blk].ents
  <2>2. Placed(es, l, path'[k].pos) /\ path'[k + 1].blk = es[path'[k].pos].pblk
    BY DEF On
  <2>3. es \in Seq(Entry) /\ es # <<>> /\ l \in Nat
    BY <2>1
  <2> HIDE DEF es, l
  <2>4. Closest(es, l) = path'[k].pos
    BY <2>2, <2>3, ClosestIsPlaced
  <2> QED
    BY <2>2, <2>4 DEF es
<1>3. Searched(newext.lblk)'
  BY <1>2 DEF Searched
<1>4. ASSUME Used(leaf.blk)'
      PROVE  leaf'.pos = Closest(node'[leaf'.blk].ents, l)
  <2> DEFINE es == node'[leaf'.blk].ents
  <2>1. es \in Seq(Entry) /\ l \in Nat
    BY <1>1
  <2>2. 1 \in DOMAIN es
    BY <1>4 DEF Used
  <2>3. es # <<>>
    BY <2>1, <2>2, UsedWhenNonEmpty
  <2>4. Placed(es, l, leaf'.pos)
    BY <2>2, <1>1 DEF On
  <2> HIDE DEF es, l
  <2>5. Closest(es, l) = leaf'.pos
    BY <2>1, <2>3, <2>4, ClosestIsPlaced
  <2> QED
    BY <2>5 DEF es
<1>5. ASSUME ~ Used(leaf.blk)'
      PROVE  leaf'.pos = 0
  BY <1>1, <1>5 DEF On, Used
<1> QED
  BY <1>3, <1>4, <1>5 DEF Arrived

-----------------------------------------------------------------------------
(* Keys and bounds along a path.                                           *)

Bounds == [DOMAIN node -> Nat]

\* A node of a sorted tree.
LEMMA SortedNode ==
    ASSUME IInv, NEW U \in Bounds, Sorted(node, U), NEW b \in DOMAIN node
    PROVE  LET es == node[b].ents
               d  == node[b].depth
           IN  /\ U[b] \in Nat /\ d \in Nat
               /\ Len(es) \in Nat /\ DOMAIN es = 1 .. Len(es)
               /\ \A i \in 1 .. Len(es) :
                     /\ es[i] \in Entry /\ es[i].lblk \in Nat /\ EndOf(es[i], d) \in Nat
                     /\ d > 0 => EndOf(es[i], d) = es[i].lblk + 1
                     /\ d = 0 => EndOf(es[i], d) = End(es[i])
                     /\ es[i].lblk < EndOf(es[i], d) /\ EndOf(es[i], d) <= U[b]
               /\ \A i, j \in 1 .. Len(es) : i < j => EndOf(es[i], d) <= es[j].lblk
               /\ d > 0 =>
                     \A i \in 1 .. Len(es) :
                        LET c == es[i].pblk
                        IN  /\ c \in DOMAIN node /\ c # Root /\ node[c].depth = d - 1
                            /\ U[c] \in Nat /\ U[c] <= U[b]
                            /\ \A j \in 1 .. Len(es) : i < j => U[c] <= es[j].lblk
                            /\ Used(c) => es[i].lblk <= node[c].ents[1].lblk
<1> DEFINE es == node[b].ents
           d  == node[b].depth
<1>1. /\ Len(es) \in Nat /\ DOMAIN es = 1 .. Len(es) /\ d \in Nat
      /\ \A i \in 1 .. Len(es) : es[i] \in Entry
  BY LiveNode
<1>2. \A c \in DOMAIN node : U[c] \in Nat
  BY DEF Bounds
<1>3. Ordered(es, d, U[b]) /\ (d > 0 => ChildrenFit(node, U, b))
  BY DEF Sorted
<1>4. ASSUME NEW i \in 1 .. Len(es)
      PROVE  /\ es[i] \in Entry /\ es[i].lblk \in Nat /\ EndOf(es[i], d) \in Nat
             /\ d > 0 => EndOf(es[i], d) = es[i].lblk + 1
             /\ d = 0 => EndOf(es[i], d) = End(es[i])
             /\ es[i].lblk < EndOf(es[i], d) /\ EndOf(es[i], d) <= U[b]
  <2> HIDE DEF es, d
  <2> QED
    BY <1>1, <1>3, Ends DEF Ordered
<1>5. \A i, j \in 1 .. Len(es) : i < j => EndOf(es[i], d) <= es[j].lblk
  <2> HIDE DEF es, d
  <2> QED
    BY <1>1, <1>3 DEF Ordered
<1>6. ASSUME d > 0, NEW i \in 1 .. Len(es)
      PROVE  LET c == es[i].pblk
             IN  /\ c \in DOMAIN node /\ c # Root /\ node[c].depth = d - 1
                 /\ U[c] \in Nat /\ U[c] <= U[b]
                 /\ \A j \in 1 .. Len(es) : i < j => U[c] <= es[j].lblk
                 /\ Used(c) => es[i].lblk <= node[c].ents[1].lblk
  <2> DEFINE c == es[i].pblk
  <2>1. c \in DOMAIN node \ {Root} /\ node[c].depth = d - 1
    BY <1>1, <1>6 DEF IInv, TreeInv, KidsLive
  <2>2. /\ U[c] <= U[b]
        /\ \A j \in 1 .. Len(es) : i < j => U[c] <= es[j].lblk
        /\ Used(c) => es[i].lblk <= node[c].ents[1].lblk
    BY <1>1, <1>3, <1>6 DEF ChildrenFit, Used
  <2> QED
    BY <2>1, <2>2, <1>2
<1> QED
  BY <1>1, <1>2, <1>4, <1>5, <1>6

\* One level of a path.
LEMMA PathChild ==
    ASSUME IInv, pc \in Working, Linked, NEW U \in Bounds, Sorted(node, U),
           NEW k \in 1 .. Len(path) - 1
    PROVE  LET es == node[path[k].blk].ents
               p  == path[k].pos
               c  == path[k + 1].blk
           IN  /\ k + 1 \in 1 .. Len(path) /\ c \in DOMAIN node
               /\ p \in 1 .. Len(es) /\ c = es[p].pblk
               /\ U[path[k].blk] \in Nat /\ U[c] \in Nat /\ U[c] <= U[path[k].blk]
               /\ \A i \in 1 .. Len(es) : es[i].lblk \in Nat
               /\ \A j \in 1 .. Len(es) : p < j => U[c] <= es[j].lblk
               /\ Used(c) => es[p].lblk <= node[c].ents[1].lblk
               /\ \A i, j \in 1 .. Len(es) : i < j => es[i].lblk < es[j].lblk
<1> DEFINE b == path[k].blk
           es == node[b].ents
           p  == path[k].pos
           n  == Len(path)
<1>1. /\ n \in Nat /\ k \in 1 .. n /\ k < n /\ k + 1 \in 1 .. n
      /\ b \in DOMAIN node /\ node[b].depth = n - k
      /\ p \in 1 .. Len(es)
  BY PathFacts
<1>2. path[k + 1].blk = es[p].pblk
  BY DEF Linked
<1>3. node[b].depth > 0
  BY <1>1
<1>4. /\ U[b] \in Nat /\ Len(es) \in Nat
      /\ \A i \in 1 .. Len(es) : es[i].lblk \in Nat
      /\ \A i, j \in 1 .. Len(es) : i < j => es[i].lblk < es[j].lblk
  <2>1. /\ U[b] \in Nat /\ Len(es) \in Nat
        /\ \A i \in 1 .. Len(es) :
              es[i].lblk \in Nat /\ EndOf(es[i], node[b].depth) = es[i].lblk + 1
        /\ \A i, j \in 1 .. Len(es) : i < j => EndOf(es[i], node[b].depth) <= es[j].lblk
    BY <1>1, <1>3, SortedNode
  <2> HIDE DEF es, b
  <2> QED
    BY <2>1
<1>5. LET c == es[p].pblk
      IN  /\ c \in DOMAIN node
          /\ U[c] \in Nat /\ U[c] <= U[b]
          /\ \A j \in 1 .. Len(es) : p < j => U[c] <= es[j].lblk
          /\ Used(c) => es[p].lblk <= node[c].ents[1].lblk
  BY <1>1, <1>3, SortedNode
<1> QED
  BY <1>1, <1>2, <1>4, <1>5

\* Every index of the path is at or before the first extent of the leaf.
LEMMA KeyChain ==
    ASSUME IInv, pc \in Working, Linked, NEW U \in Bounds, Sorted(node, U),
           Used(leaf.blk)
    PROVE  \A k \in 1 .. Len(path) - 1 :
              node[path[k].blk].ents[path[k].pos].lblk <= node[leaf.blk].ents[1].lblk
<1> DEFINE n == Len(path)
           first == node[leaf.blk].ents[1].lblk
           Key(k) == node[path[k].blk].ents[path[k].pos].lblk
           S == {k \in 1 .. n - 1 : ~ (Key(k) <= first)}
<1>1. n \in Nat /\ n # 0 /\ leaf = path[n] /\ leaf.blk \in DOMAIN node
  BY PathFacts
<1>2. ASSUME S # {} PROVE FALSE
  <2>1. S \subseteq 1 .. n
    BY <1>1
  <2>2. PICK m : m \in S /\ \A y \in S : m >= y
    <3> HIDE DEF S
    <3> QED
      BY <1>1, <1>2, <2>1, MaxOfSlots
  <2>3. m \in 1 .. n - 1 /\ ~ (Key(m) <= first) /\ m + 1 \in 1 .. n
    <3> HIDE DEF n, Key, first
    <3>1. m \in 1 .. n - 1 /\ ~ (Key(m) <= first)
      BY ONLY <2>2, <1>1
    <3> QED
      BY ONLY <3>1, <1>1
  <2>4. Used(path[m + 1].blk) => Key(m) <= node[path[m + 1].blk].ents[1].lblk
    BY <2>3, PathChild
  <2>5. CASE m = n - 1
    BY <2>3, <2>4, <2>5, <1>1
  <2>6. CASE m # n - 1
    <3> DEFINE es == node[path[m + 1].blk].ents
               p == path[m + 1].pos
    <3>1. m + 1 \in 1 .. n - 1
      BY <2>3, <2>6, <1>1
    <3>2. /\ p \in 1 .. Len(es) /\ \A i \in 1 .. Len(es) : es[i].lblk \in Nat
          /\ \A i, j \in 1 .. Len(es) : i < j => es[i].lblk < es[j].lblk
      BY <3>1, PathChild
    <3>3. Len(es) \in Nat /\ DOMAIN es = 1 .. Len(es)
      BY <2>3, PathFacts
    <3>4. 1 \in 1 .. Len(es) /\ es[1].lblk <= es[p].lblk /\ es[1].lblk \in Nat
          /\ es[p].lblk \in Nat
      <4> HIDE DEF es, p
      <4>1. 1 \in 1 .. Len(es) /\ p \in Nat /\ (p = 1 \/ 1 < p)
        BY <3>2, <3>3
      <4> QED
        BY <4>1, <3>2
    <3>5. Key(m) <= es[1].lblk
      BY <3>3, <3>4, <2>4 DEF Used
    <3>6. es[p].lblk <= first
      <4>1. m + 1 \notin S
        <5> HIDE DEF S
        <5> QED
          BY ONLY <2>2, <2>3, <1>1
      <4> QED
        BY <4>1, <3>1
    <3>7. first \in Nat
      BY <1>1, LiveNode DEF Used, Entry
    <3>8. Key(m) \in Nat
      BY <2>3, PathChild
    <3> HIDE DEF es, p, first, Key
    <3> QED
      BY <2>3, <3>4, <3>5, <3>6, <3>7, <3>8
  <2> QED
    BY <2>5, <2>6
<1> QED
  BY <1>2

\* The bound of the leaf holds for the path above it: what the leaf may hold lies
\* before the next index of every level.
LEMMA BoundChain ==
    ASSUME IInv, pc \in Working, Linked, NEW U \in Bounds, Sorted(node, U)
    PROVE  /\ \A k \in 1 .. Len(path) : U[leaf.blk] <= U[path[k].blk]
           /\ \A k \in 1 .. Len(path) - 1 :
                 \A j \in 1 .. Len(node[path[k].blk].ents) :
                    path[k].pos < j => U[leaf.blk] <= node[path[k].blk].ents[j].lblk
<1> DEFINE n == Len(path)
           u == U[leaf.blk]
           S == {k \in 1 .. n : ~ (u <= U[path[k].blk])}
<1>1. /\ n \in Nat /\ n # 0 /\ leaf = path[n]
      /\ \A k \in 1 .. n : path[k].blk \in DOMAIN node
  BY PathFacts
<1>2. \A k \in 1 .. n : U[path[k].blk] \in Nat
  BY <1>1 DEF Bounds
<1>3. u \in Nat
  BY <1>1, <1>2
<1>4. ASSUME S # {} PROVE FALSE
  <2>1. S \subseteq 1 .. n
    OBVIOUS
  <2>2. PICK m : m \in S /\ \A y \in S : m >= y
    <3> HIDE DEF S
    <3> QED
      BY <1>1, <1>4, <2>1, MaxOfSlots
  <2>3. m \in 1 .. n /\ ~ (u <= U[path[m].blk])
    BY <2>2
  <2>4. m # n
    BY <2>3, <1>1, <1>2, <1>3
  <2>5. m \in 1 .. n - 1 /\ m + 1 \in 1 .. n
    BY <2>3, <2>4, <1>1
  <2>6. U[path[m + 1].blk] <= U[path[m].blk]
    BY <2>5, PathChild
  <2>7. u <= U[path[m + 1].blk]
    <3>1. m + 1 \notin S
      BY <2>2, <2>3
    <3> QED
      BY <3>1, <2>5
  <2>8. U[path[m + 1].blk] \in Nat /\ U[path[m].blk] \in Nat
    BY <2>5, <2>3, <1>2
  <2> HIDE DEF u
  <2> QED
    BY <2>3, <2>6, <2>7, <2>8, <1>3
<1>5. \A k \in 1 .. n : u <= U[path[k].blk]
  BY <1>4
<1>6. ASSUME NEW k \in 1 .. n - 1, NEW j \in 1 .. Len(node[path[k].blk].ents),
             path[k].pos < j
      PROVE  u <= node[path[k].blk].ents[j].lblk
  <2>1. /\ k + 1 \in 1 .. n
        /\ U[path[k + 1].blk] <= node[path[k].blk].ents[j].lblk
        /\ node[path[k].blk].ents[j].lblk \in Nat
    BY <1>6, PathChild
  <2>2. u <= U[path[k + 1].blk] /\ U[path[k + 1].blk] \in Nat
    BY <2>1, <1>5, <1>2
  <2> HIDE DEF u
  <2> QED
    BY <2>1, <2>2, <1>3, SMTT(30)
<1> QED
  BY <1>5, <1>6

-----------------------------------------------------------------------------
(* Steps that leave the tree alone.                                        *)

\* Outside an insertion only the tree matters.
LEMMA Calm ==
    ASSUME NEW U, U \in [DOMAIN node' -> Nat], Sorted(node', U),
           pc' \in {"idle", "find", "found", "bugcheck"}
    PROVE  OrderInv'
<1>1. PlaceInv(U)' /\ KeyInv(U)' /\ HalfInv(U)'
  BY DEF PlaceInv, KeyInv, HalfInv
<1>2. RestoreInv(U)'
  BY DEF RestoreInv, Inserting
<1> QED
  BY <1>1, <1>2 DEF OrderInv, LocalOrder

\* Calls that start, and calls that end without a change of the tree.
LEMMA CalmSteps ==
    ASSUME OrderInv,
           \/ \E l \in LBlk, m \in MaxBlocks, c \in BOOLEAN : ext4_extent_get_blocks(l, m, c)
           \/ ReturnMapped \/ ReturnHole \/ ext4_ext_zero_unwritten_range_err
           \/ AllocateDataFails \/ FreeData \/ RestoreWithoutPath
    PROVE  OrderInv'
<1>1. PICK U : U \in Bounds /\ Sorted(node, U)
  BY DEF OrderInv, Bounds
<1>2. node' = node /\ pc' \in {"idle", "find", "found", "bugcheck"}
  BY DEF ext4_extent_get_blocks, ReturnMapped, ReturnHole,
     ext4_ext_zero_unwritten_range_err, AllocateDataFails, FreeData,
     RestoreWithoutPath, Return, tree
<1> QED
  BY <1>1, <1>2, Calm DEF Bounds

\* A step that changes neither the tree nor what is to be restored.
LEMMA RestoreKept ==
    ASSUME NEW U, RestoreInv(U), UNCHANGED <<node, saved, todo>>,
           pc \in Inserting, pc # "insert" \/ Full(leaf.blk)
    PROVE  RestoreInv(U)'
<1>1. CASE ~ Converting
  BY <1>1 DEF RestoreInv, Converting
<1>2. CASE Converting
  <2>1. LET es == node[saved.blk].ents
        IN  node[saved.blk].depth = 0 /\ saved.pos \in DOMAIN es =>
               LET n == es[saved.pos].lblk + saved.len
               IN  /\ saved.len >= 1 /\ n <= U[saved.blk]
                   /\ \A j \in DOMAIN es : saved.pos < j => n <= es[j].lblk
    BY <1>2 DEF RestoreInv
  <2> QED
    BY <2>1 DEF RestoreInv
<1> QED
  BY <1>1, <1>2

\* A search or a growth fails.
LEMMA FailOrders ==
    ASSUME OrderInv, ext4_find_extent_err \/ GrowFails
    PROVE  OrderInv'
<1>1. PICK U : U \in Bounds /\ Sorted(node, U) /\ LocalOrder(U)
  BY DEF OrderInv, Bounds
<1>2. /\ node' = node
      /\ \/ pc' \in {"idle", "bugcheck"}
         \/ /\ pc' = "fail" /\ pc \in {"refind", "grow"}
            /\ saved' = saved /\ todo' = todo
  BY DEF ext4_find_extent_err, GrowFails, Return, tree, conv
<1>3. CASE pc' \in {"idle", "bugcheck"}
  BY <1>1, <1>2, <1>3, Calm DEF Bounds
<1>4. CASE pc' = "fail" /\ pc \in {"refind", "grow"} /\ saved' = saved /\ todo' = todo
  <2>1. RestoreInv(U)'
    BY <1>1, <1>2, <1>4, RestoreKept DEF LocalOrder, Inserting
  <2>2. PlaceInv(U)' /\ KeyInv(U)' /\ HalfInv(U)'
    BY <1>4 DEF PlaceInv, KeyInv, HalfInv
  <2> QED
    BY <1>1, <1>2, <2>1, <2>2 DEF OrderInv, LocalOrder, Bounds
<1> QED
  BY <1>2, <1>3, <1>4

\* A conversion starts on the path that was searched.
LEMMA ConvertOrders ==
    ASSUME IInv, FillInv, OrderInv, ext4_ext_convert_to_initialized
    PROVE  OrderInv'
<1>1. PICK U : U \in Bounds /\ Sorted(node, U)
  BY DEF OrderInv, Bounds
<1>2. pc = "found" /\ pc' = "splitat" /\ node' = node /\ path' = path
  BY DEF ext4_ext_convert_to_initialized, tree
<1>3. Searched(req.lblk)
  BY <1>2 DEF FillInv, SearchInv, Arrived
<1>4. Linked'
  BY <1>2, <1>3 DEF Searched, Linked
<1>5. PlaceInv(U)' /\ KeyInv(U)' /\ HalfInv(U)'
  BY <1>2, <1>4 DEF PlaceInv, KeyInv, HalfInv
<1>6. RestoreInv(U)'
  BY <1>2 DEF RestoreInv, Inserting
<1> QED
  BY <1>1, <1>2, <1>5, <1>6 DEF OrderInv, LocalOrder, Bounds

\* One level of a search.
LEMMA WalkOrders ==
    ASSUME IInv, OrderInv, ext4_find_extent_walk
    PROVE  OrderInv'
<1> DEFINE n  == Len(path)
           es == node[leaf.blk].ents
           p  == Closest(es, target)
<1>1. PICK U : U \in Bounds /\ Sorted(node, U) /\ LocalOrder(U)
  BY DEF OrderInv, Bounds
<1>2. /\ pc \in {"find", "refind"} /\ pc' = pc /\ node' = node
      /\ newext' = newext /\ saved' = saved /\ todo' = todo
  BY DEF ext4_find_extent_walk, tree, conv
<1>3. CASE pc = "find"
  BY <1>1, <1>2, <1>3, Calm DEF Bounds
<1>4. CASE pc = "refind"
  <2>1. /\ n \in Nat \ {0} /\ Len(path') = n + 1 /\ n <= depth
        /\ leaf = path[n]
        /\ \A k \in 1 .. n - 1 : path'[k] = path[k]
        /\ path'[n].blk = leaf.blk /\ path'[n + 1].blk = es[p].pblk
    BY WalkEffect
  <2>2. PICK q : /\ Way(q, newext.lblk)
                 /\ \A k \in 1 .. n : path[k].blk = q[k]
                 /\ FitsIn(U, q[depth + 1])
    BY <1>1, <1>4 DEF LocalOrder, PlaceInv
  <2>3. depth \in Nat
    BY LiveNode DEF IInv, TreeInv, TreeType, depth
  <2>4. q[n + 1] = es[p].pblk
    BY <2>1, <2>2, <2>3, <1>4, SMTT(30) DEF Way, target
  <2>5. \A k \in 1 .. n + 1 : path'[k].blk = q[k]
    <3> SUFFICES ASSUME NEW k \in 1 .. n + 1 PROVE path'[k].blk = q[k]
      OBVIOUS
    <3>1. k \in 1 .. n - 1 \/ k = n \/ k = n + 1
      BY <2>1
    <3> QED
      BY <3>1, <2>1, <2>2, <2>4
  <2>6. Way(q, newext.lblk)' /\ FitsIn(U, q[depth + 1])'
    BY <1>2, <2>2 DEF Way, FitsIn, depth
  <2>7. PlaceInv(U)'
    BY <1>2, <1>4, <2>1, <2>5, <2>6 DEF PlaceInv
  <2>8. RestoreInv(U)'
    BY <1>1, <1>2, <1>4, RestoreKept DEF LocalOrder, Inserting
  <2>9. KeyInv(U)' /\ HalfInv(U)'
    BY <1>2, <1>4 DEF KeyInv, HalfInv
  <2> QED
    BY <1>1, <1>2, <2>7, <2>8, <2>9 DEF OrderInv, LocalOrder, Bounds
<1> QED
  BY <1>2, <1>3, <1>4

-----------------------------------------------------------------------------
(* Steps that rewrite an extent in its slot.                               *)

\* Only the end of one entry changes.
EndMoved(es, fs, d, u, p, e) ==
    /\ DOMAIN fs = DOMAIN es
    /\ \A i \in DOMAIN es : fs[i] = IF i = p THEN e ELSE es[i]
    /\ p \in DOMAIN es =>
          /\ e.lblk = es[p].lblk
          /\ e.lblk < EndOf(e, d) /\ EndOf(e, d) <= u
          /\ \A j \in DOMAIN es : p < j => EndOf(e, d) <= es[j].lblk

LEMMA OrderedRewritten ==
    ASSUME NEW es, NEW fs, NEW d, NEW u, NEW p, NEW e, Ordered(es, d, u),
           EndMoved(es, fs, d, u, p, e)
    PROVE  Ordered(fs, d, u)
<1> USE DEF EndMoved
<1>1. ASSUME NEW i \in DOMAIN fs
      PROVE  fs[i].lblk < EndOf(fs[i], d) /\ EndOf(fs[i], d) <= u
  <2>1. CASE i = p
    BY <2>1
  <2>2. CASE i # p
    BY <2>2 DEF Ordered
  <2> QED
    BY <2>1, <2>2
<1>2. ASSUME NEW i \in DOMAIN fs, NEW j \in DOMAIN fs, i < j
      PROVE  EndOf(fs[i], d) <= fs[j].lblk
  <2>1. fs[j].lblk = es[j].lblk
    OBVIOUS
  <2>2. CASE i = p
    BY <1>2, <2>1, <2>2
  <2>3. CASE i # p
    BY <1>2, <2>1, <2>3 DEF Ordered
  <2> QED
    BY <2>2, <2>3
<1> QED
  BY <1>1, <1>2 DEF Ordered

\* A change that keeps keys and children keeps the tree sorted.
KeysKept(nd, nn, U) ==
    /\ DOMAIN nn = DOMAIN nd
    /\ \A b \in DOMAIN nd :
          /\ nn[b].depth = nd[b].depth /\ nn[b].max = nd[b].max
          /\ DOMAIN nn[b].ents = DOMAIN nd[b].ents
          /\ \A i \in DOMAIN nd[b].ents :
                /\ nn[b].ents[i].lblk = nd[b].ents[i].lblk
                /\ nn[b].ents[i].pblk = nd[b].ents[i].pblk
          /\ Ordered(nn[b].ents, nd[b].depth, U[b])

LEMMA SameKeys ==
    ASSUME NEW nd, NEW nn, NEW U, Sorted(nd, U), KidsLive(nd), KeysKept(nd, nn, U)
    PROVE  Sorted(nn, U)
<1> USE DEF KeysKept
<1>1. ASSUME NEW b \in DOMAIN nd, nd[b].depth > 0
      PROVE  ChildrenFit(nn, U, b)
  <2>1. ChildrenFit(nd, U, b)
    BY <1>1 DEF Sorted
  <2> SUFFICES ASSUME NEW i \in DOMAIN nd[b].ents
               PROVE  LET c == nd[b].ents[i].pblk
                      IN  /\ U[c] <= U[b]
                          /\ \A j \in DOMAIN nd[b].ents :
                                i < j => U[c] <= nd[b].ents[j].lblk
                          /\ 1 \in DOMAIN nn[c].ents =>
                                nd[b].ents[i].lblk <= nn[c].ents[1].lblk
    BY DEF ChildrenFit
  <2>2. nd[b].ents[i].pblk \in DOMAIN nd
    BY <1>1 DEF KidsLive
  <2> QED
    BY <2>1, <2>2 DEF ChildrenFit
<1> QED
  BY <1>1 DEF Sorted

\* An extent of the leaf changes its end, within the leaf's bound and before the
\* next extent.
LEMMA RewriteSorts ==
    ASSUME IInv, path # <<>>, pc \in Working \cup {"fail"}, leaf.pos # 0,
           NEW U \in Bounds, Sorted(node, U), NEW e \in Entry,
           e.lblk = ex.lblk, e.pblk = ex.pblk, e.lblk < End(e), End(e) <= U[leaf.blk],
           \A j \in DOMAIN node[leaf.blk].ents :
              leaf.pos < j => End(e) <= node[leaf.blk].ents[j].lblk,
           node' = [node EXCEPT ![leaf.blk].ents[leaf.pos] = e]
    PROVE  U \in [DOMAIN node' -> Nat] /\ Sorted(node', U)
<1> DEFINE lb == leaf.blk
           p  == leaf.pos
<1>1. /\ DOMAIN node' = DOMAIN node /\ lb \in DOMAIN node
      /\ \A b \in DOMAIN node : b # lb => node'[b] = node[b]
      /\ node'[lb].depth = 0 /\ node[lb].depth = 0 /\ node'[lb].max = node[lb].max
      /\ p \in DOMAIN node[lb].ents
      /\ DOMAIN node'[lb].ents = DOMAIN node[lb].ents
      /\ \A i \in DOMAIN node[lb].ents :
            node'[lb].ents[i] = IF i = p THEN e ELSE node[lb].ents[i]
  BY RewriteEffect
<1>2. EndOf(e, 0) = End(e)
  BY DEF EndOf
<1>3. Ordered(node'[lb].ents, 0, U[lb])
  <2> DEFINE es == node[lb].ents
             fs == node'[lb].ents
  <2>1. /\ DOMAIN fs = DOMAIN es /\ p \in DOMAIN es
        /\ \A i \in DOMAIN es : fs[i] = IF i = p THEN e ELSE es[i]
    BY <1>1
  <2>2. Ordered(es, 0, U[lb])
    BY <1>1 DEF Sorted
  <2>3. /\ e.lblk = es[p].lblk /\ e.lblk < EndOf(e, 0) /\ EndOf(e, 0) <= U[lb]
        /\ \A j \in DOMAIN es : p < j => EndOf(e, 0) <= es[j].lblk
    BY <1>2 DEF ex
  <2> HIDE DEF es, fs, lb, p
  <2>4. EndMoved(es, fs, 0, U[lb], p, e)
    BY <2>1, <2>3 DEF EndMoved
  <2>5. Ordered(fs, 0, U[lb])
    BY <2>2, <2>4, OrderedRewritten
  <2> QED
    BY <2>5 DEF fs
<1>4. ASSUME NEW b \in DOMAIN node
      PROVE  /\ node'[b].depth = node[b].depth /\ node'[b].max = node[b].max
             /\ DOMAIN node'[b].ents = DOMAIN node[b].ents
             /\ \A i \in DOMAIN node[b].ents :
                   /\ node'[b].ents[i].lblk = node[b].ents[i].lblk
                   /\ node'[b].ents[i].pblk = node[b].ents[i].pblk
             /\ Ordered(node'[b].ents, node[b].depth, U[b])
  <2>1. CASE b # lb
    BY <2>1, <1>1 DEF Sorted
  <2>2. CASE b = lb
    <3>1. \A i \in DOMAIN node[lb].ents :
             /\ node'[lb].ents[i].lblk = node[lb].ents[i].lblk
             /\ node'[lb].ents[i].pblk = node[lb].ents[i].pblk
      BY <1>1 DEF ex
    <3> QED
      BY <2>2, <1>1, <1>3, <3>1
  <2> QED
    BY <2>1, <2>2
<1>5. KidsLive(node)
  BY DEF IInv, TreeInv
<1>6. KeysKept(node, node', U)
  BY <1>1, <1>4 DEF KeysKept
<1>7. Sorted(node', U)
  BY <1>5, <1>6, SameKeys
<1> QED
  BY <1>1, <1>7 DEF Bounds

\* The leaf and its current extent.
LEMMA LeafFacts ==
    ASSUME IInv, pc \in Working, leaf.pos # 0, NEW U \in Bounds, Sorted(node, U)
    PROVE  LET es == node[leaf.blk].ents
           IN  /\ leaf.blk \in DOMAIN node /\ node[leaf.blk].depth = 0
               /\ leaf.pos \in 1 .. Len(es) /\ leaf.pos \in Nat
               /\ Len(es) \in Nat /\ DOMAIN es = 1 .. Len(es) /\ ex = es[leaf.pos]
               /\ ex \in Entry /\ ex.lblk \in Nat /\ End(ex) \in Nat
               /\ ex.lblk < End(ex) /\ End(ex) <= U[leaf.blk] /\ U[leaf.blk] \in Nat
               /\ ee_len(ex) \in Nat
               /\ End(ex) = ex.lblk + ee_len(ex)
               /\ ee_len(ex) >= 1
               /\ \A i \in 1 .. Len(es) :
                     /\ es[i] \in Entry /\ es[i].lblk \in Nat /\ End(es[i]) \in Nat
                     /\ es[i].lblk < End(es[i]) /\ End(es[i]) <= U[leaf.blk]
               /\ \A i, j \in 1 .. Len(es) : i < j => End(es[i]) <= es[j].lblk
<1> DEFINE es == node[leaf.blk].ents
           p == leaf.pos
<1>1. /\ leaf.blk \in DOMAIN node /\ node[leaf.blk].depth = 0 /\ path # <<>>
  <2>1. LET n == Len(path)
        IN  /\ n \in Nat \ {0} /\ leaf = path[n] /\ path # <<>>
            /\ \A k \in 1 .. n : path[k].blk \in DOMAIN node /\ node[path[k].blk].depth = n - k
    BY PathFacts
  <2> QED
    BY <2>1
<1>2. /\ U[leaf.blk] \in Nat
      /\ Len(es) \in Nat /\ DOMAIN es = 1 .. Len(es)
      /\ \A i \in 1 .. Len(es) :
            /\ es[i] \in Entry /\ es[i].lblk \in Nat /\ End(es[i]) \in Nat
            /\ es[i].lblk < End(es[i]) /\ End(es[i]) <= U[leaf.blk]
      /\ \A i, j \in 1 .. Len(es) : i < j => End(es[i]) <= es[j].lblk
  <2>1. /\ U[leaf.blk] \in Nat
        /\ Len(es) \in Nat /\ DOMAIN es = 1 .. Len(es)
        /\ \A i \in 1 .. Len(es) :
              /\ es[i] \in Entry /\ es[i].lblk \in Nat /\ EndOf(es[i], 0) \in Nat
              /\ EndOf(es[i], 0) = End(es[i])
              /\ es[i].lblk < EndOf(es[i], 0) /\ EndOf(es[i], 0) <= U[leaf.blk]
        /\ \A i, j \in 1 .. Len(es) : i < j => EndOf(es[i], 0) <= es[j].lblk
    BY <1>1, SortedNode
  <2> HIDE DEF es
  <2> QED
    BY <2>1
<1>3. p \in Nat /\ p <= Len(es)
  <2>1. leaf \in PathElem
    BY <1>1, LenProperties, EmptySeq, ElementOfSeq DEF IInv, LocalInv, LocalType, leaf
  <2>2. p <= Len(es)
    BY <1>1 DEF IInv, LocalInv, PathInv
  <2> QED
    BY <2>1, <2>2 DEF PathElem
<1>4. p \in 1 .. Len(es) /\ ex = es[p]
  BY <1>2, <1>3 DEF ex
<1>5. /\ ex \in Entry /\ ex.lblk \in Nat /\ End(ex) \in Nat
      /\ ex.lblk < End(ex) /\ End(ex) <= U[leaf.blk]
  BY <1>2, <1>4
<1>6. /\ ee_len(ex) \in Nat
      /\ End(ex) = ex.lblk + ee_len(ex)
  BY <1>5, RawLengths DEF End
<1>7. ee_len(ex) >= 1
  BY <1>5, <1>6
<1> QED
  BY <1>1, <1>2, <1>3, <1>4, <1>5, <1>6, <1>7

\* Where the new extent belongs: behind the current extent, or before the first.
LEMMA NewPlace ==
    ASSUME IInv, OwnerInv, pc \in {"insert", "grow", "split", "link"},
           NEW U \in Bounds, Sorted(node, U), PlaceInv(U)
    PROVE  LET es == node[leaf.blk].ents
           IN  /\ newext \in Entry /\ newext.lblk \in Nat /\ End(newext) \in Nat
               /\ newext.lblk < End(newext) /\ End(newext) <= U[leaf.blk]
               /\ On(node, path, newext.lblk) /\ Linked
               /\ leaf.pos = 0 <=> ~ Used(leaf.blk)
               /\ \A j \in 1 .. Len(es) : leaf.pos < j => End(newext) <= es[j].lblk
               /\ leaf.pos # 0 =>
                     \/ End(ex) <= newext.lblk /\ ex.lblk < newext.lblk
                     \/ leaf.pos = 1 /\ End(newext) <= ex.lblk /\ newext.lblk < ex.lblk
<1> DEFINE es == node[leaf.blk].ents
           p == leaf.pos
<1>1. pc \in Working /\ pc \in Inserting
  BY DEF Working, Inserting
<1>2. newext \in Entry /\ newext.lblk \in Nat /\ ee_len(newext) \in Nat
  BY RawLengths DEF IInv, LocalInv, LocalType, Entry
<1>3. ee_len(newext) >= 1
  BY <1>1 DEF OwnerInv, NewInv
<1>4. End(newext) \in Nat /\ newext.lblk < End(newext)
  BY <1>2, <1>3 DEF End
<1>5. Arrived(newext.lblk) /\ FitsIn(U, leaf.blk)
  BY DEF PlaceInv
<1>6. On(node, path, newext.lblk) /\ Linked
  BY <1>1, <1>2, <1>5, ArrivedOn
<1>7. Used(leaf.blk) => Placed(es, newext.lblk, p)
  BY <1>6 DEF On, leaf, Used
<1>8. ~ Used(leaf.blk) => p = 0
  BY <1>5 DEF Arrived
<1>9. leaf.blk \in DOMAIN node /\ node[leaf.blk].depth = 0
  BY <1>1, LeafOfPath, WorkingPath
<1>10. /\ Len(es) \in Nat /\ DOMAIN es = 1 .. Len(es)
       /\ \A i \in 1 .. Len(es) :
             /\ es[i] \in Entry /\ es[i].lblk \in Nat /\ End(es[i]) \in Nat
             /\ es[i].lblk < End(es[i])
  <2>1. /\ Len(es) \in Nat /\ DOMAIN es = 1 .. Len(es)
        /\ \A i \in 1 .. Len(es) :
              /\ es[i] \in Entry /\ es[i].lblk \in Nat /\ EndOf(es[i], 0) \in Nat
              /\ EndOf(es[i], 0) = End(es[i]) /\ es[i].lblk < EndOf(es[i], 0)
    BY <1>9, SortedNode
  <2> HIDE DEF es
  <2> QED
    BY <2>1
<1>11. p = 0 <=> ~ Used(leaf.blk)
  BY <1>7, <1>8 DEF Placed
<1>12. /\ End(newext) <= U[leaf.blk]
       /\ \A i \in 1 .. Len(es) : End(es[i]) <= newext.lblk \/ End(newext) <= es[i].lblk
  BY <1>5, <1>10 DEF FitsIn
<1>13. ex = es[p]
  BY DEF ex
<1>14. ASSUME NEW j \in 1 .. Len(es), p < j
       PROVE  End(newext) <= es[j].lblk
  <2>1. Used(leaf.blk)
    BY <1>10 DEF Used
  <2>2. newext.lblk < es[j].lblk
    BY <1>7, <1>14, <2>1 DEF Placed
  <2> HIDE DEF es
  <2> QED
    BY <2>2, <1>2, <1>10, <1>12
<1>15. ASSUME p # 0
       PROVE  \/ End(ex) <= newext.lblk /\ ex.lblk < newext.lblk
              \/ p = 1 /\ End(newext) <= ex.lblk /\ newext.lblk < ex.lblk
  <2>1. p \in 1 .. Len(es) /\ (p > 1 => es[p].lblk <= newext.lblk)
    BY <1>7, <1>11, <1>15 DEF Placed
  <2>2. End(es[p]) <= newext.lblk \/ End(newext) <= es[p].lblk
    BY <2>1, <1>12
  <2>3. es[p].lblk \in Nat /\ End(es[p]) \in Nat /\ es[p].lblk < End(es[p])
    BY <2>1, <1>10
  <2> HIDE DEF es, p
  <2> QED
    BY <2>1, <2>2, <2>3, <1>2, <1>4, <1>10, <1>13
<1> QED
  BY <1>2, <1>4, <1>6, <1>11, <1>12, <1>14, <1>15

\* A marked extent ends where it did.
LEMMA WholeOrders ==
    ASSUME IInv, OrderInv, SoundCuts, CutWhole
    PROVE  OrderInv'
<1> DEFINE e == IF "MARK_UNWRIT2" \in Head(todo).flag
                THEN ext4_ext_mark_unwritten(ex) ELSE ext4_ext_mark_initialized(ex)
<1>1. PICK U : U \in Bounds /\ Sorted(node, U)
  BY DEF OrderInv, Bounds
<1>2. /\ pc = "splitat" /\ leaf.pos # 0
      /\ node' = [node EXCEPT ![leaf.blk].ents[leaf.pos] = e]
      /\ Len(todo) = 1 => Return(res)
  BY DEF CutWhole, CutHere, SplitExtentAt_whole, ex
<1>3. pc \in Working /\ path # <<>>
  BY <1>2, WorkingPath DEF Working
<1>4. /\ ex \in Entry /\ ee_len(ex) >= 1
      /\ ex.lblk < End(ex) /\ End(ex) <= U[leaf.blk]
      /\ \A j \in DOMAIN node[leaf.blk].ents :
            leaf.pos < j => End(ex) <= node[leaf.blk].ents[j].lblk
  BY <1>1, <1>2, <1>3, LeafFacts
<1>5. e \in Entry /\ e.lblk = ex.lblk /\ e.pblk = ex.pblk /\ End(e) = End(ex)
  BY <1>4, MarkedLength, RawLengths DEF End
<1> HIDE DEF e
<1>6. U \in [DOMAIN node' -> Nat] /\ Sorted(node', U)
  BY <1>1, <1>2, <1>3, <1>4, <1>5, RewriteSorts
<1>7. pc' = "idle"
  <2>1. Len(todo) = 1
    BY <1>2, OneCutLeft DEF IInv, LocalInv, DataInv
  <2> QED
    BY <1>2, <2>1 DEF Return
<1> QED
  BY <1>6, <1>7, Calm

\* The current extent is extended by the new one.
LEMMA AppendOrders ==
    ASSUME IInv, OwnerInv, OrderInv, SoundCuts, SoundMerges, pc = "insert",
           AppendToExtent
    PROVE  OrderInv'
<1> DEFINE e == Appended(ex, newext)
<1>1. PICK U : U \in Bounds /\ Sorted(node, U) /\ LocalOrder(U)
  BY DEF OrderInv, Bounds
<1>2. /\ leaf.pos # 0 /\ ext4_ext_can_append(ex, newext)
      /\ node' = [node EXCEPT ![leaf.blk].ents[leaf.pos] = e]
      /\ Inserted(leaf.pos)
  BY DEF AppendToExtent, CanAppend, ex
<1>3. pc \in Working /\ path # <<>> /\ PlaceInv(U)
  BY <1>1, WorkingPath DEF Working, LocalOrder
<1>4. /\ ex \in Entry /\ ex.lblk \in Nat /\ ex.lblk < End(ex) /\ End(ex) \in Nat
      /\ ee_len(ex) \in Nat
      /\ DOMAIN node[leaf.blk].ents = 1 .. Len(node[leaf.blk].ents)
  BY <1>1, <1>2, <1>3, LeafFacts
<1>5. /\ newext \in Entry /\ newext.lblk \in Nat /\ End(newext) \in Nat
      /\ newext.lblk < End(newext) /\ End(newext) <= U[leaf.blk]
      /\ \A j \in 1 .. Len(node[leaf.blk].ents) :
            leaf.pos < j => End(newext) <= node[leaf.blk].ents[j].lblk
  BY <1>1, <1>3, NewPlace
<1>11. ee_len(ex) + ee_len(newext) < InitMax
  BY DEF SoundMerges, AppendToExtent
<1>12. ex.lblk + ee_len(ex) = newext.lblk
  BY <1>2, <1>4, <1>5, AppendedInitialised DEF ext4_ext_can_append
<1>6. e \in Entry /\ e.lblk = ex.lblk /\ e.pblk = ex.pblk
  BY <1>2, <1>4, <1>5, <1>11, AppendedLength, MergedExtents
<1>7. End(e) = End(newext)
  <2>1. ee_len(e) =
           ee_len(ex) + ee_len(newext)
    BY <1>2, <1>4, <1>5, <1>11, AppendedLength
  <2>2. ee_len(newext) \in Nat
    BY <1>5, RawLengths
  <2> HIDE DEF e
  <2> QED
    BY <1>4, <1>6, <2>1, <2>2, <1>12 DEF End
<1>8. e.lblk < End(e)
  <2>1. newext.lblk = End(ex)
    BY <1>12 DEF End
  <2> HIDE DEF e
  <2> QED
    BY <2>1, <1>4, <1>5, <1>6, <1>7
<1> HIDE DEF e
<1>9. U \in [DOMAIN node' -> Nat] /\ Sorted(node', U)
  <2>1. /\ End(e) <= U[leaf.blk]
        /\ \A j \in DOMAIN node[leaf.blk].ents :
              leaf.pos < j => End(e) <= node[leaf.blk].ents[j].lblk
    BY <1>4, <1>5, <1>7
  <2> QED
    BY <2>1, <1>1, <1>2, <1>3, <1>6, <1>8, RewriteSorts
<1>10. pc' = "idle"
  BY <1>2 DEF Inserted, Return, SoundCuts
<1> QED
  BY <1>9, <1>10, Calm

\* The length that was cut off is put back.
LEMMA RestoreOrders ==
    ASSUME IInv, OwnerInv, OrderInv, SoundCuts, restore_extent_len
    PROVE  OrderInv'
<1> DEFINE sb == saved.blk
           sp == saved.pos
<1>1. PICK U : U \in Bounds /\ Sorted(node, U) /\ LocalOrder(U)
  BY DEF OrderInv, Bounds
<1>2. /\ pc = "fail" /\ todo # <<>> /\ Converting
      /\ node' = [node EXCEPT ![sb].ents[sp].len = saved.len]
      /\ Len(todo) = 1 => Return(res)
  BY DEF restore_extent_len, Converting
<1>3. /\ DOMAIN node' = DOMAIN node
      /\ \A b \in DOMAIN node :
            /\ node'[b].depth = node[b].depth /\ node'[b].max = node[b].max
            /\ DOMAIN node'[b].ents = DOMAIN node[b].ents
            /\ \A i \in DOMAIN node[b].ents :
                  node'[b].ents[i] =
                     IF b = sb /\ i = sp
                     THEN [node[b].ents[i] EXCEPT !.len = saved.len]
                     ELSE node[b].ents[i]
  <2> HIDE DEF sb, sp
  <2> QED
    BY ONLY IInv, <1>2, RestoreEffect
<1>4. saved.len \in RawLen /\ saved.len < InitMax
  BY <1>2 DEF OwnerInv, SavedInv, Inserting, IInv, LocalInv, LocalType
<1>5. node[sb].depth = 0 /\ sp \in DOMAIN node[sb].ents =>
         LET es == node[sb].ents
             n  == es[sp].lblk + saved.len
         IN  /\ saved.len >= 1 /\ n <= U[sb]
             /\ \A j \in DOMAIN es : sp < j => n <= es[j].lblk
  BY <1>1, <1>2 DEF LocalOrder, RestoreInv, Inserting
<1> HIDE DEF sb, sp
<1>6. ASSUME NEW b \in DOMAIN node
      PROVE  /\ \A i \in DOMAIN node[b].ents :
                   /\ node'[b].ents[i].lblk = node[b].ents[i].lblk
                   /\ node'[b].ents[i].pblk = node[b].ents[i].pblk
             /\ Ordered(node'[b].ents, node[b].depth, U[b])
  <2> DEFINE es == node[b].ents
             fs == node'[b].ents
             d  == node[b].depth
             p  == IF b = sb THEN sp ELSE 0
             e  == [es[p] EXCEPT !.len = saved.len]
  <2>1. /\ U[b] \in Nat /\ d \in Nat /\ Len(es) \in Nat /\ DOMAIN es = 1 .. Len(es)
        /\ \A i \in 1 .. Len(es) :
              /\ es[i] \in Entry /\ es[i].lblk \in Nat
              /\ d > 0 => EndOf(es[i], d) = es[i].lblk + 1
              /\ EndOf(es[i], d) <= U[b]
        /\ \A i, j \in 1 .. Len(es) : i < j => EndOf(es[i], d) <= es[j].lblk
    BY <1>1, SortedNode
  <2>2. DOMAIN fs = DOMAIN es /\ \A i \in DOMAIN es : fs[i] = IF i = p THEN e ELSE es[i]
    <3>1. DOMAIN fs = DOMAIN es /\ \A i \in DOMAIN es :
             fs[i] = IF b = sb /\ i = sp THEN [es[i] EXCEPT !.len = saved.len] ELSE es[i]
      BY <1>3
    <3>2. \A i \in DOMAIN es : i # 0
      BY <2>1
    <3>3. CASE b = sb
      BY <3>1, <3>3
    <3>4. CASE b # sb
      <4>1. \A i \in DOMAIN es : fs[i] = es[i]
        BY <3>1, <3>4
      <4> QED
        BY <3>1, <3>2, <3>4, <4>1
    <3> QED
      BY <3>3, <3>4
  <2>3. Ordered(es, d, U[b])
    BY <1>1 DEF Sorted
  <2>4. ASSUME p \in DOMAIN es
        PROVE  e \in Entry /\ e.lblk = es[p].lblk /\ e.pblk = es[p].pblk /\ e.len = saved.len
    BY <1>4, <2>1, <2>4 DEF Entry
  <2>5. ASSUME p \in DOMAIN es, d > 0
        PROVE  /\ e.lblk < EndOf(e, d) /\ EndOf(e, d) <= U[b]
               /\ \A j \in DOMAIN es : p < j => EndOf(e, d) <= es[j].lblk
    <3>1. EndOf(e, d) = es[p].lblk + 1 /\ EndOf(es[p], d) = es[p].lblk + 1
      BY <2>1, <2>4, <2>5 DEF EndOf
    <3> HIDE DEF es, d, e, p
    <3> QED
      BY <3>1, <2>1, <2>4, <2>5
  <2>6. ASSUME p \in DOMAIN es, d = 0
        PROVE  /\ e.lblk < EndOf(e, d) /\ EndOf(e, d) <= U[b]
               /\ \A j \in DOMAIN es : p < j => EndOf(e, d) <= es[j].lblk
    <3>1. b = sb /\ p = sp
      BY <2>1, <2>6
    <3>2. /\ saved.len >= 1 /\ es[p].lblk + saved.len <= U[b]
          /\ \A j \in DOMAIN es : p < j => es[p].lblk + saved.len <= es[j].lblk
      BY <3>1, <1>5, <2>6
    <3>3. ee_len(e) = saved.len
      <4>1. e.len = saved.len /\ saved.len \in 0 .. InitMax - 1
        BY <1>4, <2>4, <2>6, InitMaxAssumption DEF RawLen
      <4> QED
        BY <4>1, PlainLength
    <3>4. EndOf(e, d) = es[p].lblk + saved.len
      BY <2>4, <2>6, <3>3 DEF EndOf, End
    <3>5. e.lblk = es[p].lblk /\ es[p].lblk \in Nat /\ saved.len \in Nat
      BY <2>1, <2>4, <2>6, <1>4 DEF RawLen
    <3> HIDE DEF es, d, e, p
    <3> QED
      BY <3>2, <3>4, <3>5
  <2>7. EndMoved(es, fs, d, U[b], p, e)
    <3>1. d > 0 \/ d = 0
      BY <2>1
    <3> HIDE DEF es, fs, d, e, p
    <3> QED
      BY <3>1, <2>2, <2>4, <2>5, <2>6 DEF EndMoved
  <2>8. \A i \in DOMAIN es : fs[i].lblk = es[i].lblk /\ fs[i].pblk = es[i].pblk
    <3> HIDE DEF es, fs, e, p
    <3> QED
      BY <2>2, <2>4
  <2>9. Ordered(fs, d, U[b])
    <3> HIDE DEF es, fs, e, p, d
    <3> QED
      BY <2>3, <2>7, OrderedRewritten
  <2> QED
    BY <2>8, <2>9
<1>7. KeysKept(node, node', U)
  BY <1>3, <1>6 DEF KeysKept
<1>8. Sorted(node', U) /\ U \in [DOMAIN node' -> Nat]
  BY <1>1, <1>3, <1>7, SameKeys DEF IInv, TreeInv, Bounds
<1>9. pc' = "idle"
  BY <1>2, OneCutLeft DEF Return
<1> QED
  BY <1>8, <1>9, Calm

-----------------------------------------------------------------------------
(* Steps that put the new extent in hand.                                  *)

\* The path after a step.
LEMMA NextPath ==
    ASSUME IInv', pc' \in Working
    PROVE  LET n == Len(path')
           IN  /\ n \in Nat \ {0} /\ path' # <<>> /\ leaf' = path'[n]
               /\ \A k \in 1 .. n :
                     LET es == node'[path'[k].blk].ents
                     IN  /\ path'[k].blk \in DOMAIN node'
                         /\ es \in Seq(Entry) /\ Len(es) \in Nat
                         /\ DOMAIN es = 1 .. Len(es)
                         /\ k < n => path'[k].pos \in 1 .. Len(es) /\ es # <<>>
<1> DEFINE n == Len(path')
<1>1. /\ path' \in Seq(PathElem) /\ node' \in [DOMAIN node' -> Node]
      /\ Root \in DOMAIN node'
  BY DEF IInv, TreeInv, LocalInv, TreeType, LocalType
<1>2. n = node'[Root].depth + 1 /\ node'[Root].depth \in Nat
  BY <1>1, NodeFields DEF IInv, LocalInv, PathInv, depth
<1>3. n \in Nat \ {0} /\ path' # <<>> /\ leaf' = path'[n]
  BY <1>1, <1>2, EmptySeq DEF leaf
<1>4. ASSUME NEW k \in 1 .. n
      PROVE  LET es == node'[path'[k].blk].ents
             IN  /\ path'[k].blk \in DOMAIN node'
                 /\ es \in Seq(Entry) /\ Len(es) \in Nat
                 /\ DOMAIN es = 1 .. Len(es)
                 /\ k < n => path'[k].pos \in 1 .. Len(es) /\ es # <<>>
  <2> DEFINE es == node'[path'[k].blk].ents
  <2>1. /\ path'[k].blk \in DOMAIN node'
        /\ k < n => path'[k].pos \in 1 .. Len(es)
    BY <1>4 DEF IInv, LocalInv, PathInv
  <2>2. es \in Seq(Entry) /\ Len(es) \in Nat /\ DOMAIN es = 1 .. Len(es)
    BY <1>1, <2>1, NodeFields
  <2>3. k < n => es # <<>>
    BY <2>1, <2>2, EmptySeq
  <2> QED
    BY <2>1, <2>2, <2>3
<1> QED
  BY <1>3, <1>4

LEMMA NextArrives ==
    ASSUME IInv', pc' \in Working, On(node', path', newext'.lblk)
    PROVE  Arrived(newext.lblk)'
<1>1. newext'.lblk \in Nat
  BY DEF IInv, LocalInv, LocalType, Entry
<1> QED
  BY <1>1, NextPath, OnArrives

\* An extent is cut: the search for the part that was cut off takes the same path.
LEMMA CutOrders ==
    ASSUME IInv, OwnerInv, OrderInv, SoundCuts, CutPart, IInv'
    PROVE  OrderInv'
<1> DEFINE m  == ee_len(ex)
           lb == leaf.blk
           p  == leaf.pos
           es == node[lb].ents
           fs == node'[lb].ents
           l  == newext'.lblk
           n  == Len(path)
<1>1. PICK U : U \in Bounds /\ Sorted(node, U) /\ LocalOrder(U)
  BY DEF OrderInv, Bounds
<1>2. /\ pc = "splitat" /\ pc' = "insert" /\ pc \in Working
      /\ leaf.pos # 0 /\ path # <<>> /\ ex \in Entry
      /\ saved' = [blk |-> lb, pos |-> p, len |-> m]
      /\ path' = path /\ todo' = todo /\ todo # <<>>
  BY CutEffect
<1>3. PICK g \in Entry : \E d \in 1 .. m - 1 :
         /\ node' = [node EXCEPT ![leaf.blk].ents[leaf.pos] = g]
         /\ ee_len(g) = d
         /\ g.pblk = ex.pblk /\ g.lblk = ex.lblk
         /\ ee_len(newext') = m - d
         /\ newext' \in Entry
         /\ newext'.pblk = d + ex.pblk /\ newext'.lblk = ex.lblk + d
  BY CutEffect
<1>4. PICK d \in 1 .. m - 1 :
         /\ node' = [node EXCEPT ![leaf.blk].ents[leaf.pos] = g]
         /\ ee_len(g) = d
         /\ g.pblk = ex.pblk /\ g.lblk = ex.lblk
         /\ ee_len(newext') = m - d
         /\ newext' \in Entry /\ l = ex.lblk + d
  BY <1>3
<1>5. /\ lb \in DOMAIN node /\ p \in 1 .. Len(es) /\ p \in Nat
      /\ Len(es) \in Nat /\ DOMAIN es = 1 .. Len(es) /\ ex = es[p]
      /\ ex.lblk \in Nat /\ End(ex) \in Nat /\ m \in Nat /\ U[lb] \in Nat
      /\ End(ex) = ex.lblk + m /\ End(ex) <= U[lb]
  BY <1>1, <1>2, LeafFacts
<1>6. /\ \A i \in 1 .. Len(es) :
            es[i].lblk \in Nat /\ End(es[i]) \in Nat /\ es[i].lblk < End(es[i])
      /\ \A i, j \in 1 .. Len(es) : i < j => End(es[i]) <= es[j].lblk
  BY <1>1, <1>2, LeafFacts
<1>7. /\ DOMAIN node' = DOMAIN node
      /\ \A b \in DOMAIN node : b # lb => node'[b] = node[b]
      /\ DOMAIN fs = DOMAIN es /\ Len(fs) = Len(es)
      /\ \A i \in DOMAIN es : fs[i] = IF i = p THEN g ELSE es[i]
      /\ node'[lb].max = node[lb].max
  BY <1>2, <1>4, RewriteEffect
<1>8. /\ n \in Nat \ {0} /\ leaf = path[n]
      /\ \A k \in 1 .. n : path[k].blk \in DOMAIN node
      /\ \A k \in 1 .. n - 1 : path[k].blk # lb
      /\ \A k \in 1 .. n - 1 : path[k].pos \in 1 .. Len(node[path[k].blk].ents)
  <2>1. /\ n \in Nat \ {0} /\ leaf = path[n]
        /\ \A k \in 1 .. n :
              /\ path[k].blk \in DOMAIN node
              /\ k < n => path[k].pos \in 1 .. Len(node[path[k].blk].ents)
        /\ \A k, j \in 1 .. n : path[k].blk = path[j].blk => k = j
    BY <1>2, PathFacts
  <2>2. \A k \in 1 .. n - 1 : k \in 1 .. n /\ k < n /\ k # n /\ n \in 1 .. n
    BY <2>1
  <2> HIDE DEF n
  <2> QED
    BY <2>1, <2>2
<1>9. Linked /\ Used(lb)
  <2>1. Linked
    BY <1>1, <1>2 DEF LocalOrder, PlaceInv
  <2> QED
    BY <2>1, <1>5 DEF Used
<1> HIDE DEF m, lb, p, es, fs, l, n
<1>10. End(g) = l /\ End(newext') = End(ex) /\ ex.lblk < l /\ l < End(ex)
       /\ l \in Nat /\ g.lblk < End(g)
  <2>1. End(g) = ex.lblk + d
    BY <1>4 DEF End
  <2>2. End(newext') = l + (m - d)
    BY <1>4 DEF End, l
  <2>3. /\ l = ex.lblk + d /\ g.lblk = ex.lblk /\ ex.lblk \in Nat
        /\ m \in Nat /\ End(ex) = ex.lblk + m /\ d \in 1 .. m - 1
    BY <1>4, <1>5
  <2> QED
    BY ONLY <2>1, <2>2, <2>3
<1>11. U \in [DOMAIN node' -> Nat] /\ Sorted(node', U)
  <2>1. /\ End(g) <= U[leaf.blk]
        /\ \A j \in DOMAIN node[leaf.blk].ents :
              leaf.pos < j => End(g) <= node[leaf.blk].ents[j].lblk
    <3>1. End(g) <= U[lb]
      BY <1>5, <1>10
    <3>2. \A j \in DOMAIN es : p < j => End(g) <= es[j].lblk
      BY <1>5, <1>6, <1>10
    <3> QED
      BY <3>1, <3>2 DEF lb, p, es
  <2> QED
    BY <2>1, <1>1, <1>2, <1>4, <1>10, RewriteSorts
<1>12. ASSUME NEW k \in 1 .. n - 1
       PROVE  LET ks == node'[path'[k].blk].ents
              IN  Placed(ks, l, path'[k].pos) /\ path'[k + 1].blk = ks[path'[k].pos].pblk
  <2> DEFINE ks == node[path[k].blk].ents
             q  == path[k].pos
  <2>1. node'[path'[k].blk].ents = ks /\ path'[k].pos = q /\ path'[k + 1] = path[k + 1]
    BY <1>2, <1>7, <1>8
  <2>2. path[k + 1].blk = ks[q].pblk
    BY <1>9 DEF Linked, n
  <2>3. q \in 1 .. Len(ks)
    BY <1>8
  <2>4. /\ \A i \in 1 .. Len(ks) : ks[i].lblk \in Nat
    BY <1>1, <1>2, <1>9, PathChild DEF n
  <2>5. ks[q].lblk <= es[1].lblk
    BY <1>1, <1>2, <1>9, KeyChain DEF n, lb, es
  <2>6. es[1].lblk <= ex.lblk /\ es[1].lblk \in Nat
    <3>1. 1 \in 1 .. Len(es) /\ (p = 1 \/ 1 < p)
      BY <1>5
    <3> QED
      BY <3>1, <1>5, <1>6
  <2>7. \A j \in 1 .. Len(ks) : q < j => U[lb] <= ks[j].lblk
    BY <1>1, <1>2, <1>9, BoundChain DEF n, lb
  <2> HIDE DEF ks, q
  <2>8. ks[q].lblk <= l
    BY <2>3, <2>4, <2>5, <2>6, <1>5, <1>10, SMTT(30)
  <2>9. \A j \in 1 .. Len(ks) : q < j => l < ks[j].lblk
    <3>1. U[lb] \in Nat /\ l \in Nat /\ l < U[lb]
      BY <1>5, <1>10
    <3> QED
      BY ONLY <3>1, <2>4, <2>7
  <2> QED
    BY <2>1, <2>2, <2>3, <2>8, <2>9 DEF Placed
<1>13. /\ fs[p].lblk = ex.lblk /\ End(fs[p]) = l
       /\ \A i \in 1 .. Len(es) : i # p => fs[i] = es[i]
       /\ DOMAIN fs = 1 .. Len(es) /\ 1 \in 1 .. Len(es)
  BY <1>4, <1>5, <1>7, <1>10
<1>14. Placed(fs, l, p)
  <2>1. \A j \in 1 .. Len(fs) : p < j => l < fs[j].lblk
    BY <1>5, <1>6, <1>7, <1>10, <1>13
  <2> QED
    BY <2>1, <1>5, <1>7, <1>10, <1>13 DEF Placed
<1>15. /\ path'[n] = leaf /\ leaf' = leaf
  BY <1>2, <1>8 DEF leaf
<1>16. On(node', path', l)
  <2>1. Len(path') = n
    BY <1>2 DEF n
  <2>2. path'[n].blk = lb /\ path'[n].pos = p /\ node'[path'[n].blk].ents = fs
    BY <1>15 DEF lb, p, fs
  <2>3. 1 \in DOMAIN fs
    BY <1>13
  <2> QED
    BY <2>1, <2>2, <2>3, <1>12, <1>14 DEF On
<1>17. Arrived(newext.lblk)'
  BY <1>2, <1>16, NextArrives DEF l, Working
<1>18. FitsIn(U, leaf.blk)'
  <2>1. End(newext') <= U[lb]
    BY <1>5, <1>10
  <2>2. ASSUME NEW i \in DOMAIN fs
        PROVE  End(fs[i]) <= l \/ End(newext') <= fs[i].lblk
    <3>1. i \in 1 .. Len(es) /\ (i = p \/ i < p \/ p < i)
      BY <1>5, <1>13
    <3>2. CASE i = p
      BY <3>2, <1>10, <1>13
    <3>3. CASE i < p
      <4>1. fs[i] = es[i]
        BY <3>1, <3>3, <1>5, <1>13
      <4>2. End(es[i]) <= ex.lblk /\ End(es[i]) \in Nat
        BY <3>1, <3>3, <1>5, <1>6
      <4> QED
        BY <4>1, <4>2, <1>5, <1>10
    <3>4. CASE p < i
      <4>1. fs[i] = es[i]
        BY <3>1, <3>4, <1>5, <1>13
      <4>2. End(ex) <= es[i].lblk
        BY <3>1, <3>4, <1>5, <1>6
      <4> QED
        BY <4>1, <4>2, <1>10
    <3> QED
      BY <3>1, <3>2, <3>3, <3>4
  <2>3. leaf'.blk = lb
    BY <1>15 DEF lb
  <2> QED
    BY <2>1, <2>2, <2>3 DEF FitsIn, fs, l
<1>19. PlaceInv(U)'
  BY <1>2, <1>17, <1>18 DEF PlaceInv
<1>20. KeyInv(U)' /\ HalfInv(U)'
  BY <1>2 DEF KeyInv, HalfInv
<1>21. RestoreInv(U)'
  <2>1. saved'.blk = lb /\ saved'.pos = p /\ saved'.len = m
    BY <1>2
  <2>2. m >= 1 /\ fs[p].lblk + m = End(ex)
    BY <1>4, <1>5, <1>13
  <2>3. \A j \in DOMAIN fs : p < j => End(ex) <= fs[j].lblk
    <3> SUFFICES ASSUME NEW j \in DOMAIN fs, p < j PROVE End(ex) <= fs[j].lblk
      OBVIOUS
    <3>1. j \in 1 .. Len(es) /\ j # p
      BY <1>5, <1>13
    <3> QED
      BY <3>1, <1>5, <1>6, <1>13
  <2> QED
    BY <2>1, <2>2, <2>3, <1>5 DEF RestoreInv, fs
<1> QED
  BY <1>11, <1>19, <1>20, <1>21 DEF OrderInv, LocalOrder

\* The index of a node of the path is the one that the path follows.
LEMMA UniqueParent ==
    ASSUME IInv, OwnerInv, pc \in Working, Linked,
           NEW b \in DOMAIN node, node[b].depth > 0, NEW i \in DOMAIN node[b].ents,
           NEW k \in 1 .. Len(path), node[b].ents[i].pblk = path[k].blk
    PROVE  k - 1 \in 1 .. Len(path) - 1 /\ b = path[k - 1].blk /\ i = path[k - 1].pos
<1> DEFINE n == Len(path)
           c == path[k - 1].blk
           p == path[k - 1].pos
<1>1. n \in Nat /\ path[1].blk = Root
  BY PathFacts
<1>2. path[k].blk # Root
  BY DEF IInv, TreeInv, KidsLive
<1>3. k - 1 \in 1 .. n - 1 /\ k - 1 \in 1 .. n /\ k - 1 < n /\ (k - 1) + 1 = k
  BY <1>1, <1>2
<1>4. /\ c \in DOMAIN node /\ node[c].depth = n - (k - 1)
      /\ p \in DOMAIN node[c].ents
  BY <1>3, PathFacts
<1>5. node[c].depth > 0
  BY <1>1, <1>3, <1>4
<1>6. node[c].ents[p].pblk = path[k].blk
  BY <1>3 DEF Linked
<1>7. /\ <<b, i>> \in SlotsOf(node) /\ <<c, p>> \in SlotsOf(node)
      /\ path[k].blk \in OwnedBy(node, <<b, i>>) /\ path[k].blk \in OwnedBy(node, <<c, p>>)
  BY <1>4, <1>5, <1>6, SlotIn DEF Refers
<1>8. <<b, i>> = <<c, p>>
  BY <1>7 DEF OwnerInv, OwnersDiffer
<1> QED
  BY <1>3, <1>8

\* A looser bound is a bound.
LEMMA OrderedLoosened ==
    ASSUME NEW es \in Seq(Entry), NEW d \in Nat, NEW u \in Nat, NEW v \in Nat, u <= v,
           Ordered(es, d, u)
    PROVE  Ordered(es, d, v)
<1>1. \A i \in DOMAIN es : EndOf(es[i], d) \in Nat
  BY Ends, LenProperties, ElementOfSeq
<1>2. \A i \in DOMAIN es : EndOf(es[i], d) <= v
  BY <1>1 DEF Ordered
<1> QED
  BY <1>2 DEF Ordered

\* The bounds of the nodes of a path are raised to l + 1 when a search for l takes
\* that path.
LEMMA Raised ==
    ASSUME IInv, OwnerInv, pc \in Working, NEW l \in Nat, On(node, path, l), Linked,
           NEW U \in Bounds, Sorted(node, U)
    PROVE  \E V \in Bounds : Sorted(node, V) /\ l + 1 <= V[leaf.blk]
<1> DEFINE n == Len(path)
           P == {path[k].blk : k \in 1 .. n}
           V == [b \in DOMAIN node |-> IF b \in P /\ U[b] < l + 1 THEN l + 1 ELSE U[b]]
<1>1. n \in Nat \ {0} /\ leaf = path[n]
  BY PathFacts
<1>2. \A b \in DOMAIN node : U[b] \in Nat
  BY DEF Bounds
<1>3. /\ V \in Bounds
      /\ \A b \in DOMAIN node :
            /\ V[b] \in Nat /\ U[b] <= V[b]
            /\ V[b] = U[b] \/ (b \in P /\ V[b] = l + 1)
            /\ b \in P => l + 1 <= V[b]
  BY <1>2 DEF Bounds
<1>4. leaf.blk \in P /\ leaf.blk \in DOMAIN node
  BY <1>1, PathFacts
<1> HIDE DEF V
<1>5. Sorted(node, V)
  <2> SUFFICES ASSUME NEW b \in DOMAIN node
               PROVE  /\ Ordered(node[b].ents, node[b].depth, V[b])
                      /\ node[b].depth > 0 => ChildrenFit(node, V, b)
                      /\ node[b].depth = 0 /\ b # Root => node[b].max >= 2
    BY DEF Sorted
  <2> DEFINE es == node[b].ents
  <2>1. Ordered(es, node[b].depth, V[b])
    <3>1. Ordered(es, node[b].depth, U[b])
      BY DEF Sorted
    <3>2. es \in Seq(Entry) /\ node[b].depth \in Nat
      BY LiveNode
    <3> QED
      BY <3>1, <3>2, <1>2, <1>3, OrderedLoosened
  <2>2. node[b].depth = 0 /\ b # Root => node[b].max >= 2
    BY DEF Sorted
  <2>3. ASSUME node[b].depth > 0, NEW i \in DOMAIN es
        PROVE  LET c == es[i].pblk
               IN  /\ V[c] <= V[b]
                   /\ \A j \in DOMAIN es : i < j => V[c] <= es[j].lblk
                   /\ 1 \in DOMAIN node[c].ents => es[i].lblk <= node[c].ents[1].lblk
    <3> DEFINE c == es[i].pblk
    <3>1. /\ Len(es) \in Nat /\ DOMAIN es = 1 .. Len(es)
          /\ \A j \in 1 .. Len(es) : es[j].lblk \in Nat
          /\ c \in DOMAIN node /\ U[c] \in Nat /\ U[c] <= U[b]
          /\ \A j \in 1 .. Len(es) : i < j => U[c] <= es[j].lblk
          /\ Used(c) => es[i].lblk <= node[c].ents[1].lblk
      BY <2>3, SortedNode
    <3>2. CASE V[c] = U[c]
      <4>1. V[c] <= V[b]
        BY <3>1, <3>2, <1>2, <1>3
      <4>2. \A j \in DOMAIN es : i < j => V[c] <= es[j].lblk
        BY <3>1, <3>2
      <4> QED
        BY <4>1, <4>2, <3>1 DEF Used
    <3>3. CASE c \in P /\ V[c] = l + 1
      <4>1. PICK k \in 1 .. n : path[k].blk = c
        BY <3>3
      <4>2. k - 1 \in 1 .. n - 1 /\ b = path[k - 1].blk /\ i = path[k - 1].pos
        BY <4>1, <2>3, UniqueParent
      <4>3. b \in P
        BY <4>2, <1>1
      <4>4. V[c] <= V[b]
        BY <4>3, <3>3, <1>3
      <4>5. Placed(es, l, i)
        BY <4>2 DEF On
      <4>6. \A j \in DOMAIN es : i < j => V[c] <= es[j].lblk
        BY <4>5, <3>1, <3>3 DEF Placed
      <4> QED
        BY <4>4, <4>6, <3>1 DEF Used
    <3> QED
      BY <3>1, <3>2, <3>3, <1>3
  <2> QED
    BY <2>1, <2>2, <2>3 DEF ChildrenFit
<1> QED
  BY <1>3, <1>4, <1>5

\* A block was allocated for a hole: the leaf that was found has a place for it.
LEMMA AllocateOrders ==
    ASSUME IInv, OwnerInv, FillInv, OrderInv, AllocateData
    PROVE  OrderInv'
<1> DEFINE l == req.lblk
           es == node[leaf.blk].ents
           p == leaf.pos
<1>1. PICK U : U \in Bounds /\ Sorted(node, U) /\ LocalOrder(U)
  BY DEF OrderInv, Bounds
<1>2. /\ pc = "found" /\ ~ Found /\ pc' = "insert"
      /\ node' = node /\ path' = path /\ todo' = todo
      /\ newext'.lblk = l /\ newext'.len = 1
  BY DEF AllocateData, conv
<1>3. pc \in Working /\ path # <<>> /\ l \in Nat
  BY <1>2, WorkingPath DEF Working, IInv, LocalInv, LocalType
<1>4. Arrived(l) /\ todo = <<>>
  BY <1>2 DEF FillInv, SearchInv
<1>5. On(node, path, l) /\ Linked
  BY <1>3, <1>4, ArrivedOn
<1>6. PICK V \in Bounds : Sorted(node, V) /\ l + 1 <= V[leaf.blk]
  BY <1>1, <1>3, <1>5, Raised
<1>7. End(newext') = l + 1
  <2>1. ee_len(newext') = 1
    <3>1. newext'.len = 1 /\ 1 \in 0 .. InitMax - 1
      BY <1>2, InitMaxAssumption
    <3> QED
      BY <3>1, PlainLength
  <2> QED
    BY <2>1, <1>2 DEF End
<1>8. leaf.blk \in DOMAIN node /\ node[leaf.blk].depth = 0
  BY <1>3, LeafOfPath
<1>9. /\ Len(es) \in Nat /\ DOMAIN es = 1 .. Len(es)
      /\ \A i \in 1 .. Len(es) : es[i].lblk \in Nat /\ End(es[i]) \in Nat
      /\ \A i, j \in 1 .. Len(es) : i < j => End(es[i]) <= es[j].lblk
  <2>1. /\ Len(es) \in Nat /\ DOMAIN es = 1 .. Len(es)
        /\ \A i \in 1 .. Len(es) :
              /\ es[i].lblk \in Nat /\ EndOf(es[i], 0) \in Nat
              /\ EndOf(es[i], 0) = End(es[i])
        /\ \A i, j \in 1 .. Len(es) : i < j => EndOf(es[i], 0) <= es[j].lblk
    BY <1>1, <1>8, SortedNode
  <2> HIDE DEF es
  <2> QED
    BY <2>1
<1>10. ASSUME NEW i \in DOMAIN es
       PROVE  End(es[i]) <= l \/ l + 1 <= es[i].lblk
  <2>1. Used(leaf.blk)
    BY <1>9 DEF Used
  <2>2. Placed(es, l, p)
    BY <1>5, <2>1 DEF On, Used, leaf
  <2>3. p \in 1 .. Len(es) /\ p # 0 /\ i \in 1 .. Len(es)
    BY <2>2, <1>9 DEF Placed
  <2>4. ~ Covers(es[p], ee_len(es[p]), l)
    BY <1>2, <2>3 DEF Found, ex
  <2>5. es[p].lblk <= l => End(es[p]) <= l
    <3>1. End(es[p]) = es[p].lblk + ee_len(es[p])
      BY DEF End
    <3>2. ~ (es[p].lblk <= l /\ l < End(es[p]))
      BY <2>4, <3>1 DEF Covers
    <3>3. es[p].lblk \in Nat /\ End(es[p]) \in Nat
      BY <2>3, <1>9
    <3> QED
      BY <3>2, <3>3, <1>3
  <2>6. i = p \/ i < p \/ p < i
    BY <2>3, <1>9
  <2> HIDE DEF es, p
  <2>7. CASE i = p
    BY <2>7, <2>3, <2>5, <1>3, <1>9
  <2>8. CASE i < p
    <3>1. p > 1 /\ es[p].lblk <= l
      BY <2>2, <2>3, <2>8 DEF Placed
    <3>2. End(es[i]) <= es[p].lblk
      BY <2>3, <2>8, <1>9
    <3> QED
      BY <3>1, <3>2, <2>3, <1>3, <1>9
  <2>9. CASE p < i
    <3>1. l < es[i].lblk
      BY <2>2, <2>3, <2>9 DEF Placed
    <3> QED
      BY <3>1, <2>3, <1>3, <1>9
  <2> QED
    BY <2>6, <2>7, <2>8, <2>9
<1>11. Arrived(newext.lblk)'
  BY <1>2, <1>4 DEF Arrived, Searched, Used, leaf
<1>12. FitsIn(V, leaf.blk)'
  BY <1>2, <1>6, <1>7, <1>10 DEF FitsIn, leaf
<1>13. PlaceInv(V)' /\ KeyInv(V)' /\ HalfInv(V)'
  BY <1>2, <1>11, <1>12 DEF PlaceInv, KeyInv, HalfInv
<1>14. RestoreInv(V)'
  BY <1>2, <1>4 DEF RestoreInv, Converting
<1> QED
  BY <1>2, <1>6, <1>13, <1>14 DEF OrderInv, LocalOrder, Bounds

-----------------------------------------------------------------------------
(* The new extent is put into a leaf.                                      *)

\* fs is es with entry e put into slot p.
EntryAdded(es, fs, p, e) ==
    /\ Len(es) \in Nat /\ DOMAIN es = 1 .. Len(es) /\ p \in 1 .. Len(es) + 1
    /\ DOMAIN fs = 1 .. Len(es) + 1
    /\ \A i \in 1 .. Len(es) + 1 :
          fs[i] = IF i < p THEN es[i] ELSE IF i = p THEN e ELSE es[i - 1]

\* An entry that fits between its neighbours keeps the node in order.
LEMMA OrderedInserted ==
    ASSUME NEW es, NEW fs, NEW d, NEW u, NEW p, NEW e,
           Ordered(es, d, u), EntryAdded(es, fs, p, e),
           e.lblk < EndOf(e, d), EndOf(e, d) <= u,
           \A i \in 1 .. Len(es) : i < p => EndOf(es[i], d) <= e.lblk,
           \A i \in 1 .. Len(es) : p <= i => EndOf(e, d) <= es[i].lblk
    PROVE  Ordered(fs, d, u)
<1>1. /\ Len(es) \in Nat /\ DOMAIN es = 1 .. Len(es) /\ p \in 1 .. Len(es) + 1
      /\ DOMAIN fs = 1 .. Len(es) + 1
  BY DEF EntryAdded
<1>2. \A i \in DOMAIN fs : fs[i] = IF i < p THEN es[i] ELSE IF i = p THEN e ELSE es[i - 1]
  BY DEF EntryAdded
<1>3. ASSUME NEW i \in DOMAIN fs
      PROVE  /\ i < p => i \in 1 .. Len(es) /\ fs[i] = es[i]
             /\ i = p => fs[i] = e
             /\ i > p => i - 1 \in 1 .. Len(es) /\ p <= i - 1 /\ fs[i] = es[i - 1]
             /\ i < p \/ i = p \/ i > p
  <2>1. i \in 1 .. Len(es) + 1
    BY <1>1
  <2> QED
    BY <2>1, <1>1, <1>2
<1>4. ASSUME NEW i \in DOMAIN fs
      PROVE  fs[i].lblk < EndOf(fs[i], d) /\ EndOf(fs[i], d) <= u
  BY <1>1, <1>3 DEF Ordered
<1>5. ASSUME NEW i \in DOMAIN fs, NEW j \in DOMAIN fs, i < j
      PROVE  EndOf(fs[i], d) <= fs[j].lblk
  <2>1. i \in Nat /\ j \in Nat /\ p \in Nat
    BY <1>1
  <2>2. CASE j < p
    <3>1. i < p
      BY <2>1, <2>2, <1>5
    <3> QED
      BY <3>1, <2>2, <1>1, <1>3, <1>5 DEF Ordered
  <2>3. CASE j = p
    BY <2>3, <1>3, <1>5
  <2>4. CASE j > p /\ i < p
    <3>1. i < j - 1
      BY <2>1, <2>4
    <3> QED
      BY <3>1, <2>4, <1>1, <1>3 DEF Ordered
  <2>5. CASE j > p /\ i = p
    BY <2>5, <1>3
  <2>6. CASE j > p /\ i > p
    <3>1. i - 1 < j - 1
      BY <2>1, <1>5
    <3> QED
      BY <3>1, <2>6, <1>1, <1>3 DEF Ordered
  <2> QED
    BY <2>2, <2>3, <2>4, <2>5, <2>6, <1>3
<1> QED
  BY <1>4, <1>5 DEF Ordered

\* The key of one index changes and stays between its neighbours.
LEMMA OrderedRekeyed ==
    ASSUME NEW es, NEW fs, NEW d \in Nat, d > 0, NEW u \in Nat, NEW p, NEW x \in Nat,
           Ordered(es, d, u), DOMAIN fs = DOMAIN es,
           \A i \in DOMAIN es : es[i].lblk \in Nat,
           \A i \in DOMAIN es : fs[i].lblk = IF i = p THEN x ELSE es[i].lblk,
           x + 1 <= u,
           \A i \in DOMAIN es : i < p => es[i].lblk < x,
           \A i \in DOMAIN es : p < i => x < es[i].lblk
    PROVE  Ordered(fs, d, u)
<1>1. \A i \in DOMAIN es : EndOf(es[i], d) = es[i].lblk + 1 /\ EndOf(fs[i], d) = fs[i].lblk + 1
  BY DEF EndOf
<1>2. \A i \in DOMAIN es : es[i].lblk + 1 <= u
  BY <1>1 DEF Ordered
<1>3. \A i, j \in DOMAIN es : i < j => es[i].lblk + 1 <= es[j].lblk
  BY <1>1 DEF Ordered
<1>4. \A i \in DOMAIN fs : fs[i].lblk < EndOf(fs[i], d) /\ EndOf(fs[i], d) <= u
  BY <1>1, <1>2
<1>5. ASSUME NEW i \in DOMAIN fs, NEW j \in DOMAIN fs, i < j
      PROVE  EndOf(fs[i], d) <= fs[j].lblk
  <2>1. EndOf(fs[i], d) = fs[i].lblk + 1 /\ es[i].lblk \in Nat /\ es[j].lblk \in Nat
    BY <1>1
  <2>2. CASE i = p /\ j # p
    BY <2>1, <2>2, <1>5
  <2>3. CASE i # p /\ j = p
    BY <2>1, <2>3, <1>5
  <2>4. CASE i # p /\ j # p
    BY <2>1, <2>4, <1>3, <1>5
  <2>5. CASE i = p /\ j = p
    <3>1. fs[i].lblk = x /\ es[i].lblk + 1 <= es[j].lblk /\ i = j
      BY <2>5, <1>3, <1>5
    <3> QED
      BY <3>1, <2>1
  <2> QED
    BY <2>2, <2>3, <2>4, <2>5
<1> QED
  BY <1>4, <1>5 DEF Ordered

\* The levels whose index is corrected: from the leaf up as long as the path is in
\* the first slot, and one further.
LEMMA CorrectedFacts ==
    ASSUME IInv, pc = "insert"
    PROVE  LET K == CorrectedLevels
               n == Len(path)
           IN  /\ n \in Nat \ {0} /\ K \subseteq 1 .. n - 1
               /\ leaf.pos > 1 => K = {}
               /\ ~ (leaf.pos > 1) /\ n - 1 >= 1 => n - 1 \in K
               /\ \A k \in K : k + 1 < n => k + 1 \in K /\ path[k + 1].pos = 1
               /\ \A k \in 1 .. n - 1 :
                     k + 1 \in K /\ path[k + 1].pos = 1 => k \in K
<1> DEFINE K == CorrectedLevels
           n == Len(path)
<1>1. n \in Nat \ {0}
  BY PathFacts DEF Working
<1>2. leaf.pos > 1 => K = {}
  BY DEF CorrectedLevels
<1>3. ~ (leaf.pos > 1) =>
         K = {k \in 1 .. n - 1 : \A j \in k + 1 .. n - 1 : path[j].pos = 1}
  BY DEF CorrectedLevels
<1>4. K \subseteq 1 .. n - 1
  BY <1>2, <1>3
<1>5. ASSUME ~ (leaf.pos > 1), n - 1 >= 1
      PROVE  n - 1 \in K
  <2>1. n - 1 \in 1 .. n - 1 /\ (n - 1) + 1 .. n - 1 = {}
    BY <1>1, <1>5
  <2> QED
    BY <2>1, <1>3, <1>5
<1>6. ASSUME NEW k \in K, k + 1 < n
      PROVE  k + 1 \in K /\ path[k + 1].pos = 1
  <2>1. /\ K = {i \in 1 .. n - 1 : \A j \in i + 1 .. n - 1 : path[j].pos = 1}
        /\ k \in 1 .. n - 1
    BY <1>2, <1>3, <1>4
  <2>2. k + 1 \in 1 .. n - 1 /\ k + 1 \in k + 1 .. n - 1
        /\ (k + 1) + 1 .. n - 1 \subseteq k + 1 .. n - 1
    BY <2>1, <1>1, <1>6
  <2> HIDE DEF K
  <2> QED
    BY <2>1, <2>2
<1>7. ASSUME NEW k \in 1 .. n - 1, k + 1 \in K, path[k + 1].pos = 1
      PROVE  k \in K
  <2>1. /\ K = {i \in 1 .. n - 1 : \A j \in i + 1 .. n - 1 : path[j].pos = 1}
    BY <1>2, <1>3, <1>7
  <2>2. \A j \in k + 1 .. n - 1 : j = k + 1 \/ j \in (k + 1) + 1 .. n - 1
    BY <1>1
  <2> HIDE DEF K
  <2> QED
    BY <2>1, <2>2, <1>7
<1> QED
  BY <1>1, <1>2, <1>4, <1>5, <1>6, <1>7

\* A node other than the leaf after the insertion.
LEMMA CorrectedNode ==
    ASSUME IInv, pc = "insert", InsertIntoLeaf, NEW b \in DOMAIN node, b # leaf.blk
    PROVE  LET es == node[b].ents
               fs == node'[b].ents
               border == node'[leaf.blk].ents[1].lblk
           IN  /\ DOMAIN fs = DOMAIN es
               /\ \A i \in DOMAIN es :
                     /\ fs[i].pblk = es[i].pblk
                     /\ (\E k \in CorrectedLevels : path[k].blk = b /\ path[k].pos = i)
                           => fs[i].lblk = border
                     /\ ~ (\E k \in CorrectedLevels : path[k].blk = b /\ path[k].pos = i)
                           => fs[i] = es[i]
<1> DEFINE es == node[b].ents
           fs == node'[b].ents
<1>1. PICK border : border = node'[leaf.blk].ents[1].lblk
  OBVIOUS
<1>2. fs = ext4_ext_correct_indexes(b, border) /\ border \in Nat
  BY <1>1, InsertEffect
<1>3. /\ DOMAIN es = 1 .. Len(es) /\ \A i \in 1 .. Len(es) : es[i] \in Entry
  BY LiveNode
<1>4. \A i \in DOMAIN es :
         /\ [es[i] EXCEPT !.lblk = border].pblk = es[i].pblk
         /\ [es[i] EXCEPT !.lblk = border].lblk = border
  BY <1>3 DEF Entry
<1>5. DOMAIN fs = DOMAIN es
  BY <1>2 DEF ext4_ext_correct_indexes
<1>6. \A i \in DOMAIN es :
         fs[i] = IF \E k \in CorrectedLevels : path[k].blk = b /\ path[k].pos = i
                 THEN [es[i] EXCEPT !.lblk = border] ELSE es[i]
  BY <1>2 DEF ext4_ext_correct_indexes
<1> HIDE DEF es, fs
<1>7. \A i \in DOMAIN es :
         /\ fs[i].pblk = es[i].pblk
         /\ (\E k \in CorrectedLevels : path[k].blk = b /\ path[k].pos = i)
               => fs[i].lblk = border
         /\ ~ (\E k \in CorrectedLevels : path[k].blk = b /\ path[k].pos = i)
               => fs[i] = es[i]
  BY <1>4, <1>6
<1> QED
  BY <1>1, <1>5, <1>7 DEF es, fs

\* Where the new extent goes in its leaf, and what the leaf starts with then.
LEMMA InsertedLeaf ==
    ASSUME IInv, OwnerInv, pc = "insert", InsertIntoLeaf,
           NEW U \in Bounds, Sorted(node, U), PlaceInv(U)
    PROVE  LET lb == leaf.blk
               es == node[lb].ents
               fs == node'[lb].ents
               x  == fs[1].lblk
           IN  /\ Ordered(fs, 0, U[lb])
               /\ x \in Nat /\ x + 1 <= U[lb]
               /\ leaf.pos > 1 => Used(lb) /\ x = es[1].lblk
               /\ x = newext.lblk \/ (Used(lb) /\ x = es[1].lblk)
<1> DEFINE lb == leaf.blk
           es == node[lb].ents
           fs == node'[lb].ents
           x  == fs[1].lblk
           p  == leaf.pos
           q  == InsertSlot
<1>1. /\ lb \in DOMAIN node /\ node[lb].depth = 0 /\ Len(es) \in Nat
      /\ q \in 1 .. Len(es) + 1 /\ DOMAIN fs = 1 .. Len(es) + 1
      /\ \A i \in 1 .. Len(es) + 1 :
            fs[i] = IF i < q THEN es[i] ELSE IF i = q THEN newext ELSE es[i - 1]
      /\ x \in Nat
  BY InsertEffect
<1>2. /\ newext.lblk \in Nat /\ End(newext) \in Nat
      /\ newext.lblk < End(newext) /\ End(newext) <= U[lb]
      /\ p = 0 <=> ~ Used(lb)
      /\ \A j \in 1 .. Len(es) : p < j => End(newext) <= es[j].lblk
      /\ p # 0 =>
            \/ End(ex) <= newext.lblk /\ ex.lblk < newext.lblk
            \/ p = 1 /\ End(newext) <= ex.lblk /\ newext.lblk < ex.lblk
  BY NewPlace
<1>3. /\ DOMAIN es = 1 .. Len(es) /\ U[lb] \in Nat
      /\ \A i \in 1 .. Len(es) :
            /\ es[i].lblk \in Nat /\ End(es[i]) \in Nat /\ es[i].lblk < End(es[i])
      /\ \A i, j \in 1 .. Len(es) : i < j => End(es[i]) <= es[j].lblk
  <2>1. /\ U[lb] \in Nat
        /\ Len(es) \in Nat /\ DOMAIN es = 1 .. Len(es)
        /\ \A i \in 1 .. Len(es) :
              /\ es[i].lblk \in Nat /\ EndOf(es[i], 0) \in Nat
              /\ EndOf(es[i], 0) = End(es[i]) /\ es[i].lblk < EndOf(es[i], 0)
        /\ \A i, j \in 1 .. Len(es) : i < j => EndOf(es[i], 0) <= es[j].lblk
    BY <1>1, SortedNode
  <2> HIDE DEF es
  <2> QED
    BY <2>1
<1>4. p \in 0 .. Len(es) /\ ex = es[p]
  BY LeafOfPath, WorkingPath DEF Working, ex
<1>5. /\ p = 0 => q = 1 /\ Len(es) = 0
      /\ p # 0 /\ ex.lblk < newext.lblk => q = p + 1
      /\ p # 0 /\ newext.lblk < ex.lblk => q = p
  <2>1. p = 0 => q = 1
    BY DEF InsertSlot
  <2>2. p # 0 => q = IF newext.lblk > ex.lblk THEN p + 1 ELSE p
    BY DEF InsertSlot
  <2>3. p = 0 => Len(es) = 0
    BY <1>2, <1>3, <1>1 DEF Used
  <2>4. p # 0 => ex.lblk \in Nat
    BY <1>3, <1>4
  <2> HIDE DEF p, q, es
  <2> QED
    BY <2>1, <2>2, <2>3, <2>4, <1>2
<1>6. /\ \A i \in 1 .. Len(es) : i < q => End(es[i]) <= newext.lblk
      /\ \A i \in 1 .. Len(es) : q <= i => End(newext) <= es[i].lblk
  <2>1. CASE p = 0
    BY <2>1, <1>5
  <2>2. CASE p # 0 /\ End(ex) <= newext.lblk /\ ex.lblk < newext.lblk
    <3>1. q = p + 1
      BY <2>2, <1>5
    <3>2. ASSUME NEW i \in 1 .. Len(es), i < q
          PROVE  End(es[i]) <= newext.lblk
      <4>1. i = p \/ i < p
        BY <3>1, <3>2, <1>1, <1>4
      <4>2. i < p => End(es[i]) <= es[p].lblk
        BY <3>2, <1>4, <1>3
      <4>3. es[p].lblk \in Nat /\ End(es[i]) \in Nat
        BY <2>2, <1>3, <1>4
      <4> HIDE DEF es, p, q
      <4> QED
        BY <4>1, <4>2, <4>3, <2>2, <1>2, <1>4
    <3>3. ASSUME NEW i \in 1 .. Len(es), q <= i
          PROVE  End(newext) <= es[i].lblk
      <4>1. p < i
        BY <3>1, <3>3, <1>4
      <4> QED
        BY <4>1, <1>2
    <3> QED
      BY <3>2, <3>3
  <2>3. CASE p = 1 /\ End(newext) <= ex.lblk /\ newext.lblk < ex.lblk
    <3>1. q = 1
      BY <2>3, <1>5
    <3>2. ASSUME NEW i \in 1 .. Len(es)
          PROVE  End(newext) <= es[i].lblk
      <4>1. i = p \/ p < i
        BY <2>3
      <4> QED
        BY <4>1, <2>3, <1>2, <1>4
    <3> QED
      BY <3>1, <3>2
  <2> QED
    BY <2>1, <2>2, <2>3, <1>2
<1>7. Ordered(fs, 0, U[lb])
  <2>1. Ordered(es, 0, U[lb])
    BY <1>1 DEF Sorted
  <2>2. EntryAdded(es, fs, q, newext)
    BY <1>1, <1>3 DEF EntryAdded
  <2>3. EndOf(newext, 0) = End(newext) /\ \A i \in 1 .. Len(es) : EndOf(es[i], 0) = End(es[i])
    BY DEF EndOf
  <2> HIDE DEF es, fs, q, lb
  <2> QED
    BY <2>1, <2>2, <2>3, <1>2, <1>6, OrderedInserted
<1>8. /\ q = 1 => x = newext.lblk
      /\ q # 1 => x = es[1].lblk /\ Used(lb) /\ 1 \in 1 .. Len(es) /\ 1 < q
  <2>1. 1 \in 1 .. Len(es) + 1 /\ q \in Nat /\ (q # 1 => 1 < q /\ 1 <= Len(es))
    BY <1>1
  <2>2. fs[1] = IF 1 < q THEN es[1] ELSE IF 1 = q THEN newext ELSE es[1 - 1]
    BY <1>1, <2>1
  <2>3. q # 1 => Used(lb)
    BY <2>1, <1>1, <1>3 DEF Used
  <2> HIDE DEF fs, es, q
  <2> QED
    BY <2>1, <2>2, <2>3, <1>1
<1>9. p > 1 => q # 1
  <2>1. p > 1 => q = p + 1
    BY <1>2, <1>4, <1>5
  <2> HIDE DEF q, p
  <2> QED
    BY <2>1, <1>4
<1>10. x + 1 <= U[lb]
  <2>1. x <= newext.lblk
    <3>1. q # 1 => End(es[1]) <= newext.lblk /\ es[1].lblk < End(es[1]) /\ es[1].lblk \in Nat
                   /\ End(es[1]) \in Nat
      BY <1>8, <1>6, <1>3
    <3> HIDE DEF es, q, x
    <3> QED
      BY <3>1, <1>8, <1>2
  <2> HIDE DEF x, lb
  <2> QED
    BY <2>1, <1>1, <1>2, <1>3
<1> QED
  BY <1>1, <1>7, <1>8, <1>9, <1>10

\* The index of a corrected level stays between its neighbours.
LEMMA CorrectedKeys ==
    ASSUME IInv, OwnerInv, pc = "insert", InsertIntoLeaf,
           NEW U \in Bounds, Sorted(node, U), PlaceInv(U), NEW k \in CorrectedLevels
    PROVE  LET es == node[path[k].blk].ents
               p  == path[k].pos
               x  == node'[leaf.blk].ents[1].lblk
           IN  /\ k \in 1 .. Len(path) - 1 /\ p \in 1 .. Len(es)
               /\ x + 1 <= U[path[k].blk]
               /\ p > 1 => es[p].lblk <= x
               /\ \A j \in 1 .. Len(es) : p < j => x < es[j].lblk
<1> DEFINE es == node[path[k].blk].ents
           p  == path[k].pos
           lb == leaf.blk
           x  == node'[lb].ents[1].lblk
<1>1. pc \in Working /\ Linked /\ On(node, path, newext.lblk)
  BY NewPlace DEF Working
<1>2. k \in 1 .. Len(path) - 1
  BY CorrectedFacts
<1>3. /\ p \in 1 .. Len(es) /\ U[path[k].blk] \in Nat
      /\ \A i \in 1 .. Len(es) : es[i].lblk \in Nat
  BY <1>1, <1>2, PathChild
<1>4. /\ x \in Nat /\ x + 1 <= U[lb]
      /\ x = newext.lblk \/ (Used(lb) /\ x = node[lb].ents[1].lblk)
  BY InsertedLeaf
<1>5. U[lb] \in Nat
  BY <1>1, LeafOfPath, WorkingPath DEF Bounds
<1>6. k \in 1 .. Len(path)
  BY <1>1, <1>2, PathFacts
<1>7. U[lb] <= U[path[k].blk] /\ \A j \in 1 .. Len(es) : p < j => U[lb] <= es[j].lblk
  BY <1>1, <1>2, <1>6, BoundChain
<1>8. p > 1 => es[p].lblk <= x
  <2>1. CASE x = newext.lblk
    BY <2>1, <1>1, <1>2 DEF On, Placed
  <2>2. CASE Used(lb) /\ x = node[lb].ents[1].lblk
    BY <2>2, <1>1, <1>2, KeyChain
  <2> QED
    BY <2>1, <2>2, <1>4
<1> HIDE DEF es, p, x, lb
<1>9. x + 1 <= U[path[k].blk]
  BY <1>3, <1>4, <1>5, <1>7
<1>10. \A j \in 1 .. Len(es) : p < j => x < es[j].lblk
  BY <1>3, <1>4, <1>5, <1>7
<1> QED
  BY <1>2, <1>3, <1>8, <1>9, <1>10 DEF es, p, x, lb

\* The first entry of a node and the index that leads to it change together.
LEMMA FirstCorrected ==
    ASSUME IInv, OwnerInv, pc = "insert", InsertIntoLeaf,
           NEW U \in Bounds, Sorted(node, U), PlaceInv(U),
           NEW b \in DOMAIN node, node[b].depth > 0, NEW i \in DOMAIN node[b].ents
    PROVE  LET es == node[b].ents
               fs == node'[b].ents
               c  == es[i].pblk
           IN  1 \in DOMAIN node'[c].ents => fs[i].lblk <= node'[c].ents[1].lblk
<1> DEFINE es == node[b].ents
           fs == node'[b].ents
           c  == es[i].pblk
           lb == leaf.blk
           n  == Len(path)
           x  == node'[lb].ents[1].lblk
           K  == CorrectedLevels
           Hit(d, j) == \E k \in K : path[k].blk = d /\ path[k].pos = j
<1>1. pc \in Working /\ Linked /\ n \in Nat \ {0} /\ leaf = path[n]
  BY NewPlace, PathFacts DEF Working
<1>2. b # lb /\ lb \in DOMAIN node
  BY InsertEffect
<1>3. /\ fs[i].pblk = es[i].pblk /\ DOMAIN fs = DOMAIN es
      /\ Hit(b, i) => fs[i].lblk = x
      /\ ~ Hit(b, i) => fs[i] = es[i]
  BY <1>2, CorrectedNode
<1>4. /\ c \in DOMAIN node
      /\ Used(c) => es[i].lblk <= node[c].ents[1].lblk
  <2>1. DOMAIN es = 1 .. Len(es)
    BY LiveNode
  <2> QED
    BY <2>1, SortedNode
<1>5. x \in Nat
  BY InsertedLeaf
<1>6. /\ K \subseteq 1 .. n - 1
      /\ leaf.pos > 1 => K = {}
      /\ ~ (leaf.pos > 1) /\ n - 1 >= 1 => n - 1 \in K
      /\ \A k \in K : k + 1 < n => k + 1 \in K /\ path[k + 1].pos = 1
      /\ \A k \in 1 .. n - 1 : k + 1 \in K /\ path[k + 1].pos = 1 => k \in K
  BY CorrectedFacts
<1>7. CASE Hit(b, i)
  <2>1. PICK k \in K : path[k].blk = b /\ path[k].pos = i
    BY <1>7
  <2>2. k \in 1 .. n - 1 /\ c = path[k + 1].blk
    BY <2>1, <1>1, <1>6 DEF Linked
  <2>3. CASE k + 1 = n
    <3>1. c = lb
      BY <2>2, <2>3, <1>1
    <3> QED
      BY <3>1, <1>3, <1>5, <1>7
  <2>4. CASE k + 1 # n
    <3>1. k + 1 < n /\ k + 1 \in 1 .. n /\ n \in 1 .. n
      BY <2>2, <2>4, <1>1
    <3>2. k + 1 \in K /\ path[k + 1].pos = 1
      BY <2>1, <3>1, <1>6
    <3>3. c # lb
      BY <2>2, <2>4, <3>1, <1>1, PathFacts
    <3>4. Hit(c, 1)
      BY <2>2, <3>2
    <3>5. DOMAIN node'[c].ents = DOMAIN node[c].ents
      BY <3>3, <1>4, CorrectedNode
    <3>6. 1 \in DOMAIN node[c].ents => node'[c].ents[1].lblk = x
      BY <3>3, <3>4, <1>4, CorrectedNode
    <3> QED
      BY <3>5, <3>6, <1>3, <1>5, <1>7
  <2> QED
    BY <2>3, <2>4
<1>8. CASE ~ Hit(b, i) /\ c = lb
  <2>1. n \in 1 .. n /\ c = path[n].blk
    BY <1>8, <1>1
  <2>2. n - 1 \in 1 .. n - 1 /\ b = path[n - 1].blk /\ i = path[n - 1].pos
    BY <2>1, <1>1, UniqueParent
  <2>3. leaf.pos > 1
    <3>1. n - 1 \notin K
      BY <2>2, <1>8
    <3>2. n - 1 >= 1
      BY <2>2
    <3> QED
      BY <3>1, <3>2, <1>6
  <2>4. Used(lb) /\ x = node[lb].ents[1].lblk
    BY <2>3, InsertedLeaf
  <2> QED
    BY <2>4, <1>3, <1>4, <1>8
<1>9. CASE ~ Hit(b, i) /\ c # lb
  <2>1. DOMAIN node'[c].ents = DOMAIN node[c].ents
    BY <1>4, <1>9, CorrectedNode
  <2>2. ASSUME Hit(c, 1), 1 \in DOMAIN node[c].ents
        PROVE  FALSE
    <3>1. PICK k \in K : path[k].blk = c /\ path[k].pos = 1
      BY <2>2
    <3>2. k \in 1 .. n
      BY <1>1, <1>6
    <3>3. k - 1 \in 1 .. n - 1 /\ b = path[k - 1].blk /\ i = path[k - 1].pos
      BY <3>1, <3>2, <1>1, UniqueParent
    <3>4. (k - 1) + 1 = k
      BY <3>2
    <3>5. k - 1 \in K
      BY <3>1, <3>3, <3>4, <1>6
    <3> QED
      BY <3>3, <3>5, <1>9
  <2>3. 1 \in DOMAIN node[c].ents => node'[c].ents[1] = node[c].ents[1]
    BY <2>2, <1>4, <1>9, CorrectedNode
  <2> QED
    BY <2>1, <2>3, <1>3, <1>4, <1>9 DEF Used
<1> QED
  BY <1>7, <1>8, <1>9

\* The new extent is put into its leaf and the indexes above are corrected.
LEMMA InsertSorts ==
    ASSUME IInv, OwnerInv, pc = "insert", InsertIntoLeaf,
           NEW U \in Bounds, Sorted(node, U), PlaceInv(U)
    PROVE  Sorted(node', U) /\ U \in [DOMAIN node' -> Nat]
<1> DEFINE lb == leaf.blk
           n  == Len(path)
           K  == CorrectedLevels
           Hit(d, j) == \E k \in K : path[k].blk = d /\ path[k].pos = j
<1>1. /\ DOMAIN node' = DOMAIN node /\ lb \in DOMAIN node /\ node[lb].depth = 0
      /\ \A b \in DOMAIN node : /\ node'[b].depth = node[b].depth
                                /\ node'[b].max = node[b].max
  BY InsertEffect
<1>2. PICK x : x = node'[lb].ents[1].lblk
  OBVIOUS
<1>3. Ordered(node'[lb].ents, 0, U[lb]) /\ x \in Nat
  BY <1>2, InsertedLeaf
<1>4. /\ n \in Nat /\ K \subseteq 1 .. n - 1
      /\ \A k, m \in K : path[k].blk = path[m].blk => k = m
  <2>1. n \in Nat /\ K \subseteq 1 .. n - 1
    BY CorrectedFacts
  <2>2. K \subseteq 1 .. n
    BY <2>1
  <2> QED
    BY <2>1, <2>2, PathFacts DEF Working
<1>5. ASSUME NEW b \in DOMAIN node, b # lb
      PROVE  /\ Ordered(node'[b].ents, node[b].depth, U[b])
             /\ node[b].depth > 0 => ChildrenFit(node', U, b)
  <2> DEFINE es == node[b].ents
             fs == node'[b].ents
             d  == node[b].depth
  <2>1. /\ U[b] \in Nat /\ d \in Nat
        /\ Len(es) \in Nat /\ DOMAIN es = 1 .. Len(es)
        /\ \A i \in 1 .. Len(es) : es[i].lblk \in Nat
        /\ d > 0 => \A i, j \in 1 .. Len(es) : i < j => es[i].lblk < es[j].lblk
    <3>1. /\ U[b] \in Nat /\ d \in Nat
          /\ Len(es) \in Nat /\ DOMAIN es = 1 .. Len(es)
          /\ \A i \in 1 .. Len(es) :
                es[i].lblk \in Nat /\ (d > 0 => EndOf(es[i], d) = es[i].lblk + 1)
          /\ \A i, j \in 1 .. Len(es) : i < j => EndOf(es[i], d) <= es[j].lblk
      BY SortedNode
    <3> HIDE DEF es, d
    <3>2. ASSUME d > 0, NEW i \in 1 .. Len(es), NEW j \in 1 .. Len(es), i < j
          PROVE  es[i].lblk < es[j].lblk
      <4>1. es[i].lblk + 1 <= es[j].lblk /\ es[i].lblk \in Nat /\ es[j].lblk \in Nat
        BY <3>1, <3>2
      <4> QED
        BY <4>1
    <3> QED
      BY <3>1, <3>2
  <2>2. /\ DOMAIN fs = DOMAIN es
        /\ \A i \in DOMAIN es :
              /\ fs[i].pblk = es[i].pblk
              /\ Hit(b, i) => fs[i].lblk = x
              /\ ~ Hit(b, i) => fs[i] = es[i]
    BY <1>2, <1>5, CorrectedNode
  <2>3. Ordered(es, d, U[b])
    BY DEF Sorted
  <2>4. ASSUME d > 0, NEW i \in DOMAIN es
        PROVE  LET c == es[i].pblk
               IN  /\ U[c] \in Nat /\ U[c] <= U[b]
                   /\ \A j \in DOMAIN es : i < j => U[c] <= es[j].lblk
    BY <2>1, <2>4, SortedNode
  <2>5. ASSUME d > 0, NEW i \in DOMAIN es
        PROVE  1 \in DOMAIN node'[fs[i].pblk].ents => fs[i].lblk <= node'[fs[i].pblk].ents[1].lblk
    BY <2>2, <2>5, FirstCorrected
  <2>6. CASE \A i \in DOMAIN es : ~ Hit(b, i)
    <3>1. \A i \in DOMAIN es : fs[i] = es[i]
      BY <2>2, <2>6
    <3> HIDE DEF es, fs, d
    <3>2. Ordered(fs, d, U[b])
      BY <3>1, <2>2, <2>3 DEF Ordered
    <3>3. d > 0 => ChildrenFit(node', U, b)
      BY <3>1, <2>2, <2>4, <2>5 DEF ChildrenFit, fs
    <3>4. Ordered(fs, d, U[b]) /\ (d > 0 => ChildrenFit(node', U, b))
      BY <3>2, <3>3
    <3> QED
      BY <3>4 DEF fs, d
  <2>7. CASE \E i \in DOMAIN es : Hit(b, i)
    <3>1. PICK k \in K : path[k].blk = b
      BY <2>7
    <3> DEFINE p == path[k].pos
    <3>2. /\ k \in 1 .. n - 1 /\ p \in 1 .. Len(es)
          /\ x + 1 <= U[b]
          /\ p > 1 => es[p].lblk <= x
          /\ \A j \in 1 .. Len(es) : p < j => x < es[j].lblk
      BY <1>2, <3>1, CorrectedKeys
    <3>3. d > 0
      <4>1. k \in 1 .. n /\ n - k > 0
        BY <3>2, <1>4
      <4>2. node[path[k].blk].depth = n - k
        BY <4>1, PathFacts DEF Working
      <4> QED
        BY <4>1, <4>2, <3>1
    <3>4. \A i \in DOMAIN es : Hit(b, i) <=> i = p
      BY <3>1, <1>4
    <3>5. \A i \in DOMAIN es : /\ i = p => fs[i].lblk = x
                               /\ i # p => fs[i] = es[i]
      BY <3>4, <2>2
    <3> HIDE DEF es, fs, d, p
    <3>6. \A i \in DOMAIN es : i < p => es[i].lblk < x
      <4> SUFFICES ASSUME NEW i \in DOMAIN es, i < p PROVE es[i].lblk < x
        OBVIOUS
      <4>1. i \in 1 .. Len(es) /\ p > 1
        BY <2>1, <3>2
      <4>2. es[i].lblk < es[p].lblk /\ es[i].lblk \in Nat /\ es[p].lblk \in Nat
        BY <4>1, <2>1, <3>2, <3>3
      <4> QED
        BY <4>1, <4>2, <3>2, <1>3
    <3>7. Ordered(fs, d, U[b])
      <4>1. \A i \in DOMAIN es : es[i].lblk \in Nat
        BY <2>1
      <4>2. \A i \in DOMAIN es : p < i => x < es[i].lblk
        BY <2>1, <3>2
      <4>3. \A i \in DOMAIN es : fs[i].lblk = IF i = p THEN x ELSE es[i].lblk
        BY <3>5
      <4>4. d \in Nat /\ U[b] \in Nat /\ DOMAIN fs = DOMAIN es
        BY <2>1, <2>2
      <4> QED
        BY <4>1, <4>2, <4>3, <4>4, <2>3, <3>2, <3>3, <3>6, <1>3, OrderedRekeyed
    <3>8. ASSUME NEW i \in DOMAIN es, NEW j \in DOMAIN es, i < j
          PROVE  U[es[i].pblk] <= fs[j].lblk
      <4>1. U[es[i].pblk] <= es[j].lblk /\ U[es[i].pblk] \in Nat
        BY <3>3, <3>8, <2>4
      <4>2. CASE j # p
        BY <4>1, <4>2, <3>5
      <4>3. CASE j = p
        <5>1. p > 1 /\ es[p].lblk \in Nat
          BY <4>3, <3>8, <2>1
        <5> QED
          BY <5>1, <4>1, <4>3, <3>2, <3>5, <1>3
      <4> QED
        BY <4>2, <4>3
    <3>9. ChildrenFit(node', U, b)
      BY <3>3, <3>8, <2>2, <2>4, <2>5 DEF ChildrenFit, fs
    <3>10. Ordered(fs, d, U[b]) /\ (d > 0 => ChildrenFit(node', U, b))
      BY <3>7, <3>9
    <3> QED
      BY <3>10 DEF fs, d
  <2> QED
    BY <2>6, <2>7
<1>6. Sorted(node', U)
  <2> SUFFICES ASSUME NEW b \in DOMAIN node
               PROVE  /\ Ordered(node'[b].ents, node[b].depth, U[b])
                      /\ node[b].depth > 0 => ChildrenFit(node', U, b)
                      /\ node[b].depth = 0 /\ b # Root => node[b].max >= 2
    BY <1>1 DEF Sorted
  <2>1. node[b].depth = 0 /\ b # Root => node[b].max >= 2
    BY DEF Sorted
  <2>2. CASE b # lb
    BY <2>1, <2>2, <1>5
  <2>3. CASE b = lb
    BY <2>1, <2>3, <1>1, <1>3
  <2> QED
    BY <2>2, <2>3
<1> QED
  BY <1>1, <1>6 DEF Bounds

LEMMA InsertOrders ==
    ASSUME IInv, OwnerInv, OrderInv, SoundCuts, pc = "insert", InsertIntoLeaf
    PROVE  OrderInv'
<1>1. PICK U : U \in Bounds /\ Sorted(node, U) /\ PlaceInv(U)
  BY DEF OrderInv, Bounds, LocalOrder
<1>2. Sorted(node', U) /\ U \in [DOMAIN node' -> Nat]
  BY <1>1, InsertSorts
<1>3. pc' = "idle"
  <2>1. Inserted(InsertSlot)
    BY DEF InsertIntoLeaf
  <2> QED
    BY <2>1 DEF Inserted, Return, SoundCuts
<1> QED
  BY <1>2, <1>3, Calm

-----------------------------------------------------------------------------
(* The leaf is full.                                                       *)

\* The leaf with entries es, within bound u, is full and extent e belongs behind
\* slot p of it or before its first: k is the key of the split.
SplitAt(es, u, p, e, k) ==
    /\ Ordered(es, 0, u) /\ Len(es) >= 2
    /\ Placed(es, e.lblk, p)
    /\ e.lblk < End(e) /\ End(e) <= u
    /\ \A i \in DOMAIN es : End(es[i]) <= e.lblk \/ End(e) <= es[i].lblk
    /\ k \in IF p # Len(es) THEN SlotKey(es, p + 1) ELSE {e.lblk}

LEMMA SplitKey ==
    ASSUME NEW es \in Seq(Entry), NEW u \in Nat, NEW p, NEW e \in Entry, NEW k,
           SplitAt(es, u, p, e, k)
    PROVE  /\ End(es[p]) <= k /\ k < u
           /\ (p = Len(es) /\ k = e.lblk) \/ End(e) <= k
           /\ \A j \in DOMAIN es : p < j => k <= es[j].lblk
<1>1. /\ Ordered(es, 0, u) /\ Len(es) >= 2 /\ Placed(es, e.lblk, p)
      /\ e.lblk < End(e) /\ End(e) <= u
      /\ \A i \in DOMAIN es : End(es[i]) <= e.lblk \/ End(e) <= es[i].lblk
  BY DEF SplitAt
<1>2. k \in IF p # Len(es) THEN SlotKey(es, p + 1) ELSE {e.lblk}
  BY DEF SplitAt
<1>3. /\ Len(es) \in Nat /\ DOMAIN es = 1 .. Len(es)
      /\ \A i \in 1 .. Len(es) :
            /\ es[i] \in Entry /\ es[i].lblk \in Nat /\ End(es[i]) \in Nat
            /\ es[i].lblk < End(es[i]) /\ End(es[i]) <= u
      /\ \A i, j \in 1 .. Len(es) : i < j => End(es[i]) <= es[j].lblk
  <2>1. /\ Len(es) \in Nat /\ DOMAIN es = 1 .. Len(es)
        /\ \A i \in 1 .. Len(es) : es[i] \in Entry
    BY LenProperties, ElementOfSeq
  <2>2. \A i \in 1 .. Len(es) :
           es[i].lblk \in Nat /\ EndOf(es[i], 0) = End(es[i]) /\ End(es[i]) \in Nat
    BY <2>1, Ends
  <2> QED
    BY <2>1, <2>2, <1>1 DEF Ordered
<1>4. /\ p \in 1 .. Len(es) /\ (p > 1 => es[p].lblk <= e.lblk)
      /\ \A j \in 1 .. Len(es) : p < j => e.lblk < es[j].lblk
  BY <1>1 DEF Placed
<1>5. e.lblk \in Nat /\ End(e) \in Nat /\ e.lblk < End(e)
  <2>1. e.lblk \in Nat /\ EndOf(e, 0) = End(e) /\ EndOf(e, 0) \in Nat
    BY Ends
  <2> QED
    BY <2>1, <1>1
<1>6. CASE p # Len(es)
  <2>1. p + 1 \in 1 .. Len(es) /\ p < p + 1
    <3>1. Len(es) \in Nat /\ p \in 1 .. Len(es)
      BY <1>3, <1>4
    <3> QED
      BY ONLY <3>1, <1>6
  <2>2. k = es[p + 1].lblk
    BY <2>1, <1>3, <1>6, <1>2 DEF SlotKey
  <2>3. End(es[p]) <= k
    BY <2>1, <2>2, <1>3, <1>4
  <2>4. k < u
    BY <2>1, <2>2, <1>3
  <2>5. End(e) <= k
    <3>1. e.lblk < k /\ (End(es[p + 1]) <= e.lblk \/ End(e) <= k)
      BY <2>1, <2>2, <1>3, <1>4, <1>1
    <3> QED
      BY <3>1, <2>1, <2>2, <1>3, <1>5
  <2>6. ASSUME NEW j \in DOMAIN es, p < j
        PROVE  k <= es[j].lblk
    <3>1. j = p + 1 \/ p + 1 < j
      BY <2>6, <1>3, <1>4
    <3> QED
      BY <3>1, <2>1, <2>2, <2>6, <1>3
  <2> QED
    BY <2>3, <2>4, <2>5, <2>6
<1>7. CASE p = Len(es)
  <2>1. k = e.lblk /\ p > 1
    BY <1>3, <1>4, <1>7, <1>1, <1>2
  <2>2. End(es[p]) <= e.lblk
    <3>1. es[p].lblk <= e.lblk /\ (End(es[p]) <= e.lblk \/ End(e) <= es[p].lblk)
      BY <2>1, <1>3, <1>4, <1>1
    <3> QED
      BY <3>1, <1>3, <1>4, <1>5
  <2>3. k < u
    BY <2>1, <1>5, <1>1
  <2>4. \A j \in DOMAIN es : ~ (p < j)
    BY <1>3, <1>7
  <2> QED
    BY <2>1, <2>2, <2>3, <2>4, <1>7
<1> QED
  BY <1>6, <1>7

\* No block of the leaf is the new extent's, and there is no room for it: the tree
\* grows or a split starts.
LEMMA NeedSplitOrders ==
    ASSUME IInv, OwnerInv, OrderInv, pc = "insert", NeedSplit
    PROVE  OrderInv'
<1> DEFINE room == {k \in 1 .. Len(path) : HasFree(k)}
           n  == Len(path)
           lb == leaf.blk
           es == node[lb].ents
           p  == leaf.pos
<1>1. PICK U : U \in Bounds /\ Sorted(node, U) /\ LocalOrder(U)
  BY DEF OrderInv, Bounds
<1>2. /\ ~ HasFree(n) /\ UNCHANGED <<node, path, newext, saved, todo>>
      /\ \/ room = {} /\ pc' = "grow"
         \/ room # {} /\ StartSplit(path, Max(room) + 1)
  BY DEF NeedSplit, tree, split, conv
<1>3. /\ pc \in Working /\ path # <<>> /\ n = depth + 1 /\ depth \in Nat
      /\ lb \in DOMAIN node /\ node[lb].depth = 0 /\ leaf' = leaf /\ leaf = path[n]
  BY <1>2, WorkingPath, LeafOfPath DEF Working, leaf
<1>4. Full(lb) /\ Used(lb) /\ Len(es) = node[lb].max
  <2>1. Full(lb)
    BY <1>2, <1>3 DEF HasFree, Full
  <2> QED
    BY <2>1, <1>3, FullIsUsed
<1>5. PlaceInv(U) /\ Arrived(newext.lblk) /\ FitsIn(U, lb)
  BY <1>1 DEF LocalOrder, PlaceInv
<1>6. Arrived(newext.lblk)' /\ FitsIn(U, leaf.blk)'
  BY <1>2, <1>3, <1>5 DEF Arrived, Searched, Used, FitsIn
<1>7. pc' \in {"grow", "split"}
  BY <1>2 DEF StartSplit
<1>8. PlaceInv(U)'
  BY <1>6, <1>7 DEF PlaceInv
<1>9. RestoreInv(U)'
  BY <1>1, <1>2, <1>4, RestoreKept DEF LocalOrder, Inserting
<1>10. CASE pc' = "grow"
  <2>1. KeyInv(U)' /\ HalfInv(U)'
    BY <1>10 DEF KeyInv, HalfInv
  <2> QED
    BY <2>1, <1>1, <1>2, <1>8, <1>9 DEF OrderInv, LocalOrder, Bounds
<1>11. CASE room # {} /\ StartSplit(path, Max(room) + 1)
  <2>1. /\ at' = Max(room) + 1 /\ np' = <<>> /\ pc' = "split"
        /\ key' \in IF p # node[lb].max THEN SlotKey(es, p + 1) ELSE {newext.lblk}
    BY <1>11 DEF StartSplit, leaf
  <2>2. n \in Nat /\ room \subseteq 1 .. n
    BY <1>3
  <2> HIDE DEF room
  <2>3. PICK m : m = Max(room) /\ m \in room
    BY <2>2, <1>11, MaxOfSlots
  <2>4. m \in 1 .. n /\ HasFree(m)
    BY <2>3 DEF room
  <2>5. at' = m + 1 /\ at' - 1 = m
    BY <2>1, <2>3, <2>4
  <2>6. HasFree(at - 1)'
    BY <2>4, <2>5, <1>2 DEF HasFree
  <2>7. lb # Root
    <3>1. m # n
      BY <2>4, <1>2
    <3>2. depth # 0
      BY <3>1, <2>4, <1>3
    <3> QED
      BY <3>2, <1>3 DEF depth
  <2>8. SplitAt(es, U[lb], p, newext, key')
    <3>1. Ordered(es, 0, U[lb]) /\ Len(es) >= 2
      BY <2>7, <1>1, <1>3, <1>4 DEF Sorted
    <3>2. On(node, path, newext.lblk) /\ newext.lblk < End(newext)
      BY <1>1, <1>5, NewPlace
    <3>3. Placed(es, newext.lblk, p)
      BY <3>2, <1>3, <1>4 DEF On, Used
    <3>4. End(newext) <= U[lb]
          /\ \A i \in DOMAIN es : End(es[i]) <= newext.lblk \/ End(newext) <= es[i].lblk
      BY <1>5 DEF FitsIn
    <3> QED
      BY <3>1, <3>2, <3>3, <3>4, <2>1, <1>4 DEF SplitAt
  <2>9. es \in Seq(Entry) /\ U[lb] \in Nat /\ newext \in Entry
    BY <1>1, <1>3, LiveNode DEF Bounds, IInv, LocalInv, LocalType
  <2> HIDE DEF es, p, lb
  <2>10. /\ End(es[p]) <= key' /\ key' < U[lb]
         /\ (p = Len(es) /\ key' = newext.lblk) \/ End(newext) <= key'
         /\ \A j \in DOMAIN es : p < j => key' <= es[j].lblk
    BY <2>8, <2>9, SplitKey
  <2>11. leaf'.blk = lb /\ leaf'.pos = p /\ node'[lb].ents = es /\ ex' = es[p]
         /\ node'[lb].max = Len(es) /\ newext' = newext
    BY <1>2, <1>3, <1>4 DEF es, p, lb, ex
  <2>12. KeyInv(U)'
    BY <2>1, <2>6, <2>10, <2>11 DEF KeyInv
  <2>13. HalfInv(U)'
    BY <2>1 DEF HalfInv
  <2> QED
    BY <2>12, <2>13, <1>1, <1>2, <1>8, <1>9 DEF OrderInv, LocalOrder, Bounds
<1> QED
  BY <1>2, <1>10, <1>11

\* The leaf is reached: the search for the new extent ends where it fits.
LEMMA ArriveOrders ==
    ASSUME IInv, OwnerInv, FillInv, OrderInv, ext4_find_extent_leaf
    PROVE  OrderInv'
<1> DEFINE n  == Len(path)
           lb == leaf.blk
           es == node[lb].ents
           l  == newext.lblk
<1>1. PICK U : U \in Bounds /\ Sorted(node, U) /\ LocalOrder(U)
  BY DEF OrderInv, Bounds
<1>2. /\ pc \in {"find", "refind"} /\ node[lb].depth = 0
      /\ UNCHANGED <<node, newext, saved, todo>>
  BY DEF ext4_find_extent_leaf, tree, conv
<1>3. \/ pc = "find" /\ pc' = "found"
      \/ pc = "refind" /\ pc' = "insert"
      \/ pc = "refind" /\ depth > 1 /\ StartSplit(path', 3)
  BY DEF ext4_find_extent_leaf
<1>4. /\ n = depth + 1 /\ depth \in Nat /\ Len(path') = n
      /\ leaf = path[n] /\ lb \in DOMAIN node
      /\ \A k \in 1 .. n : path'[k].blk = path[k].blk
      /\ \A k \in 1 .. n - 1 : path'[k] = path[k]
      /\ leaf' = path'[n] /\ leaf'.blk = lb
      /\ leaf'.pos = IF Used(lb) THEN Closest(es, target) ELSE 0
  BY ArriveEffect
<1>5. CASE pc = "find" /\ pc' = "found"
  BY <1>1, <1>2, <1>5, Calm DEF Bounds
<1>6. ASSUME pc = "refind"
      PROVE  Arrived(newext.lblk)' /\ FitsIn(U, leaf.blk)' /\ RestoreInv(U)'
  <2>1. target = l /\ Searched(l)
    BY <1>6 DEF target, FillInv, SearchInv
  <2>2. ASSUME NEW k \in 1 .. n - 1
        PROVE  LET fs == node'[path'[k].blk].ents
               IN  path'[k].pos = Closest(fs, l) /\ path'[k + 1].blk = fs[path'[k].pos].pblk
    <3>1. path'[k] = path[k] /\ k + 1 \in 1 .. n
      BY <1>4
    <3>2. path'[k + 1].blk = path[k + 1].blk
      BY <3>1, <1>4
    <3> QED
      BY <3>1, <3>2, <2>1, <1>2 DEF Searched
  <2>3. Searched(newext.lblk)'
    BY <2>2, <1>2, <1>4 DEF Searched
  <2>4. Used(leaf.blk)' <=> Used(lb)
    BY <1>2, <1>4 DEF Used
  <2>5. Arrived(newext.lblk)'
    BY <2>1, <2>3, <2>4, <1>2, <1>4 DEF Arrived
  <2>6. PICK q : /\ \A k \in 1 .. n : path[k].blk = q[k]
                 /\ FitsIn(U, q[depth + 1])
    BY <1>1, <1>6 DEF LocalOrder, PlaceInv
  <2>7. q[depth + 1] = lb
    BY <2>6, <1>4
  <2>8. FitsIn(U, leaf.blk)'
    BY <2>6, <2>7, <1>2, <1>4 DEF FitsIn
  <2>9. RestoreInv(U)'
    BY <1>1, <1>2, <1>6, RestoreKept DEF LocalOrder, Inserting
  <2> QED
    BY <2>5, <2>8, <2>9
<1>7. CASE pc = "refind" /\ pc' = "insert"
  <2>1. PlaceInv(U)' /\ KeyInv(U)' /\ HalfInv(U)'
    BY <1>6, <1>7 DEF PlaceInv, KeyInv, HalfInv
  <2> QED
    BY <2>1, <1>1, <1>2, <1>6, <1>7 DEF OrderInv, LocalOrder, Bounds
<1>8. CASE pc = "refind" /\ depth > 1 /\ StartSplit(path', 3)
  <2> DEFINE p == leaf'.pos
  <2>1. PICK q : Regrown(q) /\ \A k \in 1 .. n : path[k].blk = q[k]
    BY <1>8 DEF FillInv, FullInv
  <2>2. Full(lb) /\ Used(lb) /\ Len(es) = node[lb].max /\ ~ Full(path[2].blk)
    <3>1. n \in 3 .. depth + 1 /\ n \in 1 .. n /\ 2 \in 1 .. n
      BY <1>4, <1>8
    <3>2. Full(lb) /\ ~ Full(path[2].blk)
      BY <3>1, <2>1, <1>4 DEF Regrown
    <3> QED
      BY <3>2, <1>4, FullIsUsed
  <2>3. /\ at' = 3 /\ np' = <<>> /\ pc' = "split"
        /\ key' \in IF p # node[lb].max THEN SlotKey(es, p + 1) ELSE {l}
    <3>1. path'[Len(path')] = leaf'
      BY <1>4
    <3> QED
      BY <3>1, <1>4, <1>8 DEF StartSplit
  <2>4. HasFree(at - 1)'
    <3>1. at' - 1 = 2 /\ 2 \in 1 .. n
      BY <2>3, <1>4, <1>8
    <3>2. path'[2].blk = path[2].blk
      BY <3>1, <1>4
    <3> QED
      BY <3>1, <3>2, <2>2, <1>2 DEF HasFree, Full
  <2>5. es \in Seq(Entry) /\ U[lb] \in Nat /\ newext \in Entry /\ l \in Nat
    BY <1>1, <1>4, LiveNode DEF Bounds, IInv, LocalInv, LocalType, Entry
  <2>6. Placed(es, l, p)
    <3>1. es # <<>>
      BY <2>2, <2>5, UsedWhenNonEmpty DEF Used
    <3>2. Closest(es, l) = p
      BY <2>2, <1>4, <1>8 DEF target
    <3> HIDE DEF es, l, p
    <3> QED
      BY <3>1, <3>2, <2>5, ClosestIsPlaced
  <2>7. /\ End(newext) <= U[lb]
        /\ \A i \in DOMAIN es : End(es[i]) <= l \/ End(newext) <= es[i].lblk
    BY <1>2, <1>4, <1>6, <1>8 DEF FitsIn
  <2>8. l < End(newext)
    <3>1. ee_len(newext) >= 1 /\ ee_len(newext) \in Nat
      BY <1>8, <2>5, RawLengths DEF OwnerInv, NewInv, Inserting
    <3> QED
      BY <3>1, <2>5 DEF End
  <2>9. Ordered(es, 0, U[lb]) /\ Len(es) >= 2
    <3>1. lb # Root
      BY <1>2, <1>8 DEF depth
    <3> QED
      BY <3>1, <2>2, <1>1, <1>2, <1>4 DEF Sorted
  <2>10. SplitAt(es, U[lb], p, newext, key')
    BY <2>2, <2>3, <2>6, <2>7, <2>8, <2>9 DEF SplitAt
  <2>11. leaf'.blk = lb /\ node'[lb].ents = es /\ ex' = es[p] /\ leaf'.pos = p
         /\ node'[lb].max = Len(es) /\ newext' = newext
    BY <1>2, <1>4, <2>2 DEF ex
  <2> HIDE DEF es, p, lb
  <2>12. /\ End(es[p]) <= key' /\ key' < U[lb]
         /\ (p = Len(es) /\ key' = l) \/ End(newext) <= key'
         /\ \A j \in DOMAIN es : p < j => key' <= es[j].lblk
    BY <2>5, <2>10, SplitKey
  <2>13. KeyInv(U)'
    BY <2>3, <2>4, <2>11, <2>12 DEF KeyInv
  <2>14. HalfInv(U)' /\ PlaceInv(U)'
    BY <2>3, <1>6, <1>8 DEF HalfInv, PlaceInv
  <2> QED
    BY <2>13, <2>14, <1>1, <1>2, <1>6, <1>8 DEF OrderInv, LocalOrder, Bounds
<1> QED
  BY <1>3, <1>5, <1>7, <1>8

\* The tree grows: the new block is bounded as the root is.
LEMMA GrowOrders ==
    ASSUME IInv, OwnerInv, OrderInv, ext4_ext_grow_indepth
    PROVE  OrderInv'
<1> DEFINE n   == Len(path)
           old == node[Root].ents
           lb  == leaf.blk
<1>1. PICK U : U \in Bounds /\ Sorted(node, U) /\ LocalOrder(U)
  BY DEF OrderInv, Bounds
<1>2. /\ pc = "grow" /\ pc' = "refind" /\ path' = <<[blk |-> Root, pos |-> 0]>>
      /\ UNCHANGED <<newext, saved, todo>>
  BY DEF ext4_ext_grow_indepth, conv
<1>3. Arrived(newext.lblk) /\ FitsIn(U, lb) /\ Searched(newext.lblk)
  BY <1>1, <1>2 DEF LocalOrder, PlaceInv, Arrived
<1>4. PICK b \in free : \E q :
         /\ b \notin DOMAIN node /\ b # Root
         /\ DOMAIN node' = DOMAIN node \cup {b}
         /\ node'[b].depth = depth /\ node'[b].ents = old
         /\ node'[b].max = IF depth = 0 THEN SpaceBlock ELSE SpaceBlockIdx
         /\ node'[Root].depth = depth + 1
         /\ node'[Root].ents = << [lblk |-> old[1].lblk, pblk |-> b, len |-> 0] >>
         /\ \A c \in DOMAIN node : c # Root => node'[c] = node[c]
         /\ Way(q, newext.lblk)'
         /\ q[1] = Root /\ q[2] = b
         /\ \A k \in 3 .. depth + 2 : q[k] = path[k - 1].blk
  BY <1>3, GrownWay
<1>5. PICK q :
         /\ b \notin DOMAIN node /\ b # Root
         /\ DOMAIN node' = DOMAIN node \cup {b}
         /\ node'[b].depth = depth /\ node'[b].ents = old
         /\ node'[b].max = IF depth = 0 THEN SpaceBlock ELSE SpaceBlockIdx
         /\ node'[Root].depth = depth + 1
         /\ node'[Root].ents = << [lblk |-> old[1].lblk, pblk |-> b, len |-> 0] >>
         /\ \A c \in DOMAIN node : c # Root => node'[c] = node[c]
         /\ Way(q, newext.lblk)'
         /\ q[1] = Root /\ q[2] = b
         /\ \A k \in 3 .. depth + 2 : q[k] = path[k - 1].blk
  BY <1>4
<1>6. /\ n = depth + 1 /\ depth \in Nat /\ leaf = path[n]
      /\ lb \in DOMAIN node /\ node[lb].depth = 0 /\ Root \in DOMAIN node
  BY <1>2, PathFacts, LeafOfPath DEF Working
<1>7. PICK V : V = [x \in DOMAIN node' |-> IF x = b THEN U[Root] ELSE U[x]]
  OBVIOUS
<1>8. /\ V \in [DOMAIN node' -> Nat] /\ V[b] = U[Root]
      /\ \A x \in DOMAIN node : V[x] = U[x] /\ x # b
  BY <1>1, <1>5, <1>6, <1>7 DEF Bounds
<1>9. /\ U[Root] \in Nat /\ Len(old) \in Nat /\ DOMAIN old = 1 .. Len(old)
      /\ 1 \in DOMAIN old /\ old[1].lblk \in Nat
      /\ old[1].lblk + 1 <= U[Root]
  <2>1. old \in Seq(Entry) /\ old # <<>>
    BY <1>2, <1>6, LiveNode DEF IInv, LocalInv, GrowInv
  <2>2. 1 \in DOMAIN old
    BY <2>1, UsedWhenNonEmpty
  <2>3. /\ U[Root] \in Nat /\ Len(old) \in Nat /\ DOMAIN old = 1 .. Len(old)
        /\ \A i \in 1 .. Len(old) :
              /\ old[i].lblk \in Nat /\ EndOf(old[i], depth) \in Nat
              /\ old[i].lblk < EndOf(old[i], depth) /\ EndOf(old[i], depth) <= U[Root]
    BY <1>1, <1>6, SortedNode DEF depth
  <2> HIDE DEF old
  <2> QED
    BY <2>2, <2>3
<1> HIDE DEF old
<1>10. ASSUME NEW x \in DOMAIN node, node[x].depth > 0,
              NEW y \in DOMAIN node', node'[y].ents = node[x].ents, V[y] = U[x]
       PROVE  ChildrenFit(node', V, y)
  <2> DEFINE es == node[x].ents
  <2>1. ChildrenFit(node, U, x)
    BY <1>1, <1>10 DEF Sorted
  <2>2. \A i \in DOMAIN es : es[i].pblk \in DOMAIN node /\ es[i].pblk # Root
    BY <1>10 DEF IInv, TreeInv, KidsLive
  <2>3. \A i \in DOMAIN es : V[es[i].pblk] = U[es[i].pblk] /\ node'[es[i].pblk] = node[es[i].pblk]
    BY <2>2, <1>5, <1>8
  <2> QED
    BY <2>1, <2>3, <1>10 DEF ChildrenFit
<1>11. Sorted(node', V)
  <2> SUFFICES ASSUME NEW x \in DOMAIN node'
               PROVE  /\ Ordered(node'[x].ents, node'[x].depth, V[x])
                      /\ node'[x].depth > 0 => ChildrenFit(node', V, x)
                      /\ node'[x].depth = 0 /\ x # Root => node'[x].max >= 2
    BY DEF Sorted
  <2>1. CASE x = b
    <3>1. Ordered(old, depth, U[Root])
      BY <1>1, <1>6 DEF Sorted, old, depth
    <3>2. depth > 0 => ChildrenFit(node', V, x)
      BY <2>1, <1>5, <1>6, <1>8, <1>10 DEF old, depth
    <3>3. depth = 0 => node'[x].max >= 2
      BY <2>1, <1>5, ConstantsAssumption
    <3> QED
      BY <2>1, <3>1, <3>2, <3>3, <1>5, <1>8
  <2>2. CASE x = Root
    <3> DEFINE t == [lblk |-> old[1].lblk, pblk |-> b, len |-> 0]
    <3>1. /\ DOMAIN node'[Root].ents = {1} /\ node'[Root].ents[1] = t
          /\ node'[Root].depth > 0 /\ V[Root] = U[Root]
      BY <1>5, <1>6, <1>8
    <3>2. EndOf(t, node'[Root].depth) = old[1].lblk + 1 /\ t.lblk = old[1].lblk /\ t.pblk = b
      BY <3>1 DEF EndOf
    <3> HIDE DEF t
    <3>3. Ordered(node'[Root].ents, node'[Root].depth, V[Root])
      BY <3>1, <3>2, <1>9 DEF Ordered
    <3>4. ChildrenFit(node', V, Root)
      <4>1. V[b] <= V[Root] /\ old[1].lblk <= node'[b].ents[1].lblk
        BY <3>1, <1>5, <1>8, <1>9
      <4>2. \A i, j \in DOMAIN node'[Root].ents : ~ (i < j)
        BY <3>1
      <4>3. \A i \in DOMAIN node'[Root].ents : node'[Root].ents[i].pblk = b
                                              /\ node'[Root].ents[i].lblk = old[1].lblk
        BY <3>1, <3>2
      <4> QED
        BY <4>1, <4>2, <4>3 DEF ChildrenFit
    <3> QED
      BY <2>2, <3>3, <3>4
  <2>3. CASE x \in DOMAIN node /\ x # Root
    <3>1. node'[x] = node[x] /\ V[x] = U[x]
      BY <2>3, <1>5, <1>8
    <3>2. Ordered(node[x].ents, node[x].depth, U[x])
          /\ (node[x].depth = 0 /\ x # Root => node[x].max >= 2)
      BY <2>3, <1>1 DEF Sorted
    <3>3. node[x].depth > 0 => ChildrenFit(node', V, x)
      BY <2>3, <3>1, <1>10
    <3> QED
      BY <3>1, <3>2, <3>3
  <2> QED
    BY <2>1, <2>2, <2>3, <1>5
<1>12. FitsIn(V, q[depth + 1])'
  <2>1. depth' = depth + 1
    BY <1>5 DEF depth
  <2>2. PICK f : f = q[depth' + 1]
    OBVIOUS
  <2>3. node'[f].ents = node[lb].ents /\ V[f] = U[lb]
    <3>1. CASE depth = 0
      <4>1. f = b /\ lb = Root
        BY <3>1, <2>1, <2>2, <1>2, <1>5, <1>6, PathFacts DEF Working
      <4> QED
        BY <4>1, <1>5, <1>8 DEF old
    <3>2. CASE depth # 0
      <4>1. depth + 2 \in 3 .. depth + 2 /\ (depth + 2) - 1 = n /\ (depth + 1) + 1 = depth + 2
        BY <3>2, <1>6
      <4>2. f = lb
        BY <4>1, <2>1, <2>2, <1>5, <1>6
      <4>3. lb # Root
        BY <3>2, <1>6 DEF depth
      <4> QED
        BY <4>2, <4>3, <1>5, <1>6, <1>8
    <3> QED
      BY <3>1, <3>2
  <2>4. End(newext) <= U[lb] /\ \A i \in DOMAIN node[lb].ents :
           LET e == node[lb].ents[i] IN End(e) <= newext.lblk \/ End(newext) <= e.lblk
    BY <1>3 DEF FitsIn
  <2> QED
    BY <2>2, <2>3, <2>4, <1>2 DEF FitsIn
<1>13. PlaceInv(V)' /\ KeyInv(V)' /\ HalfInv(V)'
  <2>1. \A k \in 1 .. Len(path') : path'[k].blk = q[k]
    BY <1>2, <1>5
  <2> QED
    BY <2>1, <1>2, <1>5, <1>12 DEF PlaceInv, KeyInv, HalfInv
<1>14. RestoreInv(V)'
  <2>1. ASSUME Converting
        PROVE  LET es == node'[saved.blk].ents
               IN  node'[saved.blk].depth = 0 /\ saved.pos \in DOMAIN es =>
                      LET m == es[saved.pos].lblk + saved.len
                      IN  /\ saved.len >= 1 /\ m <= V[saved.blk]
                          /\ \A j \in DOMAIN es : saved.pos < j => m <= es[j].lblk
    <3>1. saved.blk \in DOMAIN node
      BY <2>1, <1>2 DEF OwnerInv, SavedInv, Inserting, Converting
    <3>2. CASE saved.blk = Root
      <4>1. node'[saved.blk].depth # 0
        BY <3>2, <1>5, <1>6
      <4> QED
        BY <4>1
    <3>3. CASE saved.blk # Root
      <4>1. node'[saved.blk] = node[saved.blk] /\ V[saved.blk] = U[saved.blk]
        BY <3>1, <3>3, <1>5, <1>8
      <4>2. LET es == node[saved.blk].ents
            IN  node[saved.blk].depth = 0 /\ saved.pos \in DOMAIN es =>
                   LET m == es[saved.pos].lblk + saved.len
                   IN  /\ saved.len >= 1 /\ m <= U[saved.blk]
                       /\ \A j \in DOMAIN es : saved.pos < j => m <= es[j].lblk
        BY <2>1, <1>1, <1>2 DEF LocalOrder, RestoreInv, Inserting
      <4> QED
        BY <4>1, <4>2
    <3> QED
      BY <3>2, <3>3
  <2>2. Converting' = Converting
    BY <1>2 DEF Converting
  <2> QED
    BY <2>1, <2>2, <1>2 DEF RestoreInv
<1> QED
  BY <1>8, <1>11, <1>13, <1>14 DEF OrderInv, LocalOrder

-----------------------------------------------------------------------------
(* One level of a split.                                                   *)

\* What follows the path in node c is moved to the new block b.
CutOff(b) ==
    LET c   == path[level].blk
        old == node[c].ents
        pos == path[level].pos
        m   == IF np = <<>> THEN 0 ELSE 1
    IN  /\ np' = <<b>> \o np
        /\ b \notin DOMAIN node /\ b # Root /\ b \in PBlk
        /\ DOMAIN node' = DOMAIN node \cup {b}
        /\ \A x \in DOMAIN node : x # c => node'[x] = node[x]
        /\ node'[c].depth = node[c].depth
        /\ node'[c].max = node[c].max
        /\ Len(node'[c].ents) = pos
        /\ DOMAIN node'[c].ents = 1 .. pos
        /\ \A i \in 1 .. pos : node'[c].ents[i] = old[i]
        /\ node'[b].depth = node[c].depth
        /\ node'[b].max = ext4_ext_max_entries(depth, Len(np))
        /\ DOMAIN node'[b].ents = 1 .. Len(old) - pos + m
        /\ np # <<>> => node'[b].ents[1] = [lblk |-> key, pblk |-> np[1], len |-> 0]
        /\ \A i \in 1 + m .. Len(old) - pos + m : node'[b].ents[i] = old[pos + i - m]

\* The node being split, its level, and its path.
LEMMA SplitPlace ==
    ASSUME IInv, OwnerInv, pc = "split", NEW U \in Bounds, Sorted(node, U), LocalOrder(U)
    PROVE  LET c   == path[level].blk
               old == node[c].ents
               pos == path[level].pos
               n   == Len(path)
           IN  /\ pc \in Working /\ Linked /\ On(node, path, newext.lblk)
               /\ n \in Nat \ {0} /\ leaf = path[n] /\ level \in 2 .. n /\ level = n - Len(np)
               /\ level = n <=> np = <<>>
               /\ c \in DOMAIN node /\ node[c].depth = Len(np)
               /\ pos \in 0 .. Len(old) /\ (np # <<>> => pos >= 1)
               /\ Len(old) \in Nat /\ DOMAIN old = 1 .. Len(old)
               /\ U[c] \in Nat /\ U[leaf.blk] \in Nat /\ U[leaf.blk] <= U[c]
               /\ key \in Nat /\ key < U[leaf.blk]
               /\ Len(np) \in Nat /\ at \in 2 .. level
<1> DEFINE c   == path[level].blk
           old == node[c].ents
           pos == path[level].pos
           n   == Len(path)
<1>1. pc \in Working /\ PlaceInv(U) /\ KeyInv(U)
  BY DEF Working, LocalOrder
<1>2. Linked /\ On(node, path, newext.lblk)
  BY <1>1, NewPlace
<1>3. /\ level \in at .. n /\ at >= 2 /\ at \in Nat /\ n = depth + 1 /\ depth \in Nat
      /\ Len(np) \in Nat /\ level = n - Len(np)
      /\ c \in DOMAIN node /\ node[c].depth = Len(np)
      /\ pos \in 0 .. Len(old) /\ (np # <<>> => pos >= 1)
  BY SplitLevel
<1>4. n \in Nat \ {0} /\ level \in 2 .. n /\ level \in 1 .. n /\ n \in 1 .. n /\ at \in 2 .. level
  BY <1>3
<1>5. leaf = path[n] /\ leaf.blk \in DOMAIN node
  BY <1>1, <1>4, PathFacts
<1>6. Len(old) \in Nat /\ DOMAIN old = 1 .. Len(old)
  BY <1>3, LiveNode
<1>7. U[c] \in Nat /\ U[leaf.blk] \in Nat
  BY <1>3, <1>5 DEF Bounds
<1>8. U[leaf.blk] <= U[c]
  BY <1>1, <1>2, <1>4, BoundChain
<1>9. key \in Nat /\ key < U[leaf.blk]
  BY <1>1 DEF KeyInv, IInv, LocalInv, LocalType
<1>10. level = n <=> np = <<>>
  <2>1. np \in Seq(PBlk)
    BY DEF IInv, LocalInv, LocalType
  <2>2. np = <<>> <=> Len(np) = 0
    BY <2>1, EmptySeq
  <2> QED
    BY <2>2, <1>3, <1>4
<1> QED
  BY <1>1, <1>2, <1>3, <1>4, <1>5, <1>6, <1>7, <1>8, <1>9, <1>10

\* The children of the node that is split, and those of its new half.
LEMMA SplitChild ==
    ASSUME IInv, OwnerInv, pc = "split", NEW U \in Bounds, Sorted(node, U), LocalOrder(U),
           NEW b, CutOff(b), NEW V \in [DOMAIN node' -> Nat],
           V[b] = U[path[level].blk], \A x \in DOMAIN node : V[x] = U[x],
           NEW x \in DOMAIN node, node[x].depth > 0, NEW i \in DOMAIN node[x].ents
    PROVE  LET es == node[x].ents
               c  == es[i].pblk
           IN  /\ V[c] = U[c] /\ U[c] \in Nat /\ U[c] <= U[x]
               /\ \A j \in DOMAIN es : i < j => V[c] <= es[j].lblk
               /\ 1 \in DOMAIN node'[c].ents => es[i].lblk <= node'[c].ents[1].lblk
<1> DEFINE es == node[x].ents
           c  == es[i].pblk
           d  == path[level].blk
<1>1. DOMAIN es = 1 .. Len(es)
  BY LiveNode
<1>2. /\ c \in DOMAIN node /\ U[c] \in Nat /\ U[c] <= U[x]
      /\ \A j \in 1 .. Len(es) : i < j => U[c] <= es[j].lblk
      /\ Used(c) => es[i].lblk <= node[c].ents[1].lblk
  BY <1>1, SortedNode
<1>3. V[c] = U[c]
  BY <1>2
<1>4. ASSUME 1 \in DOMAIN node'[c].ents
      PROVE  Used(c) /\ node'[c].ents[1] = node[c].ents[1]
  <2>1. CASE c # d
    BY <2>1, <1>2, <1>4 DEF CutOff, Used
  <2>2. CASE c = d
    <3>1. /\ path[level].pos \in 0 .. Len(node[d].ents)
          /\ Len(node[d].ents) \in Nat /\ DOMAIN node[d].ents = 1 .. Len(node[d].ents)
      BY SplitPlace
    <3>2. /\ DOMAIN node'[d].ents = 1 .. path[level].pos
          /\ \A k \in 1 .. path[level].pos : node'[d].ents[k] = node[d].ents[k]
      BY DEF CutOff
    <3>3. 1 \in 1 .. path[level].pos /\ 1 \in DOMAIN node[d].ents
      BY <3>1, <3>2, <2>2, <1>4
    <3> QED
      BY <3>2, <3>3, <2>2 DEF Used
  <2> QED
    BY <2>1, <2>2
<1> QED
  BY <1>1, <1>2, <1>3, <1>4

\* The left half.
LEMMA LeftHalf ==
    ASSUME IInv, OwnerInv, pc = "split", NEW U \in Bounds, Sorted(node, U), LocalOrder(U),
           NEW b, CutOff(b), NEW V \in [DOMAIN node' -> Nat],
           V[b] = U[path[level].blk], \A x \in DOMAIN node : V[x] = U[x]
    PROVE  LET c == path[level].blk
           IN  /\ Ordered(node'[c].ents, node'[c].depth, V[c])
               /\ node'[c].depth > 0 => ChildrenFit(node', V, c)
               /\ node'[c].depth = 0 /\ c # Root => node'[c].max >= 2
<1> DEFINE c   == path[level].blk
           old == node[c].ents
           new == node'[c].ents
           pos == path[level].pos
<1>1. /\ c \in DOMAIN node /\ pos \in 0 .. Len(old)
      /\ Len(old) \in Nat /\ DOMAIN old = 1 .. Len(old)
  BY SplitPlace
<1>2. /\ node'[c].depth = node[c].depth /\ node'[c].max = node[c].max
      /\ DOMAIN new = 1 .. pos /\ \A i \in 1 .. pos : new[i] = old[i]
  BY DEF CutOff
<1>3. V[c] = U[c]
  BY <1>1
<1>4. \A i \in DOMAIN new : i \in DOMAIN old /\ new[i] = old[i]
  BY <1>1, <1>2
<1>5. Ordered(new, node[c].depth, V[c])
  <2>1. Ordered(old, node[c].depth, U[c])
    BY <1>1 DEF Sorted
  <2> HIDE DEF old, new
  <2> QED
    BY <2>1, <1>3, <1>4 DEF Ordered
<1>6. ASSUME node[c].depth > 0
      PROVE  ChildrenFit(node', V, c)
  <2>1. \A i \in DOMAIN old :
           LET k == old[i].pblk
           IN  /\ V[k] = U[k] /\ U[k] \in Nat /\ U[k] <= U[c]
               /\ \A j \in DOMAIN old : i < j => V[k] <= old[j].lblk
               /\ 1 \in DOMAIN node'[k].ents => old[i].lblk <= node'[k].ents[1].lblk
    <3> TAKE i \in DOMAIN old
    <3> QED
      BY <1>1, <1>6, SplitChild, ZenonT(60)
  <2> HIDE DEF old
  <2> QED
    BY <2>1, <1>3, <1>4 DEF ChildrenFit
<1>7. node[c].depth = 0 /\ c # Root => node[c].max >= 2
  BY <1>1 DEF Sorted
<1> QED
  BY <1>2, <1>5, <1>6, <1>7

\* The entries that are moved, and the index put before them, are in order.
EntriesMoved(old, new, p, m, e) ==
    /\ Len(old) \in Nat /\ DOMAIN old = 1 .. Len(old) /\ p \in 0 .. Len(old) /\ m \in {0, 1}
    /\ DOMAIN new = 1 .. Len(old) - p + m
    /\ \A i \in 1 + m .. Len(old) - p + m : new[i] = old[p + i - m]
    /\ m = 1 => new[1] = e

\* Every slot of the new half is the index or a slot of the old node.
LEMMA MovedSlots ==
    ASSUME NEW old, NEW new, NEW p, NEW m, NEW e, EntriesMoved(old, new, p, m, e),
           NEW i \in DOMAIN new
    PROVE  /\ i \in Nat
           /\ \/ m = 1 /\ i = 1 /\ new[i] = e
              \/ /\ p + i - m \in DOMAIN old /\ p < p + i - m
                 /\ new[i] = old[p + i - m] /\ (m = 1 => 1 < i)
<1>1. /\ Len(old) \in Nat /\ DOMAIN old = 1 .. Len(old) /\ p \in 0 .. Len(old) /\ m \in {0, 1}
      /\ i \in 1 .. Len(old) - p + m
  BY DEF EntriesMoved
<1>2. CASE m = 1 /\ i = 1
  BY <1>1, <1>2 DEF EntriesMoved
<1>3. CASE ~ (m = 1 /\ i = 1)
  <2>1. i \in 1 + m .. Len(old) - p + m
    BY <1>1, <1>3
  <2>2. new[i] = old[p + i - m]
    BY <2>1 DEF EntriesMoved
  <2>3. p + i - m \in 1 .. Len(old) /\ p < p + i - m /\ i \in Nat
    BY <2>1, <1>1
  <2>4. m = 1 => 1 < i
    BY <2>1, <1>1
  <2> QED
    BY <2>2, <2>3, <2>4, <1>1
<1> QED
  BY <1>2, <1>3

LEMMA OrderedMoved ==
    ASSUME NEW old, NEW new, NEW p, NEW m, NEW e, NEW d, NEW u,
           Ordered(old, d, u), EntriesMoved(old, new, p, m, e),
           m = 1 => /\ e.lblk < EndOf(e, d) /\ EndOf(e, d) <= u
                    /\ \A j \in DOMAIN old : p < j => EndOf(e, d) <= old[j].lblk
    PROVE  Ordered(new, d, u)
<1>1. ASSUME NEW i \in DOMAIN new
      PROVE  new[i].lblk < EndOf(new[i], d) /\ EndOf(new[i], d) <= u
  <2>1. \/ m = 1 /\ new[i] = e
        \/ p + i - m \in DOMAIN old /\ new[i] = old[p + i - m]
    BY MovedSlots
  <2>2. CASE m = 1 /\ new[i] = e
    BY <2>2
  <2>3. CASE p + i - m \in DOMAIN old /\ new[i] = old[p + i - m]
    BY <2>3 DEF Ordered
  <2> QED
    BY <2>1, <2>2, <2>3
<1>2. ASSUME NEW i \in DOMAIN new, NEW j \in DOMAIN new, i < j
      PROVE  EndOf(new[i], d) <= new[j].lblk
  <2>1. i \in Nat /\ j \in Nat
    BY MovedSlots
  <2>2. /\ p + j - m \in DOMAIN old /\ new[j] = old[p + j - m] /\ p < p + j - m
    <3>1. i >= 1
      <4>1. DOMAIN new = 1 .. Len(old) - p + m
        BY DEF EntriesMoved
      <4> QED
        BY <4>1
    <3>2. ~ (m = 1 /\ j = 1)
      BY <3>1, <2>1, <1>2
    <3> QED
      BY <3>2, MovedSlots
  <2>3. \/ m = 1 /\ i = 1 /\ new[i] = e
        \/ p + i - m \in DOMAIN old /\ new[i] = old[p + i - m]
    BY MovedSlots
  <2>4. CASE m = 1 /\ i = 1 /\ new[i] = e
    BY <2>2, <2>4
  <2>5. CASE p + i - m \in DOMAIN old /\ new[i] = old[p + i - m]
    <3>1. p \in Nat /\ m \in Nat
      BY DEF EntriesMoved
    <3>2. p + i - m < p + j - m
      BY ONLY <3>1, <2>1, <1>2
    <3> QED
      BY <3>2, <2>2, <2>5 DEF Ordered
  <2> QED
    BY <2>3, <2>4, <2>5
<1> QED
  BY <1>1, <1>2 DEF Ordered

\* The right half.
LEMMA RightHalf ==
    ASSUME IInv, OwnerInv, pc = "split", NEW U \in Bounds, Sorted(node, U), LocalOrder(U),
           NEW b, CutOff(b), NEW V \in [DOMAIN node' -> Nat],
           V[b] = U[path[level].blk], \A x \in DOMAIN node : V[x] = U[x]
    PROVE  /\ Ordered(node'[b].ents, node'[b].depth, V[b])
           /\ node'[b].depth > 0 => ChildrenFit(node', V, b)
           /\ node'[b].depth = 0 /\ b # Root => node'[b].max >= 2
<1> DEFINE c   == path[level].blk
           old == node[c].ents
           new == node'[b].ents
           pos == path[level].pos
           m   == IF np = <<>> THEN 0 ELSE 1
           e   == [lblk |-> key, pblk |-> np[1], len |-> 0]
           n   == Len(path)
           d   == node[c].depth
<1>1. /\ pc \in Working /\ Linked /\ n \in Nat \ {0} /\ level \in 2 .. n
      /\ level = n <=> np = <<>>
      /\ c \in DOMAIN node /\ d = Len(np) /\ pos \in 0 .. Len(old)
      /\ Len(old) \in Nat /\ DOMAIN old = 1 .. Len(old)
      /\ U[c] \in Nat /\ U[leaf.blk] \in Nat /\ U[leaf.blk] <= U[c]
      /\ key \in Nat /\ key < U[leaf.blk] /\ Len(np) \in Nat /\ level = n - Len(np)
  BY SplitPlace
<1>2. node'[b].depth = d /\ node'[b].max = ext4_ext_max_entries(depth, Len(np))
  BY DEF CutOff
<1>3. EntriesMoved(old, new, pos, m, e)
  <2>1. /\ DOMAIN new = 1 .. Len(old) - pos + m
        /\ \A i \in 1 + m .. Len(old) - pos + m : new[i] = old[pos + i - m]
        /\ np # <<>> => new[1] = e
    BY ONLY CutOff(b), ZenonT(40) DEF CutOff
  <2>2. m \in {0, 1} /\ (m = 1 => np # <<>>)
    OBVIOUS
  <2> HIDE DEF c, old, new, pos, m, e, n, d
  <2> QED
    BY ONLY <2>1, <2>2, <1>1 DEF EntriesMoved
<1>4. np # <<>> => level \in 1 .. n - 1 /\ level + 1 \in 1 .. n /\ Len(np) >= 1 /\ d > 0
                   /\ np[1] \in DOMAIN node
  <2>1. np # <<>> => level # n
    BY <1>1
  <2>2. np # <<>> => level \in 1 .. n - 1 /\ level + 1 \in 1 .. n
    BY <2>1, <1>1
  <2>3. np # <<>> => Len(np) >= 1
    BY <2>1, <1>1
  <2>4. Len(np) >= 1 => np[1] \in DOMAIN node
    BY <1>1, SMTT(30) DEF IInv, LocalInv, SplitInv
  <2> QED
    BY <2>2, <2>3, <2>4, <1>1
<1>5. np # <<>> => \A j \in DOMAIN old : pos < j => key < old[j].lblk /\ old[j].lblk \in Nat
  <2> SUFFICES ASSUME np # <<>>, NEW j \in DOMAIN old, pos < j
               PROVE  key < old[j].lblk /\ old[j].lblk \in Nat
    OBVIOUS
  <2>1. U[leaf.blk] <= old[j].lblk
    BY <1>1, <1>4, BoundChain
  <2>2. old[j].lblk \in Nat
    BY <1>1, <1>4, PathChild
  <2> HIDE DEF old
  <2> QED
    BY <2>1, <2>2, <1>1
<1>6. Ordered(new, d, V[b])
  <2>1. Ordered(old, d, U[c])
    BY <1>1 DEF Sorted
  <2>2. ASSUME m = 1
        PROVE  /\ e.lblk < EndOf(e, d) /\ EndOf(e, d) <= U[c]
               /\ \A j \in DOMAIN old : pos < j => EndOf(e, d) <= old[j].lblk
    <3>1. np # <<>> /\ d > 0
      BY <2>2, <1>4
    <3>2. EndOf(e, d) = key + 1 /\ e.lblk = key
      BY <3>1 DEF EndOf
    <3>3. key + 1 <= U[c]
      BY <1>1
    <3>4. ASSUME NEW j \in DOMAIN old, pos < j PROVE key + 1 <= old[j].lblk
      <4>1. key < old[j].lblk /\ old[j].lblk \in Nat
        BY <3>1, <3>4, <1>5
      <4>2. key \in Nat
        BY <1>1
      <4> HIDE DEF old
      <4> QED
        BY ONLY <4>1, <4>2
    <3> HIDE DEF e, d, old, pos
    <3> QED
      BY <3>2, <3>3, <3>4, <1>1
  <2>3. V[b] = U[c]
    OBVIOUS
  <2> HIDE DEF old, new, pos, m, e, d, c
  <2> QED
    BY <2>1, <2>2, <2>3, <1>3, OrderedMoved
<1>7. ASSUME d > 0
      PROVE  ChildrenFit(node', V, b)
  <2>1. \A i \in DOMAIN old :
           LET k == old[i].pblk
           IN  /\ V[k] = U[k] /\ U[k] \in Nat /\ U[k] <= U[c]
               /\ \A j \in DOMAIN old : i < j => V[k] <= old[j].lblk
               /\ 1 \in DOMAIN node'[k].ents => old[i].lblk <= node'[k].ents[1].lblk
    <3>1. c \in DOMAIN node /\ node[c].depth > 0
      BY <1>1, <1>7
    <3> HIDE DEF c
    <3> QED
      BY <3>1, SplitChild, ZenonT(60) DEF c
  <2>2. np # <<>> /\ m = 1 /\ V[b] = U[c]
    <3>1. np \in Seq(PBlk) /\ Len(np) # 0
      BY <1>1, <1>7 DEF IInv, LocalInv, LocalType
    <3>2. np # <<>>
      BY <3>1, EmptySeq
    <3> QED
      BY <3>2
  <2>3. /\ U[np[1]] <= U[path[level + 1].blk]
        /\ \A i \in 1 .. Len(np) - 1 : node[np[i]].ents[1].lblk = key
        /\ Used(np[Len(np)]) => key <= node[np[Len(np)]].ents[1].lblk
    BY <2>2 DEF LocalOrder, HalfInv
  <2>4. /\ U[path[level + 1].blk] <= U[c] /\ U[path[level + 1].blk] \in Nat
        /\ \A j \in 1 .. Len(old) : pos < j => U[path[level + 1].blk] <= old[j].lblk
    BY <2>2, <1>1, <1>4, PathChild
  <2>5. V[np[1]] = U[np[1]] /\ U[np[1]] \in Nat
    BY <2>2, <1>4 DEF Bounds
  <2>6. V[np[1]] <= V[b] /\ \A j \in DOMAIN old : pos < j => V[np[1]] <= old[j].lblk
    <3>1. V[np[1]] <= V[b]
      <4>1. /\ V[np[1]] = U[np[1]] /\ U[np[1]] \in Nat /\ V[b] = U[c]
            /\ U[np[1]] <= U[path[level + 1].blk]
            /\ U[path[level + 1].blk] <= U[c] /\ U[path[level + 1].blk] \in Nat
        BY <2>2, <2>3, <2>4, <2>5
      <4>2. U[c] \in Nat
        BY <1>1
      <4> QED
        BY ONLY <4>1, <4>2
    <3>2. ASSUME NEW j \in DOMAIN old, pos < j PROVE V[np[1]] <= old[j].lblk
      <4>1. U[path[level + 1].blk] <= old[j].lblk /\ old[j].lblk \in Nat
        BY <3>2, <2>2, <2>4, <1>1, <1>5
      <4>2. /\ V[np[1]] = U[np[1]] /\ U[np[1]] \in Nat
            /\ U[np[1]] <= U[path[level + 1].blk] /\ U[path[level + 1].blk] \in Nat
        BY <2>3, <2>4, <2>5
      <4> HIDE DEF old
      <4> QED
        BY ONLY <4>1, <4>2
    <3> QED
      BY <3>1, <3>2
  <2>7. 1 \in DOMAIN node'[np[1]].ents => key <= node'[np[1]].ents[1].lblk
    <3>1. node'[np[1]] = node[np[1]]
      <4>1. np[1] # c
        <5>1. level \in 1 .. n /\ 1 \in 1 .. Len(np)
          BY <2>2, <1>1, <1>4
        <5> QED
          BY <5>1 DEF IInv, LocalInv, SplitInv
      <4> QED
        BY <4>1, <2>2, <1>4 DEF CutOff
    <3>2. CASE Len(np) = 1
      BY <3>1, <3>2, <2>3 DEF Used
    <3>3. CASE Len(np) # 1
      <4>1. 1 \in 1 .. Len(np) - 1
        <5>1. Len(np) >= 1
          BY <2>2, <1>4
        <5>2. Len(np) \in Nat
          BY <1>1
        <5>3. PICK k \in Nat : k = Len(np) /\ k >= 1 /\ k # 1
          BY <5>1, <5>2, <3>3
        <5>4. 1 \in 1 .. k - 1
          BY ONLY <5>3
        <5> QED
          BY <5>3, <5>4
      <4>2. node'[np[1]].ents[1].lblk = key /\ key \in Nat
        BY <4>1, <3>1, <2>3, <1>1
      <4> QED
        BY <4>2
    <3> QED
      BY <3>2, <3>3
  <2>8. e.lblk = key /\ e.pblk = np[1] /\ V[b] = U[c]
    OBVIOUS
  <2> HIDE DEF old, new, e, c, m, pos
  <2>9. ASSUME NEW i \in DOMAIN new
        PROVE  LET k == new[i].pblk
               IN  /\ V[k] <= V[b]
                   /\ \A j \in DOMAIN new : i < j => V[k] <= new[j].lblk
                   /\ 1 \in DOMAIN node'[k].ents => new[i].lblk <= node'[k].ents[1].lblk
    <3> DEFINE g(j) == pos + j - m
    <3>1. \A j \in DOMAIN new :
             /\ j \in Nat
             /\ \/ j = 1 /\ new[j] = e
                \/ g(j) \in DOMAIN old /\ pos < g(j) /\ new[j] = old[g(j)] /\ 1 < j
      BY <2>2, <1>3, MovedSlots
    <3>2. CASE i = 1 /\ new[i] = e
      <4>1. ASSUME NEW j \in DOMAIN new, i < j PROVE V[np[1]] <= new[j].lblk
        <5>1. g(j) \in DOMAIN old /\ pos < g(j) /\ new[j] = old[g(j)]
          BY <3>1, <3>2, <4>1
        <5> HIDE DEF g
        <5> QED
          BY <5>1, <2>6
      <4> QED
        BY <4>1, <3>2, <2>6, <2>7, <2>8
    <3>3. CASE g(i) \in DOMAIN old /\ new[i] = old[g(i)] /\ 1 < i
      <4>1. ASSUME NEW j \in DOMAIN new, i < j
            PROVE  V[old[g(i)].pblk] <= new[j].lblk
        <5>1. i \in Nat /\ j \in Nat /\ j # 1
          BY <3>1, <3>3, <4>1
        <5>2. g(j) \in DOMAIN old /\ new[j] = old[g(j)]
          BY <3>1, <5>1
        <5>3. g(i) < g(j)
          <6>1. pos \in Nat /\ m \in Nat
            BY <1>3 DEF EntriesMoved
          <6> QED
            BY <6>1, <5>1, <4>1
        <5> HIDE DEF g
        <5> QED
          BY <5>2, <5>3, <3>3, <2>1
      <4> HIDE DEF g
      <4> QED
        BY <4>1, <3>3, <2>1, <2>8
    <3> QED
      BY <3>1, <3>2, <3>3
  <2> QED
    BY <2>9 DEF ChildrenFit, new
<1>8. d = 0 => node'[b].max >= 2
  <2>1. Len(np) < depth /\ depth \in Nat
    BY SplitLevel
  <2>2. d = 0 => node'[b].max = SpaceBlock
    BY <2>1, <1>1, <1>2, Capacity
  <2> QED
    BY <2>2, ConstantsAssumption
<1> QED
  BY <1>2, <1>6, <1>7, <1>8

\* The rest of the tree.
LEMMA SplitSorts ==
    ASSUME IInv, OwnerInv, pc = "split", NEW U \in Bounds, Sorted(node, U), LocalOrder(U),
           NEW b, CutOff(b), NEW V \in [DOMAIN node' -> Nat],
           V[b] = U[path[level].blk], \A x \in DOMAIN node : V[x] = U[x]
    PROVE  Sorted(node', V)
<1> SUFFICES ASSUME NEW x \in DOMAIN node'
             PROVE  /\ Ordered(node'[x].ents, node'[x].depth, V[x])
                    /\ node'[x].depth > 0 => ChildrenFit(node', V, x)
                    /\ node'[x].depth = 0 /\ x # Root => node'[x].max >= 2
  BY DEF Sorted
<1>1. CASE x = b
  BY <1>1, RightHalf
<1>2. CASE x = path[level].blk
  BY <1>2, LeftHalf
<1>3. CASE x # b /\ x # path[level].blk
  <2>1. x \in DOMAIN node /\ node'[x] = node[x]
    BY <1>3 DEF CutOff
  <2>2. V[x] = U[x]
    BY <2>1
  <2>3. /\ Ordered(node[x].ents, node[x].depth, U[x])
        /\ node[x].depth = 0 /\ x # Root => node[x].max >= 2
    BY <2>1 DEF Sorted
  <2>4. ASSUME node[x].depth > 0
        PROVE  ChildrenFit(node', V, x)
    <3> DEFINE es == node[x].ents
    <3>1. \A i \in DOMAIN es :
             LET k == es[i].pblk
             IN  /\ V[k] = U[k] /\ U[k] \in Nat /\ U[k] <= U[x]
                 /\ \A j \in DOMAIN es : i < j => V[k] <= es[j].lblk
                 /\ 1 \in DOMAIN node'[k].ents => es[i].lblk <= node'[k].ents[1].lblk
      BY <2>1, <2>4, SplitChild
    <3> QED
      BY <3>1, <2>1, <2>2 DEF ChildrenFit
  <2> QED
    BY <2>1, <2>2, <2>3, <2>4
<1> QED
  BY <1>1, <1>2, <1>3

\* The path stays that of the search for the new extent, in the left halves.
LEMMA SplitPlaced ==
    ASSUME IInv, OwnerInv, FillInv, pc = "split", pc' \in {"split", "link"}, IInv',
           UNCHANGED <<path, newext>>,
           NEW U \in Bounds, Sorted(node, U), LocalOrder(U),
           NEW b, CutOff(b), NEW V \in [DOMAIN node' -> Nat],
           V[b] = U[path[level].blk], \A x \in DOMAIN node : V[x] = U[x]
    PROVE  /\ Arrived(newext.lblk)' /\ FitsIn(V, leaf.blk)'
           /\ leaf' = leaf /\ leaf.blk \in DOMAIN node /\ ex' = ex /\ leaf.pos >= 1
<1> DEFINE c   == path[level].blk
           old == node[c].ents
           pos == path[level].pos
           n   == Len(path)
           l   == newext.lblk
<1>1. pc \in Working /\ Linked /\ On(node, path, l)
  BY SplitPlace
<1>2. n \in Nat \ {0} /\ leaf = path[n] /\ level \in 2 .. n
  BY SplitPlace
<1>3. c \in DOMAIN node /\ pos \in 0 .. Len(old) /\ Len(old) \in Nat /\ DOMAIN old = 1 .. Len(old)
  BY SplitPlace
<1>4. leaf.pos \in DOMAIN node[leaf.blk].ents /\ leaf.blk \in DOMAIN node /\ leaf.pos >= 1
  <2>1. leaf.pos # 0
    BY DEF FillInv, HalvesInv
  <2> QED
    BY <2>1, <1>1, LeafOfPath, WorkingPath
<1>5. /\ \A x \in DOMAIN node : x # c => node'[x] = node[x]
      /\ Len(node'[c].ents) = pos /\ DOMAIN node'[c].ents = 1 .. pos
      /\ \A i \in 1 .. pos : node'[c].ents[i] = old[i]
  BY DEF CutOff
<1>6. ASSUME NEW k \in 1 .. n, path[k].blk = c PROVE k = level
  <2>1. level \in 1 .. n
    BY <1>2
  <2> QED
    BY <2>1, <1>1, <1>6, PathFacts
<1>7. \A k \in 1 .. n : path[k].blk \in DOMAIN node
  BY <1>1, PathFacts
<1>8. ASSUME NEW k \in 1 .. n, Placed(node[path[k].blk].ents, l, path[k].pos)
      PROVE  /\ Placed(node'[path[k].blk].ents, l, path[k].pos)
             /\ node'[path[k].blk].ents[path[k].pos] = node[path[k].blk].ents[path[k].pos]
             /\ 1 \in DOMAIN node'[path[k].blk].ents
  <2>1. CASE path[k].blk # c
    <3>1. node'[path[k].blk] = node[path[k].blk]
      BY <2>1, <1>5, <1>7
    <3>2. 1 \in DOMAIN node[path[k].blk].ents
      <4>1. /\ DOMAIN node[path[k].blk].ents = 1 .. Len(node[path[k].blk].ents)
            /\ Len(node[path[k].blk].ents) \in Nat
        BY <1>1, PathFacts
      <4> QED
        BY <4>1, <1>8 DEF Placed
    <3> QED
      BY <3>1, <3>2, <1>8
  <2>2. CASE path[k].blk = c
    <3>1. k = level
      BY <2>2, <1>6
    <3>2. pos \in 1 .. pos /\ (pos > 1 => old[pos].lblk <= l) /\ 1 \in 1 .. pos
      BY <3>1, <1>3, <1>8 DEF Placed
    <3>3. \A j \in 1 .. pos : ~ (pos < j)
      BY <3>2
    <3>4. Placed(node'[c].ents, l, pos)
      BY <3>2, <3>3, <1>5 DEF Placed
    <3> QED
      BY <3>1, <3>2, <3>4, <1>5
  <2> QED
    BY <2>1, <2>2
<1>9. Placed(node[leaf.blk].ents, l, leaf.pos) /\ Used(leaf.blk)
  <2>1. Used(leaf.blk)
    BY <1>1, <1>4, LeafOfPath, WorkingPath, LiveNode DEF Used
  <2> QED
    BY <2>1, <1>1, <1>2 DEF On, Used
<1>10. n \in 1 .. n /\ \A k \in 1 .. n - 1 : k \in 1 .. n
  BY <1>2
<1>11. On(node', path', newext'.lblk)
  <2>1. ASSUME NEW k \in 1 .. n - 1
        PROVE  LET es == node'[path'[k].blk].ents
               IN  Placed(es, l, path'[k].pos) /\ path'[k + 1].blk = es[path'[k].pos].pblk
    <3>1. /\ Placed(node[path[k].blk].ents, l, path[k].pos)
          /\ path[k + 1].blk = node[path[k].blk].ents[path[k].pos].pblk
      BY <1>1 DEF On
    <3> QED
      BY <3>1, <1>8, <1>10
  <2>2. /\ Placed(node'[leaf.blk].ents, l, leaf.pos)
        /\ 1 \in DOMAIN node'[leaf.blk].ents
    BY <1>2, <1>8, <1>9, <1>10
  <2> QED
    BY <2>1, <2>2, <1>2 DEF On
<1>12. Arrived(newext.lblk)'
  BY <1>11, NextArrives DEF Working
<1>13. leaf' = leaf /\ ex' = ex
  <2>1. leaf' = leaf
    BY DEF leaf
  <2>2. node'[leaf.blk].ents[leaf.pos] = node[leaf.blk].ents[leaf.pos]
    BY <1>2, <1>8, <1>9, <1>10
  <2> QED
    BY <2>1, <2>2 DEF ex
<1>14. FitsIn(V, leaf.blk)'
  <2>1. FitsIn(U, leaf.blk)
    BY DEF LocalOrder, PlaceInv
  <2>2. \A i \in DOMAIN node'[leaf.blk].ents :
           i \in DOMAIN node[leaf.blk].ents /\ node'[leaf.blk].ents[i] = node[leaf.blk].ents[i]
    <3>1. CASE leaf.blk # c
      BY <3>1, <1>4, <1>5
    <3>2. CASE leaf.blk = c
      BY <3>2, <1>3, <1>5, SMTT(30)
    <3> QED
      BY <3>1, <3>2
  <2>3. V[leaf.blk] = U[leaf.blk]
    BY <1>4
  <2> QED
    BY <2>1, <2>2, <2>3, <1>13 DEF FitsIn
<1> QED
  BY <1>4, <1>12, <1>13, <1>14

\* The chain of new blocks has one more.
LEMMA SplitHalves ==
    ASSUME IInv, OwnerInv, FillInv, pc = "split", UNCHANGED <<path, newext, key>>,
           NEW U \in Bounds, Sorted(node, U), LocalOrder(U),
           NEW b, CutOff(b), NEW V \in [DOMAIN node' -> Nat],
           V[b] = U[path[level].blk], \A x \in DOMAIN node : V[x] = U[x]
    PROVE  HalfInv(V)'
<1> DEFINE c   == path[level].blk
           old == node[c].ents
           pos == path[level].pos
           n   == Len(path)
           r   == IF np = <<>> THEN b ELSE np[Len(np)]
<1>1. n \in Nat \ {0} /\ leaf = path[n] /\ level \in 2 .. n /\ level = n - Len(np)
  BY SplitPlace
<1>2. (level = n <=> np = <<>>) /\ Len(np) \in Nat
  BY SplitPlace
<1>3. c \in DOMAIN node /\ pos \in 0 .. Len(old) /\ Len(old) \in Nat /\ DOMAIN old = 1 .. Len(old)
  BY SplitPlace
<1>4. /\ np' = <<b>> \o np /\ b \in PBlk
      /\ \A x \in DOMAIN node : x # c => node'[x] = node[x]
      /\ Len(node'[c].ents) = pos
  BY DEF CutOff
<1>5. np \in Seq(PBlk)
  BY DEF IInv, LocalInv, LocalType
<1>6. /\ Len(np') = Len(np) + 1 /\ np'[1] = b /\ np'[Len(np')] = r
      /\ \A i \in 2 .. Len(np) + 1 : np'[i] = np[i - 1]
  <2>1. <<b>> \in Seq(PBlk) /\ Len(<<b>>) = 1 /\ <<b>>[1] = b
    BY <1>4
  <2>2. /\ Len(<<b>> \o np) = 1 + Len(np)
        /\ \A i \in 1 .. 1 + Len(np) :
              (<<b>> \o np)[i] = IF i <= 1 THEN <<b>>[i] ELSE np[i - 1]
    BY <2>1, <1>5, ConcatProperties
  <2>3. np'[Len(np')] = r
    BY <1>4, <1>5, LastOfChain
  <2>4. Len(np') = Len(np) + 1 /\ np'[1] = b
    BY <2>1, <2>2, <1>2, <1>4
  <2>5. ASSUME NEW i \in 2 .. Len(np) + 1 PROVE np'[i] = np[i - 1]
    <3>1. i \in 1 .. 1 + Len(np) /\ ~ (i <= 1)
      BY <2>5, <1>2
    <3> QED
      BY <3>1, <2>2, <1>4
  <2> QED
    BY <2>3, <2>4, <2>5
<1>7. level' = level - 1
  BY <1>1, <1>2, <1>6 DEF level
<1>8. np # <<>> =>
         /\ \A k \in level + 1 .. n : Len(node[path[k].blk].ents) = path[k].pos
         /\ End(newext) <= U[np[Len(np)]]
         /\ \A i \in 1 .. Len(np) - 1 : node[np[i]].ents[1].lblk = key
         /\ Used(np[Len(np)]) => key <= node[np[Len(np)]].ents[1].lblk /\ key # newext.lblk
  BY DEF LocalOrder, HalfInv
<1>9. \A i \in 1 .. Len(np) : np[i] \in DOMAIN node /\ np[i] # c /\ node'[np[i]] = node[np[i]]
  <2>1. level \in 1 .. n
    BY <1>1
  <2>2. \A i \in 1 .. Len(np) : np[i] \in DOMAIN node /\ np[i] # c
    BY <2>1 DEF IInv, LocalInv, SplitInv
  <2> QED
    BY <2>2, <1>4
<1>10. np # <<>> => Len(np) \in 1 .. Len(np)
  BY <1>2, <1>5, EmptySeq
<1>11. ASSUME NEW k \in level .. n
       PROVE  Len(node'[path[k].blk].ents) = path[k].pos
  <2>1. CASE k = level
    BY <2>1, <1>4
  <2>2. CASE k # level
    <3>1. k \in level + 1 .. n /\ k \in 1 .. n /\ level \in 1 .. n /\ level # n
      BY <2>2, <1>1
    <3>2. path[k].blk # c /\ path[k].blk \in DOMAIN node
      BY <2>2, <3>1, PathFacts DEF Working
    <3> QED
      BY <3>1, <3>2, <1>2, <1>4, <1>8
  <2> QED
    BY <2>1, <2>2
<1>12. V[b] <= V[c]
  BY <1>3 DEF Bounds
<1>13. End(newext) <= V[r]
  <2>1. CASE np = <<>>
    <3>1. r = b /\ c = leaf.blk
      BY <2>1, <1>1, <1>2
    <3>2. FitsIn(U, leaf.blk)
      BY DEF LocalOrder, PlaceInv
    <3> QED
      BY <3>1, <3>2 DEF FitsIn
  <2>2. CASE np # <<>>
    BY <2>2, <1>8, <1>9, <1>10
  <2> QED
    BY <2>1, <2>2
<1>14. ASSUME NEW i \in 1 .. Len(np') - 1
       PROVE  node'[np'[i]].ents[1].lblk = key
  <2>1. i \in 1 .. Len(np)
    BY <1>2, <1>6
  <2>2. np # <<>>
    BY <2>1, <1>5, EmptySeq
  <2>3. CASE i = 1
    <3>1. node'[b].ents[1] = [lblk |-> key, pblk |-> np[1], len |-> 0]
      BY <2>2 DEF CutOff
    <3> QED
      BY ONLY <3>1, <2>3, <1>6
  <2>4. CASE i # 1
    <3>1. i \in 2 .. Len(np) + 1 /\ i - 1 \in 1 .. Len(np) - 1 /\ i - 1 \in 1 .. Len(np)
      BY <2>1, <2>4, <1>2
    <3> QED
      BY <3>1, <2>2, <1>6, <1>8, <1>9
  <2> QED
    BY <2>3, <2>4
<1>15. ASSUME 1 \in DOMAIN node'[r].ents
       PROVE  key <= node'[r].ents[1].lblk /\ key # newext.lblk
  <2>1. CASE np = <<>>
    <3>1. r = b /\ c = leaf.blk /\ pos = leaf.pos
      BY <2>1, <1>1, <1>2
    <3>2. /\ DOMAIN node'[b].ents = 1 .. Len(old) - pos + 0
          /\ \A i \in 1 + 0 .. Len(old) - pos + 0 : node'[b].ents[i] = old[pos + i - 0]
      BY <2>1 DEF CutOff
    <3>3. 1 \in 1 + 0 .. Len(old) - pos + 0 /\ pos + 1 \in 1 .. Len(old) /\ pos < pos + 1
          /\ pos + 1 - 0 = pos + 1
      <4>1. 1 \in 1 .. Len(old) - pos + 0
        BY <3>1, <3>2, <1>15
      <4>2. PICK m, p \in Nat : m = Len(old) /\ p = pos
        BY <1>3
      <4>3. 1 \in 1 .. m - p + 0
        BY <4>1, <4>2
      <4>4. 1 \in 1 + 0 .. m - p + 0 /\ p + 1 \in 1 .. m /\ p < p + 1 /\ p + 1 - 0 = p + 1
        BY ONLY <4>3, m \in Nat, p \in Nat
      <4> QED
        BY <4>2, <4>4
    <3>4. node'[b].ents[1] = old[pos + 1]
      BY <3>2, <3>3
    <3>5. key <= old[pos + 1].lblk
      BY <2>1, <3>1, <3>3, <1>3 DEF LocalOrder, KeyInv
    <3>6. pos # node[c].max
      <4>1. Len(old) <= node[c].max /\ node[c].max \in Nat
        BY <1>3, LiveNode
      <4> QED
        BY <4>1, <3>3, <1>3
    <3>7. End(newext) <= key /\ key \in Nat
      BY <3>1, <3>6 DEF LocalOrder, KeyInv, IInv, LocalInv, LocalType
    <3>8. newext.lblk < End(newext) /\ newext.lblk \in Nat /\ End(newext) \in Nat
      BY NewPlace DEF LocalOrder
    <3>9. key # newext.lblk
      BY <3>7, <3>8
    <3> QED
      BY <3>1, <3>4, <3>5, <3>9
  <2>2. CASE np # <<>>
    BY <2>2, <1>8, <1>9, <1>10, <1>15 DEF Used
  <2> QED
    BY <2>1, <2>2
<1>16. /\ \A k \in level' + 1 .. Len(path') : Len(node'[path'[k].blk].ents) = path'[k].pos
       /\ V[np'[1]] <= V[path'[level' + 1].blk]
  <2>1. level' + 1 = level
    BY <1>1, <1>7
  <2> QED
    BY <2>1, <1>6, <1>11, <1>12
<1> QED
  BY <1>6, <1>13, <1>14, <1>15, <1>16 DEF HalfInv, Used

LEMMA SplitOrders ==
    ASSUME IInv, OwnerInv, FillInv, OrderInv, ext4_ext_split_node, IInv'
    PROVE  OrderInv'
<1>1. PICK U : U \in Bounds /\ Sorted(node, U) /\ LocalOrder(U)
  BY DEF OrderInv, Bounds
<1>2. /\ pc = "split" /\ pc' \in {"split", "link"}
      /\ UNCHANGED <<path, newext, key, at, saved, todo>>
  BY DEF ext4_ext_split_node, conv
<1>3. PICK b \in free : CutOff(b)
  BY SplitEffect DEF CutOff
<1> DEFINE c == path[level].blk
<1>4. b \notin DOMAIN node /\ DOMAIN node' = DOMAIN node \cup {b}
  BY <1>3 DEF CutOff
<1>5. c \in DOMAIN node /\ level \in 2 .. Len(path) /\ at \in 2 .. level
      /\ Len(path) \in Nat
  BY <1>1, <1>2, SplitPlace
<1>6. PICK V : V = [x \in DOMAIN node' |-> IF x = b THEN U[c] ELSE U[x]]
  OBVIOUS
<1>7. V \in [DOMAIN node' -> Nat] /\ V[b] = U[c] /\ \A x \in DOMAIN node : V[x] = U[x]
  BY <1>1, <1>4, <1>5, <1>6 DEF Bounds
<1>8. Sorted(node', V)
  BY <1>1, <1>2, <1>3, <1>7, SplitSorts
<1>9. /\ Arrived(newext.lblk)' /\ FitsIn(V, leaf.blk)'
      /\ leaf' = leaf /\ leaf.blk \in DOMAIN node /\ ex' = ex /\ leaf.pos >= 1
  BY <1>1, <1>2, <1>3, <1>7, SplitPlaced
<1>10. PlaceInv(V)'
  BY <1>2, <1>9 DEF PlaceInv
<1>11. HalfInv(V)'
  BY <1>1, <1>2, <1>3, <1>7, SplitHalves
<1>12. KeyInv(V)'
  <2>1. /\ HasFree(at - 1)
        /\ End(ex) <= key /\ key < U[leaf.blk]
        /\ \/ leaf.pos = node[leaf.blk].max /\ key = newext.lblk
           \/ End(newext) <= key
    BY <1>1, <1>2 DEF LocalOrder, KeyInv
  <2>2. HasFree(at - 1)'
    <3>1. at - 1 \in 1 .. Len(path) /\ level \in 1 .. Len(path) /\ at - 1 # level
      BY <1>5
    <3>2. path[at - 1].blk # c /\ path[at - 1].blk \in DOMAIN node
      BY <3>1, <1>2, PathFacts DEF Working
    <3>3. node'[path[at - 1].blk] = node[path[at - 1].blk]
      BY <3>2, <1>3 DEF CutOff
    <3> QED
      BY <3>3, <2>1, <1>2 DEF HasFree
  <2>3. node'[leaf.blk].max = node[leaf.blk].max
    BY <1>3, <1>9 DEF CutOff
  <2>4. np' # <<>>
    <3>1. np \in Seq(PBlk) /\ b \in PBlk /\ np' = <<b>> \o np
      BY <1>3 DEF CutOff, IInv, LocalInv, LocalType
    <3> QED
      BY <3>1, LastOfChain
  <2> QED
    BY <2>1, <2>2, <2>3, <2>4, <1>2, <1>7, <1>9 DEF KeyInv
<1>13. RestoreInv(V)'
  <2> SUFFICES ASSUME Converting, node'[saved.blk].depth = 0,
                      saved.pos \in DOMAIN node'[saved.blk].ents
               PROVE  LET es == node'[saved.blk].ents
                          m  == es[saved.pos].lblk + saved.len
                      IN  /\ saved.len >= 1 /\ m <= V[saved.blk]
                          /\ \A j \in DOMAIN es : saved.pos < j => m <= es[j].lblk
    BY <1>2 DEF RestoreInv, Converting
  <2>1. saved.blk \in DOMAIN node /\ V[saved.blk] = U[saved.blk]
    BY <1>2, <1>7 DEF OwnerInv, SavedInv, Inserting, Converting
  <2>2. /\ node'[saved.blk].depth = node[saved.blk].depth
        /\ \A i \in DOMAIN node'[saved.blk].ents :
              /\ i \in DOMAIN node[saved.blk].ents
              /\ node'[saved.blk].ents[i] = node[saved.blk].ents[i]
    <3>1. CASE saved.blk # c
      BY <3>1, <2>1, <1>3 DEF CutOff
    <3>2. CASE saved.blk = c
      <4>1. /\ path[level].pos \in 0 .. Len(node[c].ents)
            /\ Len(node[c].ents) \in Nat /\ DOMAIN node[c].ents = 1 .. Len(node[c].ents)
        BY <1>1, <1>2, SplitPlace
      <4>2. /\ DOMAIN node'[c].ents = 1 .. path[level].pos
            /\ node'[c].depth = node[c].depth
            /\ \A i \in 1 .. path[level].pos : node'[c].ents[i] = node[c].ents[i]
        BY <1>3 DEF CutOff
      <4> QED
        <5>1. 1 .. path[level].pos \subseteq 1 .. Len(node[c].ents)
          BY ONLY <4>1
        <5> QED
          BY ONLY <5>1, <4>1, <4>2, <3>2
    <3> QED
      BY <3>1, <3>2
  <2>3. LET es == node[saved.blk].ents
            m  == es[saved.pos].lblk + saved.len
        IN  /\ saved.len >= 1 /\ m <= U[saved.blk]
            /\ \A j \in DOMAIN es : saved.pos < j => m <= es[j].lblk
    BY <2>2, <1>1, <1>2 DEF LocalOrder, RestoreInv, Inserting
  <2> QED
    BY <2>1, <2>2, <2>3
<1> QED
  BY <1>7, <1>8, <1>10, <1>11, <1>12, <1>13 DEF OrderInv, LocalOrder

-----------------------------------------------------------------------------
(* The new subtree is linked.                                              *)

\* When a split is to be linked, the key lies behind the path and before its bound.
LEMMA LinkFacts ==
    ASSUME IInv, OwnerInv, FillInv, pc = "link",
           NEW U \in Bounds, Sorted(node, U), LocalOrder(U)
    PROVE  LET n == Len(path)
           IN  /\ pc \in Working /\ Linked /\ np # <<>> /\ Used(leaf.blk)
               /\ leaf = path[n] /\ level = at - 1
               /\ key \in Nat /\ newext.lblk \in Nat /\ ex.lblk \in Nat /\ End(ex) \in Nat
               /\ leaf.pos # 0 /\ ex.lblk < key /\ End(ex) <= key /\ key < U[leaf.blk]
               /\ \A k \in 1 .. n - 1 :
                     /\ node[path[k].blk].ents[path[k].pos].lblk \in Nat
                     /\ node[path[k].blk].ents[path[k].pos].lblk < key
               /\ \A k \in at .. n : Len(node[path[k].blk].ents) = path[k].pos
               /\ \A k \in 1 .. n : U[path[k].blk] \in Nat /\ key < U[path[k].blk]
               /\ U[np[1]] <= U[path[at].blk]
<1> DEFINE n == Len(path)
           Key(k) == node[path[k].blk].ents[path[k].pos].lblk
<1>1. pc \in Working /\ Linked /\ newext.lblk \in Nat
  BY NewPlace DEF Working, LocalOrder
<1>2. /\ at \in 2 .. n /\ at \in Nat /\ Len(np) = (n - at) + 1 /\ Len(np) \in Nat \ {0}
      /\ n \in Nat
  BY LinkPlace
<1>3. level = at - 1
  BY <1>2 DEF level
<1>4. np # <<>>
  <2>1. np \in Seq(PBlk)
    BY DEF IInv, LocalInv, LocalType
  <2> QED
    BY <2>1, <1>2, EmptySeq
<1>5. leaf.pos # 0 /\ key \in Nat
  BY DEF FillInv, HalvesInv, IInv, LocalInv, LocalType
<1>6. End(ex) <= key /\ key < U[leaf.blk]
  BY DEF LocalOrder, KeyInv
<1>7. /\ leaf.pos \in 1 .. Len(node[leaf.blk].ents)
      /\ DOMAIN node[leaf.blk].ents = 1 .. Len(node[leaf.blk].ents)
      /\ Len(node[leaf.blk].ents) \in Nat /\ ex = node[leaf.blk].ents[leaf.pos]
      /\ ex.lblk \in Nat /\ End(ex) \in Nat /\ ex.lblk < End(ex)
      /\ U[leaf.blk] \in Nat
  BY <1>1, <1>5, LeafFacts
<1>8. ex.lblk < key
  BY <1>5, <1>6, <1>7
<1>9. Used(leaf.blk) /\ 1 \in 1 .. Len(node[leaf.blk].ents)
  BY <1>7 DEF Used
<1>10. node[leaf.blk].ents[1].lblk <= ex.lblk /\ node[leaf.blk].ents[1].lblk \in Nat
  <2>1. \A i \in 1 .. Len(node[leaf.blk].ents) :
           /\ node[leaf.blk].ents[i].lblk \in Nat /\ End(node[leaf.blk].ents[i]) \in Nat
           /\ node[leaf.blk].ents[i].lblk < End(node[leaf.blk].ents[i])
    BY <1>1, <1>5, LeafFacts
  <2>2. \A i, j \in 1 .. Len(node[leaf.blk].ents) :
           i < j => End(node[leaf.blk].ents[i]) <= node[leaf.blk].ents[j].lblk
    BY <1>1, <1>5, LeafFacts
  <2>3. CASE leaf.pos = 1
    BY <2>1, <2>3, <1>7, <1>9
  <2>4. CASE leaf.pos # 1
    <3>1. 1 < leaf.pos
      BY <2>4, <1>7
    <3>2. End(node[leaf.blk].ents[1]) <= ex.lblk
      BY <3>1, <2>2, <1>7, <1>9
    <3>3. ex.lblk \in Nat
      BY <1>7
    <3>4. PICK x, y, z \in Nat : /\ x = node[leaf.blk].ents[1].lblk
                                /\ y = End(node[leaf.blk].ents[1]) /\ z = ex.lblk
      BY <2>1, <3>3, <1>9
    <3>5. x < y /\ y <= z
      BY <3>2, <3>4, <2>1, <1>9
    <3>6. x <= z
      BY ONLY <3>5, x \in Nat, y \in Nat, z \in Nat
    <3> QED
      BY <3>4, <3>6
  <2> QED
    BY <2>3, <2>4
<1>11. ASSUME NEW k \in 1 .. n - 1
       PROVE  Key(k) \in Nat /\ Key(k) < key
  <2>1. Key(k) <= node[leaf.blk].ents[1].lblk
    BY <1>1, <1>9, KeyChain
  <2>2. k \in 1 .. n /\ k < n
    BY <1>2
  <2>3. Key(k) \in Nat
    BY <2>2, <1>1, PathFacts
  <2>4. ex.lblk \in Nat /\ node[leaf.blk].ents[1].lblk \in Nat /\ key \in Nat
    BY <1>5, <1>7, <1>10
  <2>5. PICK x, y, z, w \in Nat : /\ x = Key(k) /\ y = node[leaf.blk].ents[1].lblk
                                 /\ z = ex.lblk /\ w = key
    BY <2>3, <2>4
  <2>6. x <= y /\ y <= z /\ z < w
    BY <2>1, <2>5, <1>8, <1>10
  <2>7. x < w
    BY ONLY <2>6, x \in Nat, y \in Nat, z \in Nat, w \in Nat
  <2> QED
    BY <2>3, <2>5, <2>7
<1>12. /\ \A k \in at .. n : Len(node[path[k].blk].ents) = path[k].pos
       /\ U[np[1]] <= U[path[at].blk]
  <2>1. level + 1 = at
    BY <1>2, <1>3
  <2> QED
    BY <2>1, <1>4 DEF LocalOrder, HalfInv
<1>13. ASSUME NEW k \in 1 .. n
       PROVE  U[path[k].blk] \in Nat /\ key < U[path[k].blk]
  <2>1. U[leaf.blk] <= U[path[k].blk]
    BY <1>1, BoundChain
  <2>2. path[k].blk \in DOMAIN node
    BY <1>1, PathFacts
  <2>3. U[path[k].blk] \in Nat
    BY <2>2 DEF Bounds
  <2> QED
    BY <2>1, <2>3, <1>5, <1>6, <1>7
<1>14. leaf = path[n]
  BY DEF leaf
<1> HIDE DEF Key, n
<1> QED
  BY <1>1, <1>3, <1>4, <1>5, <1>6, <1>7, <1>8, <1>9, <1>11, <1>12, <1>13, <1>14
     DEF Key, n

\* There is room for the index and no index with its key; it goes behind the path.
LEMMA LinkRoom ==
    ASSUME IInv, OwnerInv, FillInv, OrderInv, pc = "link"
    PROVE  ~ NoPlaceForIndex /\ LinkSlot = path[at - 1].pos + 1
<1>1. PICK U : U \in Bounds /\ Sorted(node, U) /\ LocalOrder(U)
  BY DEF OrderInv, Bounds
<1>2. at - 1 \in 1 .. Len(path) - 1
  BY LinkPlace
<1>3. /\ key \in Nat
      /\ node[path[at - 1].blk].ents[path[at - 1].pos].lblk \in Nat
      /\ node[path[at - 1].blk].ents[path[at - 1].pos].lblk < key
  BY <1>1, <1>2, LinkFacts
<1>4. HasFree(at - 1)
  BY <1>1 DEF LocalOrder, KeyInv
<1> QED
  BY <1>3, <1>4 DEF NoPlaceForIndex, LinkSlot

\* The bounds after the link: the left halves end at the key.
Halved(U, V) ==
    /\ V \in [DOMAIN node -> Nat]
    /\ \A k \in at .. Len(path) : V[path[k].blk] = key
    /\ \A x \in DOMAIN node :
          (\A k \in at .. Len(path) : x # path[k].blk) => V[x] = U[x]

\* No bound has grown and every node starts where it did.
LEMMA LinkKeeps ==
    ASSUME IInv, OwnerInv, FillInv, OrderInv, pc = "link", LinkIndex,
           NEW U \in Bounds, Sorted(node, U), LocalOrder(U), NEW V, Halved(U, V),
           NEW x \in DOMAIN node
    PROVE  /\ U[x] \in Nat /\ V[x] \in Nat /\ V[x] <= U[x]
           /\ node'[x].depth = node[x].depth /\ node'[x].max = node[x].max
           /\ 1 \in DOMAIN node'[x].ents =>
                 1 \in DOMAIN node[x].ents /\ node'[x].ents[1] = node[x].ents[1]
<1>1. U[x] \in Nat /\ V[x] \in Nat
  BY DEF Bounds, Halved
<1>2. at \in 2 .. Len(path) /\ Len(path) \in Nat /\ at - 1 \in 1 .. Len(path) - 1
  BY LinkPlace
<1>3. V[x] <= U[x]
  <2>1. CASE \E k \in at .. Len(path) : x = path[k].blk
    <3>1. PICK k \in at .. Len(path) : x = path[k].blk
      BY <2>1
    <3>2. k \in 1 .. Len(path)
      BY <1>2
    <3>3. V[x] = key /\ key < U[x] /\ key \in Nat
      BY <3>1, <3>2, LinkFacts DEF Halved
    <3> QED
      BY <3>3, <1>1
  <2>2. CASE \A k \in at .. Len(path) : x # path[k].blk
    <3>1. V[x] = U[x]
      BY <2>2 DEF Halved
    <3> QED
      BY <3>1, <1>1
  <2> QED
    BY <2>1, <2>2
<1> DEFINE c == path[at - 1].blk
<1>4. CASE x # c
  <2>1. node'[x] = node[x]
    BY <1>4, LinkEffect
  <2> QED
    BY <2>1, <1>1, <1>3
<1>5. CASE x = c
  <2>1. LinkSlot = path[at - 1].pos + 1 /\ path[at - 1].pos \in 1 .. Len(node[c].ents)
    BY LinkRoom, LinkPlace
  <2>2. Len(node[c].ents) \in Nat /\ DOMAIN node[c].ents = 1 .. Len(node[c].ents)
    BY <1>5, LiveNode
  <2>3. 1 \in 1 .. Len(node[c].ents) + 1 /\ 1 < LinkSlot /\ 1 \in 1 .. Len(node[c].ents)
    BY <2>1, <2>2
  <2>4. node'[c].ents[1] = node[c].ents[1]
    BY <2>3, LinkEffect
  <2>5. node'[c].depth = node[c].depth /\ node'[c].max = node[c].max
    BY LinkEffect
  <2> QED
    BY <2>2, <2>3, <2>4, <2>5, <1>1, <1>3, <1>5
<1> QED
  BY <1>4, <1>5

\* A left half ends before the key.
LEMMA LinkLeft ==
    ASSUME IInv, OwnerInv, FillInv, OrderInv, pc = "link", LinkIndex,
           NEW U \in Bounds, Sorted(node, U), LocalOrder(U), NEW V, Halved(U, V),
           NEW k \in at .. Len(path), NEW x, x = path[k].blk
    PROVE  /\ Ordered(node'[x].ents, node'[x].depth, V[x])
           /\ node'[x].depth > 0 => ChildrenFit(node', V, x)
<1> DEFINE n == Len(path)
           es == node[x].ents
           d == node[x].depth
           p == path[k].pos
<1>1. /\ at \in 2 .. n /\ n \in Nat /\ at - 1 \in 1 .. n - 1 /\ k \in 1 .. n /\ k # at - 1
      /\ at - 1 \in 1 .. n
  <2>1. at \in 2 .. n /\ n \in Nat /\ at - 1 \in 1 .. n - 1
    BY LinkPlace
  <2> QED
    BY <2>1
<1>2. /\ pc \in Working /\ Linked /\ leaf = path[n] /\ leaf.pos # 0
      /\ key \in Nat /\ ex.lblk < key /\ End(ex) <= key
      /\ \A m \in 1 .. n - 1 : node[path[m].blk].ents[path[m].pos].lblk < key
      /\ \A m \in at .. n : Len(node[path[m].blk].ents) = path[m].pos
  BY LinkFacts
<1>3. Len(es) = p /\ V[x] = key
  BY <1>2 DEF Halved
<1>4. x \in DOMAIN node /\ d = n - k
  BY <1>1, <1>2, PathFacts
<1>5. x # path[at - 1].blk
  BY <1>1, <1>2, PathFacts
<1>6. node'[x] = node[x]
  BY <1>4, <1>5, LinkEffect
<1>7. /\ d \in Nat /\ Len(es) \in Nat /\ DOMAIN es = 1 .. p
      /\ \A i \in 1 .. p :
            /\ es[i] \in Entry /\ es[i].lblk \in Nat /\ EndOf(es[i], d) \in Nat
            /\ d > 0 => EndOf(es[i], d) = es[i].lblk + 1
            /\ d = 0 => EndOf(es[i], d) = End(es[i])
            /\ es[i].lblk < EndOf(es[i], d)
      /\ \A i, j \in 1 .. p : i < j => EndOf(es[i], d) <= es[j].lblk
  BY <1>3, <1>4, SortedNode
<1>8. p \in 1 .. p /\ p \in Nat
  <2>1. CASE k = n
    <3>1. p # 0 /\ p \in Nat
      BY ONLY <2>1, <1>2, <1>3, <1>7
    <3> HIDE DEF p
    <3> QED
      BY ONLY <3>1
  <2>2. CASE k # n
    <3>1. k < n
      BY <2>2, <1>1
    <3>2. p \in 1 .. Len(es)
      BY <3>1, <1>1, <1>2, PathFacts
    <3> QED
      BY <3>2, <1>3
  <2> QED
    BY <2>1, <2>2
<1>9. EndOf(es[p], d) <= key
  <2>1. CASE k = n
    <3>1. es[p] = ex /\ d = 0
      BY <2>1, <1>1, <1>2, <1>4 DEF ex
    <3> QED
      BY <3>1, <1>2, <1>7, <1>8
  <2>2. CASE k # n
    <3>1. k \in 1 .. n - 1 /\ d > 0
      BY <2>2, <1>1, <1>4
    <3>2. es[p].lblk < key /\ EndOf(es[p], d) = es[p].lblk + 1 /\ es[p].lblk \in Nat
      <4>1. es[p].lblk < key
        BY ONLY <3>1, <1>2, x = path[k].blk
      <4> HIDE DEF es, d, p
      <4> QED
        BY ONLY <4>1, <3>1, <1>7, <1>8
    <3> QED
      <4>1. key \in Nat
        BY ONLY <1>2
      <4> HIDE DEF es, d, p
      <4> QED
        BY ONLY <3>2, <4>1
  <2> QED
    BY <2>1, <2>2
<1>10. es[p].lblk < key
  <2>1. es[p].lblk \in Nat /\ EndOf(es[p], d) \in Nat /\ es[p].lblk < EndOf(es[p], d)
    BY <1>7, <1>8
  <2>2. key \in Nat
    BY <1>2
  <2> QED
    BY <2>1, <2>2, <1>9
<1>11. ASSUME NEW i \in 1 .. p
       PROVE  EndOf(es[i], d) <= key
  <2>1. CASE i = p
    BY <2>1, <1>9
  <2>2. CASE i # p
    <3>1. i < p
      BY <2>2, <1>8
    <3>2. EndOf(es[i], d) <= es[p].lblk /\ EndOf(es[i], d) \in Nat /\ es[p].lblk \in Nat
      BY <3>1, <1>7, <1>8
    <3>3. key \in Nat
      BY <1>2
    <3> QED
      BY <3>2, <3>3, <1>10, SMTT(30)
  <2> QED
    BY <2>1, <2>2
<1>12. Ordered(es, d, key)
  BY <1>7, <1>11 DEF Ordered
<1>13. ASSUME d > 0
       PROVE  ChildrenFit(node', V, x)
  <2> SUFFICES ASSUME NEW i \in 1 .. p
               PROVE  /\ V[es[i].pblk] <= V[x]
                      /\ \A j \in 1 .. p : i < j => V[es[i].pblk] <= es[j].lblk
                      /\ 1 \in DOMAIN node'[es[i].pblk].ents =>
                            es[i].lblk <= node'[es[i].pblk].ents[1].lblk
    BY <1>6, <1>7 DEF ChildrenFit
  <2> DEFINE ch == es[i].pblk
  <2>1. i \in 1 .. Len(es)
    BY <1>3
  <2>2. /\ ch \in DOMAIN node /\ U[ch] \in Nat
        /\ \A j \in 1 .. Len(es) : i < j => U[ch] <= es[j].lblk
        /\ Used(ch) => es[i].lblk <= node[ch].ents[1].lblk
    BY <2>1, <1>4, <1>13, SortedNode
  <2>3. /\ V[ch] \in Nat /\ V[ch] <= U[ch]
        /\ 1 \in DOMAIN node'[ch].ents =>
              1 \in DOMAIN node[ch].ents /\ node'[ch].ents[1] = node[ch].ents[1]
    BY <2>2, LinkKeeps
  <2>4. ASSUME NEW j \in 1 .. p, i < j
        PROVE  V[ch] <= es[j].lblk
    <3>1. U[ch] <= es[j].lblk /\ es[j].lblk \in Nat
      BY <2>2, <2>4, <1>3, <1>7
    <3>2. U[ch] \in Nat
      BY <2>2
    <3>3. V[ch] \in Nat /\ V[ch] <= U[ch]
      BY <2>3
    <3> HIDE DEF ch, es
    <3> QED
      BY ONLY <3>1, <3>2, <3>3
  <2>5. V[ch] <= V[x]
    <3>1. CASE i = p
      <4>1. k \in 1 .. n - 1 /\ k + 1 \in at .. n
        BY <1>1, <1>4, <1>13
      <4>2. ch = path[k + 1].blk
        BY <4>1, <3>1, <1>2 DEF Linked
      <4>3. V[ch] = key
        BY <4>1, <4>2 DEF Halved
      <4> QED
        BY <4>3, <1>2, <1>3
    <3>2. CASE i # p
      <4>1. i < p
        BY <3>2, <1>8
      <4>2. V[ch] <= es[p].lblk /\ es[p].lblk \in Nat
        BY <4>1, <2>4, <1>7, <1>8
      <4>3. key \in Nat /\ V[ch] \in Nat
        BY <1>2, <2>3
      <4>4. V[ch] <= key
        BY <4>2, <4>3, <1>10
      <4> QED
        BY <4>4, <1>3
    <3> QED
      BY <3>1, <3>2
  <2> QED
    BY <2>2, <2>3, <2>4, <2>5 DEF Used
<1> HIDE DEF es, d, p, n
<1>14. Ordered(es, d, V[x])
  BY <1>3, <1>12
<1> QED
  BY <1>6, <1>13, <1>14 DEF es, d

\* The new index fits between its neighbours.
LEMMA LinkAboveOrder ==
    ASSUME IInv, OwnerInv, FillInv, OrderInv, pc = "link", LinkIndex,
           NEW U \in Bounds, Sorted(node, U), LocalOrder(U), NEW c, c = path[at - 1].blk
    PROVE  /\ Ordered(node'[c].ents, node'[c].depth, U[c])
           /\ \A j \in 1 .. Len(node[c].ents) :
                 path[at - 1].pos < j => key < node[c].ents[j].lblk
<1> DEFINE n == Len(path)
           es == node[c].ents
           d == node[c].depth
           p == path[at - 1].pos
           ix == [lblk |-> key, pblk |-> np[1], len |-> 0]
<1>1. /\ at - 1 \in 1 .. n - 1 /\ c \in DOMAIN node /\ d > 0 /\ p \in 1 .. Len(es)
      /\ at - 1 \in 1 .. n
  <2>1. /\ at - 1 \in 1 .. n - 1 /\ c \in DOMAIN node /\ d > 0 /\ p \in 1 .. Len(es)
        /\ n \in Nat
    BY LinkPlace, SMTT(30)
  <2> QED
    BY <2>1
<1>2. LinkSlot = p + 1
  BY LinkRoom
<1>3. /\ pc \in Working /\ Linked /\ key \in Nat /\ es[p].lblk < key
      /\ key < U[c] /\ key < U[leaf.blk]
  BY <1>1, LinkFacts
<1>4. /\ d \in Nat /\ U[c] \in Nat /\ Len(es) \in Nat /\ DOMAIN es = 1 .. Len(es)
      /\ \A i \in 1 .. Len(es) : es[i].lblk \in Nat /\ EndOf(es[i], d) = es[i].lblk + 1
      /\ \A i, j \in 1 .. Len(es) : i < j => EndOf(es[i], d) <= es[j].lblk
  BY <1>1, SortedNode
<1>5. Ordered(es, d, U[c])
  BY <1>1 DEF Sorted
<1>6. EntryAdded(es, node'[c].ents, LinkSlot, ix) /\ node'[c].depth = d
  <2>1. /\ node'[c].depth = d /\ DOMAIN node'[c].ents = 1 .. Len(es) + 1
        /\ \A i \in 1 .. Len(es) + 1 :
              node'[c].ents[i] = IF i < LinkSlot THEN es[i]
                                 ELSE IF i = LinkSlot THEN ix ELSE es[i - 1]
    BY ONLY IInv, pc = "link", LinkIndex, c = path[at - 1].blk, LinkEffect, ZenonT(40)
  <2> HIDE DEF es, d, p, ix, n
  <2>2. LinkSlot \in 1 .. Len(es) + 1
    BY ONLY <1>1, <1>2, <1>4
  <2> QED
    BY ONLY <2>1, <2>2, <1>4 DEF EntryAdded
<1>7. EndOf(ix, d) = key + 1 /\ ix.lblk = key
  BY <1>1 DEF EndOf
<1>8. ASSUME NEW i \in 1 .. Len(es), i < LinkSlot
      PROVE  EndOf(es[i], d) <= key
  <2>1. EndOf(es[i], d) = es[i].lblk + 1 /\ es[i].lblk \in Nat /\ es[p].lblk \in Nat
    BY <1>1, <1>4
  <2>2. i = p \/ i < p
    BY <1>1, <1>2, <1>8
  <2>3. CASE i = p
    <3> HIDE DEF es, d, p
    <3> QED
      BY ONLY <2>1, <2>3, <1>3
  <2>4. CASE i < p
    <3>1. EndOf(es[i], d) <= es[p].lblk
      BY <2>4, <1>1, <1>4
    <3>2. key \in Nat /\ es[p].lblk < key
      BY <1>3
    <3>3. PICK x, y, z \in Nat : x = es[i].lblk /\ y = es[p].lblk /\ z = key
      BY <3>2, <2>1
    <3>4. x + 1 <= y /\ y < z
      BY <3>1, <3>2, <3>3, <2>1
    <3>5. x + 1 <= z
      BY ONLY <3>4, x \in Nat, y \in Nat, z \in Nat
    <3> QED
      BY <3>3, <3>5, <2>1
  <2> QED
    BY <2>2, <2>3, <2>4
<1>9. ASSUME NEW i \in 1 .. Len(es), p < i
      PROVE  key < es[i].lblk /\ es[i].lblk \in Nat
  <2>1. U[leaf.blk] <= es[i].lblk
    BY <1>1, <1>3, <1>9, BoundChain
  <2>2. leaf.blk \in DOMAIN node
    BY <1>3, PathFacts
  <2>3. U[leaf.blk] \in Nat /\ es[i].lblk \in Nat /\ key \in Nat /\ key < U[leaf.blk]
    BY <2>2, <1>3, <1>4 DEF Bounds
  <2> HIDE DEF es
  <2> QED
    BY ONLY <2>1, <2>3
<1>10. ASSUME NEW i \in 1 .. Len(es), LinkSlot <= i
       PROVE  EndOf(ix, d) <= es[i].lblk
  <2>1. p < i
    BY <1>1, <1>2, <1>10
  <2>2. key < es[i].lblk /\ es[i].lblk \in Nat /\ key \in Nat
    BY <2>1, <1>3, <1>9
  <2> QED
    BY <2>2, <1>7
<1>11. ix.lblk < EndOf(ix, d) /\ EndOf(ix, d) <= U[c]
  <2> HIDE DEF es, d, p, ix, n
  <2> QED
    BY ONLY <1>3, <1>4, <1>7
<1> HIDE DEF es, d, p, ix, n
<1>12. Ordered(node'[c].ents, d, U[c])
  <2>1. \A i \in 1 .. Len(es) : i < LinkSlot => EndOf(es[i], d) <= ix.lblk
    BY <1>7, <1>8
  <2>2. \A i \in 1 .. Len(es) : LinkSlot <= i => EndOf(ix, d) <= es[i].lblk
    BY <1>10
  <2> QED
    BY <1>5, <1>6, <1>11, <2>1, <2>2, OrderedInserted
<1>13. \A j \in 1 .. Len(es) : p < j => key < es[j].lblk
  BY <1>9
<1> QED
  BY <1>6, <1>12, <1>13 DEF es, d, p

\* The new subtree, below its index.
LEMMA LinkNew ==
    ASSUME IInv, OwnerInv, FillInv, OrderInv, pc = "link", LinkIndex,
           NEW U \in Bounds, Sorted(node, U), LocalOrder(U), NEW V, Halved(U, V),
           NEW c, c = path[at - 1].blk
    PROVE  /\ np[1] \in DOMAIN node /\ V[np[1]] \in Nat /\ V[np[1]] <= U[c]
           /\ \A j \in 1 .. Len(node[c].ents) :
                 path[at - 1].pos < j => V[np[1]] <= node[c].ents[j].lblk
           /\ 1 \in DOMAIN node'[np[1]].ents => key <= node'[np[1]].ents[1].lblk
<1> DEFINE es == node[c].ents
           f == path[at].blk
           h == np[1]
<1>1. /\ at - 1 \in 1 .. Len(path) - 1 /\ at \in 2 .. Len(path) /\ Len(path) \in Nat
      /\ Len(np) \in Nat \ {0} /\ at - 1 + 1 = at /\ at \in 1 .. Len(path)
  <2>1. /\ at - 1 \in 1 .. Len(path) - 1 /\ at \in 2 .. Len(path) /\ Len(path) \in Nat
        /\ Len(np) \in Nat \ {0}
    BY LinkPlace
  <2> QED
    BY <2>1
<1>2. pc \in Working /\ Linked /\ np # <<>> /\ U[h] <= U[f] /\ key \in Nat
  BY LinkFacts
<1>3. /\ f \in DOMAIN node /\ U[c] \in Nat /\ U[f] \in Nat /\ U[f] <= U[c]
      /\ \A i \in 1 .. Len(es) : es[i].lblk \in Nat
      /\ \A j \in 1 .. Len(es) : path[at - 1].pos < j => U[f] <= es[j].lblk
  BY <1>1, <1>2, PathChild
<1>4. 1 \in 1 .. Len(np)
  BY <1>1
<1>5. h \in DOMAIN node
  BY <1>4 DEF IInv, LocalInv, SplitInv
<1>6. /\ V[h] \in Nat /\ U[h] \in Nat /\ V[h] <= U[h]
      /\ 1 \in DOMAIN node'[h].ents =>
            1 \in DOMAIN node[h].ents /\ node'[h].ents[1] = node[h].ents[1]
  BY <1>5, LinkKeeps
<1>7. V[h] <= U[f]
  <2>1. V[h] \in Nat /\ U[h] \in Nat /\ U[f] \in Nat /\ V[h] <= U[h] /\ U[h] <= U[f]
    BY <1>2, <1>3, <1>6
  <2> HIDE DEF h, f
  <2> QED
    BY ONLY <2>1
<1>8. V[h] <= U[c]
  <2>1. V[h] \in Nat /\ U[c] \in Nat /\ U[f] \in Nat /\ U[f] <= U[c]
    BY <1>3, <1>6
  <2> HIDE DEF h, f
  <2> QED
    BY ONLY <2>1, <1>7
<1>9. ASSUME NEW j \in 1 .. Len(es), path[at - 1].pos < j
      PROVE  V[h] <= es[j].lblk
  <2>1. V[h] \in Nat /\ U[f] \in Nat /\ es[j].lblk \in Nat /\ U[f] <= es[j].lblk
    BY <1>3, <1>6, <1>9
  <2> HIDE DEF h, f, es
  <2> QED
    BY ONLY <2>1, <1>7
<1>10. ASSUME 1 \in DOMAIN node[h].ents
       PROVE  key <= node[h].ents[1].lblk
  <2>1. /\ \A i \in 1 .. Len(np) - 1 : node[np[i]].ents[1].lblk = key
        /\ Used(np[Len(np)]) => key <= node[np[Len(np)]].ents[1].lblk
    BY <1>2 DEF LocalOrder, HalfInv
  <2>2. CASE Len(np) = 1
    BY <2>1, <2>2, <1>10 DEF Used
  <2>3. CASE Len(np) # 1
    <3>1. 1 \in 1 .. Len(np) - 1
      <4>1. PICK m \in Nat \ {0} : m = Len(np)
        BY <1>1
      <4>2. 1 \in 1 .. m - 1
        BY ONLY <4>1, <2>3, m \in Nat
      <4> QED
        BY <4>1, <4>2
    <3>2. node[h].ents[1].lblk = key
      <4>1. \A i \in 1 .. Len(np) - 1 : node[np[i]].ents[1].lblk = key
        BY <2>1
      <4> QED
        BY <3>1, <4>1
    <3>3. key \in Nat
      BY <1>2
    <3> QED
      BY <3>2, <3>3
  <2> QED
    BY <2>2, <2>3
<1> QED
  BY <1>5, <1>6, <1>8, <1>9, <1>10

\* The subtrees that were there before.
LEMMA LinkOld ==
    ASSUME IInv, OwnerInv, FillInv, OrderInv, pc = "link", LinkIndex,
           NEW U \in Bounds, Sorted(node, U), LocalOrder(U), NEW V, Halved(U, V),
           NEW x \in DOMAIN node, node[x].depth > 0,
           NEW i \in 1 .. Len(node[x].ents)
    PROVE  LET es == node[x].ents
               ch == es[i].pblk
           IN  /\ ch \in DOMAIN node /\ V[ch] \in Nat /\ V[ch] <= U[x] /\ es[i].lblk \in Nat
               /\ \A j \in 1 .. Len(es) : i < j => V[ch] <= es[j].lblk
               /\ 1 \in DOMAIN node'[ch].ents => es[i].lblk <= node'[ch].ents[1].lblk
<1> DEFINE es == node[x].ents
           ch == es[i].pblk
<1>1. /\ ch \in DOMAIN node /\ U[ch] \in Nat /\ U[ch] <= U[x] /\ U[x] \in Nat
      /\ \A j \in 1 .. Len(es) : es[j].lblk \in Nat
      /\ \A j \in 1 .. Len(es) : i < j => U[ch] <= es[j].lblk
      /\ Used(ch) => es[i].lblk <= node[ch].ents[1].lblk
  BY SortedNode
<1>2. /\ V[ch] \in Nat /\ V[ch] <= U[ch]
      /\ 1 \in DOMAIN node'[ch].ents =>
            1 \in DOMAIN node[ch].ents /\ node'[ch].ents[1] = node[ch].ents[1]
  BY <1>1, LinkKeeps
<1>3. V[ch] <= U[x]
  <2>1. V[ch] \in Nat /\ U[ch] \in Nat /\ U[x] \in Nat /\ V[ch] <= U[ch] /\ U[ch] <= U[x]
    BY <1>1, <1>2
  <2> HIDE DEF ch
  <2> QED
    BY ONLY <2>1
<1>4. ASSUME NEW j \in 1 .. Len(es), i < j
      PROVE  V[ch] <= es[j].lblk
  <2>1. /\ V[ch] \in Nat /\ U[ch] \in Nat /\ es[j].lblk \in Nat
        /\ V[ch] <= U[ch] /\ U[ch] <= es[j].lblk
    BY <1>1, <1>2, <1>4
  <2> HIDE DEF ch, es
  <2> QED
    BY ONLY <2>1
<1> QED
  BY <1>1, <1>2, <1>3, <1>4 DEF Used

\* The node that gets the new index.
LEMMA LinkAbove ==
    ASSUME IInv, OwnerInv, FillInv, OrderInv, pc = "link", LinkIndex,
           NEW U \in Bounds, Sorted(node, U), LocalOrder(U), NEW V, Halved(U, V),
           NEW c, c = path[at - 1].blk
    PROVE  V[c] = U[c] /\ ChildrenFit(node', V, c)
<1> DEFINE n == Len(path)
           es == node[c].ents
           fs == node'[c].ents
           p == path[at - 1].pos
           ix == [lblk |-> key, pblk |-> np[1], len |-> 0]
<1>1. /\ at \in 2 .. n /\ n \in Nat /\ at - 1 \in 1 .. n - 1 /\ at - 1 \in 1 .. n
      /\ at - 1 + 1 = at /\ at \in at .. n
  <2>1. at \in 2 .. n /\ n \in Nat /\ at - 1 \in 1 .. n - 1
    BY LinkPlace
  <2> QED
    BY <2>1
<1>2. /\ c \in DOMAIN node /\ node[c].depth > 0 /\ p \in 1 .. Len(es)
  BY LinkPlace
<1>3. /\ pc \in Working /\ Linked /\ key \in Nat /\ es[p].lblk < key
      /\ es[p].lblk \in Nat
  BY <1>1, LinkFacts
<1>4. V[c] = U[c]
  <2>1. \A k \in at .. n : k \in 1 .. n /\ k # at - 1
    BY <1>1
  <2>2. \A k \in at .. n : c # path[k].blk
    BY <2>1, <1>1, <1>3, PathFacts
  <2> QED
    BY <2>2, <1>2 DEF Halved
<1>5. Len(es) \in Nat /\ DOMAIN es = 1 .. Len(es)
  BY <1>2, LiveNode
<1>6. /\ DOMAIN fs = 1 .. Len(es) + 1
      /\ \A s \in 1 .. Len(es) + 1 :
            fs[s] = IF s < p + 1 THEN es[s] ELSE IF s = p + 1 THEN ix ELSE es[s - 1]
  <2>1. LinkSlot = p + 1
    BY LinkRoom
  <2> QED
    BY <2>1, LinkEffect
<1>7. \A s \in 1 .. Len(es) + 1 :
         \/ s = p + 1 /\ fs[s] = ix
         \/ s <= p /\ s \in 1 .. Len(es) /\ fs[s] = es[s]
         \/ p + 1 < s /\ s - 1 \in 1 .. Len(es) /\ fs[s] = es[s - 1]
  <2> SUFFICES ASSUME NEW s \in 1 .. Len(es) + 1
               PROVE  \/ s = p + 1 /\ fs[s] = ix
                      \/ s <= p /\ s \in 1 .. Len(es) /\ fs[s] = es[s]
                      \/ p + 1 < s /\ s - 1 \in 1 .. Len(es) /\ fs[s] = es[s - 1]
    OBVIOUS
  <2>1. fs[s] = IF s < p + 1 THEN es[s] ELSE IF s = p + 1 THEN ix ELSE es[s - 1]
    BY <1>6
  <2>2. p \in 1 .. Len(es) /\ Len(es) \in Nat
    BY <1>2, <1>5
  <2> HIDE DEF p, es, fs, ix
  <2> QED
    BY ONLY <2>1, <2>2, s \in 1 .. Len(es) + 1
<1>8. ix.lblk = key /\ ix.pblk = np[1]
  OBVIOUS
<1>9. ASSUME NEW i \in 1 .. Len(es), i <= p
      PROVE  V[es[i].pblk] <= key
  <2>1. /\ V[es[i].pblk] \in Nat
        /\ \A j \in 1 .. Len(es) : i < j => V[es[i].pblk] <= es[j].lblk
    BY <1>2, LinkOld
  <2>2. CASE i = p
    <3>1. es[i].pblk = path[at].blk
      BY <2>2, <1>1, <1>3 DEF Linked
    <3>2. V[es[i].pblk] = key
      BY <3>1, <1>1 DEF Halved
    <3> QED
      BY <3>2, <1>3
  <2>3. CASE i # p
    <3>1. i < p
      BY <2>3, <1>2, <1>9
    <3>2. V[es[i].pblk] <= es[p].lblk /\ V[es[i].pblk] \in Nat
      BY <3>1, <2>1, <1>2
    <3>3. es[p].lblk < key /\ es[p].lblk \in Nat /\ key \in Nat
      BY <1>3
    <3> HIDE DEF es, p
    <3> QED
      BY ONLY <3>2, <3>3
  <2> QED
    BY <2>2, <2>3
<1>10. ASSUME NEW s \in 1 .. Len(es) + 1, NEW i \in 1 .. Len(es), fs[s] = es[i],
              (s = i /\ i <= p) \/ (s = i + 1 /\ p < i)
       PROVE  /\ V[fs[s].pblk] <= U[c]
              /\ \A t \in 1 .. Len(es) + 1 : s < t => V[fs[s].pblk] <= fs[t].lblk
              /\ 1 \in DOMAIN node'[fs[s].pblk].ents =>
                    fs[s].lblk <= node'[fs[s].pblk].ents[1].lblk
  <2>1. /\ V[fs[s].pblk] <= U[c]
        /\ \A j \in 1 .. Len(es) : i < j => V[fs[s].pblk] <= es[j].lblk
        /\ 1 \in DOMAIN node'[fs[s].pblk].ents =>
              fs[s].lblk <= node'[fs[s].pblk].ents[1].lblk
    <3>1. LET ch == es[i].pblk
          IN  /\ V[ch] <= U[c]
              /\ \A j \in 1 .. Len(es) : i < j => V[ch] <= es[j].lblk
              /\ 1 \in DOMAIN node'[ch].ents => es[i].lblk <= node'[ch].ents[1].lblk
      BY <1>2, LinkOld
    <3> HIDE DEF es, fs
    <3> QED
      BY <3>1, <1>10
  <2>2. i <= p => V[fs[s].pblk] <= key
    BY <1>9, <1>10
  <2>3. ASSUME NEW t \in 1 .. Len(es) + 1, s < t
        PROVE  V[fs[s].pblk] <= fs[t].lblk
    <3>1. CASE t = p + 1
      <4>1. i <= p
        BY <3>1, <2>3, <1>2, <1>10
      <4>2. fs[t].lblk = key
        <5>1. fs[t] = ix
          BY <3>1, <1>2, <1>6
        <5> HIDE DEF fs
        <5> QED
          BY <5>1, <1>8
      <4> QED
        BY <4>1, <4>2, <2>2
    <3>2. CASE t # p + 1
      <4>1. \/ t \in 1 .. Len(es) /\ fs[t] = es[t] /\ t <= p
            \/ t - 1 \in 1 .. Len(es) /\ fs[t] = es[t - 1] /\ p + 1 < t
        BY <3>2, <1>7
      <4>2. CASE t \in 1 .. Len(es) /\ fs[t] = es[t] /\ t <= p
        <5>1. i < t
          BY <4>2, <2>3, <1>2, <1>10
        <5> QED
          BY <5>1, <4>2, <2>1
      <4>3. CASE t - 1 \in 1 .. Len(es) /\ fs[t] = es[t - 1] /\ p + 1 < t
        <5>1. i < t - 1
          BY <4>3, <2>3, <1>2, <1>10
        <5> QED
          BY <5>1, <4>3, <2>1
      <4> QED
        BY <4>1, <4>2, <4>3
    <3> QED
      BY <3>1, <3>2
  <2> QED
    BY <2>1, <2>3
<1>11. ASSUME NEW s \in 1 .. Len(es) + 1
       PROVE  /\ V[fs[s].pblk] <= U[c]
              /\ \A t \in 1 .. Len(es) + 1 : s < t => V[fs[s].pblk] <= fs[t].lblk
              /\ 1 \in DOMAIN node'[fs[s].pblk].ents =>
                    fs[s].lblk <= node'[fs[s].pblk].ents[1].lblk
  <2>1. CASE s = p + 1
    <3>1. fs[s].lblk = key /\ fs[s].pblk = np[1]
      <4>1. fs[s] = ix
        BY <2>1, <1>2, <1>6
      <4> HIDE DEF fs
      <4> QED
        BY <4>1, <1>8
    <3>2. /\ V[np[1]] <= U[c]
          /\ \A j \in 1 .. Len(es) : p < j => V[np[1]] <= es[j].lblk
          /\ 1 \in DOMAIN node'[np[1]].ents => key <= node'[np[1]].ents[1].lblk
      BY LinkNew
    <3>3. ASSUME NEW t \in 1 .. Len(es) + 1, s < t
          PROVE  V[np[1]] <= fs[t].lblk
      <4>1. t - 1 \in 1 .. Len(es) /\ fs[t] = es[t - 1] /\ p < t - 1
        <5> HIDE DEF es, fs, p, ix
        <5> QED
          BY ONLY <2>1, <3>3, <1>2, <1>7, <1>11
      <4> QED
        BY <4>1, <3>2
    <3> QED
      BY <3>1, <3>2, <3>3
  <2>2. CASE s <= p /\ s \in 1 .. Len(es) /\ fs[s] = es[s]
    <3>1. PICK i \in 1 .. Len(es) : i = s /\ i <= p /\ fs[s] = es[i]
      BY <2>2
    <3> HIDE DEF fs, es, p
    <3>2. (s = i /\ i <= p) \/ (s = i + 1 /\ p < i)
      BY <3>1
    <3> QED
      BY <3>1, <3>2, <1>10
  <2>3. CASE p + 1 < s /\ s - 1 \in 1 .. Len(es) /\ fs[s] = es[s - 1]
    <3>1. PICK i \in 1 .. Len(es) : i = s - 1
      BY <2>3
    <3>2. s = i + 1 /\ p < i /\ fs[s] = es[i]
      BY <3>1, <2>3, <1>2
    <3> HIDE DEF fs, es, p
    <3> QED
      BY <3>2, <1>10
  <2> QED
    BY <2>1, <2>2, <2>3, <1>7
<1>12. ChildrenFit(node', V, c)
  BY <1>4, <1>6, <1>11 DEF ChildrenFit
<1> QED
  BY <1>4, <1>12

\* The tree is sorted again, with the new subtree.
LEMMA LinkSorts ==
    ASSUME IInv, OwnerInv, FillInv, OrderInv, pc = "link", LinkIndex,
           NEW U \in Bounds, Sorted(node, U), LocalOrder(U), NEW V, Halved(U, V)
    PROVE  V \in [DOMAIN node' -> Nat] /\ Sorted(node', V)
<1>1. DOMAIN node' = DOMAIN node
  BY LinkEffect
<1>2. V \in [DOMAIN node' -> Nat]
  BY <1>1 DEF Halved
<1>3. ASSUME NEW x \in DOMAIN node
      PROVE  /\ Ordered(node'[x].ents, node'[x].depth, V[x])
             /\ node'[x].depth > 0 => ChildrenFit(node', V, x)
  <2>1. CASE x = path[at - 1].blk
    <3>1. V[x] = U[x] /\ ChildrenFit(node', V, x)
      BY <2>1, LinkAbove
    <3>2. Ordered(node'[x].ents, node'[x].depth, U[x])
      BY <2>1, LinkAboveOrder
    <3> QED
      BY <3>1, <3>2
  <2>2. CASE \E k \in at .. Len(path) : x = path[k].blk
    <3>1. PICK k \in at .. Len(path) : x = path[k].blk
      BY <2>2
    <3> QED
      BY <3>1, LinkLeft
  <2>3. CASE x # path[at - 1].blk /\ \A k \in at .. Len(path) : x # path[k].blk
    <3>1. V[x] = U[x] /\ node'[x] = node[x]
      BY <2>3, LinkEffect DEF Halved
    <3>2. Ordered(node'[x].ents, node'[x].depth, V[x])
      BY <3>1 DEF Sorted
    <3>3. ASSUME node[x].depth > 0
          PROVE  ChildrenFit(node', V, x)
      <4>1. DOMAIN node[x].ents = 1 .. Len(node[x].ents)
        BY LiveNode
      <4>2. ASSUME NEW i \in 1 .. Len(node[x].ents)
            PROVE  LET es == node[x].ents
                       ch == es[i].pblk
                   IN  /\ V[ch] <= V[x]
                       /\ \A j \in 1 .. Len(es) : i < j => V[ch] <= es[j].lblk
                       /\ 1 \in DOMAIN node'[ch].ents =>
                             es[i].lblk <= node'[ch].ents[1].lblk
        BY <3>1, <3>3, LinkOld
      <4> QED
        BY <3>1, <4>1, <4>2 DEF ChildrenFit
    <3> QED
      BY <3>1, <3>2, <3>3
  <2> QED
    BY <2>1, <2>2, <2>3
<1>4. ASSUME NEW x \in DOMAIN node, node'[x].depth = 0, x # Root
      PROVE  node'[x].max >= 2
  <2>1. node'[x].depth = node[x].depth /\ node'[x].max = node[x].max
    BY LinkKeeps
  <2> QED
    BY <2>1, <1>4 DEF Sorted
<1> QED
  BY <1>1, <1>2, <1>3, <1>4 DEF Sorted

\* The insertion goes on in the left half, where the new extent fits.
LEMMA LinkGoesLeft ==
    ASSUME IInv, OwnerInv, FillInv, OrderInv, pc = "link", LinkIndex, ~ InsRight,
           NEW U \in Bounds, Sorted(node, U), LocalOrder(U), NEW V, Halved(U, V)
    PROVE  /\ On(node', path', newext'.lblk) /\ FitsIn(V, leaf.blk)'
           /\ ~ Full(leaf.blk)'
<1> DEFINE n == Len(path)
           c == path[at - 1].blk
           p == path[at - 1].pos
           l == newext.lblk
<1>1. path' = path /\ newext' = newext /\ leaf' = leaf
  BY DEF LinkIndex, leaf
<1>2. /\ at \in 2 .. n /\ n \in Nat /\ at - 1 \in 1 .. n - 1 /\ at - 1 \in 1 .. n
      /\ n \in 1 .. n /\ n # at - 1 /\ n \in at .. n
  <2>1. at \in 2 .. n /\ n \in Nat /\ at - 1 \in 1 .. n - 1
    BY LinkPlace
  <2> QED
    BY <2>1
<1>3. pc \in Working /\ key \in Nat /\ l \in Nat /\ leaf = path[n] /\ np # <<>>
  BY LinkFacts
<1>4. l < key
  BY <1>3 DEF InsRight
<1>5. On(node, path, l) /\ End(newext) \in Nat
  BY NewPlace DEF LocalOrder
<1>6. ASSUME NEW k \in 1 .. n, k # at - 1
      PROVE  node'[path[k].blk] = node[path[k].blk]
  <2>1. path[k].blk # c /\ path[k].blk \in DOMAIN node
    BY <1>2, <1>3, <1>6, PathFacts
  <2> QED
    BY <2>1, LinkEffect
<1>7. On(node', path, l)
  <2>1. ASSUME NEW k \in 1 .. n - 1
        PROVE  LET es == node'[path[k].blk].ents
               IN  Placed(es, l, path[k].pos) /\ path[k + 1].blk = es[path[k].pos].pblk
    <3>1. CASE k # at - 1
      <4>1. k \in 1 .. n
        BY <1>2
      <4>2. node'[path[k].blk] = node[path[k].blk]
        BY <3>1, <4>1, <1>6
      <4> QED
        BY <4>2, <1>5 DEF On
    <3>2. CASE k = at - 1
      <4> DEFINE es == node[c].ents
                 fs == node'[c].ents
                 ix == [lblk |-> key, pblk |-> np[1], len |-> 0]
      <4>1. Placed(es, l, p) /\ path[k + 1].blk = es[p].pblk
        BY <3>2, <1>5 DEF On
      <4>2. LinkSlot = p + 1
        BY LinkRoom
      <4>3. Len(es) \in Nat /\ c \in DOMAIN node
        BY <1>2, <1>3, PathFacts
      <4>4. /\ Len(fs) = Len(es) + 1
            /\ \A i \in 1 .. Len(es) + 1 :
                  fs[i] = IF i < p + 1 THEN es[i] ELSE IF i = p + 1 THEN ix ELSE es[i - 1]
        BY <4>2, LinkEffect
      <4>5. ix.lblk = key
        OBVIOUS
      <4>6. /\ p \in 1 .. Len(es) /\ (p > 1 => es[p].lblk <= l)
            /\ \A j \in 1 .. Len(es) : p < j => l < es[j].lblk
        BY <4>1 DEF Placed
      <4>7. fs[p] = es[p] /\ p \in 1 .. Len(fs)
        <5>1. p \in 1 .. Len(es) + 1 /\ p < p + 1
          BY <4>3, <4>6
        <5> QED
          BY <5>1, <4>4
      <4>8. ASSUME NEW j \in 1 .. Len(fs), p < j
            PROVE  l < fs[j].lblk
        <5>1. j \in 1 .. Len(es) + 1 /\ ~ (j < p + 1)
          BY <4>3, <4>4, <4>6, <4>8
        <5>2. CASE j = p + 1
          <6>1. fs[j] = ix
            BY <5>1, <5>2, <4>4
          <6> HIDE DEF fs, ix
          <6> QED
            BY <6>1, <4>5, <1>4
        <5>3. CASE j # p + 1
          <6>1. j - 1 \in 1 .. Len(es) /\ p < j - 1
            BY <5>1, <5>3, <4>3, <4>6, <4>8
          <6>2. fs[j] = es[j - 1]
            BY <5>1, <5>3, <4>4
          <6>3. l < es[j - 1].lblk
            BY <6>1, <4>6
          <6> HIDE DEF fs, es
          <6> QED
            BY <6>2, <6>3
        <5> QED
          BY <5>2, <5>3
      <4> HIDE DEF fs, es, p
      <4>9. Placed(fs, l, p)
        BY <4>6, <4>7, <4>8 DEF Placed
      <4> QED
        BY <4>1, <4>7, <4>9, <3>2 DEF fs, p
    <3> QED
      BY <3>1, <3>2
  <2>2. node'[path[n].blk] = node[path[n].blk]
    BY <1>2, <1>6
  <2>3. LET f == path[n]
            es == node'[f.blk].ents
        IN  IF 1 \in DOMAIN es THEN Placed(es, l, f.pos) ELSE f.pos = 0
    BY <2>2, <1>5 DEF On
  <2> QED
    BY <2>1, <2>3 DEF On
<1>8. node'[leaf.blk] = node[leaf.blk]
  BY <1>2, <1>3, <1>6
<1>9. V[leaf.blk] = key
  BY <1>2, <1>3 DEF Halved
<1>10. End(newext) <= key
  <2>1. (leaf.pos = node[leaf.blk].max /\ key = l) \/ End(newext) <= key
    BY DEF LocalOrder, KeyInv
  <2>2. key # l
    BY <1>3, <1>4
  <2> QED
    BY <2>1, <2>2
<1>11. \A i \in DOMAIN node[leaf.blk].ents :
          LET e == node[leaf.blk].ents[i]
          IN  End(e) <= l \/ End(newext) <= e.lblk
  BY DEF LocalOrder, PlaceInv, FitsIn
<1>12. FitsIn(V, leaf.blk)'
  BY <1>1, <1>8, <1>9, <1>10, <1>11 DEF FitsIn
<1>13. ~ Full(leaf.blk)'
  <2>1. /\ leaf.pos = node[leaf.blk].max => key = l
        /\ Len(node[leaf.blk].ents) = leaf.pos
    BY <1>3 DEF FillInv, HalvesInv
  <2>2. leaf.blk \in DOMAIN node
    BY <1>3, PathFacts
  <2>3. /\ Len(node[leaf.blk].ents) <= node[leaf.blk].max
        /\ Len(node[leaf.blk].ents) \in Nat /\ node[leaf.blk].max \in Nat
    BY <2>2, LiveNode
  <2>4. Len(node[leaf.blk].ents) # node[leaf.blk].max
    BY <2>1, <1>3, <1>4
  <2>5. Len(node[leaf.blk].ents) < node[leaf.blk].max
    BY <2>3, <2>4
  <2> QED
    BY <2>5, <1>1, <1>8 DEF Full
<1> QED
  BY <1>1, <1>7, <1>12, <1>13

\* The path into the new subtree.
LEMMA LinkedPath ==
    ASSUME IInv, pc = "link", LinkIndex, InsRight
    PROVE  /\ Len(path') = Len(path) /\ leaf' = path'[Len(path)]
           /\ \A k \in 1 .. Len(path) :
                 /\ k < at - 1 => path'[k] = path[k]
                 /\ k = at - 1 => path'[k].blk = path[k].blk /\ path'[k].pos = LinkSlot
                 /\ k >= at =>
                       LET b == np[k - at + 1]
                       IN  /\ path'[k].blk = b
                           /\ path'[k].pos = IF node[b].ents = <<>> THEN 0 ELSE 1
<1> DEFINE q == [k \in DOMAIN path |->
                   IF k < at - 1 THEN path[k]
                   ELSE IF k = at - 1 THEN [path[k] EXCEPT !.pos = LinkSlot]
                   ELSE [blk |-> np[k - at + 1],
                         pos |-> IF node[np[k - at + 1]].ents = <<>>
                                 THEN 0 ELSE 1]]
<1>1. path' = q
  BY DEF LinkIndex
<1>2. /\ path \in Seq(PathElem) /\ DOMAIN path = 1 .. Len(path) /\ Len(path) \in Nat
      /\ at \in 2 .. Len(path)
  <2>1. path \in Seq(PathElem)
    BY DEF IInv, LocalInv, LocalType
  <2> QED
    BY <2>1, LenProperties, LinkPlace
<1>3. Len(q) = Len(path)
  BY <1>2
<1>4. ASSUME NEW k \in 1 .. Len(path)
      PROVE  /\ k < at - 1 => q[k] = path[k]
             /\ k = at - 1 => q[k].blk = path[k].blk /\ q[k].pos = LinkSlot
             /\ k >= at =>
                   LET b == np[k - at + 1]
                   IN  /\ q[k].blk = b
                       /\ q[k].pos = IF node[b].ents = <<>> THEN 0 ELSE 1
  <2>1. CASE k < at - 1
    <3>1. ~ (k = at - 1) /\ ~ (k >= at)
      BY <2>1, <1>2
    <3>2. q[k] = path[k]
      BY <2>1, <1>2
    <3> HIDE DEF q
    <3> QED
      BY <3>1, <3>2
  <2>2. CASE k = at - 1
    <3>1. ~ (k < at - 1) /\ ~ (k >= at)
      BY <2>2, <1>2
    <3>2. q[k] = [path[k] EXCEPT !.pos = LinkSlot]
      BY <2>2, <3>1, <1>2
    <3>3. path[k] \in PathElem
      BY <1>2, ElementOfSeq
    <3>4. q[k].blk = path[k].blk /\ q[k].pos = LinkSlot
      BY <3>2, <3>3 DEF PathElem
    <3> HIDE DEF q
    <3> QED
      BY <3>1, <3>4
  <2>3. CASE k >= at
    <3>1. ~ (k < at - 1) /\ ~ (k = at - 1)
      BY <2>3, <1>2
    <3>2. q[k] = [blk |-> np[k - at + 1],
                  pos |-> IF node[np[k - at + 1]].ents = <<>> THEN 0 ELSE 1]
      BY <3>1, <1>2
    <3> HIDE DEF q
    <3> QED
      BY <3>1, <3>2
  <2>4. k < at - 1 \/ k = at - 1 \/ k >= at
    BY <1>2
  <2> QED
    BY <2>1, <2>2, <2>3, <2>4
<1> HIDE DEF q
<1> QED
  BY <1>1, <1>3, <1>4 DEF leaf

\* The new extent starts where the new subtree does, whose leaf is empty.
LEMMA EmptyHalf ==
    ASSUME IInv, OwnerInv, FillInv, pc = "link", InsRight,
           NEW U \in Bounds, Sorted(node, U), LocalOrder(U)
    PROVE  /\ key = newext.lblk /\ ~ Used(np[Len(np)])
           /\ End(newext) <= U[np[Len(np)]] /\ ~ Full(np[Len(np)])
           /\ \A i \in 1 .. Len(np) - 1 :
                 LET es == node[np[i]].ents
                 IN  /\ 1 \in DOMAIN es /\ es[1].lblk = key /\ es[1].pblk = np[i + 1]
<1>1. np # <<>> /\ key \in Nat
  BY LinkFacts
<1>2. newext.lblk < End(newext) /\ newext.lblk \in Nat /\ End(newext) \in Nat
  BY NewPlace DEF LocalOrder
<1>3. key <= newext.lblk
  BY <1>1, <1>2 DEF InsRight
<1>4. ~ (End(newext) <= key)
  BY <1>1, <1>2, <1>3
<1>5. key = newext.lblk
  BY <1>4 DEF LocalOrder, KeyInv
<1>6. /\ End(newext) <= U[np[Len(np)]]
      /\ \A i \in 1 .. Len(np) - 1 : node[np[i]].ents[1].lblk = key
      /\ Used(np[Len(np)]) => key # newext.lblk
  BY <1>1 DEF LocalOrder, HalfInv
<1>7. \A i \in 1 .. Len(np) - 1 :
         1 \in DOMAIN node[np[i]].ents /\ node[np[i]].ents[1].pblk = np[i + 1]
  BY <1>1 DEF OwnerInv, ChainInv
<1>8. ~ Full(np[Len(np)])
  BY <1>1 DEF FillInv, HalvesInv
<1> QED
  BY <1>5, <1>6, <1>7, <1>8

\* The insertion goes on in the new leaf.
LEMMA LinkGoesRight ==
    ASSUME IInv, OwnerInv, FillInv, OrderInv, pc = "link", LinkIndex, InsRight,
           NEW U \in Bounds, Sorted(node, U), LocalOrder(U), NEW V, Halved(U, V)
    PROVE  /\ On(node', path', newext'.lblk) /\ FitsIn(V, leaf.blk)'
           /\ ~ Full(leaf.blk)'
<1> DEFINE n == Len(path)
           c == path[at - 1].blk
           p == path[at - 1].pos
           l == newext.lblk
           r == np[Len(np)]
<1>1. newext' = newext
  BY DEF LinkIndex
<1>2. /\ at \in 2 .. n /\ n \in Nat /\ at - 1 \in 1 .. n - 1 /\ at - 1 \in 1 .. n
      /\ n \in 1 .. n /\ n >= at /\ Len(np) \in Nat \ {0} /\ n - at + 1 = Len(np)
  <2>1. /\ at \in 2 .. n /\ n \in Nat /\ at - 1 \in 1 .. n - 1
        /\ Len(np) \in Nat \ {0} /\ Len(np) = (n - at) + 1
    BY LinkPlace
  <2> QED
    BY <2>1
<1>3. pc \in Working /\ key \in Nat /\ l \in Nat
  BY LinkFacts
<1>4. On(node, path, l)
  BY NewPlace DEF LocalOrder
<1>5. key = l /\ ~ Used(r) /\ End(newext) <= U[r] /\ ~ Full(r)
  BY EmptyHalf
<1>6. ASSUME NEW i \in 1 .. Len(np)
      PROVE  /\ np[i] \in DOMAIN node /\ V[np[i]] = U[np[i]]
             /\ node'[np[i]] = node[np[i]]
  <2>1. np[i] \in DOMAIN node /\ \A k \in 1 .. n : path[k].blk # np[i]
    BY DEF IInv, LocalInv, SplitInv
  <2>2. \A k \in at .. n : k \in 1 .. n
    BY <1>2
  <2>3. V[np[i]] = U[np[i]]
    BY <2>1, <2>2 DEF Halved
  <2>4. node'[np[i]] = node[np[i]]
    BY <2>1, <1>2, LinkEffect
  <2> QED
    BY <2>1, <2>3, <2>4
<1>7. Len(np) \in 1 .. Len(np)
  BY <1>2
<1>8. r \in DOMAIN node /\ V[r] = U[r] /\ node'[r] = node[r]
  BY <1>6, <1>7
<1>9. node[r].ents = <<>>
  BY <1>5, <1>8, LiveNode, UsedWhenNonEmpty DEF Used
<1>10. leaf'.blk = r /\ leaf'.pos = 0 /\ Len(path') = n /\ leaf' = path'[n]
  BY <1>2, <1>9, LinkedPath
<1>11. ASSUME NEW k \in 1 .. n - 1
       PROVE  LET es == node'[path'[k].blk].ents
              IN  Placed(es, l, path'[k].pos) /\ path'[k + 1].blk = es[path'[k].pos].pblk
  <2>1. k \in 1 .. n /\ k + 1 \in 1 .. n
    BY <1>2
  <2>2. CASE k < at - 1
    <3>1. path'[k] = path[k]
      BY <2>1, <2>2, LinkedPath
    <3>2. path'[k + 1].blk = path[k + 1].blk
      <4>1. k + 1 < at - 1 \/ k + 1 = at - 1
        BY <2>2, <1>2
      <4> QED
        BY <4>1, <2>1, LinkedPath
    <3>3. path[k].blk # c /\ path[k].blk \in DOMAIN node
      BY <2>1, <2>2, <1>2, <1>3, PathFacts
    <3>4. node'[path[k].blk] = node[path[k].blk]
      BY <3>3, LinkEffect
    <3>5. LET es == node[path[k].blk].ents
          IN  Placed(es, l, path[k].pos) /\ path[k + 1].blk = es[path[k].pos].pblk
      BY <1>4 DEF On
    <3> QED
      BY <3>1, <3>2, <3>4, <3>5
  <2>3. CASE k = at - 1
    <3> DEFINE es == node[c].ents
               fs == node'[c].ents
               ix == [lblk |-> key, pblk |-> np[1], len |-> 0]
    <3>1. path'[k].blk = c /\ path'[k].pos = p + 1
      BY <2>1, <2>3, LinkedPath, LinkRoom
    <3>2. path'[k + 1].blk = np[1]
      <4>1. PICK m \in 1 .. n : m = k + 1 /\ m >= at /\ m - at + 1 = 1
        BY <2>1, <2>3, <1>2
      <4>2. path'[m].blk = np[m - at + 1]
        BY <4>1, LinkedPath
      <4> QED
        BY <4>1, <4>2
    <3>3. /\ Len(es) \in Nat /\ p \in 1 .. Len(es)
          /\ \A i \in 1 .. Len(es) : es[i].lblk \in Nat
      <4>1. at - 1 < n
        BY <1>2
      <4> QED
        BY <4>1, <1>2, <1>3, PathFacts
    <3>4. /\ Len(fs) = Len(es) + 1
          /\ \A i \in 1 .. Len(es) + 1 :
                fs[i] = IF i < p + 1 THEN es[i] ELSE IF i = p + 1 THEN ix ELSE es[i - 1]
      BY LinkRoom, LinkEffect
    <3>5. ix.lblk = key /\ ix.pblk = np[1]
      OBVIOUS
    <3>6. \A j \in 1 .. Len(es) : p < j => key < es[j].lblk
      BY LinkAboveOrder
    <3>7. fs[p + 1] = ix /\ p + 1 \in 1 .. Len(fs)
      <4>1. p + 1 \in 1 .. Len(es) + 1 /\ ~ (p + 1 < p + 1)
        BY <3>3
      <4> QED
        BY <4>1, <3>4
    <3>8. ASSUME NEW j \in 1 .. Len(fs), p + 1 < j
          PROVE  l < fs[j].lblk
      <4>1. /\ j \in 1 .. Len(es) + 1 /\ ~ (j < p + 1) /\ j # p + 1
            /\ j - 1 \in 1 .. Len(es) /\ p < j - 1
        BY <3>3, <3>4, <3>8
      <4>2. fs[j] = es[j - 1]
        BY <4>1, <3>4
      <4>3. key < es[j - 1].lblk
        BY <4>1, <3>6
      <4> HIDE DEF fs, es
      <4> QED
        BY <4>2, <4>3, <1>5
    <3> HIDE DEF fs, es, p, ix
    <3>9. fs[p + 1].lblk <= l
      BY <3>5, <3>7, <1>3, <1>5
    <3>10. Placed(fs, l, p + 1)
      BY <3>7, <3>8, <3>9 DEF Placed
    <3> QED
      BY <3>1, <3>2, <3>5, <3>7, <3>10 DEF fs
  <2>4. CASE k >= at
    <3>1. PICK i \in 1 .. Len(np) - 1 : i = k - at + 1
      BY <2>4, <1>2
    <3>2. i \in 1 .. Len(np) /\ i + 1 \in 1 .. Len(np) /\ k + 1 >= at /\ k + 1 - at + 1 = i + 1
      BY <3>1, <2>4, <1>2
    <3> DEFINE es == node[np[i]].ents
    <3>3. 1 \in DOMAIN es /\ es[1].lblk = key /\ es[1].pblk = np[i + 1]
      BY <3>1, EmptyHalf
    <3>4. np[i] \in DOMAIN node /\ node'[np[i]] = node[np[i]]
      BY <3>2, <1>6
    <3>5. es # <<>>
      BY <3>3, <3>4, LiveNode, UsedWhenNonEmpty
    <3>6. path'[k].blk = np[i] /\ path'[k].pos = 1
      BY <2>1, <2>4, <3>1, <3>5, LinkedPath
    <3>7. path'[k + 1].blk = np[i + 1]
      <4>1. PICK m : m = k + 1
        OBVIOUS
      <4>2. m \in 1 .. n /\ m >= at /\ m - at + 1 = i + 1
        <5>1. k + 1 >= at /\ k + 1 - at + 1 = i + 1
          BY <3>2
        <5>2. at \in Nat /\ n \in Nat
          BY <1>2
        <5> HIDE DEF n
        <5> QED
          BY ONLY <4>1, <2>1, <5>1, <5>2
      <4>3. path'[m].blk = np[m - at + 1]
        BY <4>2, LinkedPath
      <4> QED
        BY <4>1, <4>2, <4>3
    <3>8. /\ Len(es) \in Nat /\ DOMAIN es = 1 .. Len(es)
          /\ \A m \in 1 .. Len(es) :
                /\ es[m].lblk \in Nat /\ EndOf(es[m], node[np[i]].depth) \in Nat
                /\ es[m].lblk < EndOf(es[m], node[np[i]].depth)
          /\ \A m, j \in 1 .. Len(es) :
                m < j => EndOf(es[m], node[np[i]].depth) <= es[j].lblk
      BY <3>4, SortedNode
    <3>9. 1 \in 1 .. Len(es)
      BY <3>3, <3>8
    <3>10. ASSUME NEW j \in 1 .. Len(es), 1 < j
           PROVE  l < es[j].lblk
      <4>1. /\ EndOf(es[1], node[np[i]].depth) <= es[j].lblk
            /\ EndOf(es[1], node[np[i]].depth) \in Nat /\ es[j].lblk \in Nat
            /\ es[1].lblk < EndOf(es[1], node[np[i]].depth)
        BY <3>8, <3>9, <3>10
      <4>2. es[1].lblk = l
        BY <3>3, <1>5
      <4> HIDE DEF es, l
      <4>3. PICK x, y, z \in Nat : /\ x = l /\ y = EndOf(es[1], node[np[i]].depth)
                                   /\ z = es[j].lblk
        BY <4>1, <1>3
      <4>4. x < y /\ y <= z
        BY <4>1, <4>2, <4>3
      <4>5. x < z
        BY ONLY <4>4, x \in Nat, y \in Nat, z \in Nat
      <4> QED
        BY <4>3, <4>5
    <3> HIDE DEF es
    <3>11. Placed(es, l, 1)
      BY <3>9, <3>10 DEF Placed
    <3> QED
      BY <3>3, <3>4, <3>6, <3>7, <3>11 DEF es
  <2> QED
    BY <2>2, <2>3, <2>4, <1>2
<1>12. ~ (1 \in DOMAIN node'[r].ents)
  BY <1>5, <1>8 DEF Used
<1>13. On(node', path', newext'.lblk)
  BY <1>1, <1>10, <1>11, <1>12 DEF On
<1>14. FitsIn(V, leaf.blk)'
  <2>1. \A i \in DOMAIN node'[r].ents : FALSE
    BY <1>8, <1>9
  <2> QED
    BY <2>1, <1>1, <1>5, <1>8, <1>10 DEF FitsIn
<1>15. ~ Full(leaf.blk)'
  BY <1>5, <1>8, <1>10 DEF Full
<1> QED
  BY <1>13, <1>14, <1>15

\* The new subtree is in the tree, and the insertion is tried again.
LEMMA LinkOrders ==
    ASSUME IInv, OwnerInv, FillInv, OrderInv, pc = "link", LinkIndex, IInv'
    PROVE  OrderInv'
<1>1. PICK U : U \in Bounds /\ Sorted(node, U) /\ LocalOrder(U)
  BY DEF OrderInv, Bounds
<1>2. pc' = "insert"
  BY DEF LinkIndex
<1>3. PICK V : V = [x \in DOMAIN node |->
                      IF \E k \in at .. Len(path) : x = path[k].blk THEN key ELSE U[x]]
  OBVIOUS
<1>4. Halved(U, V)
  <2>1. key \in Nat /\ at \in 2 .. Len(path) /\ Len(path) \in Nat /\ pc \in Working
    BY <1>1, LinkFacts, LinkPlace
  <2>2. V \in [DOMAIN node -> Nat]
    BY <1>1, <1>3, <2>1 DEF Bounds
  <2>3. \A k \in at .. Len(path) : k \in 1 .. Len(path)
    BY <2>1
  <2>4. \A k \in at .. Len(path) : path[k].blk \in DOMAIN node
    BY <2>1, <2>3, PathFacts
  <2>5. \A k \in at .. Len(path) : V[path[k].blk] = key
    BY <1>3, <2>4
  <2>6. \A x \in DOMAIN node :
           (\A k \in at .. Len(path) : x # path[k].blk) => V[x] = U[x]
    BY <1>3
  <2> QED
    BY <2>2, <2>5, <2>6 DEF Halved
<1>5. V \in [DOMAIN node' -> Nat] /\ Sorted(node', V)
  BY <1>1, <1>4, LinkSorts
<1>6. On(node', path', newext'.lblk) /\ FitsIn(V, leaf.blk)' /\ ~ Full(leaf.blk)'
  BY <1>1, <1>4, LinkGoesLeft, LinkGoesRight
<1>7. Arrived(newext.lblk)'
  BY <1>2, <1>6, NextArrives DEF Working
<1>8. PlaceInv(V)'
  BY <1>2, <1>6, <1>7 DEF PlaceInv
<1>9. KeyInv(V)' /\ HalfInv(V)'
  BY <1>2 DEF KeyInv, HalfInv
<1>10. RestoreInv(V)'
  BY <1>2, <1>6 DEF RestoreInv
<1> QED
  BY <1>5, <1>8, <1>9, <1>10 DEF OrderInv, LocalOrder

-----------------------------------------------------------------------------
(* A split that fails.                                                     *)

\* The blocks of the split go; what was moved to them is lost, and the rest is as
\* sorted as before.
LEMMA CleanupOrders ==
    ASSUME IInv, OwnerInv, OrderInv, pc \in {"split", "link"}, Cleanup
    PROVE  OrderInv'
<1>1. PICK U : U \in Bounds /\ Sorted(node, U) /\ LocalOrder(U)
  BY DEF OrderInv, Bounds
<1>2. pc' = "fail" /\ saved' = saved /\ todo' = todo
  BY DEF Cleanup, conv
<1>3. /\ DOMAIN node' = DOMAIN node \ ToSet(np)
      /\ \A b \in DOMAIN node' : node'[b] = node[b]
      /\ ToSet(np) = {np[i] : i \in 1 .. Len(np)}
  BY CleanupEffect
<1>4. PICK V : V = [b \in DOMAIN node' |-> U[b]]
  OBVIOUS
<1>5. V \in [DOMAIN node' -> Nat] /\ \A b \in DOMAIN node' : V[b] = U[b]
  BY <1>1, <1>3, <1>4 DEF Bounds
<1>6. ASSUME NEW b \in DOMAIN node'
      PROVE  /\ Ordered(node'[b].ents, node'[b].depth, V[b])
             /\ node'[b].depth > 0 => ChildrenFit(node', V, b)
             /\ node'[b].depth = 0 /\ b # Root => node'[b].max >= 2
  <2>1. b \in DOMAIN node /\ b \notin ToSet(np) /\ node'[b] = node[b] /\ V[b] = U[b]
    BY <1>3, <1>5
  <2>2. /\ Ordered(node'[b].ents, node'[b].depth, V[b])
        /\ node'[b].depth = 0 /\ b # Root => node'[b].max >= 2
    BY <2>1, <1>1 DEF Sorted
  <2>3. ASSUME node[b].depth > 0
        PROVE  ChildrenFit(node', V, b)
    <3>1. ChildrenFit(node, U, b)
      BY <2>1, <2>3, <1>1 DEF Sorted
    <3>2. ASSUME NEW i \in DOMAIN node[b].ents
          PROVE  LET c == node[b].ents[i].pblk
                 IN  V[c] = U[c] /\ node'[c] = node[c]
      <4> DEFINE c == node[b].ents[i].pblk
      <4>1. c \in DOMAIN node
        BY <2>1, <2>3 DEF IInv, TreeInv, KidsLive
      <4>2. c \notin ToSet(np)
        BY <2>1, <2>3 DEF IInv, LocalInv, SplitInv
      <4>3. c \in DOMAIN node'
        BY <4>1, <4>2, <1>3
      <4> QED
        BY <4>3, <1>3, <1>5
    <3> QED
      BY <2>1, <3>1, <3>2 DEF ChildrenFit
  <2> QED
    BY <2>1, <2>2, <2>3
<1>7. Sorted(node', V)
  BY <1>6 DEF Sorted
<1>8. PlaceInv(V)' /\ KeyInv(V)' /\ HalfInv(V)'
  BY <1>2 DEF PlaceInv, KeyInv, HalfInv
<1>9. RestoreInv(V)'
  <2> SUFFICES ASSUME Converting, node'[saved.blk].depth = 0,
                      saved.pos \in DOMAIN node'[saved.blk].ents
               PROVE  LET es == node'[saved.blk].ents
                          m  == es[saved.pos].lblk + saved.len
                      IN  /\ saved.len >= 1 /\ m <= V[saved.blk]
                          /\ \A j \in DOMAIN es : saved.pos < j => m <= es[j].lblk
    BY <1>2 DEF RestoreInv, Converting
  <2>1. saved.blk \in DOMAIN node /\ \A i \in 1 .. Len(np) : saved.blk # np[i]
    BY DEF OwnerInv, SavedInv, Inserting, Converting
  <2>2. saved.blk \in DOMAIN node'
    BY <2>1, <1>3
  <2>3. node'[saved.blk] = node[saved.blk] /\ V[saved.blk] = U[saved.blk]
    BY <2>2, <1>3, <1>5
  <2>4. LET es == node[saved.blk].ents
            m  == es[saved.pos].lblk + saved.len
        IN  /\ saved.len >= 1 /\ m <= U[saved.blk]
            /\ \A j \in DOMAIN es : saved.pos < j => m <= es[j].lblk
    BY <2>3, <1>1 DEF LocalOrder, RestoreInv, Inserting
  <2> QED
    BY <2>3, <2>4
<1> QED
  BY <1>5, <1>7, <1>8, <1>9 DEF OrderInv, LocalOrder

-----------------------------------------------------------------------------
(* The invariant and the theorems.                                         *)

\* Files on the disk are sorted.
LEMMA OrderInit ==
    ASSUME Init
    PROVE  OrderInv
<1>1. PICK f \in Files : node = f.node
  BY DEF Init
<1>2. pc = "idle"
  BY DEF Init
<1> DEFINE ends == UNION { { EndOf(node[b].ents[i], node[b].depth) :
                             i \in DOMAIN node[b].ents } : b \in DOMAIN node }
<1>3. PICK U \in [DOMAIN node -> ends \cup {0}] : Sorted(node, U)
  BY <1>1, FilesSorted
<1>4. ends \subseteq Nat
  <2> SUFFICES ASSUME NEW b \in DOMAIN node, NEW i \in DOMAIN node[b].ents
               PROVE  EndOf(node[b].ents[i], node[b].depth) \in Nat
    OBVIOUS
  <2>1. node[b] \in Node
    BY <1>1, FilesAssumption DEF GoodFile
  <2>2. node[b].ents \in Seq(Entry) /\ node[b].depth \in Nat
    BY <2>1, NodeFields
  <2>3. node[b].ents[i] \in Entry
    BY <2>2, LenProperties, ElementOfSeq
  <2> QED
    BY <2>2, <2>3, Ends
<1> HIDE DEF ends
<1>5. U \in [DOMAIN node -> Nat]
  <2>1. \A x \in ends \cup {0} : x \in Nat
    BY <1>4
  <2>2. \A b \in DOMAIN node : U[b] \in ends \cup {0}
    BY <1>3
  <2>3. U = [b \in DOMAIN node |-> U[b]]
    BY <1>3
  <2>4. \A b \in DOMAIN node : U[b] \in Nat
    BY <2>1, <2>2
  <2> QED
    BY ONLY <2>3, <2>4
<1>6. LocalOrder(U)
  BY <1>2 DEF LocalOrder, PlaceInv, KeyInv, HalfInv, RestoreInv, Inserting
<1> QED
  BY <1>3, <1>5, <1>6 DEF OrderInv

\* No extent starts where the new one does: insert_leaf does not fail.
LEMMA NewStart ==
    ASSUME IInv, OwnerInv, OrderInv, pc = "insert"
    PROVE  ~ SameStart
<1>1. PICK U : U \in Bounds /\ Sorted(node, U) /\ LocalOrder(U)
  BY DEF OrderInv, Bounds
<1>2. newext.lblk \in Nat
      /\ (leaf.pos # 0 => ex.lblk < newext.lblk \/ newext.lblk < ex.lblk)
  BY <1>1, NewPlace DEF LocalOrder
<1>3. leaf.pos # 0 => ex.lblk \in Nat
  BY <1>1, LeafFacts DEF Working
<1> QED
  BY <1>2, <1>3 DEF SameStart

\* Every step keeps the order, cuts and merges being sound.
LEMMA OrderStep ==
    ASSUME IInv, OwnerInv, FillInv, OrderInv, SoundCuts, SoundMerges, [Next]_vars, IInv'
    PROVE  OrderInv'
<1>1. CASE UNCHANGED vars
  <2>1. PICK U : U \in Bounds /\ Sorted(node, U) /\ LocalOrder(U)
    BY DEF OrderInv, Bounds
  <2>2. UNCHANGED <<node, pc, newext, at, key, np, todo, saved, path>>
    BY <1>1 DEF vars
  <2>3. UNCHANGED <<leaf, ex, depth, level>>
    BY <2>2 DEF leaf, ex, depth, level
  <2>4. PlaceInv(U)'
    BY <2>1, <2>2, <2>3
       DEF LocalOrder, PlaceInv, Linked, Arrived, Searched, Used, FitsIn, Way
  <2>5. KeyInv(U)' /\ HalfInv(U)'
    BY <2>1, <2>2, <2>3 DEF LocalOrder, KeyInv, HalfInv, HasFree, Used
  <2>6. RestoreInv(U)'
    BY <2>1, <2>2, <2>3 DEF LocalOrder, RestoreInv, Converting, Full
  <2> QED
    BY <2>1, <2>2, <2>4, <2>5, <2>6 DEF OrderInv, LocalOrder, Bounds
<1>2. CASE \E l \in LBlk, m \in MaxBlocks, c \in BOOLEAN :
              ext4_extent_get_blocks(l, m, c)
  BY <1>2, CalmSteps
<1>3. CASE Find
  BY <1>3, WalkOrders, FailOrders, ArriveOrders DEF Find
<1>4. CASE Decide
  BY <1>4, CalmSteps, ConvertOrders, AllocateOrders DEF Decide
<1>5. CASE Convert
  BY <1>5, CutCases, WholeOrders, CutOrders, RestoreOrders, CalmSteps DEF Convert
<1>6. CASE Insert
  <2>1. CASE ext4_ext_insert_leaf
    <3>1. pc = "insert" /\ ~ SameStart
      BY <2>1, NewStart DEF ext4_ext_insert_leaf
    <3>2. AppendToExtent \/ PrependToExtent \/ InsertIntoLeaf \/ NeedSplit
      BY <2>1, <3>1 DEF ext4_ext_insert_leaf
    <3>3. ~ PrependToExtent
      BY <3>1 DEF SoundMerges, PrependToExtent
    <3> QED
      BY <3>1, <3>2, <3>3, AppendOrders, InsertOrders, NeedSplitOrders
  <2>2. CASE ext4_ext_grow_indepth \/ GrowFails \/ FreeData
    BY <2>2, GrowOrders, FailOrders, CalmSteps
  <2>3. CASE ext4_ext_split_node
    BY <2>3, SplitOrders
  <2>4. CASE SplitFails
    BY <2>4, CleanupOrders DEF SplitFails
  <2>5. CASE ext4_ext_insert_index
    BY <2>5, CleanupOrders, LinkOrders DEF ext4_ext_insert_index
  <2> QED
    BY <1>6, <2>1, <2>2, <2>3, <2>4, <2>5 DEF Insert
<1> QED
  BY <1>1, <1>2, <1>3, <1>4, <1>5, <1>6 DEF Next, Step

\* The order gives what FillInv needs: the tree grows where it was searched.
LEMMA OrderGrows ==
    ASSUME OrderInv
    PROVE  GrowsWhereSearched
  BY DEF OrderInv, LocalOrder, PlaceInv, GrowsWhereSearched

\* The three invariants together, none of which is inductive alone.
SortInv == OwnerInv /\ FillInv /\ OrderInv

\* In a behaviour whose cuts and merges are sound every block keeps one owner, the
\* keys of every node and of every path stay sorted, whatever is split, grown, cut,
\* put back or given up half way, and only full nodes are split.
THEOREM OrderInvariance == Spec /\ []SoundCuts /\ []SoundMerges => []SortInv
<1>1. Init => SortInv
  BY OwnerInit, FillInit, OrderInit DEF SortInv
<1>2. IInv /\ SortInv /\ SoundCuts /\ SoundMerges /\ [Next]_vars => SortInv'
  <2> SUFFICES ASSUME IInv, OwnerInv, FillInv, OrderInv, SoundCuts, SoundMerges, [Next]_vars
               PROVE  OwnerInv' /\ FillInv' /\ OrderInv'
    BY DEF SortInv
  <2>1. IInv'
    BY NextStep
  <2>2. OwnerInv'
    BY OwnerStep
  <2>3. FillInv'
    BY OrderGrows, FillStep
  <2>4. OrderInv'
    BY <2>1, OrderStep
  <2> QED
    BY <2>2, <2>3, <2>4
<1> QED
  BY <1>1, <1>2, Invariance, PTL DEF Spec

\* When split_node() comes to link what it has moved away, the node above has room
\* and no index with that key, after any sequence of calls and failures: a split
\* whose allocations succeed succeeds, and its EIO exits are dead code.
THEOREM SplitFindsRoom == Spec /\ []SoundCuts /\ []SoundMerges => []RoomForIndex
<1>1. IInv /\ SortInv => RoomForIndex
  BY LinkRoom DEF SortInv, RoomForIndex
<1> QED
  BY <1>1, OrderInvariance, Invariance, PTL

\* insert_leaf() never meets an extent that starts at the block it inserts.
NoSameStart == pc = "insert" => ~ SameStart

\* So insert_leaf() never takes its error exit, in a call that writes a new block and
\* in a conversion, as long as cuts and merges are sound: an insertion then fails
\* only when a block cannot be allocated or read.  An extent that was extended to
\* EXT_INIT_MAX_LEN blocks counts as a hole and is met again at its own start.
THEOREM InsertFindsPlace == Spec /\ []SoundCuts /\ []SoundMerges => []NoSameStart
<1>1. IInv /\ SortInv => NoSameStart
  BY NewStart DEF SortInv, NoSameStart
<1> QED
  BY <1>1, OrderInvariance, Invariance, PTL

\* After the tree has grown, the search for the new extent goes the way of the path
\* that was full, also in a conversion, which had searched for another block.
THEOREM GrowthIsSearched == Spec /\ []SoundCuts /\ []SoundMerges => []GrowsWhereSearched
<1>1. SortInv => GrowsWhereSearched
  BY OrderGrows DEF SortInv
<1> QED
  BY <1>1, OrderInvariance, PTL

\* So only full nodes are split in every such behaviour, which is what the counts of
\* split_node() rely on.
THEOREM SplitsAreFull == Spec /\ []SoundCuts /\ []SoundMerges => []SplitNodesFull
  BY GrowthIsSearched, OnlyFullNodesSplit, PTL

\* And no such behaviour leaves an empty leaf behind.
THEOREM LeavesAreUsed == Spec /\ []SoundCuts /\ []SoundMerges => []ConsistentLeafNotEmpty
  BY GrowthIsSearched, NoEmptyLeafLeft, PTL

=============================================================================
