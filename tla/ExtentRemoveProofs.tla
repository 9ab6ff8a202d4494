------------------------- MODULE ExtentRemoveProofs -------------------------
(***************************************************************************)
(* The proofs about a file with both its operations: whatever get_blocks() *)
(* and remove_space() are called for, the tree stays whole.                *)
(*                                                                         *)
(* Outside the removal loop the invariant is that of get_blocks(), which a *)
(* removal shares the search and the insertion with.  Inside it, nothing   *)
(* is in hand but the path, and an index node may be empty: RemoveInv says *)
(* what holds of the tree and of the place where the removal stands.       *)
(***************************************************************************)
EXTENDS ExtentSearchProofs, ExtentRemove, FiniteSetTheorems

-----------------------------------------------------------------------------
(* The tree during a removal.                                              *)

\* Its nodes are within their room; an index node may be empty for a while.
Fits(nd) ==
    \A b \in DOMAIN nd :
       /\ b # Root => nd[b].depth < nd[Root].depth
       /\ Len(nd[b].ents) <= nd[b].max
       /\ nd[b].max \in 1 .. ext4_ext_max_entries(nd[Root].depth, nd[b].depth)

\* Nodes of the right type in blocks of the device that are not free.
Typed(nd, fr) ==
    /\ DOMAIN nd \subseteq PBlk \cup {Root}
    /\ Root \in DOMAIN nd
    /\ nd \in [DOMAIN nd -> Node]
    /\ fr \subseteq PBlk
    /\ DOMAIN nd \cap fr = {}

\* A tree whose slots own their blocks and whose keys are sorted within U.
GoodTree(nd, fr, U) ==
    /\ Typed(nd, fr) /\ KidsLive(nd) /\ Fits(nd)
    /\ OwnersDiffer(nd) /\ Unowned(nd, fr) /\ InDevice(nd)
    /\ RootRoom(nd)
    /\ U \in [DOMAIN nd -> Nat] /\ Sorted(nd, U)

\* Every node below the root, but h, has an entry.
Filled(nd, h) == \A b \in DOMAIN nd \ {Root, h} : 1 \in DOMAIN nd[b].ents

\* The first m elements of a path: from the root down through the slots it names.
Route(nd, pt, m) ==
    /\ m >= 1 => pt[1].blk = Root
    /\ \A k \in 1 .. m :
          pt[k].blk \in DOMAIN nd /\ nd[pt[k].blk].depth = nd[Root].depth - (k - 1)
    /\ \A k \in 1 .. m - 1 :
          LET es == nd[pt[k].blk].ents
          IN  pt[k].pos \in DOMAIN es /\ pt[k + 1].blk = es[pt[k].pos].pblk

\* The entries behind the path do not start before l.
Behind(nd, pt, m, l) ==
    \A k \in 1 .. m - 1 :
       LET es == nd[pt[k].blk].ents
       IN  \A j \in DOMAIN es : pt[k].pos < j => l <= es[j].lblk

\* Where a removal from block l on stands in the node b: in a leaf at the extent that
\* covers l, or at the first one if that is not before l; in an index node, only
\* entries that do not start before l are left.
StandsAt(nd, b, p, l) ==
    LET es == nd[b].ents
    IN  IF nd[b].depth = 0
        THEN p \in DOMAIN es /\ (Covers(es[p], ee_len(es[p]), l) \/ (p = 1 /\ l <= es[1].lblk))
        ELSE \A j \in DOMAIN es : p <= j => l <= es[j].lblk

RemoveInv ==
    /\ LocalType /\ np = <<>> /\ todo = <<>>
    /\ \E U : GoodTree(node, free, U)
    /\ Family(node)
    /\ Filled(node, IF path = <<>> THEN Root ELSE leaf.blk)
    /\ Route(node, path, Len(path))
    /\ Behind(node, path, Len(path), req.lblk)
    /\ path # <<>> => leaf.pos >= 1 /\ StandsAt(node, leaf.blk, leaf.pos, req.lblk)

\* Between its calls and in all code but the removal loop a file is as get_blocks()
\* keeps it.
FileInv ==
    /\ AtRest
    /\ pc = "remove" => RemoveInv
    /\ pc # "remove" => IInv /\ SortInv /\ WholeInv

-----------------------------------------------------------------------------
(* What may be done to a tree.                                             *)

\* A node and its entries.
LEMMA NodeOf ==
    ASSUME NEW nd, NEW fr, Typed(nd, fr), NEW b \in DOMAIN nd
    PROVE  LET es == nd[b].ents
           IN  /\ nd[b] \in Node
               /\ nd[b].depth \in Nat /\ nd[b].max \in Nat
               /\ es \in Seq(Entry) /\ Len(es) \in Nat /\ DOMAIN es = 1 .. Len(es)
               /\ \A i \in DOMAIN es :
                     /\ es[i] \in Entry /\ es[i].lblk \in Nat /\ es[i].pblk \in Int
                     /\ EndOf(es[i], nd[b].depth) \in Nat
<1> DEFINE es == nd[b].ents
           d == nd[b].depth
<1>1. nd[b] \in Node
  BY DEF Typed
<1>2. d \in Nat /\ nd[b].max \in Nat /\ es \in Seq(Entry)
  BY <1>1 DEF Node
<1>3. Len(es) \in Nat /\ DOMAIN es = 1 .. Len(es)
  BY <1>2, LenProperties
<1>4. ASSUME NEW i \in DOMAIN es
      PROVE  /\ es[i] \in Entry /\ es[i].lblk \in Nat /\ es[i].pblk \in Int
             /\ EndOf(es[i], d) \in Nat
  <2>1. es[i] \in Entry
    BY <1>2, <1>3, ElementOfSeq
  <2> HIDE DEF es, d
  <2>2. EndOf(es[i], d) \in Nat
    BY <2>1, <1>2, Ends
  <2> QED
    BY <2>1, <2>2 DEF Entry
<1> QED
  BY <1>1, <1>2, <1>3, <1>4

\* Entry e takes and refers to no more than entry f does, in a node of depth d.
Within(e, f, d) ==
    /\ f.lblk <= e.lblk /\ e.lblk < EndOf(e, d) /\ EndOf(e, d) <= EndOf(f, d)
    /\ Refers(e, d) \subseteq Refers(f, d)
    /\ d > 0 => e = f

\* In nn the node b has only some of its entries in nd, or parts of them; g says
\* which slots they had.
Shrunk(nd, nn, b, g) ==
    /\ nn \in [DOMAIN nd -> Node] /\ b \in DOMAIN nd
    /\ \A x \in DOMAIN nd : x # b => nn[x] = nd[x]
    /\ nn[b].depth = nd[b].depth /\ nn[b].max = nd[b].max
    /\ Len(nn[b].ents) <= Len(nd[b].ents)
    /\ \A i \in DOMAIN nn[b].ents :
          g[i] \in DOMAIN nd[b].ents /\ Within(nn[b].ents[i], nd[b].ents[g[i]], nd[b].depth)
    /\ \A i, j \in DOMAIN nn[b].ents : i < j => g[i] < g[j]

\* Its nodes stay within their room and its indexes point where they did.
LEMMA ShrunkShape ==
    ASSUME NEW nd, NEW fr, NEW U, GoodTree(nd, fr, U), NEW nn, NEW b, NEW g,
           Shrunk(nd, nn, b, g)
    PROVE  Typed(nn, fr) /\ KidsLive(nn) /\ Fits(nn) /\ InDevice(nn) /\ RootRoom(nn)
<1> USE DEF Shrunk
<1>1. Typed(nd, fr) /\ KidsLive(nd) /\ Fits(nd) /\ InDevice(nd) /\ RootRoom(nd)
  BY DEF GoodTree
<1>2. DOMAIN nn = DOMAIN nd /\ nn \in [DOMAIN nn -> Node]
  OBVIOUS
<1>3. \A x \in DOMAIN nd : nn[x].depth = nd[x].depth /\ nn[x].max = nd[x].max
  OBVIOUS
<1>4. \A x \in DOMAIN nd : \A i \in DOMAIN nn[x].ents :
         \E j \in DOMAIN nd[x].ents :
            /\ Refers(nn[x].ents[i], nd[x].depth) \subseteq Refers(nd[x].ents[j], nd[x].depth)
            /\ nd[x].depth > 0 => nn[x].ents[i] = nd[x].ents[j]
  <2> SUFFICES ASSUME NEW x \in DOMAIN nd, NEW i \in DOMAIN nn[x].ents
               PROVE  \E j \in DOMAIN nd[x].ents :
                        /\ Refers(nn[x].ents[i], nd[x].depth) \subseteq Refers(nd[x].ents[j], nd[x].depth)
                        /\ nd[x].depth > 0 => nn[x].ents[i] = nd[x].ents[j]
    OBVIOUS
  <2>1. CASE x = b
    BY <2>1 DEF Within
  <2>2. CASE x # b
    BY <2>2
  <2> QED
    BY <2>1, <2>2
<1>5. Typed(nn, fr)
  BY <1>1, <1>2 DEF Typed
<1>6. Root \in DOMAIN nd /\ \A x \in DOMAIN nd : nd[x].depth \in Nat /\ Len(nd[x].ents) \in Nat
  BY <1>1, NodeOf DEF Typed
<1>7. KidsLive(nn)
  <2> SUFFICES ASSUME NEW x \in DOMAIN nn, nn[x].depth > 0, NEW i \in DOMAIN nn[x].ents
               PROVE  LET c == nn[x].ents[i].pblk
                      IN  c \in DOMAIN nn \ {Root} /\ nn[c].depth = nn[x].depth - 1
    BY DEF KidsLive
  <2>1. PICK j \in DOMAIN nd[x].ents : nn[x].ents[i] = nd[x].ents[j]
    BY <1>2, <1>3, <1>4
  <2>2. LET c == nd[x].ents[j].pblk
        IN  c \in DOMAIN nd \ {Root} /\ nd[c].depth = nd[x].depth - 1
    BY <1>1, <1>2, <1>3 DEF KidsLive
  <2> QED
    BY <2>1, <2>2, <1>2, <1>3
<1>8. Fits(nn)
  <2> SUFFICES ASSUME NEW x \in DOMAIN nn
               PROVE  /\ x # Root => nn[x].depth < nn[Root].depth
                      /\ Len(nn[x].ents) <= nn[x].max
                      /\ nn[x].max \in 1 .. ext4_ext_max_entries(nn[Root].depth, nn[x].depth)
    BY DEF Fits
  <2>1. /\ x # Root => nd[x].depth < nd[Root].depth
        /\ Len(nd[x].ents) <= nd[x].max
        /\ nd[x].max \in 1 .. ext4_ext_max_entries(nd[Root].depth, nd[x].depth)
    BY <1>1, <1>2 DEF Fits
  <2>2. Len(nn[x].ents) \in Nat /\ nd[x].max \in Nat /\ Len(nn[x].ents) <= Len(nd[x].ents)
    <3>1. Len(nn[x].ents) \in Nat
      BY <1>5, NodeOf
    <3>2. nd[x].max \in Nat
      BY <1>1, <1>2, NodeOf
    <3> QED
      BY <3>1, <3>2, <1>6, <1>2
  <2>3. Len(nn[x].ents) <= nd[x].max
    BY <2>1, <2>2, <1>2, <1>6
  <2> QED
    BY <2>1, <2>3, <1>2, <1>3, <1>6
<1>9. InDevice(nn)
  <2> SUFFICES ASSUME NEW x \in DOMAIN nn, NEW i \in DOMAIN nn[x].ents
               PROVE  Refers(nn[x].ents[i], nn[x].depth) \subseteq PBlk
    BY DEF InDevice
  <2>1. PICK j \in DOMAIN nd[x].ents :
           Refers(nn[x].ents[i], nd[x].depth) \subseteq Refers(nd[x].ents[j], nd[x].depth)
    BY <1>2, <1>4
  <2>2. Refers(nd[x].ents[j], nd[x].depth) \subseteq PBlk
    BY <1>1, <1>2 DEF InDevice
  <2> QED
    BY <2>1, <2>2, <1>2, <1>3
<1>10. RootRoom(nn)
  BY <1>1, <1>3, <1>6 DEF RootRoom
<1> QED
  BY <1>5, <1>7, <1>8, <1>9, <1>10

\* The slots that are left own no more than before.
LEMMA ShrunkOwners ==
    ASSUME NEW nd, NEW nn, NEW b, NEW g, Shrunk(nd, nn, b, g), OwnersDiffer(nd),
           DOMAIN nn[b].ents \subseteq Nat, DOMAIN nd[b].ents \subseteq Nat
    PROVE  /\ OwnersDiffer(nn)
           /\ \A Y : Unowned(nd, Y) => Unowned(nn, Y)
<1> USE DEF Shrunk
<1> DEFINE f == [s \in SlotsOf(nn) |-> IF s[1] = b THEN <<b, g[s[2]]>> ELSE s]
<1>1. ASSUME NEW s \in SlotsOf(nn)
      PROVE  f[s] \in SlotsOf(nd) /\ OwnedBy(nn, s) \subseteq OwnedBy(nd, f[s])
  <2>1. PICK x \in DOMAIN nn : \E i \in DOMAIN nn[x].ents :
           s = <<x, i>> /\ OwnedBy(nn, s) = Refers(nn[x].ents[i], nn[x].depth)
    BY SlotOut
  <2>2. PICK i \in DOMAIN nn[x].ents :
           s = <<x, i>> /\ OwnedBy(nn, s) = Refers(nn[x].ents[i], nn[x].depth)
    BY <2>1
  <2>3. CASE x = b
    <3>1. f[s] = <<b, g[i]>>
      BY <2>2, <2>3
    <3>2. g[i] \in DOMAIN nd[b].ents
      BY <2>2, <2>3
    <3>3. <<b, g[i]>> \in SlotsOf(nd)
          /\ OwnedBy(nd, <<b, g[i]>>) = Refers(nd[b].ents[g[i]], nd[b].depth)
      BY <3>2, SlotIn
    <3>4. Refers(nn[b].ents[i], nd[b].depth) \subseteq Refers(nd[b].ents[g[i]], nd[b].depth)
      BY <2>2, <2>3 DEF Within
    <3> HIDE DEF f
    <3> QED
      BY <2>2, <2>3, <3>1, <3>3, <3>4
  <2>4. CASE x # b
    <3>1. f[s] = s
      BY <2>2, <2>4
    <3>2. nn[x] = nd[x] /\ x \in DOMAIN nd
      BY <2>4
    <3>3. <<x, i>> \in SlotsOf(nd)
          /\ OwnedBy(nd, <<x, i>>) = Refers(nd[x].ents[i], nd[x].depth)
      BY <2>2, <3>2, SlotIn
    <3> HIDE DEF f
    <3> QED
      BY <2>2, <3>1, <3>2, <3>3
  <2> QED
    BY <2>3, <2>4
<1>2. ASSUME NEW s \in SlotsOf(nn), NEW t \in SlotsOf(nn), s # t
      PROVE  f[s] # f[t]
  <2>1. PICK x \in DOMAIN nn : \E i \in DOMAIN nn[x].ents : s = <<x, i>>
    BY SlotOut
  <2>2. PICK i \in DOMAIN nn[x].ents : s = <<x, i>>
    BY <2>1
  <2>3. PICK y \in DOMAIN nn : \E i_1 \in DOMAIN nn[y].ents : t = <<y, i_1>>
    BY SlotOut
  <2>4. PICK j \in DOMAIN nn[y].ents : t = <<y, j>>
    BY <2>3
  <2>5. f[s] = (IF x = b THEN <<b, g[i]>> ELSE <<x, i>>)
        /\ f[t] = (IF y = b THEN <<b, g[j]>> ELSE <<y, j>>)
    BY <2>2, <2>4
  <2> HIDE DEF f
  <2>6. CASE x = b /\ y = b
    <3>1. i # j /\ i \in Nat /\ j \in Nat
      BY <2>2, <2>4, <2>6, <1>2
    <3>2. g[i] # g[j]
      <4>1. i < j \/ j < i
        BY <3>1
      <4>2. i < j => g[i] < g[j]
        BY <2>2, <2>4, <2>6
      <4>3. j < i => g[j] < g[i]
        BY <2>2, <2>4, <2>6
      <4>4. g[i] \in Int /\ g[j] \in Int
        <5>1. g[i] \in DOMAIN nd[b].ents /\ g[j] \in DOMAIN nd[b].ents
          BY <2>6
        <5> QED
          BY <5>1
      <4> QED
        BY <4>1, <4>2, <4>3, <4>4
    <3> QED
      BY <3>2, <2>5, <2>6
  <2>7. CASE ~ (x = b /\ y = b)
    BY <2>2, <2>4, <2>5, <2>7, <1>2
  <2> QED
    BY <2>6, <2>7
<1> HIDE DEF f
<1>3. Unowned(nd, {})
  BY DEF Unowned
<1>4. \A s \in SlotsOf(nn) :
         OwnedBy(nn, s) \subseteq
            (IF f[s] \in SlotsOf(nd) THEN OwnedBy(nd, f[s]) ELSE {})
               \cup (IF s = 0 THEN {} ELSE {})
  BY <1>1
<1>5. /\ OwnersDiffer(nn)
      /\ \A Y : Unowned(nd, Y) /\ Y \cap {} = {} => Unowned(nn, Y)
  BY ONLY OwnersDiffer(nd), <1>2, <1>3, <1>4, OwnersMoved, ZenonT(60)
<1> QED
  BY <1>5

\* A node that has only parts of its entries left is in order.
LEMMA ShrunkOrder ==
    ASSUME NEW nd, NEW fr, NEW U, GoodTree(nd, fr, U), NEW nn, NEW b, NEW g,
           Shrunk(nd, nn, b, g)
    PROVE  /\ Sorted(nn, U)
           /\ 1 \in DOMAIN nn[b].ents =>
                 1 \in DOMAIN nd[b].ents /\ nd[b].ents[1].lblk <= nn[b].ents[1].lblk
<1> DEFINE es == nd[b].ents
           fs == nn[b].ents
           d == nd[b].depth
<1>1. /\ Typed(nd, fr) /\ KidsLive(nd) /\ Sorted(nd, U) /\ Typed(nn, fr)
      /\ U \in [DOMAIN nd -> Nat]
  BY ShrunkShape DEF GoodTree
<1>2. /\ DOMAIN nn = DOMAIN nd /\ b \in DOMAIN nd
      /\ \A x \in DOMAIN nd : x # b => nn[x] = nd[x]
      /\ nn[b].depth = d /\ nn[b].max = nd[b].max
      /\ \A i \in DOMAIN fs : g[i] \in DOMAIN es /\ Within(fs[i], es[g[i]], d)
      /\ \A i, j \in DOMAIN fs : i < j => g[i] < g[j]
  BY DEF Shrunk
<1>3. /\ d \in Nat /\ DOMAIN es = 1 .. Len(es) /\ Len(es) \in Nat
      /\ \A i \in DOMAIN es : es[i].lblk \in Nat /\ EndOf(es[i], d) \in Nat
  BY <1>1, <1>2, NodeOf
<1>4. /\ DOMAIN fs = 1 .. Len(fs) /\ Len(fs) \in Nat
      /\ \A i \in DOMAIN fs : fs[i].lblk \in Nat /\ EndOf(fs[i], d) \in Nat
  BY <1>1, <1>2, NodeOf
<1>5. U[b] \in Nat /\ Ordered(es, d, U[b])
  BY <1>1, <1>2 DEF Sorted
<1>6. \A i \in DOMAIN fs :
         /\ es[g[i]].lblk <= fs[i].lblk /\ fs[i].lblk < EndOf(fs[i], d)
         /\ EndOf(fs[i], d) <= EndOf(es[g[i]], d)
         /\ d > 0 => fs[i] = es[g[i]]
  BY <1>2 DEF Within
<1> HIDE DEF es, fs, d
<1>7. Ordered(fs, d, U[b])
  <2>1. ASSUME NEW i \in DOMAIN fs
        PROVE  fs[i].lblk < EndOf(fs[i], d) /\ EndOf(fs[i], d) <= U[b]
    <3>1. EndOf(es[g[i]], d) <= U[b]
      BY <1>2, <1>5 DEF Ordered
    <3> QED
      BY <3>1, <1>2, <1>3, <1>4, <1>5, <1>6
  <2>2. ASSUME NEW i \in DOMAIN fs, NEW j \in DOMAIN fs, i < j
        PROVE  EndOf(fs[i], d) <= fs[j].lblk
    <3>1. g[i] \in DOMAIN es /\ g[j] \in DOMAIN es /\ g[i] < g[j]
      BY <1>2, <2>2
    <3>2. EndOf(es[g[i]], d) <= es[g[j]].lblk
      BY <3>1, <1>5 DEF Ordered
    <3>3. EndOf(fs[i], d) <= EndOf(es[g[i]], d) /\ es[g[j]].lblk <= fs[j].lblk
      BY <1>6
    <3>4. EndOf(fs[i], d) \in Nat /\ fs[j].lblk \in Nat
      BY <1>4
    <3>5. EndOf(es[g[i]], d) \in Nat /\ es[g[j]].lblk \in Nat
      BY <3>1, <1>3
    <3> QED
      BY <3>2, <3>3, <3>4, <3>5
  <2> QED
    BY <2>1, <2>2 DEF Ordered
<1>8. ASSUME 1 \in DOMAIN fs
      PROVE  1 \in DOMAIN es /\ es[1].lblk <= fs[1].lblk
  <2>1. g[1] \in 1 .. Len(es) /\ 1 \in DOMAIN es /\ es[g[1]].lblk <= fs[1].lblk
    BY <1>8, <1>2, <1>3, <1>6
  <2>2. es[1].lblk <= es[g[1]].lblk
    <3>1. CASE g[1] = 1
      BY <3>1, <2>1, <1>3
    <3>2. CASE g[1] # 1
      <4>1. 1 < g[1]
        BY <3>2, <2>1
      <4>2. EndOf(es[1], d) <= es[g[1]].lblk /\ es[1].lblk < EndOf(es[1], d)
        BY <4>1, <2>1, <1>3, <1>5 DEF Ordered
      <4> QED
        BY <4>2, <2>1, <1>3
    <3> QED
      BY <3>1, <3>2
  <2>3. es[1].lblk \in Nat /\ es[g[1]].lblk \in Nat
    BY <2>1, <1>3
  <2>4. fs[1].lblk \in Nat
    BY <1>4, <1>8
  <2>5. es[1].lblk <= fs[1].lblk
    BY <2>1, <2>2, <2>3, <2>4
  <2> QED
    BY <2>1, <2>5
<1>9. \A c \in DOMAIN nd : 1 \in DOMAIN nn[c].ents =>
         1 \in DOMAIN nd[c].ents /\ nd[c].ents[1].lblk <= nn[c].ents[1].lblk
  <2> SUFFICES ASSUME NEW c \in DOMAIN nd, 1 \in DOMAIN nn[c].ents
               PROVE  1 \in DOMAIN nd[c].ents /\ nd[c].ents[1].lblk <= nn[c].ents[1].lblk
    OBVIOUS
  <2>1. CASE c = b
    BY <2>1, <1>8 DEF es, fs
  <2>2. CASE c # b
    <3>1. nn[c] = nd[c] /\ nd[c].ents[1].lblk \in Nat
      BY <2>2, <1>1, <1>2, NodeOf
    <3> QED
      BY <3>1
  <2> QED
    BY <2>1, <2>2
<1>10. ASSUME NEW x \in DOMAIN nd, nd[x].depth > 0
       PROVE  ChildrenFit(nn, U, x)
  <2>1. ChildrenFit(nd, U, x)
    BY <1>1, <1>10 DEF Sorted
  <2>2. PICK h : \A i \in DOMAIN nn[x].ents :
           /\ h[i] \in DOMAIN nd[x].ents /\ nn[x].ents[i] = nd[x].ents[h[i]]
           /\ \A j \in DOMAIN nn[x].ents : i < j => h[i] < h[j]
    <3>1. CASE x = b
      <4> WITNESS g
      <4> QED
        BY <3>1, <1>2, <1>6, <1>10 DEF es, fs, d
    <3>2. CASE x # b
      <4> DEFINE id == [i \in DOMAIN nn[x].ents |-> i]
      <4>1. \A i \in DOMAIN nn[x].ents : id[i] = i
        OBVIOUS
      <4>2. nn[x] = nd[x]
        BY <3>2, <1>2
      <4> HIDE DEF id
      <4> WITNESS id
      <4> QED
        BY <4>1, <4>2
    <3> QED
      BY <3>1, <3>2
  <2> SUFFICES ASSUME NEW i \in DOMAIN nn[x].ents
               PROVE  LET c == nn[x].ents[i].pblk
                      IN  /\ U[c] <= U[x]
                          /\ \A j \in DOMAIN nn[x].ents : i < j => U[c] <= nn[x].ents[j].lblk
                          /\ 1 \in DOMAIN nn[c].ents => nn[x].ents[i].lblk <= nn[c].ents[1].lblk
    BY DEF ChildrenFit
  <2> DEFINE c == nd[x].ents[h[i]].pblk
  <2>3. /\ U[c] <= U[x]
        /\ \A j \in DOMAIN nd[x].ents : h[i] < j => U[c] <= nd[x].ents[j].lblk
        /\ 1 \in DOMAIN nd[c].ents => nd[x].ents[h[i]].lblk <= nd[c].ents[1].lblk
    BY <2>1, <2>2 DEF ChildrenFit
  <2>4. c \in DOMAIN nd
    BY <2>2, <1>1, <1>10 DEF KidsLive
  <2>5. nn[x].ents[i].pblk = c /\ nn[x].ents[i].lblk = nd[x].ents[h[i]].lblk
    BY <2>2
  <2>6. ASSUME 1 \in DOMAIN nn[c].ents
        PROVE  nn[x].ents[i].lblk <= nn[c].ents[1].lblk
    <3>1. 1 \in DOMAIN nd[c].ents /\ nd[c].ents[1].lblk <= nn[c].ents[1].lblk
      BY <2>4, <2>6, <1>9
    <3>2. nd[c].ents[1].lblk \in Nat
      BY <3>1, <2>4, <1>1, NodeOf
    <3>3. nn[c].ents[1].lblk \in Nat
      BY <2>4, <2>6, <1>1, <1>2, NodeOf
    <3>4. nd[x].ents[h[i]].lblk \in Nat
      BY <2>2, <1>1, NodeOf
    <3> HIDE DEF c
    <3> QED
      BY <3>1, <3>2, <3>3, <3>4, <2>3, <2>5
  <2>7. ASSUME NEW j \in DOMAIN nn[x].ents, i < j
        PROVE  U[c] <= nn[x].ents[j].lblk
    BY <2>2, <2>3, <2>7
  <2> HIDE DEF c
  <2> QED
    BY <2>3, <2>5, <2>6, <2>7
<1>11. Sorted(nn, U)
  <2> SUFFICES ASSUME NEW x \in DOMAIN nd
               PROVE  /\ Ordered(nn[x].ents, nn[x].depth, U[x])
                      /\ nn[x].depth > 0 => ChildrenFit(nn, U, x)
                      /\ nn[x].depth = 0 /\ x # Root => nn[x].max >= 2
    BY <1>2 DEF Sorted
  <2>1. /\ Ordered(nd[x].ents, nd[x].depth, U[x])
        /\ nd[x].depth = 0 /\ x # Root => nd[x].max >= 2
    BY <1>1 DEF Sorted
  <2>2. nn[x].depth = nd[x].depth /\ nn[x].max = nd[x].max
    BY <1>2 DEF d
  <2>3. Ordered(nn[x].ents, nn[x].depth, U[x])
    BY <2>1, <1>2, <1>7 DEF fs
  <2> QED
    BY <2>1, <2>2, <2>3, <1>10
<1> QED
  BY <1>8, <1>11 DEF es, fs

\* What is left of the node is a good tree again, and the blocks that have lost
\* their owner can be free.
LEMMA ShrunkTree ==
    ASSUME NEW nd, NEW fr, NEW U, GoodTree(nd, fr, U), NEW nn, NEW b, NEW g,
           Shrunk(nd, nn, b, g),
           NEW F, F \subseteq PBlk, F \cap DOMAIN nd = {}, Unowned(nn, F)
    PROVE  GoodTree(nn, fr \cup F, U)
<1>1. Typed(nn, fr) /\ KidsLive(nn) /\ Fits(nn) /\ InDevice(nn) /\ RootRoom(nn)
  BY ShrunkShape
<1>2. DOMAIN nn = DOMAIN nd /\ b \in DOMAIN nd
  BY DEF Shrunk
<1>3. DOMAIN nn[b].ents \subseteq Nat /\ DOMAIN nd[b].ents \subseteq Nat
  <2>1. DOMAIN nn[b].ents = 1 .. Len(nn[b].ents)
    BY <1>1, <1>2, NodeOf
  <2>2. DOMAIN nd[b].ents = 1 .. Len(nd[b].ents)
    BY <1>2, NodeOf DEF GoodTree
  <2> QED
    BY <2>1, <2>2
<1>4. OwnersDiffer(nn) /\ Unowned(nn, fr)
  BY <1>3, ShrunkOwners DEF GoodTree
<1>5. Unowned(nn, fr \cup F)
  BY <1>4 DEF Unowned
<1>6. Typed(nn, fr \cup F)
  BY <1>1, <1>2 DEF Typed
<1>7. Sorted(nn, U) /\ U \in [DOMAIN nn -> Nat]
  BY <1>2, ShrunkOrder DEF GoodTree
<1> QED
  BY <1>1, <1>4, <1>5, <1>6, <1>7 DEF GoodTree

\* In nn the slots of R, one in a node, have the key v and nothing else has changed.
Rekeyed(nd, nn, R, v) ==
    /\ nn \in [DOMAIN nd -> Node]
    /\ \A x \in DOMAIN nd :
          /\ nn[x].depth = nd[x].depth /\ nn[x].max = nd[x].max
          /\ DOMAIN nn[x].ents = DOMAIN nd[x].ents
          /\ \A i \in DOMAIN nd[x].ents :
                nn[x].ents[i] = IF <<x, i>> \in R THEN [nd[x].ents[i] EXCEPT !.lblk = v]
                                ELSE nd[x].ents[i]

\* The key v is not below the old one and fits between the parent's bounds and the
\* child.
MayRise(nd, nn, U, R, v) ==
    \A x \in DOMAIN nd : \A i \in DOMAIN nd[x].ents :
       <<x, i>> \in R =>
          LET c == nd[x].ents[i].pblk
          IN  /\ nd[x].depth > 0 /\ nd[x].ents[i].lblk <= v /\ v < U[c]
              /\ 1 \in DOMAIN nn[c].ents => v <= nn[c].ents[1].lblk
              /\ \A j \in DOMAIN nd[x].ents : <<x, j>> \in R => j = i

\* Each entry stays what it was, but for a key that rises.
Risen(nd, nn, R, v) ==
    \A x \in DOMAIN nd : \A i \in DOMAIN nd[x].ents :
       /\ nn[x].ents[i].pblk = nd[x].ents[i].pblk
       /\ nd[x].ents[i].lblk <= nn[x].ents[i].lblk
       /\ nn[x].ents[i].lblk = (IF <<x, i>> \in R THEN v ELSE nd[x].ents[i].lblk)
       /\ nd[x].depth = 0 => nn[x].ents[i] = nd[x].ents[i]

\* Every entry keeps its block, no key falls, and extents stay as they are.
LEMMA RekeyedEntries ==
    ASSUME NEW nd, NEW fr, NEW U, GoodTree(nd, fr, U), NEW nn, NEW R, NEW v \in Nat,
           Rekeyed(nd, nn, R, v), MayRise(nd, nn, U, R, v)
    PROVE  Risen(nd, nn, R, v)
<1> SUFFICES ASSUME NEW x \in DOMAIN nd, NEW i \in DOMAIN nd[x].ents
             PROVE  /\ nn[x].ents[i].pblk = nd[x].ents[i].pblk
                    /\ nd[x].ents[i].lblk <= nn[x].ents[i].lblk
                    /\ nn[x].ents[i].lblk = (IF <<x, i>> \in R THEN v ELSE nd[x].ents[i].lblk)
                    /\ nd[x].depth = 0 => nn[x].ents[i] = nd[x].ents[i]
  BY DEF Risen
<1>1. nn[x].ents[i] = IF <<x, i>> \in R THEN [nd[x].ents[i] EXCEPT !.lblk = v]
                      ELSE nd[x].ents[i]
  BY DEF Rekeyed
<1>2. nd[x].ents[i] \in Entry /\ nd[x].ents[i].lblk \in Nat
  BY NodeOf DEF GoodTree
<1>3. <<x, i>> \in R => nd[x].depth > 0 /\ nd[x].ents[i].lblk <= v
  BY DEF MayRise
<1>4. CASE <<x, i>> \in R
  <2>1. nn[x].ents[i].pblk = nd[x].ents[i].pblk /\ nn[x].ents[i].lblk = v
    BY <1>1, <1>2, <1>4 DEF Entry
  <2>2. nd[x].depth \in Nat
    BY NodeOf DEF GoodTree
  <2> QED
    BY <2>1, <2>2, <1>3, <1>4
<1>5. CASE <<x, i>> \notin R
  BY <1>1, <1>2, <1>5
<1> QED
  BY <1>4, <1>5

\* Nothing changes about the shape of the tree and the owners of its blocks.
LEMMA RekeyedShape ==
    ASSUME NEW nd, NEW fr, NEW U, GoodTree(nd, fr, U), NEW nn, NEW R, NEW v \in Nat,
           Rekeyed(nd, nn, R, v), MayRise(nd, nn, U, R, v)
    PROVE  /\ Typed(nn, fr) /\ KidsLive(nn) /\ Fits(nn) /\ InDevice(nn) /\ RootRoom(nn)
           /\ OwnersDiffer(nn) /\ Unowned(nn, fr)
<1>1. /\ Typed(nd, fr) /\ KidsLive(nd) /\ Fits(nd) /\ InDevice(nd) /\ RootRoom(nd)
      /\ OwnersDiffer(nd) /\ Unowned(nd, fr)
  BY DEF GoodTree
<1>2. /\ DOMAIN nn = DOMAIN nd /\ nn \in [DOMAIN nn -> Node]
      /\ \A x \in DOMAIN nd : /\ nn[x].depth = nd[x].depth /\ nn[x].max = nd[x].max
                              /\ DOMAIN nn[x].ents = DOMAIN nd[x].ents
  BY DEF Rekeyed
<1>0. Risen(nd, nn, R, v)
  BY RekeyedEntries
<1>3. \A x \in DOMAIN nd : \A i \in DOMAIN nd[x].ents :
         /\ nn[x].ents[i].pblk = nd[x].ents[i].pblk
         /\ nd[x].depth = 0 => nn[x].ents[i] = nd[x].ents[i]
  BY <1>0 DEF Risen
<1>4. \A x \in DOMAIN nd : \A i \in DOMAIN nd[x].ents :
         Refers(nn[x].ents[i], nn[x].depth) = Refers(nd[x].ents[i], nd[x].depth)
  <2> SUFFICES ASSUME NEW x \in DOMAIN nd, NEW i \in DOMAIN nd[x].ents
               PROVE  Refers(nn[x].ents[i], nn[x].depth) = Refers(nd[x].ents[i], nd[x].depth)
    OBVIOUS
  <2>1. nd[x].depth \in Nat
    BY <1>1, NodeOf
  <2>2. CASE nd[x].depth = 0
    BY <2>2, <1>2, <1>3
  <2>3. CASE nd[x].depth > 0
    BY <2>3, <1>2, <1>3 DEF Refers
  <2> QED
    BY <2>1, <2>2, <2>3
<1>5. Typed(nn, fr)
  BY <1>1, <1>2 DEF Typed
<1>6. Root \in DOMAIN nd
  BY <1>1 DEF Typed
<1>7. KidsLive(nn)
  <2> SUFFICES ASSUME NEW x \in DOMAIN nd, nd[x].depth > 0, NEW i \in DOMAIN nd[x].ents
               PROVE  LET c == nd[x].ents[i].pblk
                      IN  c \in DOMAIN nd \ {Root} /\ nn[c].depth = nd[x].depth - 1
    BY <1>2, <1>3 DEF KidsLive
  <2> QED
    BY <1>1, <1>2 DEF KidsLive
<1>8. Fits(nn)
  <2> SUFFICES ASSUME NEW x \in DOMAIN nd
               PROVE  /\ x # Root => nd[x].depth < nd[Root].depth
                      /\ Len(nn[x].ents) <= nd[x].max
                      /\ nd[x].max \in 1 .. ext4_ext_max_entries(nd[Root].depth, nd[x].depth)
    BY <1>2, <1>6 DEF Fits
  <2>1. DOMAIN nn[x].ents = 1 .. Len(nn[x].ents) /\ Len(nn[x].ents) \in Nat
    BY <1>2, <1>5, NodeOf
  <2>2. DOMAIN nd[x].ents = 1 .. Len(nd[x].ents) /\ Len(nd[x].ents) \in Nat
    BY <1>1, NodeOf
  <2>3. Len(nn[x].ents) = Len(nd[x].ents)
    BY <2>1, <2>2, <1>2
  <2> QED
    BY <2>3, <1>1 DEF Fits
<1>9. InDevice(nn)
  BY <1>1, <1>2, <1>4 DEF InDevice
<1>10. RootRoom(nn)
  BY <1>1, <1>2, <1>6 DEF RootRoom
<1>11. \A s \in SlotsOf(nn) : s \in SlotsOf(nd) /\ OwnedBy(nn, s) = OwnedBy(nd, s)
  <2> SUFFICES ASSUME NEW s \in SlotsOf(nn)
               PROVE  s \in SlotsOf(nd) /\ OwnedBy(nn, s) = OwnedBy(nd, s)
    OBVIOUS
  <2>1. PICK x \in DOMAIN nn : \E i \in DOMAIN nn[x].ents :
           s = <<x, i>> /\ OwnedBy(nn, s) = Refers(nn[x].ents[i], nn[x].depth)
    BY SlotOut
  <2>2. PICK i \in DOMAIN nn[x].ents :
           s = <<x, i>> /\ OwnedBy(nn, s) = Refers(nn[x].ents[i], nn[x].depth)
    BY <2>1
  <2>3. x \in DOMAIN nd /\ i \in DOMAIN nd[x].ents
    BY <1>2
  <2>4. <<x, i>> \in SlotsOf(nd)
        /\ OwnedBy(nd, <<x, i>>) = Refers(nd[x].ents[i], nd[x].depth)
    BY <2>3, SlotIn
  <2> QED
    BY <2>2, <2>3, <2>4, <1>4
<1>12. OwnersDiffer(nn)
  BY <1>1, <1>11 DEF OwnersDiffer
<1>13. Unowned(nn, fr)
  BY <1>1, <1>11 DEF Unowned
<1> QED
  BY <1>5, <1>7, <1>8, <1>9, <1>10, <1>12, <1>13

\* Keys that rise as they may leave a good tree.
LEMMA RekeyedTree ==
    ASSUME NEW nd, NEW fr, NEW U, GoodTree(nd, fr, U), NEW nn, NEW R, NEW v \in Nat,
           Rekeyed(nd, nn, R, v), MayRise(nd, nn, U, R, v)
    PROVE  GoodTree(nn, fr, U)
<1>1. /\ Typed(nd, fr) /\ KidsLive(nd) /\ Sorted(nd, U) /\ U \in [DOMAIN nd -> Nat]
  BY DEF GoodTree
<1>2. Typed(nn, fr)
  BY RekeyedShape
<1>3. /\ DOMAIN nn = DOMAIN nd
      /\ \A x \in DOMAIN nd : /\ nn[x].depth = nd[x].depth /\ nn[x].max = nd[x].max
                              /\ DOMAIN nn[x].ents = DOMAIN nd[x].ents
  BY DEF Rekeyed
<1>0. Risen(nd, nn, R, v)
  BY RekeyedEntries
<1>4. \A x \in DOMAIN nd : \A i \in DOMAIN nd[x].ents :
         /\ nn[x].ents[i].pblk = nd[x].ents[i].pblk
         /\ nd[x].ents[i].lblk <= nn[x].ents[i].lblk
         /\ nn[x].ents[i].lblk = (IF <<x, i>> \in R THEN v ELSE nd[x].ents[i].lblk)
         /\ nd[x].depth = 0 => nn[x].ents[i] = nd[x].ents[i]
  BY <1>0 DEF Risen
<1>5. ASSUME NEW x \in DOMAIN nd, nd[x].depth > 0
      PROVE  Ordered(nn[x].ents, nd[x].depth, U[x]) /\ ChildrenFit(nn, U, x)
  <2> DEFINE es == nd[x].ents
             fs == nn[x].ents
             d == nd[x].depth
  <2>1. Ordered(es, d, U[x]) /\ ChildrenFit(nd, U, x)
    BY <1>1, <1>5 DEF Sorted
  <2>2. /\ \A i \in DOMAIN es : es[i].lblk \in Nat
        /\ DOMAIN es = 1 .. Len(es) /\ Len(es) \in Nat /\ U[x] \in Nat
    BY <1>1, NodeOf
  <2>3. DOMAIN fs = DOMAIN es
    BY <1>3
  <2>4. \A i \in DOMAIN es : fs[i].lblk \in Nat
    BY <1>2, <1>3, NodeOf
  <2>5. \A i \in DOMAIN es : es[i].pblk \in DOMAIN nd /\ U[es[i].pblk] \in Nat
    BY <1>1, <1>5 DEF KidsLive
  <2>6. \A i \in DOMAIN es :
           /\ U[es[i].pblk] <= U[x]
           /\ \A j \in DOMAIN es : i < j => U[es[i].pblk] <= es[j].lblk
           /\ 1 \in DOMAIN nd[es[i].pblk].ents => es[i].lblk <= nd[es[i].pblk].ents[1].lblk
    BY <2>1 DEF ChildrenFit
  <2>7. \A i \in DOMAIN es : <<x, i>> \in R =>
           /\ v < U[es[i].pblk]
           /\ 1 \in DOMAIN nn[es[i].pblk].ents => v <= nn[es[i].pblk].ents[1].lblk
           /\ \A j \in DOMAIN es : <<x, j>> \in R => j = i
    BY DEF MayRise
  <2>8. \A i \in DOMAIN es :
           /\ fs[i].pblk = es[i].pblk /\ es[i].lblk <= fs[i].lblk
           /\ fs[i].lblk = (IF <<x, i>> \in R THEN v ELSE es[i].lblk)
    BY <1>4
  <2>9. \A e : EndOf(e, d) = e.lblk + 1
    BY <1>5 DEF EndOf
  <2>10. \A i \in DOMAIN es :
           /\ es[i].lblk + 1 <= U[x]
           /\ \A j \in DOMAIN es : i < j => es[i].lblk + 1 <= es[j].lblk
    BY <2>1, <2>9 DEF Ordered
  <2>11. \A i \in DOMAIN es : 1 \in DOMAIN nn[es[i].pblk].ents =>
            fs[i].lblk <= nn[es[i].pblk].ents[1].lblk
    <3> SUFFICES ASSUME NEW i \in DOMAIN es, 1 \in DOMAIN nn[es[i].pblk].ents
                 PROVE  fs[i].lblk <= nn[es[i].pblk].ents[1].lblk
      OBVIOUS
    <3> DEFINE c == es[i].pblk
    <3>1. c \in DOMAIN nd
      BY <2>5
    <3> HIDE DEF es, fs, d
    <3>2. CASE <<x, i>> \in R
      BY <3>2, <2>7, <2>8
    <3>3. CASE <<x, i>> \notin R
      <4>1. 1 \in DOMAIN nd[c].ents
        BY <3>1, <1>3
      <4>2. es[i].lblk <= nd[c].ents[1].lblk /\ nd[c].ents[1].lblk <= nn[c].ents[1].lblk
        BY <3>1, <4>1, <2>6, <1>4
      <4>3. nd[c].ents[1].lblk \in Nat
        BY <3>1, <4>1, <1>1, NodeOf
      <4>4. nn[c].ents[1].lblk \in Nat
        BY <3>1, <1>2, <1>3, NodeOf
      <4> HIDE DEF c
      <4>5. es[i].lblk <= nn[c].ents[1].lblk
        BY <4>2, <4>3, <4>4, <2>2
      <4> QED
        BY <4>5, <3>3, <2>8 DEF c
    <3> QED
      BY <3>2, <3>3
  <2> HIDE DEF es, fs, d
  <2>12. ASSUME NEW i \in DOMAIN es
         PROVE  fs[i].lblk + 1 <= U[x]
    <3>1. CASE <<x, i>> \in R
      BY <3>1, <2>2, <2>5, <2>6, <2>7, <2>8
    <3>2. CASE <<x, i>> \notin R
      BY <3>2, <2>8, <2>10
    <3> QED
      BY <3>1, <3>2
  <2>13. ASSUME NEW i \in DOMAIN es, NEW j \in DOMAIN es, i < j
         PROVE  fs[i].lblk + 1 <= fs[j].lblk
    <3>0. es[j].lblk <= fs[j].lblk /\ es[j].lblk \in Nat /\ fs[j].lblk \in Nat
      BY <2>2, <2>4, <2>8
    <3>1. CASE <<x, i>> \in R
      <4>1. v + 1 <= U[es[i].pblk] /\ U[es[i].pblk] <= es[j].lblk /\ U[es[i].pblk] \in Nat
        BY <3>1, <2>5, <2>6, <2>7, <2>13
      <4>2. fs[i].lblk = v
        BY <3>1, <2>8
      <4> QED
        BY <3>0, <4>1, <4>2
    <3>2. CASE <<x, i>> \notin R
      <4>1. es[i].lblk + 1 <= es[j].lblk /\ fs[i].lblk = es[i].lblk /\ es[i].lblk \in Nat
        BY <3>2, <2>2, <2>8, <2>10, <2>13
      <4> QED
        BY <4>1, <3>0
    <3> QED
      BY <3>1, <3>2
  <2>14. ASSUME NEW i \in DOMAIN es, NEW j \in DOMAIN es, i < j
         PROVE  U[es[i].pblk] <= fs[j].lblk
    <3>1. es[j].lblk <= fs[j].lblk /\ es[j].lblk \in Nat /\ fs[j].lblk \in Nat
      BY <2>2, <2>4, <2>8
    <3> QED
      BY <3>1, <2>5, <2>6, <2>14
  <2>15. Ordered(fs, d, U[x])
    <3>1. \A i \in DOMAIN fs : fs[i].lblk < EndOf(fs[i], d) /\ EndOf(fs[i], d) <= U[x]
      BY <2>3, <2>4, <2>9, <2>12
    <3> QED
      BY <3>1, <2>3, <2>9, <2>13 DEF Ordered
  <2>16. ChildrenFit(nn, U, x)
    BY <2>3, <2>6, <2>8, <2>11, <2>14 DEF ChildrenFit, fs
  <2> QED
    BY <2>15, <2>16 DEF fs, d
<1>6. ASSUME NEW x \in DOMAIN nd, nd[x].depth = 0
      PROVE  Ordered(nn[x].ents, nd[x].depth, U[x])
  <2>1. Ordered(nd[x].ents, nd[x].depth, U[x])
    BY <1>1 DEF Sorted
  <2>2. DOMAIN nn[x].ents = DOMAIN nd[x].ents
        /\ \A i \in DOMAIN nd[x].ents : nn[x].ents[i] = nd[x].ents[i]
    BY <1>3, <1>4, <1>6
  <2> QED
    BY <2>1, <2>2 DEF Ordered
<1>7. \A x \in DOMAIN nd : nd[x].depth \in Nat
  BY <1>1, NodeOf
<1>8. Sorted(nn, U)
  <2> SUFFICES ASSUME NEW x \in DOMAIN nd
               PROVE  /\ Ordered(nn[x].ents, nn[x].depth, U[x])
                      /\ nn[x].depth > 0 => ChildrenFit(nn, U, x)
                      /\ nn[x].depth = 0 /\ x # Root => nn[x].max >= 2
    BY <1>3 DEF Sorted
  <2>1. nd[x].depth = 0 /\ x # Root => nd[x].max >= 2
    BY <1>1 DEF Sorted
  <2>2. nn[x].depth = nd[x].depth /\ nn[x].max = nd[x].max /\ nd[x].depth \in Nat
    BY <1>3, <1>7
  <2>3. CASE nd[x].depth = 0
    BY <2>1, <2>2, <2>3, <1>6
  <2>4. CASE nd[x].depth > 0
    BY <2>2, <2>4, <1>5
  <2> QED
    BY <2>2, <2>3, <2>4
<1> QED
  BY <1>1, <1>3, <1>8, RekeyedShape DEF GoodTree

OnNodes(U, nd) == [x \in DOMAIN nd |-> U[x]]

\* A node that nobody refers to can be taken out of the tree.
LEMMA PrunedTree ==
    ASSUME NEW nd, NEW fr, NEW U, GoodTree(nd, fr, U), NEW c \in DOMAIN nd \ {Root},
           Unowned(nd, {c}), NEW nn, nn = [x \in DOMAIN nd \ {c} |-> nd[x]]
    PROVE  GoodTree(nn, fr \cup {c}, OnNodes(U, nn))
<1> DEFINE V == [x \in DOMAIN nn |-> U[x]]
<1>1. /\ Typed(nd, fr) /\ KidsLive(nd) /\ Fits(nd) /\ InDevice(nd) /\ RootRoom(nd)
      /\ OwnersDiffer(nd) /\ Unowned(nd, fr) /\ Sorted(nd, U) /\ U \in [DOMAIN nd -> Nat]
  BY DEF GoodTree
<1>2. DOMAIN nn = DOMAIN nd \ {c} /\ \A x \in DOMAIN nn : nn[x] = nd[x]
  OBVIOUS
<1>3. Root \in DOMAIN nn /\ Root \in DOMAIN nd /\ c \in PBlk
  BY <1>1, <1>2 DEF Typed
<1>4. Typed(nn, fr \cup {c})
  <2>1. nn \in [DOMAIN nn -> Node]
    BY <1>1, <1>2 DEF Typed
  <2> QED
    BY <2>1, <1>1, <1>2, <1>3 DEF Typed
<1>5. \A x \in DOMAIN nn : nn[x].depth > 0 =>
         \A i \in DOMAIN nn[x].ents : nn[x].ents[i].pblk \in DOMAIN nn
  <2> SUFFICES ASSUME NEW x \in DOMAIN nn, nn[x].depth > 0, NEW i \in DOMAIN nn[x].ents
               PROVE  nn[x].ents[i].pblk \in DOMAIN nn
    OBVIOUS
  <2>1. nd[x].ents[i].pblk \in DOMAIN nd
    BY <1>1, <1>2 DEF KidsLive
  <2>2. <<x, i>> \in SlotsOf(nd) /\ OwnedBy(nd, <<x, i>>) = Refers(nd[x].ents[i], nd[x].depth)
    BY <1>2, SlotIn
  <2>3. Refers(nd[x].ents[i], nd[x].depth) = {nd[x].ents[i].pblk}
    BY <1>2 DEF Refers
  <2>4. nd[x].ents[i].pblk # c
    BY <2>2, <2>3 DEF Unowned
  <2> QED
    BY <2>1, <2>4, <1>2
<1>6. KidsLive(nn)
  BY <1>1, <1>2, <1>5 DEF KidsLive
<1>7. Fits(nn)
  <2>1. \A x \in DOMAIN nn : nn[x] = nd[x] /\ x \in DOMAIN nd
    BY <1>2
  <2>2. nn[Root] = nd[Root]
    BY <1>2, <1>3
  <2> QED
    BY ONLY <2>1, <2>2, <1>1 DEF Fits
<1>8. InDevice(nn) /\ RootRoom(nn)
  BY <1>1, <1>2, <1>3 DEF InDevice, RootRoom
<1>9. \A s \in SlotsOf(nn) : s \in SlotsOf(nd) /\ OwnedBy(nn, s) = OwnedBy(nd, s)
  <2> SUFFICES ASSUME NEW s \in SlotsOf(nn)
               PROVE  s \in SlotsOf(nd) /\ OwnedBy(nn, s) = OwnedBy(nd, s)
    OBVIOUS
  <2>1. PICK x \in DOMAIN nn : \E i \in DOMAIN nn[x].ents :
           s = <<x, i>> /\ OwnedBy(nn, s) = Refers(nn[x].ents[i], nn[x].depth)
    BY SlotOut
  <2>2. PICK i \in DOMAIN nn[x].ents :
           s = <<x, i>> /\ OwnedBy(nn, s) = Refers(nn[x].ents[i], nn[x].depth)
    BY <2>1
  <2>3. <<x, i>> \in SlotsOf(nd) /\ OwnedBy(nd, <<x, i>>) = Refers(nd[x].ents[i], nd[x].depth)
    BY <1>2, SlotIn
  <2> QED
    BY <2>2, <2>3, <1>2
<1>10. OwnersDiffer(nn) /\ Unowned(nn, fr \cup {c})
  <2>1. Unowned(nd, fr \cup {c})
    BY <1>1 DEF Unowned
  <2>2. Unowned(nn, fr \cup {c})
    BY <2>1, <1>9 DEF Unowned
  <2>3. OwnersDiffer(nn)
    BY <1>1, <1>9 DEF OwnersDiffer
  <2> QED
    BY <2>2, <2>3
<1>11. V \in [DOMAIN nn -> Nat] /\ \A x \in DOMAIN nn : V[x] = U[x]
  BY <1>1, <1>2
<1> HIDE DEF V
<1>12. Sorted(nn, V)
  <2> SUFFICES ASSUME NEW x \in DOMAIN nn
               PROVE  /\ Ordered(nn[x].ents, nn[x].depth, V[x])
                      /\ nn[x].depth > 0 => ChildrenFit(nn, V, x)
                      /\ nn[x].depth = 0 /\ x # Root => nn[x].max >= 2
    BY DEF Sorted
  <2>1. nn[x] = nd[x] /\ V[x] = U[x] /\ x \in DOMAIN nd
    BY <1>2, <1>11
  <2>2. /\ Ordered(nd[x].ents, nd[x].depth, U[x])
        /\ nd[x].depth > 0 => ChildrenFit(nd, U, x)
        /\ nd[x].depth = 0 /\ x # Root => nd[x].max >= 2
    BY <2>1, <1>1 DEF Sorted
  <2>3. ASSUME nn[x].depth > 0 PROVE ChildrenFit(nn, V, x)
    <3>1. \A i \in DOMAIN nn[x].ents : LET k == nn[x].ents[i].pblk
                                       IN  V[k] = U[k] /\ nn[k] = nd[k]
      BY <2>3, <1>2, <1>5, <1>11
    <3>2. ChildrenFit(nd, U, x)
      BY <2>1, <2>2, <2>3
    <3>3. \A i \in DOMAIN nd[x].ents :
             /\ U[nd[x].ents[i].pblk] <= U[x]
             /\ \A j \in DOMAIN nd[x].ents : i < j => U[nd[x].ents[i].pblk] <= nd[x].ents[j].lblk
             /\ 1 \in DOMAIN nd[nd[x].ents[i].pblk].ents =>
                   nd[x].ents[i].lblk <= nd[nd[x].ents[i].pblk].ents[1].lblk
      BY <3>2 DEF ChildrenFit
    <3>4. \A i \in DOMAIN nn[x].ents :
             LET k == nn[x].ents[i].pblk
             IN  /\ V[k] <= V[x]
                 /\ \A j \in DOMAIN nn[x].ents : i < j => V[k] <= nn[x].ents[j].lblk
                 /\ 1 \in DOMAIN nn[k].ents => nn[x].ents[i].lblk <= nn[k].ents[1].lblk
      <4> SUFFICES ASSUME NEW i \in DOMAIN nn[x].ents
                   PROVE  LET k == nn[x].ents[i].pblk
                          IN  /\ V[k] <= V[x]
                              /\ \A j \in DOMAIN nn[x].ents : i < j => V[k] <= nn[x].ents[j].lblk
                              /\ 1 \in DOMAIN nn[k].ents => nn[x].ents[i].lblk <= nn[k].ents[1].lblk
        OBVIOUS
      <4>1. PICK k : k = nn[x].ents[i].pblk
        OBVIOUS
      <4>2. V[k] = U[k] /\ nn[k] = nd[k]
        BY <3>1, <4>1
      <4>3. /\ U[k] <= U[x]
            /\ \A j \in DOMAIN nd[x].ents : i < j => U[k] <= nd[x].ents[j].lblk
            /\ 1 \in DOMAIN nd[k].ents => nd[x].ents[i].lblk <= nd[k].ents[1].lblk
        BY <2>1, <3>3, <4>1
      <4> QED
        BY ONLY <2>1, <4>1, <4>2, <4>3
    <3> QED
      BY <3>4 DEF ChildrenFit
  <2> QED
    BY <2>1, <2>2, <2>3
<1> QED
  BY <1>4, <1>6, <1>7, <1>8, <1>10, <1>11, <1>12 DEF GoodTree, V, OnNodes

-----------------------------------------------------------------------------
(* The keys along a path.                                                  *)

\* One step of a path: from a node to the child that its slot points to.
LEMMA RouteStep ==
    ASSUME NEW nd, NEW fr, NEW U, GoodTree(nd, fr, U), NEW pt, NEW m \in Nat,
           Route(nd, pt, m), NEW k \in 1 .. m - 1
    PROVE  LET x == pt[k].blk
               c == pt[k + 1].blk
               e == nd[x].ents[pt[k].pos]
           IN  /\ x \in DOMAIN nd /\ c \in DOMAIN nd \ {Root} /\ nd[x].depth > 0
               /\ pt[k].pos \in DOMAIN nd[x].ents /\ e.pblk = c
               /\ e.lblk \in Nat /\ U[x] \in Nat /\ U[c] \in Nat /\ U[c] <= U[x]
               /\ 1 \in DOMAIN nd[c].ents =>
                     nd[c].ents[1].lblk \in Nat /\ e.lblk <= nd[c].ents[1].lblk
<1> DEFINE x == pt[k].blk
           c == pt[k + 1].blk
           e == nd[x].ents[pt[k].pos]
<1>1. k \in 1 .. m /\ k + 1 \in 1 .. m
  OBVIOUS
<1>2. /\ x \in DOMAIN nd /\ c \in DOMAIN nd
      /\ nd[x].depth = nd[Root].depth - (k - 1) /\ nd[c].depth = nd[Root].depth - ((k + 1) - 1)
      /\ pt[k].pos \in DOMAIN nd[x].ents /\ e.pblk = c
  BY <1>1 DEF Route
<1>3. Typed(nd, fr) /\ KidsLive(nd) /\ Sorted(nd, U) /\ U \in [DOMAIN nd -> Nat]
  BY DEF GoodTree
<1>4. Root \in DOMAIN nd
  BY <1>3 DEF Typed
<1>5. nd[Root].depth \in Nat /\ nd[c].depth \in Nat /\ nd[x].depth \in Nat
  BY <1>2, <1>3, <1>4, NodeOf
<1>6. nd[x].depth > 0
  BY <1>1, <1>2, <1>5
<1>7. e.lblk \in Nat
  BY <1>2, <1>3, NodeOf
<1>8. 1 \in DOMAIN nd[c].ents => nd[c].ents[1].lblk \in Nat
  BY <1>2, <1>3, NodeOf
<1>9. c # Root
  BY <1>2, <1>3, <1>6 DEF KidsLive
<1>10. ChildrenFit(nd, U, x)
  BY <1>2, <1>3, <1>6 DEF Sorted
<1>11. U[c] <= U[x] /\ (1 \in DOMAIN nd[c].ents => e.lblk <= nd[c].ents[1].lblk)
  BY <1>2, <1>10 DEF ChildrenFit
<1>12. U[x] \in Nat /\ U[c] \in Nat
  BY <1>2, <1>3
<1> HIDE DEF x, c, e
<1>13. /\ x \in DOMAIN nd /\ c \in DOMAIN nd \ {Root} /\ nd[x].depth > 0
       /\ pt[k].pos \in DOMAIN nd[x].ents /\ e.pblk = c
       /\ e.lblk \in Nat /\ U[x] \in Nat /\ U[c] \in Nat /\ U[c] <= U[x]
       /\ 1 \in DOMAIN nd[c].ents =>
             nd[c].ents[1].lblk \in Nat /\ e.lblk <= nd[c].ents[1].lblk
  BY <1>2, <1>6, <1>7, <1>8, <1>9, <1>11, <1>12
<1> QED
  BY <1>13 DEF x, c, e

\* Different levels are different nodes.
LEMMA RouteDistinct ==
    ASSUME NEW nd, NEW fr, Typed(nd, fr), NEW pt, NEW m \in Nat,
           Route(nd, pt, m), NEW j \in 1 .. m, NEW k \in 1 .. m, pt[j].blk = pt[k].blk
    PROVE  j = k
<1>1. nd[Root].depth \in Nat
  BY NodeOf DEF Typed
<1>2. nd[Root].depth - (j - 1) = nd[Root].depth - (k - 1)
  BY DEF Route
<1> QED
  BY <1>1, <1>2

\* The bound of a node is not above that of a node above it.
LEMMA RouteBounds ==
    ASSUME NEW nd, NEW fr, NEW U, GoodTree(nd, fr, U), NEW pt, NEW m \in Nat \ {0},
           Route(nd, pt, m)
    PROVE  \A k \in 1 .. m : U[pt[m].blk] \in Nat /\ U[pt[k].blk] \in Nat
                             /\ U[pt[m].blk] <= U[pt[k].blk]
<1> DEFINE T == {n \in Nat : n < m => U[pt[m].blk] <= U[pt[m - n].blk]}
<1>1. \A k \in 1 .. m : U[pt[k].blk] \in Nat
  BY DEF GoodTree, Route
<1>2. U[pt[m].blk] \in Nat
  BY <1>1
<1>3. 0 \in T
  <2>1. m - 0 = m
    OBVIOUS
  <2> QED
    BY <2>1, <1>2
<1>4. \A n \in Nat : n \in T => n + 1 \in T
  <2> SUFFICES ASSUME NEW n \in Nat, n \in T, n + 1 < m
               PROVE  U[pt[m].blk] <= U[pt[m - (n + 1)].blk]
    OBVIOUS
  <2>1. PICK k : k = m - (n + 1)
    OBVIOUS
  <2>2. k \in 1 .. m - 1 /\ k + 1 = m - n /\ k \in 1 .. m /\ k + 1 \in 1 .. m
    BY <2>1
  <2>3. U[pt[m].blk] <= U[pt[k + 1].blk]
    BY <2>2
  <2> HIDE DEF T
  <2>4. U[pt[k + 1].blk] <= U[pt[k].blk]
    BY <2>2, RouteStep
  <2>5. U[pt[m].blk] <= U[pt[k].blk]
    BY <2>2, <2>3, <2>4, <1>1, <1>2
  <2> QED
    BY <2>1, <2>5
<1>5. \A n \in Nat : n \in T
  <2> HIDE DEF T
  <2> QED
    BY <1>3, <1>4, Induction
<1>6. ASSUME NEW k \in 1 .. m PROVE U[pt[m].blk] <= U[pt[k].blk]
  <2>1. m - k \in Nat /\ m - k < m /\ m - (m - k) = k
    OBVIOUS
  <2> QED
    BY <2>1, <1>5
<1> QED
  BY <1>1, <1>2, <1>6

\* The levels above m whose subtree starts where the slot of level m does.
FirstUpTo(pt, m) == {j \in 1 .. m - 1 : \A i \in j + 1 .. m : pt[i].pos = 1}
FirstSlots(pt, m) == {<<pt[j].blk, pt[j].pos>> : j \in FirstUpTo(pt, m)}

\* The key of level k of a path.
KeyAt(nd, pt, k) == nd[pt[k].blk].ents[pt[k].pos].lblk

\* Their keys are not above that of the lowest of them.
LEMMA RouteKeys ==
    ASSUME NEW nd, NEW fr, NEW U, GoodTree(nd, fr, U), NEW pt, NEW m \in Nat \ {0},
           Route(nd, pt, m), NEW v \in Nat,
           m - 1 \in FirstUpTo(pt, m) => KeyAt(nd, pt, m - 1) <= v
    PROVE  \A j \in FirstUpTo(pt, m) : KeyAt(nd, pt, j) <= v
<1> DEFINE T == {n \in Nat : m - 1 - n \in FirstUpTo(pt, m) => KeyAt(nd, pt, m - 1 - n) <= v}
<1>1. 0 \in T
  <2>1. m - 1 - 0 = m - 1
    OBVIOUS
  <2> QED
    BY <2>1
<1>2. \A n \in Nat : n \in T => n + 1 \in T
  <2> SUFFICES ASSUME NEW n \in Nat, n \in T, m - 1 - (n + 1) \in FirstUpTo(pt, m)
               PROVE  KeyAt(nd, pt, m - 1 - (n + 1)) <= v
    OBVIOUS
  <2>1. PICK k : k = m - 1 - (n + 1)
    OBVIOUS
  <2>2. k + 1 = m - 1 - n /\ k \in 1 .. m - 1 /\ k + 1 \in 1 .. m - 1
    BY <2>1 DEF FirstUpTo
  <2>3. pt[k + 1].pos = 1 /\ k + 1 \in FirstUpTo(pt, m)
    <3>1. \A i \in k + 1 .. m : pt[i].pos = 1
      BY <2>1 DEF FirstUpTo
    <3>2. k + 1 \in k + 1 .. m /\ (k + 1) + 1 .. m \subseteq k + 1 .. m
      BY <2>2
    <3> QED
      BY <3>1, <3>2, <2>2 DEF FirstUpTo
  <2>4. KeyAt(nd, pt, k + 1) <= v
    BY <2>2, <2>3
  <2> HIDE DEF T
  <2>5. 1 \in DOMAIN nd[pt[k + 1].blk].ents
    BY <2>2, <2>3, RouteStep
  <2>6. /\ KeyAt(nd, pt, k) <= nd[pt[k + 1].blk].ents[1].lblk
        /\ KeyAt(nd, pt, k) \in Nat /\ nd[pt[k + 1].blk].ents[1].lblk \in Nat
    BY <2>2, <2>5, RouteStep DEF KeyAt
  <2>7. nd[pt[k + 1].blk].ents[1].lblk = KeyAt(nd, pt, k + 1)
    BY <2>3 DEF KeyAt
  <2>8. KeyAt(nd, pt, k) <= v
    BY <2>4, <2>6, <2>7
  <2> QED
    BY <2>1, <2>8
<1>3. \A n \in Nat : n \in T
  <2> HIDE DEF T
  <2> QED
    BY <1>1, <1>2, Induction
<1> SUFFICES ASSUME NEW j \in FirstUpTo(pt, m)
             PROVE  KeyAt(nd, pt, j) <= v
  OBVIOUS
<1>4. j \in 1 .. m - 1
  BY DEF FirstUpTo
<1>5. m - 1 - j \in Nat /\ m - 1 - (m - 1 - j) = j
  BY <1>4
<1> QED
  BY <1>3, <1>5

\* So the new first key of a node may go up the path.
LEMMA RouteRises ==
    ASSUME NEW nd, NEW fr, NEW U, GoodTree(nd, fr, U), NEW pt, NEW m \in Nat \ {0},
           Route(nd, pt, m), NEW v \in Nat, v < U[pt[m].blk],
           m - 1 \in FirstUpTo(pt, m) =>
              /\ KeyAt(nd, pt, m - 1) <= v
              /\ 1 \in DOMAIN nd[pt[m].blk].ents => v <= nd[pt[m].blk].ents[1].lblk,
           NEW nn, Rekeyed(nd, nn, FirstSlots(pt, m), v)
    PROVE  MayRise(nd, nn, U, FirstSlots(pt, m), v)
<1> DEFINE R == FirstSlots(pt, m)
<1>1. \A j \in FirstUpTo(pt, m) : KeyAt(nd, pt, j) <= v
  BY RouteKeys
<1>2. \A k \in 1 .. m : U[pt[m].blk] \in Nat /\ U[pt[k].blk] \in Nat
                        /\ U[pt[m].blk] <= U[pt[k].blk]
  BY RouteBounds
<1>3. Typed(nd, fr)
  BY DEF GoodTree
<1>4. \A s \in R : \E j \in FirstUpTo(pt, m) : s = <<pt[j].blk, pt[j].pos>>
  BY DEF FirstSlots
<1>5. \A j \in FirstUpTo(pt, m) : <<pt[j].blk, pt[j].pos>> \in R
  BY DEF FirstSlots
<1>6. \A j \in FirstUpTo(pt, m) : j \in 1 .. m - 1 /\ j \in 1 .. m /\ j + 1 \in 1 .. m
  BY DEF FirstUpTo
<1> HIDE DEF R
<1> SUFFICES ASSUME NEW x \in DOMAIN nd, NEW i \in DOMAIN nd[x].ents, <<x, i>> \in R
             PROVE  LET c == nd[x].ents[i].pblk
                    IN  /\ nd[x].depth > 0 /\ nd[x].ents[i].lblk <= v /\ v < U[c]
                        /\ 1 \in DOMAIN nn[c].ents => v <= nn[c].ents[1].lblk
                        /\ \A j \in DOMAIN nd[x].ents : <<x, j>> \in R => j = i
  BY DEF MayRise, R
<1>7. PICK j \in FirstUpTo(pt, m) : x = pt[j].blk /\ i = pt[j].pos
  BY <1>4
<1>8. j \in 1 .. m - 1 /\ j \in 1 .. m /\ j + 1 \in 1 .. m
  BY <1>6
<1> DEFINE c == pt[j + 1].blk
<1>9. nd[x].ents[i].pblk = c /\ nd[x].depth > 0 /\ c \in DOMAIN nd \ {Root}
  BY ONLY <1>7, <1>8, m \in Nat, GoodTree(nd, fr, U), Route(nd, pt, m), RouteStep
<1>10. nd[x].ents[i].lblk <= v
  BY <1>1, <1>7 DEF KeyAt
<1>11. v < U[c]
  <2>1. U[pt[m].blk] <= U[c] /\ U[pt[m].blk] \in Nat /\ U[c] \in Nat
    BY <1>2, <1>8
  <2> QED
    BY <2>1
<1>12. \A y \in DOMAIN nd[x].ents : <<x, y>> \in R => y = i
  <2> SUFFICES ASSUME NEW y \in DOMAIN nd[x].ents, <<x, y>> \in R PROVE y = i
    OBVIOUS
  <2>1. PICK k \in FirstUpTo(pt, m) : x = pt[k].blk /\ y = pt[k].pos
    BY <1>4
  <2>2. k = j
    BY <2>1, <1>3, <1>6, <1>7, RouteDistinct
  <2> QED
    BY <2>1, <2>2, <1>7
<1>13. DOMAIN nn[c].ents = DOMAIN nd[c].ents
  BY <1>9 DEF Rekeyed
<1>14. ASSUME 1 \in DOMAIN nn[c].ents PROVE v <= nn[c].ents[1].lblk
  <2>1. 1 \in DOMAIN nd[c].ents
    BY <1>13, <1>14
  <2>2. nn[c].ents[1] = IF <<c, 1>> \in R THEN [nd[c].ents[1] EXCEPT !.lblk = v]
                        ELSE nd[c].ents[1]
    BY <2>1, <1>9 DEF Rekeyed, R
  <2>3. nd[c].ents[1] \in Entry
    BY <2>1, <1>3, <1>9, NodeOf
  <2>4. CASE j + 1 = m
    <3>1. j = m - 1 /\ m - 1 \in FirstUpTo(pt, m) /\ c = pt[m].blk
      BY <2>4, <1>8
    <3>2. v <= nd[c].ents[1].lblk
      BY <2>1, <3>1
    <3> HIDE DEF c
    <3>3. CASE <<c, 1>> \in R
      BY <2>2, <2>3, <3>3 DEF Entry
    <3>4. CASE <<c, 1>> \notin R
      BY <2>2, <3>2, <3>4
    <3> QED
      BY <3>3, <3>4
  <2>5. CASE j + 1 # m
    <3>1. j + 1 \in 1 .. m - 1 /\ j + 1 \in j + 1 .. m /\ (j + 1) + 1 .. m \subseteq j + 1 .. m
      BY <2>5, <1>8
    <3>2. \A k \in j + 1 .. m : pt[k].pos = 1
      BY DEF FirstUpTo
    <3>3. j + 1 \in FirstUpTo(pt, m) /\ pt[j + 1].pos = 1
      BY <3>1, <3>2 DEF FirstUpTo
    <3>4. <<c, 1>> \in R
      BY <3>3, <1>5
    <3> HIDE DEF c
    <3> QED
      BY <2>2, <2>3, <3>4 DEF Entry
  <2> QED
    BY <2>4, <2>5
<1> HIDE DEF c
<1> QED
  BY <1>9, <1>10, <1>11, <1>12, <1>14

\* When only keys rise, every node and every slot stays in its place.
LEMMA RisenPlaces ==
    ASSUME NEW nd, NEW fr, NEW U, GoodTree(nd, fr, U), NEW nn, NEW R, NEW v \in Nat,
           Rekeyed(nd, nn, R, v), Risen(nd, nn, R, v), Typed(nn, fr)
    PROVE  /\ Family(nd) => Family(nn)
           /\ \A h : Filled(nd, h) => Filled(nn, h)
           /\ \A pt : \A m \in Nat : Route(nd, pt, m) => Route(nn, pt, m)
           /\ \A pt : \A m \in Nat : \A l \in Nat :
                 Route(nd, pt, m) /\ Behind(nd, pt, m, l) => Behind(nn, pt, m, l)
<1>1. /\ DOMAIN nn = DOMAIN nd
      /\ \A x \in DOMAIN nd : nn[x].depth = nd[x].depth /\ DOMAIN nn[x].ents = DOMAIN nd[x].ents
  BY DEF Rekeyed
<1>2. \A x \in DOMAIN nd : \A i \in DOMAIN nd[x].ents :
         nn[x].ents[i].pblk = nd[x].ents[i].pblk /\ nd[x].ents[i].lblk <= nn[x].ents[i].lblk
  BY DEF Risen
<1>3. Family(nd) => Family(nn)
  BY <1>1, <1>2 DEF Family, Child
<1>4. ASSUME NEW h, Filled(nd, h) PROVE Filled(nn, h)
  BY <1>1, <1>4 DEF Filled
<1>5. Root \in DOMAIN nd
  BY DEF GoodTree, Typed
<1>6. ASSUME NEW pt, NEW m \in Nat, Route(nd, pt, m) PROVE Route(nn, pt, m)
  <2>1. ASSUME NEW k \in 1 .. m
        PROVE  pt[k].blk \in DOMAIN nn /\ nn[pt[k].blk].depth = nn[Root].depth - (k - 1)
    BY <1>1, <1>5, <1>6 DEF Route
  <2>2. ASSUME NEW k \in 1 .. m - 1
        PROVE  LET es == nn[pt[k].blk].ents
               IN  pt[k].pos \in DOMAIN es /\ pt[k + 1].blk = es[pt[k].pos].pblk
    <3>1. k \in 1 .. m
      OBVIOUS
    <3>2. /\ pt[k].blk \in DOMAIN nd /\ pt[k].pos \in DOMAIN nd[pt[k].blk].ents
          /\ pt[k + 1].blk = nd[pt[k].blk].ents[pt[k].pos].pblk
      BY <1>6, <3>1 DEF Route
    <3> QED
      BY <3>2, <1>1, <1>2
  <2>3. m >= 1 => pt[1].blk = Root
    BY <1>6 DEF Route
  <2> QED
    BY <2>1, <2>2, <2>3 DEF Route
<1>7. ASSUME NEW pt, NEW m \in Nat, NEW l \in Nat, Route(nd, pt, m), Behind(nd, pt, m, l)
      PROVE  Behind(nn, pt, m, l)
  <2> SUFFICES ASSUME NEW k \in 1 .. m - 1, NEW j \in DOMAIN nn[pt[k].blk].ents, pt[k].pos < j
               PROVE  l <= nn[pt[k].blk].ents[j].lblk
    BY DEF Behind
  <2>1. k \in 1 .. m
    OBVIOUS
  <2>2. pt[k].blk \in DOMAIN nd
    BY <1>7, <2>1 DEF Route
  <2>3. j \in DOMAIN nd[pt[k].blk].ents
    BY <2>2, <1>1
  <2>4. l <= nd[pt[k].blk].ents[j].lblk
    BY <1>7, <2>3 DEF Behind
  <2>5. nd[pt[k].blk].ents[j].lblk <= nn[pt[k].blk].ents[j].lblk
    BY <2>2, <2>3, <1>2
  <2>6. nd[pt[k].blk].ents[j].lblk \in Nat
    BY <2>2, <2>3, NodeOf DEF GoodTree
  <2>7. nn[pt[k].blk].ents[j].lblk \in Nat
    BY <2>2, <1>1, NodeOf
  <2> QED
    BY <2>4, <2>5, <2>6, <2>7
<1> QED
  BY <1>3, <1>4, <1>6, <1>7

-----------------------------------------------------------------------------
(* Dropping an empty node.                                                 *)

\* The first a entries of n and those from slot z on.
Splice(s, a, z, n) == SubSeq(s, 1, a) \o SubSeq(s, z, n)
OldSlot(a, z, i) == IF i <= a THEN i ELSE i - a + z - 1

SpliceLaw(s, a, z, n) ==
    LET sq == Splice(s, a, z, n)
    IN  /\ sq \in Seq(Entry) /\ Len(sq) = a + n - z + 1
        /\ DOMAIN sq = 1 .. a + n - z + 1
        /\ \A i \in 1 .. a + n - z + 1 :
              OldSlot(a, z, i) \in 1 .. n /\ sq[i] = s[OldSlot(a, z, i)]

\* A sequence without its slots a + 1 .. z - 1, slot by slot.
LEMMA Spliced ==
    ASSUME NEW n \in Nat, NEW s \in [1 .. n -> Entry],
           NEW a \in 0 .. n, NEW z \in a + 1 .. n + 1
    PROVE  SpliceLaw(s, a, z, n)
<1> DEFINE p == SubSeq(s, 1, a)
           q == SubSeq(s, z, n)
<1>1. p \in Seq(Entry) /\ Len(p) = a /\ \A i \in 1 .. a : p[i] = s[i]
  <2>1. \A i \in 1 .. a : s[i] \in Entry
    OBVIOUS
  <2>2. /\ p \in Seq(Entry) /\ Len(p) = (IF 1 <= a THEN a - 1 + 1 ELSE 0)
        /\ \A i \in 1 .. a - 1 + 1 : p[i] = s[1 + i - 1]
    BY <2>1, SubSeqProperties
  <2> HIDE DEF p
  <2>3. a - 1 + 1 = a /\ \A i \in 1 .. a : 1 + i - 1 = i
    OBVIOUS
  <2> QED
    BY <2>2, <2>3
<1>2. q \in Seq(Entry) /\ Len(q) = n - z + 1 /\ \A i \in 1 .. n - z + 1 : q[i] = s[z + i - 1]
  <2>1. \A i \in z .. n : s[i] \in Entry
    OBVIOUS
  <2>2. /\ q \in Seq(Entry) /\ Len(q) = (IF z <= n THEN n - z + 1 ELSE 0)
        /\ \A i \in 1 .. n - z + 1 : q[i] = s[z + i - 1]
    BY <2>1, SubSeqProperties
  <2> HIDE DEF q
  <2>3. Len(q) = n - z + 1
    BY <2>2
  <2> QED
    BY <2>2, <2>3
<1>3. Splice(s, a, z, n) = p \o q
  BY DEF Splice
<1> HIDE DEF p, q
<1>4. /\ p \o q \in Seq(Entry) /\ Len(p \o q) = Len(p) + Len(q)
      /\ \A i \in 1 .. Len(p) + Len(q) : (p \o q)[i] = IF i <= Len(p) THEN p[i] ELSE q[i - Len(p)]
  BY <1>1, <1>2, ConcatProperties
<1>5. a + (n - z + 1) = a + n - z + 1 /\ Len(p \o q) = a + n - z + 1
  BY <1>1, <1>2, <1>4
<1>6. DOMAIN (p \o q) = 1 .. a + n - z + 1
  BY <1>4, <1>5, LenProperties
<1>7. ASSUME NEW i \in 1 .. a + n - z + 1
      PROVE  OldSlot(a, z, i) \in 1 .. n /\ (p \o q)[i] = s[OldSlot(a, z, i)]
  <2>1. (p \o q)[i] = IF i <= a THEN p[i] ELSE q[i - a]
    BY <1>1, <1>2, <1>4, <1>5
  <2>2. CASE i <= a
    BY <2>1, <2>2, <1>1 DEF OldSlot
  <2>3. CASE ~ (i <= a)
    <3>1. i - a \in 1 .. n - z + 1 /\ z + (i - a) - 1 = i - a + z - 1
      BY <2>3
    <3>2. i - a + z - 1 \in 1 .. n
      BY <3>1
    <3> QED
      BY <2>1, <2>3, <3>1, <3>2, <1>2 DEF OldSlot
  <2> QED
    BY <2>2, <2>3
<1> QED
  BY <1>3, <1>4, <1>5, <1>6, <1>7 DEF SpliceLaw

\* An entry refers to no more than itself.
LEMMA WithinItself ==
    ASSUME NEW nd, NEW fr, NEW U, GoodTree(nd, fr, U), NEW b \in DOMAIN nd,
           NEW i \in DOMAIN nd[b].ents
    PROVE  Within(nd[b].ents[i], nd[b].ents[i], nd[b].depth)
<1>1. nd[b].ents[i].lblk \in Nat /\ EndOf(nd[b].ents[i], nd[b].depth) \in Nat
  BY NodeOf DEF GoodTree
<1>2. nd[b].ents[i].lblk < EndOf(nd[b].ents[i], nd[b].depth)
  BY DEF GoodTree, Sorted, Ordered
<1> QED
  BY <1>1, <1>2 DEF Within

\* In nn slot p of node b is gone.
SlotGone(nd, nn, b, p) ==
    LET n == Len(nd[b].ents)
    IN  /\ DOMAIN nn = DOMAIN nd /\ \A x \in DOMAIN nd : x # b => nn[x] = nd[x]
        /\ nn[b].depth = nd[b].depth
        /\ DOMAIN nn[b].ents = 1 .. n - 1 /\ n \in Nat
        /\ \A i \in 1 .. n - 1 : i < p => nn[b].ents[i] = nd[b].ents[i]
        /\ \A i \in 1 .. n - 1 : ~ (i < p) => nn[b].ents[i] = nd[b].ents[i + 1]

\* When an index is removed, its child belongs to nobody.
LEMMA IndexRemoved ==
    ASSUME NEW nd, NEW fr, NEW U, GoodTree(nd, fr, U), NEW b \in DOMAIN nd,
           nd[b].depth > 0, NEW p \in DOMAIN nd[b].ents,
           NEW nn, nn = [nd EXCEPT ![b].ents = RemoveAt(@, p)]
    PROVE  /\ SlotGone(nd, nn, b, p)
           /\ GoodTree(nn, fr, U) /\ Unowned(nn, {nd[b].ents[p].pblk})
<1> DEFINE es == nd[b].ents
           n == Len(es)
           c == es[p].pblk
           fs == RemoveAt(es, p)
           g == [i \in 1 .. n - 1 |-> IF i < p THEN i ELSE i + 1]
<1>1. Typed(nd, fr)
  BY DEF GoodTree
<1>2. /\ nd[b] \in Node /\ nd[b].depth \in Nat /\ nd[b].max \in Nat
      /\ es \in Seq(Entry) /\ n \in Nat /\ DOMAIN es = 1 .. n
      /\ \A i \in 1 .. n : es[i] \in Entry
  BY <1>1, NodeOf
<1>3. p - 1 \in 0 .. n /\ p + 1 \in (p - 1) + 1 .. n + 1 /\ p \in 1 .. n
  BY <1>2
<1>4. fs = Splice(es, p - 1, p + 1, n)
  BY DEF RemoveAt, Splice
<1> HIDE DEF fs
<1>5. /\ fs \in Seq(Entry) /\ Len(fs) = n - 1 /\ DOMAIN fs = 1 .. n - 1
      /\ \A i \in 1 .. n - 1 : fs[i] = es[IF i < p THEN i ELSE i + 1]
  <2> HIDE DEF es, n
  <2>1. (p - 1) + n - (p + 1) + 1 = n - 1
    BY <1>2, <1>3, SMTT(30)
  <2>2. \A i \in 1 .. n - 1 : OldSlot(p - 1, p + 1, i) = IF i < p THEN i ELSE i + 1
    BY <1>2, <1>3 DEF OldSlot
  <2>3. /\ fs \in Seq(Entry) /\ Len(fs) = (p - 1) + n - (p + 1) + 1
        /\ DOMAIN fs = 1 .. (p - 1) + n - (p + 1) + 1
        /\ \A i \in 1 .. (p - 1) + n - (p + 1) + 1 : fs[i] = es[OldSlot(p - 1, p + 1, i)]
    <3> DEFINE sp == Splice(es, p - 1, p + 1, n)
    <3>1. /\ sp \in Seq(Entry) /\ Len(sp) = (p - 1) + n - (p + 1) + 1
          /\ DOMAIN sp = 1 .. (p - 1) + n - (p + 1) + 1
          /\ \A i \in 1 .. (p - 1) + n - (p + 1) + 1 : sp[i] = es[OldSlot(p - 1, p + 1, i)]
      <4>1. n \in Nat /\ es \in [1 .. n -> Entry]
        BY <1>2, LenProperties
      <4>2. SpliceLaw(es, p - 1, p + 1, n)
        BY ONLY <4>1, <1>3, Spliced
      <4> QED
        BY ONLY <4>2 DEF SpliceLaw
    <3> QED
      BY <3>1, <1>4
  <2>4. fs \in Seq(Entry) /\ Len(fs) = n - 1 /\ DOMAIN fs = 1 .. n - 1
    BY <2>1, <2>3
  <2>5. ASSUME NEW i \in 1 .. n - 1
        PROVE  fs[i] = es[IF i < p THEN i ELSE i + 1]
    <3>1. fs[i] = es[OldSlot(p - 1, p + 1, i)]
      BY <2>1, <2>3
    <3>2. OldSlot(p - 1, p + 1, i) = IF i < p THEN i ELSE i + 1
      BY <2>2
    <3> QED
      BY <3>1, <3>2
  <2> QED
    BY <2>4, <2>5
<1>6. /\ DOMAIN nn = DOMAIN nd /\ \A x \in DOMAIN nd : x # b => nn[x] = nd[x]
      /\ nn[b] = [nd[b] EXCEPT !.ents = fs]
  BY DEF fs
<1>7. nn[b].depth = nd[b].depth /\ nn[b].max = nd[b].max /\ nn[b].ents = fs /\ nn[b] \in Node
  BY <1>2, <1>5, <1>6 DEF Node
<1>8. nn \in [DOMAIN nd -> Node]
  BY <1>1, <1>6, <1>7 DEF Typed
<1>9. \A i \in 1 .. n - 1 : g[i] \in 1 .. n /\ g[i] = (IF i < p THEN i ELSE i + 1) /\ g[i] # p
  BY <1>2, <1>3, SMTT(30)
<1>10. \A i, j \in 1 .. n - 1 : i < j => g[i] < g[j]
  BY <1>2, <1>3
<1> HIDE DEF g
<1>11. Shrunk(nd, nn, b, g)
  <2>1. \A i \in DOMAIN nn[b].ents :
           g[i] \in DOMAIN nd[b].ents /\ Within(nn[b].ents[i], nd[b].ents[g[i]], nd[b].depth)
    <3> SUFFICES ASSUME NEW i \in 1 .. n - 1
                 PROVE  g[i] \in DOMAIN es /\ Within(fs[i], es[g[i]], nd[b].depth)
      BY <1>5, <1>7
    <3>1. g[i] \in DOMAIN es /\ fs[i] = es[g[i]]
      BY <1>2, <1>5, <1>9
    <3> QED
      BY <3>1, WithinItself
  <2>2. Len(nn[b].ents) <= Len(nd[b].ents)
    BY <1>2, <1>5, <1>7
  <2>3. \A i, j \in DOMAIN nn[b].ents : i < j => g[i] < g[j]
    BY <1>5, <1>7, <1>10
  <2> QED
    BY <1>6, <1>7, <1>8, <2>1, <2>2, <2>3 DEF Shrunk
<1>12. GoodTree(nn, fr, U)
  <2>1. GoodTree(nn, fr \cup {}, U)
    <3>1. {} \subseteq PBlk /\ {} \cap DOMAIN nd = {} /\ Unowned(nn, {})
      BY DEF Unowned
    <3> QED
      BY <3>1, <1>11, ShrunkTree
  <2>2. fr \cup {} = fr
    OBVIOUS
  <2> QED
    BY <2>1, <2>2
<1>13. Unowned(nn, {c})
  <2> SUFFICES ASSUME NEW s \in SlotsOf(nn), c \in OwnedBy(nn, s) PROVE FALSE
    BY DEF Unowned
  <2>1. PICK x \in DOMAIN nn : \E i \in DOMAIN nn[x].ents :
           s = <<x, i>> /\ OwnedBy(nn, s) = Refers(nn[x].ents[i], nn[x].depth)
    BY ONLY s \in SlotsOf(nn), SlotOut
  <2>2. PICK i \in DOMAIN nn[x].ents :
           s = <<x, i>> /\ OwnedBy(nn, s) = Refers(nn[x].ents[i], nn[x].depth)
    BY <2>1
  <2>3. <<b, p>> \in SlotsOf(nd) /\ OwnedBy(nd, <<b, p>>) = Refers(es[p], nd[b].depth)
    BY SlotIn
  <2>4. c \in OwnedBy(nd, <<b, p>>)
    BY <2>3 DEF Refers
  <2>5. PICK j \in DOMAIN nd[x].ents : <<x, j>> # <<b, p>> /\ nn[x].ents[i] = nd[x].ents[j]
                                       /\ nn[x].depth = nd[x].depth
    <3>1. CASE x = b
      <4>1. i \in 1 .. n - 1
        BY <2>2, <3>1, <1>5, <1>7
      <4>2. g[i] \in DOMAIN nd[x].ents /\ g[i] # p
        BY <3>1, <4>1, <1>2, <1>9
      <4>3. nn[x].ents[i] = nd[x].ents[g[i]] /\ nn[x].depth = nd[x].depth
        <5>1. fs[i] = es[g[i]]
          BY <4>1, <1>5, <1>9
        <5> QED
          BY <5>1, <3>1, <1>7
      <4>4. <<x, g[i]>> # <<b, p>>
        BY <4>2
      <4> QED
        BY <4>2, <4>3, <4>4
    <3>2. CASE x # b
      BY <2>2, <3>2, <1>6
    <3> QED
      BY <3>1, <3>2
  <2>6. <<x, j>> \in SlotsOf(nd) /\ OwnedBy(nd, <<x, j>>) = Refers(nd[x].ents[j], nd[x].depth)
    BY <1>6, <2>5, SlotIn
  <2>7. c \in OwnedBy(nd, <<x, j>>)
    BY <2>2, <2>5, <2>6
  <2> QED
    BY <2>3, <2>4, <2>5, <2>6, <2>7 DEF GoodTree, OwnersDiffer
<1>14. SlotGone(nd, nn, b, p)
  <2>1. \A i \in 1 .. n - 1 : i < p => nn[b].ents[i] = es[i]
    BY <1>5, <1>7
  <2>2. \A i \in 1 .. n - 1 : ~ (i < p) => nn[b].ents[i] = es[i + 1]
    BY <1>5, <1>7
  <2> QED
    BY <1>2, <1>5, <1>6, <1>7, <2>1, <2>2 DEF SlotGone
<1> QED
  BY <1>12, <1>13, <1>14

\* A tree in which a removal from block l on has come down the first m elements of a
\* path.
Standing(nd, fr, U, pt, m, l) ==
    /\ GoodTree(nd, fr, U) /\ Family(nd) /\ Filled(nd, pt[m].blk)
    /\ Route(nd, pt, m) /\ Behind(nd, pt, m, l)

\* No entry of node b from slot p on starts before l.
NoneBefore(nd, b, p, l) == \A j \in DOMAIN nd[b].ents : p <= j => l <= nd[b].ents[j].lblk

WithoutSlot(nd, b, p) == [nd EXCEPT ![b].ents = RemoveAt(@, p)]
WithoutNode(nd, c) == [x \in DOMAIN nd \ {c} |-> nd[x]]

\* The nodes above element k of the path are as they were, and when slot 1 of its own
\* node is gone then slot 2 has become the first.
AboveKept(nd, nn, pt, k) ==
    LET b == pt[k].blk
    IN  /\ b \in DOMAIN nn /\ nn[b].depth > 0
        /\ \A j \in 1 .. k - 1 : nn[pt[j].blk] = nd[pt[j].blk]
        /\ 1 \in DOMAIN nn[b].ents =>
              Len(nd[b].ents) > 1 /\ (pt[k].pos = 1 => nn[b].ents[1] = nd[b].ents[2])

\* The tree without slot pt[k] and without its child, which has no entries.
LEMMA DroppedChild ==
    ASSUME NEW nd, NEW fr, NEW U, GoodTree(nd, fr, U), NEW pt, NEW k \in Nat \ {0},
           Route(nd, pt, k + 1), nd[pt[k + 1].blk].ents = <<>>,
           Family(nd), Filled(nd, pt[k + 1].blk),
           NEW l \in Nat, Behind(nd, pt, k + 1, l),
           NEW n1, n1 = WithoutSlot(nd, pt[k].blk, pt[k].pos),
           NEW n2, n2 = WithoutNode(n1, pt[k + 1].blk)
    PROVE  /\ Standing(n2, fr \cup {pt[k + 1].blk}, OnNodes(U, n2), pt, k, l)
           /\ NoneBefore(n2, pt[k].blk, pt[k].pos, l)
           /\ AboveKept(nd, n2, pt, k)
<1> USE DEF WithoutSlot, WithoutNode
<1> DEFINE b == pt[k].blk
           c == pt[k + 1].blk
           p == pt[k].pos
           es == nd[b].ents
           n == Len(es)
<1>1. /\ Typed(nd, fr) /\ k + 1 \in Nat /\ k + 1 \in Nat \ {0} /\ k \in 1 .. (k + 1) - 1
      /\ k + 1 \in 1 .. k + 1 /\ k \in 1 .. k + 1
  BY DEF GoodTree
<1>2. /\ b \in DOMAIN nd /\ c \in DOMAIN nd \ {Root} /\ nd[b].depth > 0
      /\ p \in DOMAIN es /\ es[p].pblk = c
  BY ONLY <1>1, GoodTree(nd, fr, U), Route(nd, pt, k + 1), RouteStep
<1>3. /\ DOMAIN n1 = DOMAIN nd /\ \A x \in DOMAIN nd : x # b => n1[x] = nd[x]
      /\ n1[b].depth = nd[b].depth
      /\ DOMAIN n1[b].ents = 1 .. n - 1 /\ n \in Nat
      /\ \A i \in 1 .. n - 1 : i < p => n1[b].ents[i] = es[i]
      /\ \A i \in 1 .. n - 1 : ~ (i < p) => n1[b].ents[i] = es[i + 1]
      /\ GoodTree(n1, fr, U) /\ Unowned(n1, {c})
  <2>1. SlotGone(nd, n1, b, p) /\ GoodTree(n1, fr, U) /\ Unowned(n1, {nd[b].ents[p].pblk})
    BY <1>2, IndexRemoved
  <2> QED
    BY <2>1, <1>2 DEF SlotGone
<1>4. \A j \in 1 .. k + 1 : \A i \in 1 .. k + 1 : pt[j].blk = pt[i].blk => j = i
  BY <1>1, RouteDistinct
<1>5. b # c /\ \A j \in 1 .. k - 1 : j \in 1 .. k + 1 /\ pt[j].blk # b /\ pt[j].blk # c
  BY <1>1, <1>4
<1>6. /\ DOMAIN n2 = DOMAIN nd \ {c} /\ \A x \in DOMAIN n2 : n2[x] = n1[x]
      /\ b \in DOMAIN n2 /\ n2[b] = n1[b] /\ n2[b].depth > 0
  BY <1>2, <1>3, <1>5
<1>7. GoodTree(n2, fr \cup {c}, OnNodes(U, n2))
  <2>1. c \in DOMAIN n1 \ {Root} /\ n2 = [x \in DOMAIN n1 \ {c} |-> n1[x]]
    BY <1>2, <1>3
  <2> HIDE DEF c
  <2> QED
    BY ONLY <2>1, <1>3, PrunedTree
<1>8. n \in Nat /\ DOMAIN es = 1 .. n /\ p \in 1 .. n
  BY <1>1, <1>2, NodeOf
<1> HIDE DEF b, c, p, es, n
<1>9. Family(n2)
  <2> SUFFICES ASSUME NEW x \in DOMAIN n2 \ {Root} PROVE Child(n2, x)
    BY DEF Family
  <2>1. x \in DOMAIN nd \ {Root} /\ x # c
    BY <1>6
  <2>2. PICK y \in DOMAIN nd :
           nd[y].depth > 0 /\ \E i \in DOMAIN nd[y].ents : nd[y].ents[i].pblk = x
    BY <2>1 DEF Family, Child
  <2>3. PICK i \in DOMAIN nd[y].ents : nd[y].ents[i].pblk = x
    BY <2>2
  <2>4. y # c
    <3>1. nd[c].ents = <<>>
      BY DEF c
    <3>2. DOMAIN nd[c].ents = {}
      BY <3>1
    <3> QED
      BY <3>2, <2>3
  <2>5. y \in DOMAIN n2 /\ n2[y] = n1[y]
    BY <2>4, <1>6
  <2>6. CASE y # b
    <3>1. n2[y] = nd[y]
      BY <2>5, <2>6, <1>3
    <3> QED
      BY <3>1, <2>2, <2>3, <2>5 DEF Child
  <2>7. CASE y = b
    <3>1. i \in 1 .. n /\ i # p
      <4>1. i \in DOMAIN es /\ es[i].pblk = x
        BY <2>3, <2>7 DEF es
      <4> QED
        BY <4>1, <2>1, <1>2, <1>8
    <3>2. CASE i < p
      <4>1. i \in 1 .. n - 1
        BY <3>1, <3>2, <1>8
      <4>2. n1[b].ents[i] = es[i] /\ i \in DOMAIN n1[b].ents
        BY <4>1, <3>2, <1>3
      <4>3. i \in DOMAIN n2[b].ents /\ n2[b].ents[i].pblk = x
        BY <4>2, <2>3, <2>7, <1>6 DEF es
      <4> QED
        BY <4>3, <1>6 DEF Child
    <3>3. CASE ~ (i < p)
      <4>1. i - 1 \in 1 .. n - 1 /\ ~ (i - 1 < p) /\ (i - 1) + 1 = i
        BY <3>1, <3>3, <1>8
      <4>2. n1[b].ents[i - 1] = es[i] /\ i - 1 \in DOMAIN n1[b].ents
        BY ONLY <4>1, <1>3
      <4>3. i - 1 \in DOMAIN n2[b].ents /\ n2[b].ents[i - 1].pblk = x
        BY <4>2, <2>3, <2>7, <1>6 DEF es
      <4> QED
        BY <4>3, <1>6 DEF Child
    <3> QED
      BY <3>2, <3>3
  <2> QED
    BY <2>6, <2>7
<1>10. Filled(n2, b)
  <2> SUFFICES ASSUME NEW x \in DOMAIN n2 \ {Root, b} PROVE 1 \in DOMAIN n2[x].ents
    BY DEF Filled
  <2>1. x \in DOMAIN nd \ {Root, c} /\ n2[x] = nd[x]
    BY <1>3, <1>6
  <2> QED
    BY <2>1 DEF Filled, c
<1>11. \A j \in 1 .. k - 1 : pt[j].blk \in DOMAIN nd /\ n2[pt[j].blk] = nd[pt[j].blk] /\ pt[j].blk \in DOMAIN n2
  <2> SUFFICES ASSUME NEW j \in 1 .. k - 1
               PROVE pt[j].blk \in DOMAIN nd /\ n2[pt[j].blk] = nd[pt[j].blk] /\ pt[j].blk \in DOMAIN n2
    OBVIOUS
  <2>1. pt[j].blk \in DOMAIN nd
    BY <1>5 DEF Route
  <2> QED
    BY <2>1, <1>3, <1>5, <1>6
<1>12. Root \in DOMAIN n2 /\ n2[Root].depth = nd[Root].depth
  <2>1. Root \in DOMAIN nd
    BY <1>1 DEF Typed
  <2> QED
    BY <2>1, <1>2, <1>3, <1>6
<1>13. Route(n2, pt, k)
  <2>1. k >= 1 => pt[1].blk = Root
    BY DEF Route
  <2>2. ASSUME NEW j \in 1 .. k
        PROVE  pt[j].blk \in DOMAIN n2 /\ n2[pt[j].blk].depth = n2[Root].depth - (j - 1)
    <3>1. j \in 1 .. k + 1 /\ nd[pt[j].blk].depth = nd[Root].depth - (j - 1)
      BY DEF Route
    <3>2. CASE j = k
      BY <3>1, <3>2, <1>3, <1>6, <1>12 DEF b
    <3>3. CASE j # k
      <4>1. j \in 1 .. k - 1
        BY <3>3
      <4> QED
        BY <4>1, <3>1, <1>11, <1>12
    <3> QED
      BY <3>2, <3>3
  <2>3. ASSUME NEW j \in 1 .. k - 1
        PROVE  pt[j].pos \in DOMAIN n2[pt[j].blk].ents
               /\ pt[j + 1].blk = n2[pt[j].blk].ents[pt[j].pos].pblk
    <3>1. j \in 1 .. (k + 1) - 1
      OBVIOUS
    <3> QED
      BY <3>1, <1>11 DEF Route
  <2> QED
    BY <2>1, <2>2, <2>3 DEF Route
<1>14. Behind(n2, pt, k, l)
  <2>1. \A j \in 1 .. k - 1 : j \in 1 .. (k + 1) - 1
    OBVIOUS
  <2> QED
    BY <2>1, <1>11 DEF Behind
<1>15. ASSUME NEW j \in DOMAIN n2[b].ents, p <= j PROVE l <= n2[b].ents[j].lblk
  <2>0. j \in 1 .. n - 1
    BY <1>3, <1>6
  <2>1. j \in 1 .. n - 1 /\ ~ (j < p)
    BY <2>0, <1>8, <1>15
  <2>2. n2[b].ents[j] = es[j + 1]
    BY <2>1, <1>3, <1>6
  <2>3. j + 1 \in DOMAIN es /\ p < j + 1
    BY <2>1, <1>8
  <2>4. l <= es[j + 1].lblk
    BY <2>3, <1>1 DEF Behind, es, b, p
  <2> QED
    BY <2>2, <2>4
<1>16. 1 \in DOMAIN n2[b].ents => n > 1 /\ (p = 1 => n2[b].ents[1] = es[2])
  <2> SUFFICES ASSUME 1 \in DOMAIN n2[b].ents PROVE n > 1 /\ (p = 1 => n2[b].ents[1] = es[2])
    OBVIOUS
  <2>1. 1 \in 1 .. n - 1
    BY <1>3, <1>6
  <2>2. p = 1 => n1[b].ents[1] = es[1 + 1]
    BY ONLY <2>1, <1>3
  <2>3. n > 1 /\ 1 + 1 = 2
    BY <2>1, <1>8
  <2> QED
    BY <2>2, <2>3, <1>6
<1>17. Standing(n2, fr \cup {c}, OnNodes(U, n2), pt, k, l)
  BY <1>7, <1>9, <1>10, <1>13, <1>14 DEF Standing, b
<1>18. NoneBefore(n2, b, p, l)
  BY <1>15 DEF NoneBefore
<1>19. AboveKept(nd, n2, pt, k)
  BY <1>6, <1>11, <1>16 DEF b, p, es, n, AboveKept
<1> QED
  BY <1>17, <1>18, <1>19 DEF b, c, p

\* If the path's end is a first entry, v fits between the key above and its own.
FitsAbove(nd, pt, m, v) ==
    m - 1 \in FirstUpTo(pt, m) =>
       /\ KeyAt(nd, pt, m - 1) <= v
       /\ 1 \in DOMAIN nd[pt[m].blk].ents => v <= nd[pt[m].blk].ents[1].lblk

\* Node b is of the same size in nd and nn and still has no entries before l.
EndKept(nd, nn, b, l) ==
    /\ nn[b].depth = nd[b].depth
    /\ DOMAIN nn[b].ents = DOMAIN nd[b].ents
    /\ \A p : NoneBefore(nd, b, p, l) => NoneBefore(nn, b, p, l)

\* What a path passes may have its keys raised to the first key of its end.
LEMMA KeysRaised ==
    ASSUME NEW nd, NEW fr, NEW U, NEW pt, NEW m \in Nat \ {0}, NEW l \in Nat,
           Standing(nd, fr, U, pt, m, l), NEW v \in Nat, v < U[pt[m].blk],
           FitsAbove(nd, pt, m, v),
           NEW nn, Rekeyed(nd, nn, FirstSlots(pt, m), v)
    PROVE  Standing(nn, fr, U, pt, m, l) /\ EndKept(nd, nn, pt[m].blk, l)
<1> DEFINE b == pt[m].blk
           R == FirstSlots(pt, m)
<1>1. GoodTree(nd, fr, U) /\ Family(nd) /\ Filled(nd, b) /\ Route(nd, pt, m) /\ Behind(nd, pt, m, l)
  BY DEF Standing
<1>2. MayRise(nd, nn, U, R, v)
  BY <1>1, RouteRises DEF FitsAbove
<1> HIDE DEF R, b
<1>3. GoodTree(nn, fr, U) /\ Risen(nd, nn, R, v)
  BY <1>1, <1>2, RekeyedTree, RekeyedEntries DEF R
<1>4. Typed(nn, fr) /\ Typed(nd, fr)
  BY <1>1, <1>3 DEF GoodTree
<1>5. /\ Family(nd) => Family(nn)
      /\ Filled(nd, b) => Filled(nn, b)
      /\ Route(nd, pt, m) => Route(nn, pt, m)
      /\ Route(nd, pt, m) /\ Behind(nd, pt, m, l) => Behind(nn, pt, m, l)
  <2>1. /\ Family(nd) => Family(nn)
        /\ \A h : Filled(nd, h) => Filled(nn, h)
        /\ \A q : \A i \in Nat : Route(nd, q, i) => Route(nn, q, i)
        /\ \A q : \A i \in Nat : \A j \in Nat :
                 Route(nd, q, i) /\ Behind(nd, q, i, j) => Behind(nn, q, i, j)
    BY <1>1, <1>3, <1>4, RisenPlaces DEF R
  <2> QED
    BY <2>1
<1>6. Standing(nn, fr, U, pt, m, l)
  BY <1>1, <1>3, <1>5 DEF Standing, b
<1>7. b \in DOMAIN nd
  <2>1. m \in 1 .. m
    OBVIOUS
  <2> QED
    BY <2>1, <1>1 DEF Route, b
<1>8. nn[b].depth = nd[b].depth /\ DOMAIN nn[b].ents = DOMAIN nd[b].ents
  BY <1>7 DEF Rekeyed
<1>9. ASSUME NEW p, NoneBefore(nd, b, p, l)
      PROVE  NoneBefore(nn, b, p, l)
  <2> SUFFICES ASSUME NEW j \in DOMAIN nn[b].ents, p <= j PROVE l <= nn[b].ents[j].lblk
    BY DEF NoneBefore
  <2>1. l <= nd[b].ents[j].lblk
    BY <1>8, <1>9 DEF NoneBefore
  <2>2. nd[b].ents[j].lblk <= nn[b].ents[j].lblk
    BY <1>3, <1>7, <1>8 DEF Risen
  <2>3. nd[b].ents[j].lblk \in Nat
    BY <1>4, <1>7, <1>8, NodeOf
  <2>4. nn[b].ents[j].lblk \in Nat
    <3>1. b \in DOMAIN nn
      BY <1>7 DEF Rekeyed
    <3> QED
      BY <1>4, <3>1, NodeOf
  <2> QED
    BY <2>1, <2>2, <2>3, <2>4
<1> QED
  BY <1>6, <1>8, <1>9 DEF b, EndKept

\* ext4_ext_remove_idx() takes an empty node out of a tree.
LEMMA DroppedTree ==
    ASSUME NEW nd, NEW fr, NEW U, NEW k \in Nat \ {0}, NEW l \in Nat,
           Standing(nd, fr, U, path, k + 1, l), nd[path[k + 1].blk].ents = <<>>,
           NEW nn, nn = ext4_ext_remove_idx(nd, k)
    PROVE  /\ \E V : Standing(nn, fr \cup {path[k + 1].blk}, V, path, k, l)
           /\ nn[path[k].blk].depth > 0
           /\ NoneBefore(nn, path[k].blk, path[k].pos, l)
<1> DEFINE b == path[k].blk
           c == path[k + 1].blk
           p == path[k].pos
           es == nd[b].ents
           n == Len(es)
           q == IF p < n THEN p + 1 ELSE p
           v == es[q].lblk
           n1 == WithoutSlot(nd, b, p)
           n2 == WithoutNode(n1, c)
           V == OnNodes(U, n2)
           R == FirstSlots(path, k)
<1>1. /\ GoodTree(nd, fr, U) /\ Family(nd) /\ Filled(nd, c)
      /\ Route(nd, path, k + 1) /\ Behind(nd, path, k + 1, l)
  BY DEF Standing
<1>2. Typed(nd, fr) /\ U \in [DOMAIN nd -> Nat] /\ Sorted(nd, U)
  BY <1>1 DEF GoodTree
<1>3. k + 1 \in Nat /\ k \in 1 .. (k + 1) - 1
  OBVIOUS
<1>4. /\ b \in DOMAIN nd /\ c \in DOMAIN nd \ {Root} /\ nd[b].depth > 0
      /\ p \in DOMAIN es /\ es[p].pblk = c /\ U[b] \in Nat
  BY ONLY <1>1, <1>3, RouteStep
<1>5. n \in Nat /\ DOMAIN es = 1 .. n /\ p \in 1 .. n /\ \A i \in 1 .. n : es[i].lblk \in Nat
  BY <1>2, <1>4, NodeOf
<1>6. /\ Standing(n2, fr \cup {c}, V, path, k, l)
      /\ b \in DOMAIN n2 /\ n2[b].depth > 0
      /\ NoneBefore(n2, b, p, l)
      /\ \A j \in 1 .. k - 1 : n2[path[j].blk] = nd[path[j].blk]
      /\ 1 \in DOMAIN n2[b].ents => n > 1 /\ (p = 1 => n2[b].ents[1] = es[2])
  <2>1. n1 = WithoutSlot(nd, path[k].blk, path[k].pos)
    OBVIOUS
  <2>2. n2 = WithoutNode(n1, path[k + 1].blk)
    OBVIOUS
  <2> HIDE DEF n1, n2
  <2>3. /\ Standing(n2, fr \cup {path[k + 1].blk}, OnNodes(U, n2), path, k, l)
        /\ NoneBefore(n2, path[k].blk, path[k].pos, l)
        /\ AboveKept(nd, n2, path, k)
    BY <1>1, <2>1, <2>2, DroppedChild
  <2> QED
    BY <2>3 DEF AboveKept
<1>7. /\ GoodTree(n2, fr \cup {c}, V)
      /\ Family(n2) /\ Filled(n2, b) /\ Route(n2, path, k) /\ Behind(n2, path, k, l)
  BY <1>6 DEF Standing
<1>8. q \in 1 .. n /\ v \in Nat
  <2> HIDE DEF p, n, es
  <2>1. q \in 1 .. n
    BY <1>5
  <2> HIDE DEF q
  <2> QED
    BY <2>1, <1>5
<1>9. v < U[b] /\ V[b] = U[b]
  <2>1. v < EndOf(es[q], nd[b].depth) /\ EndOf(es[q], nd[b].depth) <= U[b]
    BY <1>2, <1>4, <1>5, <1>8 DEF Sorted, Ordered
  <2>2. EndOf(es[q], nd[b].depth) \in Nat
    BY <1>2, <1>4, <1>5, <1>8, NodeOf
  <2>3. V[b] = U[b]
    BY <1>6 DEF OnNodes
  <2> HIDE DEF v, b, es, q, V
  <2> QED
    BY <2>1, <2>2, <2>3, <1>4, <1>8
<1>10. \A x \in DOMAIN nd : x # b => n1[x] = nd[x]
  BY DEF WithoutSlot
<1>11. DOMAIN n2 = DOMAIN nd \ {c} /\ \A x \in DOMAIN n2 : n2[x] = n1[x]
  BY DEF WithoutSlot, WithoutNode
<1>12. n2[b] = n1[b] /\ n1[b] = [nd[b] EXCEPT !.ents = RemoveAt(@, p)]
  BY <1>4, <1>6, <1>11 DEF WithoutSlot
<1>13. nn = [x \in DOMAIN nd \ {c} |->
           IF x = b
           THEN [nd[x] EXCEPT !.ents = RemoveAt(@, p)]
           ELSE [nd[x] EXCEPT !.ents =
                   [i \in DOMAIN @ |->
                      IF \E j \in FirstUpTo(path, k) : path[j].blk = x /\ path[j].pos = i
                      THEN [@[i] EXCEPT !.lblk = v] ELSE @[i]]]]
  BY <1>4 DEF ext4_ext_remove_idx, FirstUpTo
<1> HIDE DEF n1, n2, V, q, v, es, n, b, c, p
<1>14. Typed(n2, fr \cup {c})
  BY <1>7 DEF GoodTree
<1>15. Rekeyed(n2, nn, R, v)
  <2>1. nn[b] = n2[b] /\ b \in DOMAIN nn /\ DOMAIN nn = DOMAIN n2
    BY <1>6, <1>11, <1>12, <1>13
  <2>2. ASSUME NEW i PROVE <<b, i>> \notin R
    <3> SUFFICES ASSUME NEW j \in FirstUpTo(path, k), path[j].blk = b PROVE FALSE
      BY DEF R, FirstSlots
    <3>1. j \in 1 .. k /\ k \in 1 .. k /\ j # k
      BY DEF FirstUpTo
    <3> QED
      BY <3>1, <1>7, <1>14, RouteDistinct DEF b
  <2>3. ASSUME NEW x \in DOMAIN n2, x # b
        PROVE  /\ nn[x] = [n2[x] EXCEPT !.ents =
                             [i \in DOMAIN n2[x].ents |->
                                IF <<x, i>> \in R THEN [n2[x].ents[i] EXCEPT !.lblk = v]
                                ELSE n2[x].ents[i]]]
    <3>1. n2[x] = nd[x] /\ x \in DOMAIN nd \ {c}
      BY <2>3, <1>10, <1>11
    <3>2. \A i : (\E j \in FirstUpTo(path, k) : path[j].blk = x /\ path[j].pos = i)
                   <=> <<x, i>> \in R
      BY DEF R, FirstSlots
    <3> HIDE DEF R
    <3>3. nn[x] = [nd[x] EXCEPT !.ents =
                   [i \in DOMAIN @ |->
                      IF \E j \in FirstUpTo(path, k) : path[j].blk = x /\ path[j].pos = i
                      THEN [@[i] EXCEPT !.lblk = v] ELSE @[i]]]
      BY <3>1, <2>3, <1>13
    <3>4. [i \in DOMAIN nd[x].ents |->
                      IF \E j \in FirstUpTo(path, k) : path[j].blk = x /\ path[j].pos = i
                      THEN [nd[x].ents[i] EXCEPT !.lblk = v] ELSE nd[x].ents[i]]
          = [i \in DOMAIN nd[x].ents |->
                      IF <<x, i>> \in R
                      THEN [nd[x].ents[i] EXCEPT !.lblk = v] ELSE nd[x].ents[i]]
      BY <3>2
    <3> QED
      BY <3>1, <3>3, <3>4
  <2> HIDE DEF R
  <2>4. ASSUME NEW x \in DOMAIN n2
        PROVE  /\ nn[x] \in Node /\ nn[x].depth = n2[x].depth /\ nn[x].max = n2[x].max
               /\ DOMAIN nn[x].ents = DOMAIN n2[x].ents
               /\ \A i \in DOMAIN n2[x].ents :
                nn[x].ents[i] = IF <<x, i>> \in R THEN [n2[x].ents[i] EXCEPT !.lblk = v]
                                ELSE n2[x].ents[i]
    <3>1. CASE x = b
      BY <3>1, <2>1, <2>2, <1>14, NodeOf
    <3>2. CASE x # b
      <4> DEFINE fs == [i \in DOMAIN n2[x].ents |->
                                IF <<x, i>> \in R THEN [n2[x].ents[i] EXCEPT !.lblk = v]
                                ELSE n2[x].ents[i]]
      <4>1. /\ n2[x] \in Node /\ Len(n2[x].ents) \in Nat
            /\ DOMAIN n2[x].ents = 1 .. Len(n2[x].ents)
            /\ \A i \in DOMAIN n2[x].ents : n2[x].ents[i] \in Entry
        BY <1>14, NodeOf
      <4>2. \A i \in DOMAIN n2[x].ents : fs[i] \in Entry
        BY <4>1, <1>8 DEF Entry
      <4>3. fs \in Seq(Entry)
        <5>1. fs \in [1 .. Len(n2[x].ents) -> Entry]
          BY <4>1, <4>2
        <5> HIDE DEF fs
        <5> QED
          BY <5>1, <4>1, SeqDef
      <4>4. nn[x] = [n2[x] EXCEPT !.ents = fs]
        BY <2>3, <3>2
      <4>5. DOMAIN fs = DOMAIN n2[x].ents
        OBVIOUS
      <4>6. \A i \in DOMAIN n2[x].ents :
                fs[i] = IF <<x, i>> \in R THEN [n2[x].ents[i] EXCEPT !.lblk = v]
                                ELSE n2[x].ents[i]
        OBVIOUS
      <4> HIDE DEF fs
      <4>7. nn[x] \in Node /\ nn[x].depth = n2[x].depth /\ nn[x].max = n2[x].max /\ nn[x].ents = fs
        BY <4>1, <4>3, <4>4 DEF Node
      <4> QED
        BY <4>5, <4>6, <4>7
    <3> QED
      BY <3>1, <3>2
  <2>5. nn \in [DOMAIN n2 -> Node]
    BY <2>1, <2>4, <1>13
  <2> QED
    BY <2>4, <2>5 DEF Rekeyed
<1>16. ASSUME k - 1 \in FirstUpTo(path, k)
       PROVE  /\ KeyAt(n2, path, k - 1) <= v
              /\ 1 \in DOMAIN n2[b].ents => v <= n2[b].ents[1].lblk
  <2>1. k - 1 \in 1 .. k - 1 /\ p = 1
    BY <1>16 DEF FirstUpTo, p
  <2>2. /\ k - 1 \in 1 .. (k + 1) - 1 /\ (k - 1) + 1 = k
        /\ 1 \in DOMAIN es
    BY <2>1, <1>4
  <2>3. /\ nd[path[k - 1].blk].ents[path[k - 1].pos].lblk \in Nat
        /\ nd[path[k - 1].blk].ents[path[k - 1].pos].lblk <= es[1].lblk
    BY ONLY <2>2, <1>1, <1>3, RouteStep DEF es, b
  <2>4. KeyAt(n2, path, k - 1) = nd[path[k - 1].blk].ents[path[k - 1].pos].lblk
    BY <2>1, <1>6 DEF KeyAt
  <2>5. es[1].lblk <= v
    <3>1. CASE n = 1
      <4>1. v = es[1].lblk
        BY <3>1, <2>1 DEF v, q
      <4> QED
        BY <4>1, <1>8
    <3>2. CASE n # 1
      <4>1. v = es[2].lblk /\ 2 \in 1 .. n /\ 1 \in 1 .. n
        BY <3>2, <2>1, <1>5 DEF v, q
      <4>2. EndOf(es[1], nd[b].depth) <= es[2].lblk /\ es[1].lblk < EndOf(es[1], nd[b].depth)
        BY <4>1, <1>2, <1>4, <1>5 DEF Sorted, Ordered, es
      <4>3. EndOf(es[1], nd[b].depth) \in Nat
        BY <4>1, <1>2, <1>4, <1>5, NodeOf DEF es
      <4> QED
        BY <4>1, <4>2, <4>3, <1>5
    <3> QED
      BY <3>1, <3>2
  <2>6. 1 \in DOMAIN n2[b].ents => v <= n2[b].ents[1].lblk
    <3> SUFFICES ASSUME 1 \in DOMAIN n2[b].ents PROVE v <= n2[b].ents[1].lblk
      OBVIOUS
    <3>1. n > 1 /\ n2[b].ents[1] = es[2]
      BY <2>1, <1>6
    <3>2. v = es[2].lblk
      BY <3>1, <2>1, <1>5 DEF v, q
    <3> QED
      BY <3>1, <3>2, <1>8
  <2>7. es[1].lblk \in Nat
    BY <2>2, <1>5
  <2>8. KeyAt(n2, path, k - 1) <= v
    BY ONLY <2>3, <2>4, <2>5, <2>7, <1>8
  <2> QED
    BY ONLY <2>6, <2>8
<1>17. /\ Standing(nn, fr \cup {c}, V, path, k, l)
       /\ nn[b].depth = n2[b].depth
       /\ NoneBefore(n2, b, p, l) => NoneBefore(nn, b, p, l)
  <2>1. v < V[path[k].blk] /\ v \in Nat
    BY <1>8, <1>9 DEF b
  <2>2. FitsAbove(n2, path, k, v)
    BY <1>16 DEF b, FitsAbove
  <2>3. Rekeyed(n2, nn, FirstSlots(path, k), v)
    BY <1>15 DEF R
  <2> HIDE DEF R
  <2>4. PICK f : f = fr \cup {c}
    OBVIOUS
  <2>5. Standing(n2, f, V, path, k, l)
    BY <1>6, <2>4
  <2>6. Standing(nn, f, V, path, k, l) /\ EndKept(n2, nn, path[k].blk, l)
    BY ONLY k \in Nat \ {0}, l \in Nat, <2>5, <2>1, <2>2, <2>3, KeysRaised
  <2> QED
    BY <2>4, <2>6 DEF b, EndKept
<1> QED
  BY <1>6, <1>17 DEF b, c, p

-----------------------------------------------------------------------------
(* What is left of an extent and of a leaf.                                *)

\* The k blocks of extent e from file block l on, which is in block q.
Part(e, l, q, k) ==
    LET c == [lblk |-> l, pblk |-> q, len |-> AsRaw(k)]
    IN  IF ext4_ext_is_unwritten(e) THEN ext4_ext_mark_unwritten(c) ELSE c

IsPart(h, e, l, q, k) ==
    /\ h \in Entry /\ h.lblk = l /\ h.pblk = q /\ ee_len(h) = k
    /\ Within(h, e, 0) /\ Refers(h, 0) = q .. q + k - 1

\* A part of an extent that is cut out of it keeps its mark, and its blocks are among
\* those of the extent.
LEMMA PartOfExtent ==
    ASSUME NEW e \in Entry, NEW l \in Nat, NEW q \in Int, NEW k \in Nat,
           1 <= k, e.lblk <= l, l + k <= End(e), q - e.pblk = l - e.lblk
    PROVE  IsPart(Part(e, l, q, k), e, l, q, k)
<1> DEFINE c == [lblk |-> l, pblk |-> q, len |-> AsRaw(k)]
           h == Part(e, l, q, k)
           n == ee_len(e)
<1>1. n \in 0 .. InitMax - 1 /\ InitMax \in Nat \ {0, 1} /\ e.lblk \in Nat /\ e.pblk \in Int
  BY RawLengths, InitMaxAssumption DEF Entry
<1>2. End(e) = e.lblk + n
  BY DEF End
<1> HIDE DEF n
<1>3. k \in 1 .. InitMax - 1 /\ k \in 0 .. 2 * InitMax - 1
  BY <1>1, <1>2
<1>4. AsRaw(k) = k
  BY <1>3, RawOf
<1>5. c \in Entry /\ c.lblk = l /\ c.pblk = q /\ c.len = k
  BY <1>3, <1>4 DEF Entry, RawLen
<1> HIDE DEF c
<1>6. ee_len(c) = k
  BY <1>1, <1>3, <1>5, PlainLength
<1>7. LET m == ext4_ext_mark_unwritten(c)
      IN  m \in Entry /\ m.lblk = l /\ m.pblk = q /\ ee_len(m) = k
  <2>1. ext4_ext_mark_unwritten(c) \in Entry
    BY <1>1, <1>3, <1>5 DEF ext4_ext_mark_unwritten, Entry, RawLen
  <2> QED
    BY <1>5, <1>6, <2>1, MarkedLength
<1>8. h = c \/ h = ext4_ext_mark_unwritten(c)
  BY DEF Part, c
<1>9. h \in Entry /\ h.lblk = l /\ h.pblk = q /\ ee_len(h) = k
  BY <1>5, <1>6, <1>7, <1>8
<1> HIDE DEF h
<1>10. Refers(h, 0) = q .. q + k - 1 /\ Refers(e, 0) = e.pblk .. e.pblk + n - 1
  BY <1>9 DEF Refers, n
<1>11. EndOf(h, 0) = l + k /\ EndOf(e, 0) = e.lblk + n
  BY <1>2, <1>9 DEF EndOf, End
<1>12. q .. q + k - 1 \subseteq e.pblk .. e.pblk + n - 1
  BY <1>1, <1>2
<1>13. Within(h, e, 0)
  BY <1>1, <1>2, <1>9, <1>10, <1>11, <1>12 DEF Within
<1> QED
  BY <1>9, <1>10, <1>13 DEF IsPart, h

\* The removal takes the last block of an initialised extent for what it is, and that of
\* an unwritten one for a block before the extent.
LEMMA LastBlocks ==
    ASSUME NEW e \in Entry
    PROVE  /\ e.lblk \in Nat /\ End(e) \in Nat /\ LastBlock(e) \in Int
           /\ LastBlock(e) <= End(e) - 1
           /\ e.lblk <= LastBlock(e) => LastBlock(e) = End(e) - 1 /\ ~ ext4_ext_is_unwritten(e)
<1>1. /\ InitMax \in Nat /\ InitMax > 1 /\ e.len \in Nat /\ e.lblk \in Nat
      /\ e.len < 2 * InitMax
  BY InitMaxAssumption DEF Entry, RawLen
<1>2. /\ ee_len(e) \in 0 .. InitMax - 1
      /\ ext4_ext_get_actual_len(e) =
            IF e.len < InitMax THEN ee_len(e) ELSE ee_len(e) - 2 * InitMax
      /\ ext4_ext_is_unwritten(e) <=> e.len >= InitMax
  BY LengthValues
<1>3. End(e) = e.lblk + ee_len(e)
  BY DEF End
<1>4. LastBlock(e) = e.lblk + ext4_ext_get_actual_len(e) - 1
  BY DEF LastBlock
<1>5. CASE e.len < InitMax
  BY ONLY <1>1, <1>2, <1>3, <1>4, <1>5
<1>6. CASE ~ (e.len < InitMax)
  BY ONLY <1>1, <1>2, <1>3, <1>4, <1>6
<1> QED
  BY <1>5, <1>6

\* An extent in which the removal finds a block has the block, and its last block is the
\* one the removal computes.
LEMMA FoundIsThere ==
    ASSUME NEW e \in Entry, NEW l \in Nat, Covers(e, ext4_ext_get_actual_len(e), l)
    PROVE  Covers(e, ee_len(e), l) /\ LastBlock(e) = End(e) - 1
<1>1. /\ e.lblk \in Nat /\ End(e) \in Nat /\ LastBlock(e) \in Int
      /\ e.lblk <= LastBlock(e) => LastBlock(e) = End(e) - 1
  BY LastBlocks
<1>2. ext4_ext_get_actual_len(e) \in Int /\ ee_len(e) \in Nat
  BY LengthValues, InitMaxAssumption
<1>3. e.lblk <= l /\ l < e.lblk + ext4_ext_get_actual_len(e)
  BY DEF Covers
<1>4. l <= LastBlock(e)
  BY <1>1, <1>2, <1>3 DEF LastBlock
<1>5. LastBlock(e) = End(e) - 1
  BY <1>1, <1>3, <1>4
<1>6. l < e.lblk + ee_len(e)
  BY <1>1, <1>2, <1>4, <1>5 DEF End
<1> QED
  BY <1>3, <1>5, <1>6 DEF Covers

\* What is freed of an extent are blocks of it, none before the range when it keeps its
\* head and none behind the range when it keeps its tail.
LEMMA FreedOfExtent ==
    ASSUME NEW e \in Entry, NEW f \in Nat, NEW t \in Int,
           NEW x \in ext4_ext_remove_blocks(e, f, t)
    PROVE  \E y \in e.lblk .. End(e) - 1 :
              /\ x = y - e.lblk + e.pblk
              /\ KeepsHead(e, f) => f <= y
              /\ KeepsTail(e, f, t) => y <= t
<1> DEFINE from == IF KeepsHead(e, f) THEN f ELSE e.lblk
           last == IF KeepsTail(e, f, t) THEN t ELSE LastBlock(e)
<1>1. PICK y \in from .. last : x = y - e.lblk + e.pblk
  BY DEF ext4_ext_remove_blocks
<1>2. e.lblk \in Nat /\ End(e) \in Nat /\ LastBlock(e) \in Int /\ LastBlock(e) <= End(e) - 1
  BY LastBlocks
<1>3. e.lblk <= from /\ from \in Nat /\ (KeepsHead(e, f) => from = f)
  BY <1>2 DEF KeepsHead
<1>4. last <= LastBlock(e) /\ last \in Int /\ (KeepsTail(e, f, t) => last = t)
  BY <1>2 DEF KeepsTail
<1> HIDE DEF from, last
<1>5. y \in Int /\ e.lblk <= y /\ y <= End(e) - 1
  BY <1>1, <1>2, <1>3, <1>4
<1> QED
  BY <1>1, <1>2, <1>3, <1>4, <1>5

\* What is left of an extent is a part of it, or it is left alone.
LEMMA RemainderCases ==
    ASSUME NEW e, NEW f, NEW t
    PROVE  /\ KeepsHead(e, f) /\ ~ KeepsTail(e, f, t) =>
                 Remainder(e, f, t) = Part(e, e.lblk, e.pblk, f - e.lblk)
           /\ ~ KeepsHead(e, f) /\ KeepsTail(e, f, t) =>
                 Remainder(e, f, t) =
                    Part(e, t + 1, e.pblk + t + 1 - e.lblk, LastBlock(e) - t)
           /\ ~ KeepsHead(e, f) /\ ~ KeepsTail(e, f, t) => Remainder(e, f, t) = e
<1> DEFINE x == Part(e, e.lblk, e.pblk, f - e.lblk)
           y == Part(e, t + 1, e.pblk + t + 1 - e.lblk, LastBlock(e) - t)
<1>1. Remainder(e, f, t) =
         CASE KeepsHead(e, f) -> x [] KeepsTail(e, f, t) -> y [] OTHER -> e
  BY Zenon DEF Remainder, Part
<1> HIDE DEF x, y
<1> QED
  BY <1>1 DEF x, y

\* What is left of an extent lies in it and refers to no block that is freed.
LEMMA RemainderFits ==
    ASSUME NEW e \in Entry, NEW f \in Nat, NEW t \in Int, e.lblk < End(e),
           KeepsHead(e, f) => f < End(e), e.lblk <= t
    PROVE  /\ Remainder(e, f, t) \in Entry /\ Within(Remainder(e, f, t), e, 0)
           /\ KeepsHead(e, f) \/ KeepsTail(e, f, t) =>
                 Refers(Remainder(e, f, t), 0) \cap ext4_ext_remove_blocks(e, f, t) = {}
<1> DEFINE n == ee_len(e)
           F == ext4_ext_remove_blocks(e, f, t)
<1>1. n \in Nat /\ e.lblk \in Nat /\ e.pblk \in Int /\ End(e) = e.lblk + n /\ n >= 1
  BY RawLengths DEF Entry, End
<1>2. \A x \in F : \E y \in e.lblk .. End(e) - 1 :
                       /\ x = y - e.lblk + e.pblk
                       /\ KeepsHead(e, f) => f <= y
                       /\ KeepsTail(e, f, t) => y <= t
  BY FreedOfExtent
<1> HIDE DEF n, F
<1>3. CASE KeepsHead(e, f)
  <2> DEFINE h == Part(e, e.lblk, e.pblk, f - e.lblk)
  <2>1. Remainder(e, f, t) = h
    <3>1. ~ KeepsTail(e, f, t)
      BY <1>1, <1>3 DEF KeepsHead, KeepsTail
    <3> QED
      BY <1>3, <3>1, RemainderCases
  <2>2. e.lblk < f /\ f < End(e)
    BY <1>3 DEF KeepsHead
  <2>3. PICK k : k = f - e.lblk
    OBVIOUS
  <2>4. k \in Nat /\ 1 <= k /\ e.lblk <= e.lblk /\ e.lblk + k <= End(e)
        /\ e.pblk - e.pblk = e.lblk - e.lblk
    BY <2>2, <2>3, <1>1
  <2>5. IsPart(Part(e, e.lblk, e.pblk, k), e, e.lblk, e.pblk, k)
    BY <2>4, <1>1, PartOfExtent
  <2>6. h \in Entry /\ Within(h, e, 0) /\ Refers(h, 0) = e.pblk .. e.pblk + k - 1
    BY <2>3, <2>5 DEF IsPart
  <2> HIDE DEF h
  <2>7. ASSUME NEW x \in F, x \in e.pblk .. e.pblk + k - 1 PROVE FALSE
    <3>1. PICK y \in e.lblk .. End(e) - 1 : x = y - e.lblk + e.pblk /\ f <= y
      BY <1>2, <1>3
    <3> QED
      BY <3>1, <2>3, <2>7, <1>1
  <2>8. (e.pblk .. e.pblk + k - 1) \cap F = {}
    <3> DEFINE P == e.pblk .. e.pblk + k - 1
    <3>1. \A x \in F : x \notin P
      BY <2>7
    <3> HIDE DEF P
    <3>2. P \cap F = {}
      BY <3>1
    <3> QED
      BY <3>2 DEF P
  <2> QED
    BY <2>1, <2>6, <2>8 DEF F
<1>4. CASE ~ KeepsHead(e, f) /\ KeepsTail(e, f, t)
  <2> DEFINE h == Part(e, t + 1, e.pblk + t + 1 - e.lblk, LastBlock(e) - t)
  <2>1. Remainder(e, f, t) = h
    <3>1. ~ KeepsHead(e, f) /\ KeepsTail(e, f, t) => Remainder(e, f, t) = h
      BY ONLY RemainderCases, Zenon
    <3> QED
      BY <1>4, <3>1, Zenon
  <2>2. LastBlock(e) > t /\ LastBlock(e) = End(e) - 1
    <3>1. LastBlock(e) > t
      BY <1>4 DEF KeepsTail
    <3>2. e.lblk <= LastBlock(e)
      BY <3>1, <1>1, LastBlocks
    <3> QED
      BY <3>1, <3>2, LastBlocks
  <2>3. PICK k : k = LastBlock(e) - t
    OBVIOUS
  <2>4. PICK q : q = e.pblk + t + 1 - e.lblk
    OBVIOUS
  <2>9. PICK l : l = t + 1
    OBVIOUS
  <2>5. k \in Nat /\ 1 <= k /\ l \in Nat /\ e.lblk <= l /\ l + k <= End(e)
        /\ q \in Int /\ q - e.pblk = l - e.lblk
    BY <2>2, <2>3, <2>4, <2>9, <1>1
  <2>6. IsPart(Part(e, l, q, k), e, l, q, k)
    BY <2>5, PartOfExtent
  <2>7. h \in Entry /\ Within(h, e, 0) /\ Refers(h, 0) = q .. q + k - 1
    BY <2>3, <2>4, <2>6, <2>9 DEF IsPart
  <2> HIDE DEF h
  <2>8. ASSUME NEW x \in F, x \in q .. q + k - 1 PROVE FALSE
    <3>1. PICK y \in e.lblk .. End(e) - 1 : x = y - e.lblk + e.pblk /\ y <= t
      BY <1>2, <1>4
    <3> QED
      BY <3>1, <2>4, <2>5, <2>8, <1>1
  <2>10. (q .. q + k - 1) \cap F = {}
    <3> DEFINE P == q .. q + k - 1
    <3>1. \A x \in F : x \notin P
      BY <2>8
    <3> HIDE DEF P
    <3>2. P \cap F = {}
      BY <3>1
    <3> QED
      BY <3>2 DEF P
  <2> QED
    BY <2>1, <2>7, <2>10 DEF F
<1>5. CASE ~ KeepsHead(e, f) /\ ~ KeepsTail(e, f, t)
  <2>1. Remainder(e, f, t) = e
    BY <1>5, RemainderCases
  <2>2. EndOf(e, 0) = End(e)
    BY DEF EndOf
  <2> QED
    BY <1>1, <1>5, <2>1, <2>2 DEF Within
<1> QED
  BY <1>3, <1>4, <1>5

\* A non-empty set of slots has a least one, and Min finds it.
LEMMA MinOfSlots ==
    ASSUME NEW S, S \subseteq Nat, S # {}
    PROVE  Min(S) \in S /\ \A y \in S : Min(S) <= y
<1>1. \E x \in S : \A y \in S : x <= y
  BY LeastOf
<1> QED
  BY <1>1 DEF Min

\* Where the entries of a leaf are cut: those before slot stop start in the range, the
\* first of them may keep its head and the last one its tail.
CutPlace(es, p, f, t, stop, a, z) ==
    LET n == Len(es)
    IN  /\ stop \in p .. n + 1 /\ InReach(es, p, t) = p .. stop - 1
        /\ \A k \in p .. stop - 1 : es[k].lblk <= t
        /\ \A k \in stop .. n : t < es[k].lblk
        /\ \A k \in p .. stop - 1 : KeepsHead(es[k], f) => k = p
        /\ a \in {p - 1, p} /\ (a = p => p \in p .. stop - 1 /\ KeepsHead(es[p], f))
        /\ z \in {stop - 1, stop}
        /\ z = stop - 1 => stop - 1 \in p .. stop - 1 /\ KeepsTail(es[stop - 1], f, t)
        /\ a \in 0 .. n /\ z \in a + 1 .. n + 1

\* The leaf when slots p .. stop - 1 have been cut.
CutEntries(es, p, f, t, stop) ==
    [k \in DOMAIN es |-> IF k \in p .. stop - 1 THEN Remainder(es[k], f, t) ELSE es[k]]

\* ext4_ext_remove_leaf() takes a run of slots out of the leaf, from the one it
\* starts at.
LEMMA CutPlaces ==
    ASSUME NEW es \in Seq(Entry), NEW u \in Nat, Ordered(es, 0, u), NEW p \in DOMAIN es,
           NEW f \in Nat, NEW t \in Int, Covers(es[p], ee_len(es[p]), f)
    PROVE  \E stop, a, z :
              /\ CutPlace(es, p, f, t, stop, a, z)
              /\ ext4_ext_remove_leaf(es, p, f, t) =
                    Splice(CutEntries(es, p, f, t, stop), a, z, Len(es))
<1> DEFINE n == Len(es)
           S == {k \in p .. n : es[k].lblk > t} \cup {n + 1}
           stop == Min(S)
           H == {k \in p .. stop - 1 : KeepsHead(es[k], f)}
           T == {k \in p .. stop - 1 : KeepsTail(es[k], f, t)}
           a == (p + Cardinality(H)) - 1
           z == IF T = {} THEN stop ELSE Max(T)
<1>1. n \in Nat /\ DOMAIN es = 1 .. n /\ p \in 1 .. n
  BY LenProperties
<1>2. \A k \in 1 .. n : es[k].lblk \in Nat /\ End(es[k]) \in Nat /\ EndOf(es[k], 0) = End(es[k])
                        /\ End(es[k]) = es[k].lblk + ee_len(es[k])
                        /\ ee_len(es[k]) \in Nat
  <2> SUFFICES ASSUME NEW k \in 1 .. n
               PROVE  es[k].lblk \in Nat /\ End(es[k]) \in Nat /\ EndOf(es[k], 0) = End(es[k])
                      /\ End(es[k]) = es[k].lblk + ee_len(es[k])
                      /\ ee_len(es[k]) \in Nat
    OBVIOUS
  <2>1. es[k] \in Entry
    BY <1>1, ElementOfSeq
  <2>2. ee_len(es[k]) \in Nat
    BY <2>1, RawLengths
  <2> QED
    BY <2>1, <2>2, Ends
<1>3. \A i, j \in 1 .. n : i < j => End(es[i]) <= es[j].lblk
  BY <1>1, <1>2 DEF Ordered
<1>4. es[p].lblk <= f /\ f < End(es[p])
  BY DEF Covers, End
<1> HIDE DEF n
<1>5. stop \in S /\ \A y \in S : stop <= y
  <2>1. S \subseteq Nat /\ S # {}
    BY <1>1
  <2> HIDE DEF S
  <2> QED
    BY <2>1, MinOfSlots
<1> HIDE DEF stop
<1>6. stop \in p .. n + 1 /\ InReach(es, p, t) = p .. stop - 1
  <2>1. InReach(es, p, t) = p .. stop - 1
    BY DEF InReach, stop, n
  <2> QED
    BY <2>1, <1>1, <1>5
<1>7. ASSUME NEW k \in p .. stop - 1 PROVE k \in 1 .. n /\ es[k].lblk <= t
  <2>1. k \in 1 .. n /\ k \in p .. n
    BY <1>1, <1>6
  <2>2. ~ (es[k].lblk > t)
    BY <2>1, <1>5, <1>6
  <2> QED
    BY <2>1, <2>2, <1>2
<1>8. ASSUME NEW k \in stop .. n PROVE t < es[k].lblk
  <2>1. stop \in 1 .. n /\ es[stop].lblk > t /\ k \in 1 .. n
    BY <1>1, <1>5, <1>6
  <2>2. CASE k = stop
    BY <2>1, <2>2, <1>2
  <2>3. CASE k # stop
    <3>1. End(es[stop]) <= es[k].lblk /\ es[stop].lblk <= End(es[stop])
      BY <2>1, <2>3, <1>2, <1>3, SMTT(30)
    <3>2. es[stop].lblk \in Nat /\ End(es[stop]) \in Nat /\ es[k].lblk \in Nat
      BY <2>1, <1>2
    <3> QED
      BY ONLY t \in Int, <3>1, <3>2, <2>1
  <2> QED
    BY <2>2, <2>3
<1>9. ASSUME NEW k \in p .. stop - 1, KeepsHead(es[k], f) PROVE k = p
  <2> SUFFICES ASSUME k # p PROVE FALSE
    OBVIOUS
  <2>1. k \in 1 .. n /\ p < k
    BY <1>1, <1>6, <1>7
  <2>2. End(es[p]) <= es[k].lblk /\ es[k].lblk < f
    BY <2>1, <1>1, <1>3, <1>9 DEF KeepsHead
  <2> QED
    BY <2>1, <2>2, <1>1, <1>2, <1>4, SMTT(30)
<1>10. a \in {p - 1, p} /\ (a = p => p \in p .. stop - 1 /\ KeepsHead(es[p], f))
  <2>1. CASE H = {}
    <3>1. Cardinality(H) = 0
      BY <2>1, FS_EmptySet
    <3> HIDE DEF H
    <3> QED
      BY <3>1, <1>1
  <2>2. CASE H # {}
    <3>1. p \in H /\ H = {p}
      BY <2>2, <1>9
    <3>2. Cardinality({p}) = 1
      BY FS_Singleton
    <3>3. p \in p .. stop - 1 /\ KeepsHead(es[p], f)
      BY <3>1
    <3> HIDE DEF H
    <3> QED
      BY <3>1, <3>2, <3>3, <1>1
  <2> QED
    BY <2>1, <2>2
<1>11. ASSUME NEW k \in T PROVE k = stop - 1 /\ stop - 1 \in p .. stop - 1
  <2>1. k \in p .. stop - 1 /\ KeepsTail(es[k], f, t)
    OBVIOUS
  <2>2. k \in 1 .. n
    BY <2>1, <1>7
  <2>3. End(es[k]) - 1 > t
    <3>1. LastBlock(es[k]) > t
      BY <2>1 DEF KeepsTail
    <3>2. es[k] \in Entry
      BY <2>2, <1>1, ElementOfSeq DEF n
    <3>3. LastBlock(es[k]) \in Int /\ LastBlock(es[k]) <= End(es[k]) - 1
      BY <3>2, LastBlocks
    <3> QED
      BY <3>1, <3>3, <2>2, <1>2
  <2>4. ASSUME k # stop - 1 PROVE FALSE
    <3>1. k + 1 \in p .. stop - 1 /\ k < k + 1
      BY <2>1, <2>4, <1>1, <1>6
    <3>2. k + 1 \in 1 .. n /\ es[k + 1].lblk <= t
      BY <3>1, <1>7
    <3>3. End(es[k]) <= es[k + 1].lblk
      BY <3>1, <3>2, <2>2, <1>3
    <3> QED
      BY <3>2, <3>3, <2>2, <2>3, <1>2, SMTT(30)
  <2> QED
    BY <2>1, <2>4
<1>12. /\ z \in {stop - 1, stop}
       /\ z = stop - 1 => stop - 1 \in p .. stop - 1 /\ KeepsTail(es[stop - 1], f, t)
  <2>1. CASE T = {}
    BY <2>1, <1>1, <1>6
  <2>2. CASE T # {}
    <3>1. T = {stop - 1} /\ stop - 1 \in T
      BY <2>2, <1>11
    <3>2. stop - 1 \in p .. stop - 1 /\ KeepsTail(es[stop - 1], f, t)
      BY <3>1
    <3> HIDE DEF T
    <3>3. Max(T) = stop - 1
      <4>1. \A y \in T : stop - 1 >= y
        BY <3>1, <1>1, <1>6
      <4> QED
        BY <3>1, <4>1 DEF Max
    <3> QED
      BY <3>2, <3>3, <2>2
  <2> QED
    BY <2>1, <2>2
<1> HIDE DEF a, z
<1>13. a \in 0 .. n /\ z \in a + 1 .. n + 1
  <2>1. a \in 0 .. n
    BY <1>1, <1>10
  <2>2. a = p /\ z = stop - 1 => p # stop - 1
    <3> SUFFICES ASSUME a = p, z = stop - 1, p = stop - 1 PROVE FALSE
      OBVIOUS
    <3>1. es[p].lblk < f /\ es[p].lblk >= f
      BY <1>10, <1>12 DEF KeepsHead, KeepsTail
    <3> QED
      BY <3>1, <1>1, <1>2
  <2>3. a + 1 <= z
    BY <2>2, <1>1, <1>6, <1>10, <1>12
  <2>4. z <= n + 1 /\ z \in Int
    BY <1>1, <1>6, <1>12
  <2> QED
    BY <2>1, <2>3, <2>4, <1>1
<1>14. CutPlace(es, p, f, t, stop, a, z)
  BY <1>6, <1>7, <1>8, <1>9, <1>10, <1>12, <1>13 DEF CutPlace, n
<1>15. ext4_ext_remove_leaf(es, p, f, t) = Splice(CutEntries(es, p, f, t, stop), a, z, Len(es))
  <2> DEFINE R == p .. stop - 1
  <2>1. InReach(es, p, t) = R
    BY <1>6
  <2>2. ext4_ext_remove_leaf(es, p, f, t) =
           SubSeq(CutEntries(es, p, f, t, stop), 1, (p + Cardinality(H)) - 1)
             \o SubSeq(CutEntries(es, p, f, t, stop),
                       IF T = {} THEN p + Cardinality(R) ELSE Max(T), n)
    BY <2>1, Zenon DEF ext4_ext_remove_leaf, CutEntries, n
  <2>3. p + Cardinality(R) = stop
    <3>2. p \in Int /\ stop \in Int /\ p <= stop
      BY <1>1, <1>6
    <3>3. PICK j : j = stop - 1
      OBVIOUS
    <3>4. j \in Int
      BY <3>2, <3>3
    <3>5. Cardinality(p .. j) = IF p > j THEN 0 ELSE j - p + 1
      BY ONLY <3>2, <3>4, FS_Interval
    <3>1. Cardinality(R) = IF p > stop - 1 THEN 0 ELSE (stop - 1) - p + 1
      BY <3>3, <3>5
    <3> HIDE DEF R
    <3> QED
      BY ONLY <3>1, <3>2
  <2> HIDE DEF H, T, R
  <2> QED
    BY <2>2, <2>3 DEF Splice, a, z, n
<1> QED
  BY <1>14, <1>15

\* fs is what is left of the leaf entries es when blocks f .. t are taken out from slot p
\* on; g says which slots the entries had.
LeafLeft(es, fs, g, p, f, t) ==
    /\ fs \in Seq(Entry) /\ Len(fs) <= Len(es)
    /\ \A i \in DOMAIN fs :
          /\ g[i] \in DOMAIN es /\ Within(fs[i], es[g[i]], 0)
          /\ g[i] \in InReach(es, p, t) =>
                Refers(fs[i], 0) \cap ext4_ext_remove_blocks(es[g[i]], f, t) = {}
    /\ \A i, j \in DOMAIN fs : i < j => g[i] < g[j]

\* Every entry that is left is part of one that was there, in the same order, and
\* shares no block with what is freed.
LEMMA LeafCut ==
    ASSUME NEW es \in Seq(Entry), NEW u \in Nat, Ordered(es, 0, u), NEW p \in DOMAIN es,
           NEW f \in Nat, NEW t \in Int, Covers(es[p], ee_len(es[p]), f)
    PROVE  \E g : LeafLeft(es, ext4_ext_remove_leaf(es, p, f, t), g, p, f, t)
<1> DEFINE n == Len(es)
           fs == ext4_ext_remove_leaf(es, p, f, t)
<1>1. n \in Nat /\ DOMAIN es = 1 .. n /\ p \in 1 .. n /\ \A k \in 1 .. n : es[k] \in Entry
  BY LenProperties, ElementOfSeq
<1>2. PICK stop, a, z :
         /\ CutPlace(es, p, f, t, stop, a, z)
         /\ fs = Splice(CutEntries(es, p, f, t, stop), a, z, n)
  BY CutPlaces
<1> HIDE DEF fs
<1> DEFINE cs == CutEntries(es, p, f, t, stop)
           g == [i \in 1 .. a + n - z + 1 |-> OldSlot(a, z, i)]
<1>3. /\ stop \in p .. n + 1 /\ InReach(es, p, t) = p .. stop - 1
      /\ \A k \in p .. stop - 1 : es[k].lblk <= t
      /\ \A k \in stop .. n : t < es[k].lblk
      /\ \A k \in p .. stop - 1 : KeepsHead(es[k], f) => k = p
      /\ a \in {p - 1, p} /\ (a = p => p \in p .. stop - 1 /\ KeepsHead(es[p], f))
      /\ z \in {stop - 1, stop}
      /\ z = stop - 1 => stop - 1 \in p .. stop - 1 /\ KeepsTail(es[stop - 1], f, t)
      /\ a \in 0 .. n /\ z \in a + 1 .. n + 1
  BY <1>2 DEF CutPlace
<1>4. f < End(es[p]) /\ es[p].lblk <= f
  BY DEF Covers, End
<1> HIDE DEF n
<1>5. \A k \in 1 .. n : es[k].lblk < End(es[k])
  <2>1. \A k \in 1 .. n : EndOf(es[k], 0) = End(es[k])
    BY DEF EndOf
  <2> QED
    BY <2>1, <1>1 DEF Ordered
<1>6. ASSUME NEW k \in p .. stop - 1
      PROVE  /\ cs[k] \in Entry /\ Within(cs[k], es[k], 0)
             /\ KeepsHead(es[k], f) \/ KeepsTail(es[k], f, t) =>
                   Refers(cs[k], 0) \cap ext4_ext_remove_blocks(es[k], f, t) = {}
  <2>1. k \in 1 .. n /\ es[k] \in Entry /\ es[k].lblk < End(es[k]) /\ es[k].lblk <= t
    BY <1>1, <1>3, <1>5
  <2>2. cs[k] = Remainder(es[k], f, t)
    BY <2>1, <1>1 DEF CutEntries
  <2>3. KeepsHead(es[k], f) => f < End(es[k])
    BY <1>3, <1>4
  <2> HIDE DEF cs
  <2> QED
    BY <2>1, <2>2, <2>3, RemainderFits
<1>7. ASSUME NEW k \in 1 .. n, k \notin p .. stop - 1
      PROVE  cs[k] = es[k] /\ cs[k] \in Entry /\ Within(cs[k], es[k], 0)
  <2>1. cs[k] = es[k] /\ es[k] \in Entry
    BY <1>7, <1>1 DEF CutEntries
  <2>2. es[k].lblk \in Nat /\ EndOf(es[k], 0) \in Nat /\ EndOf(es[k], 0) = End(es[k])
    BY <2>1, Ends DEF EndOf
  <2> HIDE DEF cs
  <2> QED
    BY <2>1, <2>2, <1>5 DEF Within
<1>8. cs \in [1 .. n -> Entry]
  BY <1>1, <1>6, <1>7 DEF CutEntries
<1> HIDE DEF cs
<1>9. SpliceLaw(cs, a, z, n)
  BY <1>1, <1>3, <1>8, Spliced
<1>10. /\ fs \in Seq(Entry) /\ Len(fs) = a + n - z + 1 /\ DOMAIN fs = 1 .. a + n - z + 1
       /\ \A i \in 1 .. a + n - z + 1 : OldSlot(a, z, i) \in 1 .. n /\ fs[i] = cs[OldSlot(a, z, i)]
  BY <1>2, <1>9 DEF SpliceLaw, cs
<1>11. \A i \in DOMAIN fs : g[i] = OldSlot(a, z, i) /\ g[i] \in 1 .. n /\ fs[i] = cs[g[i]]
  BY <1>10
<1> HIDE DEF g
<1>12. a \in Nat /\ z \in Nat /\ stop \in Nat
  BY <1>1, <1>3
<1>13. ASSUME NEW i \in DOMAIN fs, g[i] \in InReach(es, p, t)
       PROVE  Refers(fs[i], 0) \cap ext4_ext_remove_blocks(es[g[i]], f, t) = {}
  <2>1. PICK k \in 1 .. n : /\ k = g[i] /\ k = OldSlot(a, z, i) /\ fs[i] = cs[k]
                            /\ k \in p .. stop - 1 /\ p <= k
    BY <1>11, <1>13, <1>3, <1>1, <1>12
  <2>0. i \in 1 .. a + n - z + 1
    BY <1>10
  <2>2. k \in p .. stop - 1
    BY <2>1
  <2>3. Refers(fs[i], 0) \cap ext4_ext_remove_blocks(es[g[i]], f, t) = {}
    <3>1. \/ k = p /\ KeepsHead(es[p], f)
          \/ k = stop - 1 /\ KeepsTail(es[stop - 1], f, t)
      <4>1. CASE i <= a
        <5>1. k = i /\ k <= a
          BY <4>1, <2>1 DEF OldSlot
        <5>2. a = p /\ k = p
          <6>1. a \in {p - 1, p} /\ p \in Nat /\ k \in Nat /\ p <= k
            BY <2>1, <1>1, <1>3
          <6> QED
            BY ONLY <5>1, <6>1
        <5> QED
          BY <5>2, <1>3
      <4>2. CASE ~ (i <= a)
        <5>1. k = i - a + z - 1
          BY <4>2, <2>1 DEF OldSlot
        <5>2. k >= z
          BY <5>1, <4>2, <2>0, <1>12
        <5>3. z = stop - 1 /\ k = stop - 1
          BY <5>2, <2>2, <1>3, <1>1, <1>12
        <5> QED
          BY <5>3, <1>3
      <4> QED
        BY <4>1, <4>2
    <3>2. KeepsHead(es[k], f) \/ KeepsTail(es[k], f, t)
      BY <3>1
    <3> QED
      BY <3>2, <2>1, <2>2, <1>6
  <2> QED
    BY <2>3
<1>14. ASSUME NEW i \in DOMAIN fs PROVE g[i] \in DOMAIN es /\ Within(fs[i], es[g[i]], 0)
  <2>1. PICK k \in 1 .. n : k = g[i] /\ fs[i] = cs[k]
    BY <1>11
  <2>2. Within(cs[k], es[k], 0)
    BY <1>6, <1>7
  <2> QED
    BY <2>1, <2>2, <1>1
<1>15. ASSUME NEW i \in DOMAIN fs, NEW j \in DOMAIN fs, i < j PROVE g[i] < g[j]
  <2>1. i \in 1 .. a + n - z + 1 /\ j \in 1 .. a + n - z + 1
    BY <1>10
  <2>2. g[i] = (IF i <= a THEN i ELSE i - a + z - 1) /\ g[j] = (IF j <= a THEN j ELSE j - a + z - 1)
    BY <1>11 DEF OldSlot
  <2>3. a + 1 <= z
    BY <1>3, <1>12
  <2> QED
    BY ONLY i < j, <2>1, <2>2, <2>3, <1>12, <1>1
<1>16. Len(fs) <= Len(es)
  <2>1. a + n - z + 1 <= n
    BY <1>1, <1>3, <1>12
  <2> QED
    BY <2>1, <1>10 DEF n
<1> QED
  BY <1>10, <1>13, <1>14, <1>15, <1>16 DEF LeafLeft, fs

\* The blocks that taking blocks f .. t out of a leaf frees.
Freed(es, p, f, t) ==
    UNION { ext4_ext_remove_blocks(es[k], f, t) : k \in InReach(es, p, t) }

\* Each of them belongs to one slot of the leaf.
LEMMA FreedOwned ==
    ASSUME NEW es \in Seq(Entry), NEW p \in DOMAIN es, NEW f \in Nat, NEW t \in Int,
           NEW x \in Freed(es, p, f, t)
    PROVE  \E k \in DOMAIN es : /\ k \in InReach(es, p, t)
                                /\ x \in ext4_ext_remove_blocks(es[k], f, t)
                                /\ x \in Refers(es[k], 0)
<1>1. DOMAIN es = 1 .. Len(es) /\ Len(es) \in Nat
  BY LenProperties
<1>2. PICK k \in InReach(es, p, t) : x \in ext4_ext_remove_blocks(es[k], f, t)
  BY DEF Freed
<1>3. k \in DOMAIN es
  <2> DEFINE n == Len(es)
             S == {i \in p .. n : es[i].lblk > t} \cup {n + 1}
  <2>0. n \in Nat /\ p \in 1 .. n
    BY <1>1
  <2>2. k \in p .. Min(S) - 1
    BY <1>2 DEF InReach
  <2> HIDE DEF n
  <2>1. S \subseteq Nat /\ S # {} /\ \A y \in S : y <= n + 1
    BY <2>0
  <2> HIDE DEF S
  <2>3. Min(S) \in S
    BY <2>1, MinOfSlots
  <2>4. PICK m : m = Min(S)
    OBVIOUS
  <2>5. m \in Nat /\ m <= n + 1
    BY <2>1, <2>3, <2>4
  <2>6. k \in 1 .. n
    BY <2>0, <2>2, <2>4, <2>5
  <2> QED
    BY <2>6, <1>1 DEF n
<1>4. es[k] \in Entry
  BY <1>3, <1>1, ElementOfSeq
<1>5. es[k].lblk \in Nat /\ es[k].pblk \in Int /\ ee_len(es[k]) \in Nat
  BY <1>4, RawLengths, SMTT(30) DEF Entry
<1>6. PICK y \in es[k].lblk .. End(es[k]) - 1 : x = y - es[k].lblk + es[k].pblk
  BY <1>2, <1>4, FreedOfExtent
<1>7. x \in Refers(es[k], 0)
  <2>1. PICK a, q, n : a = es[k].lblk /\ q = es[k].pblk /\ n = ee_len(es[k])
    OBVIOUS
  <2>2. y \in a .. a + n - 1 /\ x = y - a + q
    BY <1>5, <1>6, <2>1 DEF End
  <2>3. a \in Nat /\ q \in Int /\ n \in Nat
    BY <2>1, <1>5
  <2>4. x \in q .. q + n - 1
    BY ONLY <2>2, <2>3
  <2>5. Refers(es[k], 0) = es[k].pblk .. es[k].pblk + ee_len(es[k]) - 1
    BY DEF Refers
  <2> QED
    BY ONLY <2>1, <2>4, <2>5
<1> QED
  BY <1>2, <1>3, <1>7

\* Only node b has changed.
OnlyAt(nd, nn, b) == DOMAIN nn = DOMAIN nd /\ \A x \in DOMAIN nd : x # b => nn[x] = nd[x]

IsCut(nd, nn, b, p, f, t) == nn = [nd EXCEPT ![b].ents = ext4_ext_remove_leaf(@, p, f, t)]

\* Taking a range out of a leaf leaves a good tree, with the freed blocks.
LEMMA LeafCutTree ==
    ASSUME NEW nd, NEW fr, NEW U, GoodTree(nd, fr, U), Family(nd),
           NEW b \in DOMAIN nd, nd[b].depth = 0, NEW p \in DOMAIN nd[b].ents,
           NEW f \in Nat, NEW t \in Int, Covers(nd[b].ents[p], ee_len(nd[b].ents[p]), f),
           NEW nn, IsCut(nd, nn, b, p, f, t)
    PROVE  /\ OnlyAt(nd, nn, b)
           /\ nn[b].depth = 0 /\ nn[b].ents = ext4_ext_remove_leaf(nd[b].ents, p, f, t)
           /\ GoodTree(nn, fr \cup Freed(nd[b].ents, p, f, t), U)
           /\ 1 \in DOMAIN nn[b].ents =>
                 1 \in DOMAIN nd[b].ents /\ nd[b].ents[1].lblk <= nn[b].ents[1].lblk
<1> DEFINE es == nd[b].ents
           fs == ext4_ext_remove_leaf(es, p, f, t)
           F == Freed(es, p, f, t)
<1>1. Typed(nd, fr) /\ OwnersDiffer(nd) /\ InDevice(nd) /\ Sorted(nd, U) /\ U \in [DOMAIN nd -> Nat]
  BY DEF GoodTree
<1>2. nd[b] \in Node /\ nd[b].max \in Nat /\ es \in Seq(Entry) /\ DOMAIN es \subseteq Nat
  BY <1>1, NodeOf
<1>3. U[b] \in Nat /\ Ordered(es, 0, U[b])
  BY <1>1 DEF Sorted
<1>4. PICK g : LeafLeft(es, fs, g, p, f, t)
  BY <1>2, <1>3, LeafCut
<1>5. /\ DOMAIN nn = DOMAIN nd /\ (\A x \in DOMAIN nd : x # b => nn[x] = nd[x])
      /\ nn[b] = [nd[b] EXCEPT !.ents = fs]
  BY DEF IsCut
<1> HIDE DEF fs, es, F
<1>6. /\ fs \in Seq(Entry) /\ Len(fs) <= Len(es)
      /\ \A i \in DOMAIN fs :
          /\ g[i] \in DOMAIN es /\ Within(fs[i], es[g[i]], 0)
          /\ g[i] \in InReach(es, p, t) =>
                Refers(fs[i], 0) \cap ext4_ext_remove_blocks(es[g[i]], f, t) = {}
      /\ \A i, j \in DOMAIN fs : i < j => g[i] < g[j]
  BY <1>4 DEF LeafLeft
<1>7. /\ nn[b] \in Node /\ nn[b].depth = nd[b].depth /\ nn[b].max = nd[b].max /\ nn[b].ents = fs
  BY <1>2, <1>5, <1>6 DEF Node
<1>8. nn \in [DOMAIN nd -> Node]
  BY <1>1, <1>5, <1>7 DEF Typed, IsCut
<1>9. Shrunk(nd, nn, b, g)
  BY <1>5, <1>6, <1>7, <1>8 DEF Shrunk, es
<1>10. \A x \in F : \E k \in DOMAIN es : /\ k \in InReach(es, p, t)
                                   /\ x \in ext4_ext_remove_blocks(es[k], f, t)
                                         /\ x \in Refers(es[k], 0)
  <2>1. p \in DOMAIN es
    BY DEF es
  <2> QED
    BY <2>1, <1>2, FreedOwned DEF F
<1>11. \A k \in DOMAIN es : <<b, k>> \in SlotsOf(nd) /\ OwnedBy(nd, <<b, k>>) = Refers(es[k], 0)
  <2> SUFFICES ASSUME NEW k \in DOMAIN es
               PROVE <<b, k>> \in SlotsOf(nd) /\ OwnedBy(nd, <<b, k>>) = Refers(es[k], 0)
    OBVIOUS
  <2>1. k \in DOMAIN nd[b].ents
    BY DEF es
  <2> QED
    BY <2>1, SlotIn DEF es
<1>12. F \subseteq PBlk
  <2> SUFFICES ASSUME NEW x \in F PROVE x \in PBlk
    OBVIOUS
  <2>1. PICK k \in DOMAIN es : x \in Refers(es[k], 0)
    BY <1>10
  <2> QED
    BY <2>1, <1>1 DEF InDevice, es
<1>13. F \cap DOMAIN nd = {}
  <2> SUFFICES ASSUME NEW x \in F, x \in DOMAIN nd PROVE FALSE
    OBVIOUS
  <2>1. x # Root
    BY <1>12, ConstantsAssumption
  <2>2. PICK y \in DOMAIN nd :
           nd[y].depth > 0 /\ \E i \in DOMAIN nd[y].ents : nd[y].ents[i].pblk = x
    BY <2>1 DEF Family, Child
  <2>3. PICK i \in DOMAIN nd[y].ents : nd[y].ents[i].pblk = x
    BY <2>2
  <2>4. <<y, i>> \in SlotsOf(nd) /\ OwnedBy(nd, <<y, i>>) = Refers(nd[y].ents[i], nd[y].depth)
    BY SlotIn
  <2>5. x \in OwnedBy(nd, <<y, i>>)
    BY <2>2, <2>3, <2>4 DEF Refers
  <2>6. PICK k \in DOMAIN es : x \in Refers(es[k], 0)
    BY <1>10
  <2>7. y # b
    BY <2>2
  <2>8. <<y, i>> # <<b, k>>
    BY <2>7
  <2>9. <<b, k>> \in SlotsOf(nd) /\ x \in OwnedBy(nd, <<b, k>>)
    BY <2>6, <1>11
  <2> QED
    BY ONLY <2>4, <2>5, <2>8, <2>9, <1>1 DEF OwnersDiffer
<1>14. Unowned(nn, F)
  <2> SUFFICES ASSUME NEW s \in SlotsOf(nn), NEW x \in F, x \in OwnedBy(nn, s) PROVE FALSE
    BY DEF Unowned
  <2>1. PICK y \in DOMAIN nn : \E i \in DOMAIN nn[y].ents :
           s = <<y, i>> /\ OwnedBy(nn, s) = Refers(nn[y].ents[i], nn[y].depth)
    BY ONLY s \in SlotsOf(nn), SlotOut
  <2>2. PICK i \in DOMAIN nn[y].ents :
           s = <<y, i>> /\ OwnedBy(nn, s) = Refers(nn[y].ents[i], nn[y].depth)
    BY <2>1
  <2>3. PICK k \in DOMAIN es : /\ k \in InReach(es, p, t)
                               /\ x \in ext4_ext_remove_blocks(es[k], f, t)
                               /\ x \in Refers(es[k], 0)
    BY <1>10
  <2>4. <<b, k>> \in SlotsOf(nd) /\ x \in OwnedBy(nd, <<b, k>>)
    BY <2>3, <1>11
  <2>5. CASE y = b
    <3>1. i \in DOMAIN fs /\ x \in Refers(fs[i], 0)
      BY <2>2, <2>5, <1>7
    <3>2. PICK j \in DOMAIN es : j = g[i] /\ Within(fs[i], es[j], 0)
             /\ (j \in InReach(es, p, t) =>
                   Refers(fs[i], 0) \cap ext4_ext_remove_blocks(es[j], f, t) = {})
      BY <3>1, <1>6
    <3>3. x \in Refers(es[j], 0)
      BY <3>1, <3>2 DEF Within
    <3>4. j # k
      BY <3>1, <3>2, <2>3
    <3>5. <<b, j>> # <<b, k>> /\ <<b, j>> \in SlotsOf(nd) /\ x \in OwnedBy(nd, <<b, j>>)
      BY <3>3, <3>4, <1>11
    <3> QED
      BY <3>5, <2>4, <1>1 DEF OwnersDiffer
  <2>6. CASE y # b
    <3>1. nn[y] = nd[y] /\ y \in DOMAIN nd
      BY <2>6, <1>5
    <3>2. <<y, i>> \in SlotsOf(nd) /\ OwnedBy(nd, <<y, i>>) = Refers(nd[y].ents[i], nd[y].depth)
      BY <2>2, <3>1, SlotIn
    <3>3. x \in OwnedBy(nd, <<y, i>>) /\ <<y, i>> # <<b, k>>
      BY <2>2, <2>6, <3>1, <3>2
    <3> QED
      BY <3>2, <3>3, <2>4, <1>1 DEF OwnersDiffer
  <2> QED
    BY <2>5, <2>6
<1>15. GoodTree(nn, fr \cup F, U)
  BY ONLY GoodTree(nd, fr, U), <1>9, <1>12, <1>13, <1>14, ShrunkTree
<1>16. 1 \in DOMAIN nn[b].ents => 1 \in DOMAIN nd[b].ents /\ nd[b].ents[1].lblk <= nn[b].ents[1].lblk
  BY ONLY GoodTree(nd, fr, U), <1>9, ShrunkOrder
<1>17. nn[b].depth = 0 /\ nn[b].ents = ext4_ext_remove_leaf(nd[b].ents, p, f, t)
  BY <1>7 DEF fs, es
<1>18. GoodTree(nn, fr \cup Freed(nd[b].ents, p, f, t), U)
  BY <1>15 DEF F, es
<1> QED
  BY ONLY <1>5, <1>16, <1>17, <1>18 DEF OnlyAt

-----------------------------------------------------------------------------
(* A round of the removal loop.                                            *)

\* The path of a removal that goes one level up.
UpOf(k, n, q) ==
    /\ q \in Seq(PathElem) /\ Len(q) = k
    /\ \A j \in 1 .. k - 1 : q[j] = path[j]
    /\ k >= 1 => q[k].blk = path[k].blk /\ q[k].pos = path[k].pos + n

\* What Up makes of a path.
LEMMA UpPath ==
    ASSUME path \in Seq(PathElem), path # <<>>, NEW n \in {0, 1}
    PROVE  UpOf(Len(path) - 1, n, Up(n)) /\ Len(path) - 1 \in Nat
<1> DEFINE k == Len(path) - 1
           q == Up(n)
<1>1. Len(path) \in Nat \ {0} /\ \A j \in 1 .. Len(path) : path[j] \in PathElem
  BY LenProperties, ElementOfSeq, EmptySeq
<1>2. k \in Nat
  BY <1>1
<1>3. q = [j \in 1 .. k |-> IF j < k THEN path[j] ELSE [path[j] EXCEPT !.pos = @ + n]]
  BY DEF Up
<1> HIDE DEF q
<1>4. ASSUME NEW j \in 1 .. k PROVE q[j] \in PathElem
  <2>1. path[j] \in PathElem
    BY <1>1
  <2>2. [path[j] EXCEPT !.pos = @ + n] \in PathElem
    BY <2>1, SMTT(30) DEF PathElem
  <2> QED
    BY <2>1, <2>2, <1>3
<1>5. q \in [1 .. k -> PathElem]
  BY <1>3, <1>4
<1> HIDE DEF k
<1>6. q \in Seq(PathElem) /\ Len(q) = k
  BY <1>2, <1>5, SeqDef, LenProperties
<1>7. \A j \in 1 .. k - 1 : q[j] = path[j]
  <2>1. \A j \in 1 .. k - 1 : j \in 1 .. k /\ j < k
    BY <1>2
  <2> QED
    BY <2>1, <1>3
<1>8. k >= 1 => q[k].blk = path[k].blk /\ q[k].pos = path[k].pos + n
  <2> SUFFICES ASSUME k >= 1 PROVE q[k].blk = path[k].blk /\ q[k].pos = path[k].pos + n
    OBVIOUS
  <2>1. k \in 1 .. k /\ ~ (k < k) /\ k \in 1 .. Len(path)
    BY <1>2, <1>1 DEF k
  <2>2. q[k] = [path[k] EXCEPT !.pos = @ + n] /\ path[k] \in PathElem
    BY <2>1, <1>1, <1>3
  <2> QED
    BY <2>2 DEF PathElem
<1> QED
  BY <1>2, <1>6, <1>7, <1>8 DEF UpOf, k, q

\* A step of the loop that goes up.
LEMMA WentUp ==
    ASSUME RemoveInv, pc = "remove", path # <<>>, NEW n \in {0, 1}, path' = Up(n),
           UNCHANGED <<pc, req, newext, split, conv, res>>,
           NEW V, NEW k, k = Len(path) - 1,
           GoodTree(node', free', V), Family(node'),
           k = 0 => Filled(node', Root),
           k # 0 => /\ Standing(node', free', V, path, k, req.lblk)
                    /\ node'[path[k].blk].depth > 0
                    /\ NoneBefore(node', path[k].blk, path[k].pos + n, req.lblk)
    PROVE  RemoveInv'
<1>1. LocalType /\ np = <<>> /\ todo = <<>>
  BY DEF RemoveInv
<1>2. path \in Seq(PathElem) /\ req \in [lblk : Nat, max : Nat, create : BOOLEAN] /\ req.lblk \in Nat
  BY <1>1 DEF LocalType
<1>3. UpOf(k, n, path') /\ k \in Nat
  BY <1>2, UpPath
<1>4. /\ path' \in Seq(PathElem) /\ Len(path') = k
      /\ \A j \in 1 .. k - 1 : path'[j] = path[j]
      /\ k >= 1 => path'[k].blk = path[k].blk /\ path'[k].pos = path[k].pos + n
  BY <1>3 DEF UpOf
<1>5. LocalType' /\ np' = <<>> /\ todo' = <<>>
  <2>1. LocalType'
    BY <1>1, <1>4 DEF LocalType, split, conv
  <2> QED
    BY <2>1, <1>1 DEF split, conv
<1>6. CASE k = 0
  <2>1. path' = <<>>
    BY <1>4, <1>6, EmptySeq, LenProperties
  <2>2. Route(node', path', Len(path')) /\ Behind(node', path', Len(path'), req'.lblk)
    BY <1>4, <1>6 DEF Route, Behind
  <2>3. Filled(node', IF path' = <<>> THEN Root ELSE leaf'.blk)
    BY <2>1, <1>6
  <2> QED
    BY <1>5, <2>1, <2>2, <2>3 DEF RemoveInv
<1>7. CASE k # 0
  <2>0. k \in Nat /\ k >= 1 /\ k \in 1 .. k
    <3>1. k \in Nat
      BY <1>3
    <3> QED
      BY ONLY <1>7, <3>1
  <2>1. path' # <<>> /\ leaf' = path'[k]
    BY <1>4, <2>0, EmptySeq DEF leaf
  <2>2. Standing(node', free', V, path, k, req.lblk)
    BY <1>7
  <2>3. Route(node', path, k) /\ Behind(node', path, k, req.lblk) /\ Filled(node', path[k].blk)
    BY <2>2 DEF Standing
  <2>4. \A j \in 1 .. k : path'[j].blk = path[j].blk
    <3> SUFFICES ASSUME NEW j \in 1 .. k PROVE path'[j].blk = path[j].blk
      OBVIOUS
    <3>1. CASE j = k
      BY <3>1, <1>4, <2>0
    <3>2. CASE j # k
      <4>1. j \in 1 .. k - 1
        BY <3>2, <2>0
      <4> QED
        BY <4>1, <1>4
    <3> QED
      BY <3>1, <3>2
  <2>5. \A j \in 1 .. k - 1 : path'[j] = path[j] /\ j \in 1 .. k /\ j + 1 \in 1 .. k
    BY <1>4, <2>0
  <2>6. Route(node', path', k)
    <3>1. path'[1].blk = Root
      <4>1. 1 \in 1 .. k
        BY <2>0
      <4> QED
        BY <4>1, <2>0, <2>3, <2>4 DEF Route
    <3>2. \A j \in 1 .. k : /\ path'[j].blk \in DOMAIN node'
                             /\ node'[path'[j].blk].depth = node'[Root].depth - (j - 1)
      BY <2>3, <2>4 DEF Route
    <3>3. ASSUME NEW j \in 1 .. k - 1
          PROVE  LET es == node'[path'[j].blk].ents
                 IN  path'[j].pos \in DOMAIN es /\ path'[j + 1].blk = es[path'[j].pos].pblk
      <4>1. path'[j] = path[j] /\ path'[j + 1].blk = path[j + 1].blk
        BY <2>4, <2>5
      <4> QED
        BY <4>1, <2>3 DEF Route
    <3> QED
      BY <3>1, <3>2, <3>3 DEF Route
  <2>7. Behind(node', path', k, req.lblk)
    <3> SUFFICES ASSUME NEW j \in 1 .. k - 1, NEW i \in DOMAIN node'[path'[j].blk].ents,
                        path'[j].pos < i
                 PROVE  req.lblk <= node'[path'[j].blk].ents[i].lblk
      BY DEF Behind
    <3>1. path'[j] = path[j]
      BY <2>5
    <3> QED
      BY <3>1, <2>3 DEF Behind
  <2>8. Filled(node', leaf'.blk)
    BY <2>1, <2>3, <2>4, <2>0
  <2>9. leaf'.pos >= 1 /\ StandsAt(node', leaf'.blk, leaf'.pos, req.lblk)
    <3>1. leaf'.blk = path[k].blk /\ leaf'.pos = path[k].pos + n
      BY <2>1, <1>4, <2>0
    <3>2. StandsAt(node', leaf'.blk, leaf'.pos, req.lblk)
      BY <1>7, <3>1 DEF StandsAt, NoneBefore
    <3>3. leaf'.pos >= 1
      <4>1. Route(node, path, Len(path)) /\ \E U : GoodTree(node, free, U)
        BY DEF RemoveInv
      <4>2. Typed(node, free) /\ Len(path) \in Nat
        BY <4>1, <1>2, LenProperties DEF GoodTree
      <4>3. k \in 1 .. Len(path) - 1 /\ k \in 1 .. Len(path)
        BY <2>0, <4>2
      <4>4. path[k].blk \in DOMAIN node /\ path[k].pos \in DOMAIN node[path[k].blk].ents
        BY <4>1, <4>3 DEF Route
      <4>5. DOMAIN node[path[k].blk].ents = 1 .. Len(node[path[k].blk].ents)
        BY <4>2, <4>4, NodeOf
      <4>6. path[k].pos \in Nat /\ path[k].pos >= 1
        BY <4>4, <4>5
      <4> QED
        BY <3>1, <4>6
    <3> QED
      BY <3>2, <3>3
  <2> QED
    BY <1>4, <1>5, <2>1, <2>6, <2>7, <2>8, <2>9 DEF RemoveInv
<1> QED
  BY <1>6, <1>7

\* When its end has entries, a path may be cut short.
LEMMA StandingAbove ==
    ASSUME NEW nd, NEW fr, NEW U, NEW pt, NEW k \in Nat \ {0}, NEW l \in Nat,
           Standing(nd, fr, U, pt, k + 1, l), 1 \in DOMAIN nd[pt[k + 1].blk].ents
    PROVE  /\ Standing(nd, fr, U, pt, k, l)
           /\ nd[pt[k].blk].depth > 0
           /\ NoneBefore(nd, pt[k].blk, pt[k].pos + 1, l)
<1>1. /\ GoodTree(nd, fr, U) /\ Family(nd) /\ Filled(nd, pt[k + 1].blk)
      /\ Route(nd, pt, k + 1) /\ Behind(nd, pt, k + 1, l)
  BY DEF Standing
<1>2. k + 1 \in Nat /\ k \in 1 .. (k + 1) - 1 /\ (\A j \in 1 .. k - 1 : j \in 1 .. (k + 1) - 1)
      /\ (\A j \in 1 .. k : j \in 1 .. k + 1)
  OBVIOUS
<1>3. nd[pt[k].blk].depth > 0 /\ pt[k].blk \in DOMAIN nd /\ pt[k].pos \in DOMAIN nd[pt[k].blk].ents
  BY <1>1, <1>2, RouteStep
<1>4. Filled(nd, pt[k].blk)
  BY <1>1 DEF Filled
<1>5. Route(nd, pt, k)
  <2>1. pt[1].blk = Root
    BY <1>1, <1>2 DEF Route
  <2>2. \A j \in 1 .. k :
          pt[j].blk \in DOMAIN nd /\ nd[pt[j].blk].depth = nd[Root].depth - (j - 1)
    BY <1>1, <1>2 DEF Route
  <2>3. \A j \in 1 .. k - 1 :
          LET es == nd[pt[j].blk].ents
          IN  pt[j].pos \in DOMAIN es /\ pt[j + 1].blk = es[pt[j].pos].pblk
    BY <1>1, <1>2 DEF Route
  <2> QED
    BY <2>1, <2>2, <2>3 DEF Route
<1>6. Behind(nd, pt, k, l)
  BY <1>1, <1>2 DEF Behind
<1>7. NoneBefore(nd, pt[k].blk, pt[k].pos + 1, l)
  <2> SUFFICES ASSUME NEW j \in DOMAIN nd[pt[k].blk].ents, pt[k].pos + 1 <= j
               PROVE  l <= nd[pt[k].blk].ents[j].lblk
    BY DEF NoneBefore
  <2>1. DOMAIN nd[pt[k].blk].ents = 1 .. Len(nd[pt[k].blk].ents)
    BY <1>1, <1>3, NodeOf DEF GoodTree
  <2>2. pt[k].pos < j
    BY <2>1, <1>3
  <2> QED
    BY <2>2, <1>1, <1>2 DEF Behind
<1> QED
  BY <1>1, <1>3, <1>4, <1>5, <1>6, <1>7 DEF Standing

\* The end of the path is a leaf that is cut.
LEMMA LeafCutStands ==
    ASSUME NEW nd, NEW fr, NEW U, NEW pt, NEW m \in Nat \ {0}, NEW l \in Nat,
           Standing(nd, fr, U, pt, m, l), NEW b, b = pt[m].blk, nd[b].depth = 0,
           NEW p \in DOMAIN nd[b].ents,
           NEW f \in Nat, NEW t \in Int, Covers(nd[b].ents[p], ee_len(nd[b].ents[p]), f),
           NEW nn, IsCut(nd, nn, b, p, f, t)
    PROVE  Standing(nn, fr \cup Freed(nd[b].ents, p, f, t), U, pt, m, l)
<1> DEFINE F == Freed(nd[b].ents, p, f, t)
<1>1. /\ GoodTree(nd, fr, U) /\ Family(nd) /\ Filled(nd, b)
      /\ Route(nd, pt, m) /\ Behind(nd, pt, m, l)
  BY DEF Standing
<1>2. Typed(nd, fr) /\ Root \in DOMAIN nd
  BY <1>1 DEF GoodTree, Typed
<1>3. m \in 1 .. m /\ b \in DOMAIN nd
  BY <1>1 DEF Route
<1>4. /\ DOMAIN nn = DOMAIN nd /\ (\A x \in DOMAIN nd : x # b => nn[x] = nd[x])
      /\ nn[b].depth = 0
      /\ GoodTree(nn, fr \cup F, U)
  <2>1. OnlyAt(nd, nn, b) /\ nn[b].depth = 0 /\ GoodTree(nn, fr \cup Freed(nd[b].ents, p, f, t), U)
    <3> PICK y : y = b
      OBVIOUS
    <3>1. /\ GoodTree(nd, fr, U) /\ Family(nd) /\ y \in DOMAIN nd /\ nd[y].depth = 0
          /\ p \in DOMAIN nd[y].ents /\ f \in Nat /\ t \in Int
          /\ Covers(nd[y].ents[p], ee_len(nd[y].ents[p]), f)
          /\ IsCut(nd, nn, y, p, f, t)
      BY <1>1, <1>3
    <3>2. OnlyAt(nd, nn, y) /\ nn[y].depth = 0 /\ GoodTree(nn, fr \cup Freed(nd[y].ents, p, f, t), U)
      BY ONLY <3>1, LeafCutTree
    <3> QED
      BY <3>2
  <2> QED
    BY <2>1 DEF OnlyAt
<1> HIDE DEF F
<1>5. Family(nn)
  <2> SUFFICES ASSUME NEW c \in DOMAIN nn \ {Root} PROVE Child(nn, c)
    BY DEF Family
  <2>1. PICK y \in DOMAIN nd :
           nd[y].depth > 0 /\ \E i \in DOMAIN nd[y].ents : nd[y].ents[i].pblk = c
    BY <1>1, <1>4 DEF Family, Child
  <2>2. y # b
    BY <2>1
  <2>3. nn[y] = nd[y] /\ y \in DOMAIN nn
    BY <2>2, <1>4
  <2> QED
    BY <2>1, <2>3 DEF Child
<1>6. Filled(nn, b)
  BY <1>1, <1>4 DEF Filled
<1>7. \A j \in 1 .. m - 1 : pt[j].blk \in DOMAIN nd /\ pt[j].blk # b
  <2> SUFFICES ASSUME NEW j \in 1 .. m - 1 PROVE pt[j].blk \in DOMAIN nd /\ pt[j].blk # b
    OBVIOUS
  <2>1. j \in 1 .. m /\ j # m
    OBVIOUS
  <2>2. pt[j].blk \in DOMAIN nd
    BY <2>1, <1>1 DEF Route
  <2>3. pt[j].blk # pt[m].blk
    BY <2>1, <1>1, <1>2, <1>3, RouteDistinct
  <2> QED
    BY <2>2, <2>3
<1>8. \A j \in 1 .. m - 1 : nn[pt[j].blk] = nd[pt[j].blk]
  BY <1>4, <1>7
<1>9. nn[Root].depth = nd[Root].depth /\ (\A x \in DOMAIN nd : nn[x].depth = nd[x].depth)
  BY <1>2, <1>4
<1>10. Route(nn, pt, m)
  <2>1. m >= 1 => pt[1].blk = Root
    BY <1>1 DEF Route
  <2>2. \A j \in 1 .. m :
          pt[j].blk \in DOMAIN nn /\ nn[pt[j].blk].depth = nn[Root].depth - (j - 1)
    BY <1>1, <1>4, <1>9 DEF Route
  <2>3. \A j \in 1 .. m - 1 :
          LET es == nn[pt[j].blk].ents
          IN  pt[j].pos \in DOMAIN es /\ pt[j + 1].blk = es[pt[j].pos].pblk
    <3> SUFFICES ASSUME NEW j \in 1 .. m - 1
                 PROVE  LET es == nn[pt[j].blk].ents
                        IN  pt[j].pos \in DOMAIN es /\ pt[j + 1].blk = es[pt[j].pos].pblk
      OBVIOUS
    <3>1. LET es == nd[pt[j].blk].ents
          IN  pt[j].pos \in DOMAIN es /\ pt[j + 1].blk = es[pt[j].pos].pblk
      BY <1>1 DEF Route
    <3> QED
      BY <3>1, <1>8
  <2> QED
    BY <2>1, <2>2, <2>3 DEF Route
<1>11. Behind(nn, pt, m, l)
  BY <1>1, <1>8 DEF Behind
<1> QED
  BY <1>4, <1>5, <1>6, <1>10, <1>11 DEF Standing, F

\* Where the loop stands.
LEMMA InLoop ==
    ASSUME RemoveInv, path # <<>>
    PROVE  /\ Len(path) \in Nat \ {0} /\ req.lblk \in Nat /\ leaf = path[Len(path)]
           /\ \E U : Standing(node, free, U, path, Len(path), req.lblk)
           /\ StandsAt(node, leaf.blk, leaf.pos, req.lblk) /\ leaf.pos >= 1
           /\ leaf.blk \in DOMAIN node /\ Typed(node, free)
<1>1. LocalType
  BY DEF RemoveInv
<1>2. path \in Seq(PathElem) /\ req.lblk \in Nat
  BY <1>1 DEF LocalType
<1>3. Len(path) \in Nat \ {0}
  BY <1>2, LenProperties, EmptySeq
<1>4. Standing(node, free, CHOOSE U : GoodTree(node, free, U), path, Len(path), req.lblk)
  BY DEF RemoveInv, Standing, leaf
<1>5. Len(path) \in 1 .. Len(path)
  BY <1>3
<1>6. leaf.blk \in DOMAIN node
  BY <1>5 DEF RemoveInv, Route, leaf
<1>7. Typed(node, free)
  BY <1>4 DEF Standing, GoodTree
<1> QED
  BY <1>2, <1>3, <1>4, <1>6, <1>7 DEF RemoveInv, leaf

\* The larger of two numbers.
LEMMA MaxOfTwo ==
    ASSUME NEW a \in Int, NEW b \in Int
    PROVE  Max({a, b}) = IF a >= b THEN a ELSE b
<1>1. PICK x \in {a, b} : \A y \in {a, b} : x >= y
  OBVIOUS
<1>2. Max({a, b}) \in {a, b} /\ \A y \in {a, b} : Max({a, b}) >= y
  BY <1>1 DEF Max
<1> QED
  BY <1>2

\* The blocks that are taken out of the leaf.
LeafEnts == node[leaf.blk].ents
LeafFrom == Max({LeafEnts[1].lblk, req.lblk})
LeafTo ==
    LET last == LeafEnts[Len(LeafEnts)]
    IN  Min({LastBlock(last), to})

\* The extent where the loop stands covers the first of them.
LEMMA LeafRange ==
    ASSUME RemoveInv, path # <<>>, node[leaf.blk].depth = 0
    PROVE  /\ leaf.pos \in DOMAIN LeafEnts /\ 1 \in DOMAIN LeafEnts
           /\ LeafFrom \in Nat /\ LeafTo \in Int
           /\ Covers(LeafEnts[leaf.pos], ee_len(LeafEnts[leaf.pos]), LeafFrom)
<1> DEFINE es == LeafEnts
           p == leaf.pos
           l == req.lblk
           n == Len(es)
<1>1. leaf.blk \in DOMAIN node /\ Typed(node, free) /\ l \in Nat
  BY InLoop
<1>2. PICK U : GoodTree(node, free, U)
  BY DEF RemoveInv
<1>3. U[leaf.blk] \in Nat /\ Ordered(es, 0, U[leaf.blk])
  BY <1>1, <1>2 DEF GoodTree, Sorted, LeafEnts
<1>4. /\ es \in Seq(Entry) /\ n \in Nat /\ DOMAIN es = 1 .. n
      /\ \A i \in DOMAIN es : es[i] \in Entry
  BY <1>1, NodeOf DEF LeafEnts
<1>5. p \in DOMAIN es /\ (Covers(es[p], ee_len(es[p]), l) \/ (p = 1 /\ l <= es[1].lblk))
  <2>1. StandsAt(node, leaf.blk, p, l)
    BY InLoop
  <2> QED
    BY <2>1 DEF StandsAt, LeafEnts
<1> HIDE DEF es, p, l
<1>6. 1 \in DOMAIN es /\ n \in DOMAIN es
  BY <1>4, <1>5
<1>7. \A i \in DOMAIN es : /\ es[i].lblk \in Nat /\ ee_len(es[i]) \in Nat
                           /\ End(es[i]) = es[i].lblk + ee_len(es[i])
                           /\ EndOf(es[i], 0) = End(es[i])
  <2> SUFFICES ASSUME NEW i \in DOMAIN es
               PROVE  /\ es[i].lblk \in Nat /\ ee_len(es[i]) \in Nat
                      /\ End(es[i]) = es[i].lblk + ee_len(es[i])
                      /\ EndOf(es[i], 0) = End(es[i])
    OBVIOUS
  <2>1. es[i] \in Entry
    BY <1>4
  <2> QED
    BY <2>1, RawLengths DEF End, EndOf, Entry
<1>8. \A i \in DOMAIN es : es[i].lblk < End(es[i])
  BY <1>3, <1>7 DEF Ordered
<1>9. LeafFrom = IF es[1].lblk >= l THEN es[1].lblk ELSE l
  <2>1. PICK x, y : x = es[1].lblk /\ y = l
    OBVIOUS
  <2>2. x \in Int /\ y \in Int
    BY <2>1, <1>1, <1>6, <1>7
  <2>3. LeafFrom = Max({x, y})
    BY <2>1 DEF LeafFrom, es, l
  <2>4. Max({x, y}) = IF x >= y THEN x ELSE y
    BY ONLY <2>2, MaxOfTwo
  <2> QED
    BY <2>1, <2>3, <2>4
<1>10. LeafFrom \in Nat
  BY <1>1, <1>6, <1>7, <1>9
<1>11. LeafTo \in Int
  <2>1. to \in Int
    <3>1. req.max \in Nat /\ req.lblk \in Nat
      BY DEF RemoveInv, LocalType
    <3> QED
      BY <3>1 DEF to
  <2>2. LastBlock(es[n]) \in Int
    BY <1>4, <1>6, LastBlocks
  <2>3. LeafTo \in {LastBlock(es[n]), to}
    BY <2>1, <2>2, MinOfTwo DEF LeafTo, es
  <2> QED
    BY <2>1, <2>2, <2>3
<1>12. Covers(es[p], ee_len(es[p]), LeafFrom)
  <2>1. CASE Covers(es[p], ee_len(es[p]), l)
    <3>1. es[1].lblk <= es[p].lblk
      <4>1. CASE p = 1
        BY <4>1, <1>5, <1>7
      <4>2. CASE p # 1
        <5>1. 1 < p
          BY <4>2, <1>4, <1>5
        <5>2. EndOf(es[1], 0) <= es[p].lblk
          BY <5>1, <1>3, <1>5, <1>6 DEF Ordered
        <5> QED
          BY <5>2, <1>5, <1>6, <1>7, <1>8
      <4> QED
        BY <4>1, <4>2
    <3>2. es[p].lblk <= l
      BY <2>1 DEF Covers
    <3>3. LeafFrom = l
      BY <3>1, <3>2, <1>1, <1>5, <1>6, <1>7, <1>9
    <3> QED
      BY <2>1, <3>3
  <2>2. CASE p = 1 /\ l <= es[1].lblk
    <3>1. LeafFrom = es[1].lblk
      BY <2>2, <1>1, <1>6, <1>7, <1>9
    <3>2. es[1].lblk < es[1].lblk + ee_len(es[1]) /\ es[1].lblk \in Nat
      BY <1>6, <1>7, <1>8
    <3> QED
      BY <2>2, <3>1, <3>2 DEF Covers
  <2> QED
    BY <2>1, <2>2, <1>5
<1> QED
  BY <1>5, <1>6, <1>10, <1>11, <1>12 DEF es, p

\* What is left of the leaf, and the tree with it.
LeafRest == ext4_ext_remove_leaf(LeafEnts, leaf.pos, LeafFrom, LeafTo)

LeafTree ==
    [b \in DOMAIN node |->
       [node[b] EXCEPT !.ents = IF b = leaf.blk THEN LeafRest
                                ELSE IF LeafRest # <<>>
                                THEN ext4_ext_correct_indexes(b, LeafRest[1].lblk)
                                ELSE @]]

CutTree == [node EXCEPT ![leaf.blk].ents = ext4_ext_remove_leaf(@, leaf.pos, LeafFrom, LeafTo)]
CutFree == free \cup Freed(LeafEnts, leaf.pos, LeafFrom, LeafTo)

\* Its leaf is cut first.
LEMMA CutStands ==
    ASSUME RemoveInv, path # <<>>, node[leaf.blk].depth = 0
    PROVE  /\ \E U : Standing(CutTree, CutFree, U, path, Len(path), req.lblk)
           /\ CutTree \in [DOMAIN node -> Node] /\ CutTree[leaf.blk].ents = LeafRest
           /\ CutTree[leaf.blk].depth = 0 /\ LeafRest \in Seq(Entry)
           /\ \A x \in DOMAIN node : x # leaf.blk => CutTree[x] = node[x]
<1> DEFINE b == leaf.blk
           p == leaf.pos
           f == LeafFrom
           t == LeafTo
           nn == CutTree
<1>1. /\ Len(path) \in Nat \ {0} /\ req.lblk \in Nat /\ b = path[Len(path)].blk
      /\ b \in DOMAIN node /\ Typed(node, free)
  BY InLoop
<1>2. PICK U : Standing(node, free, U, path, Len(path), req.lblk)
  BY InLoop
<1>3. /\ p \in DOMAIN node[b].ents /\ f \in Nat /\ t \in Int
      /\ Covers(node[b].ents[p], ee_len(node[b].ents[p]), f)
  BY LeafRange DEF LeafEnts
<1>4. IsCut(node, nn, b, p, f, t)
  BY DEF IsCut, CutTree
<1> HIDE DEF b, p, f, t, nn
<1>5. node[b].depth = 0
  BY DEF b
<1>6. Standing(nn, free \cup Freed(node[b].ents, p, f, t), U, path, Len(path), req.lblk)
  BY <1>1, <1>2, <1>3, <1>4, <1>5, LeafCutStands
<1>8. OnlyAt(node, nn, b) /\ nn[b].depth = 0 /\ nn[b].ents = ext4_ext_remove_leaf(node[b].ents, p, f, t)
  <2>1. b \in DOMAIN node /\ node[b] \in Node
    BY <1>1 DEF Typed
  <2> QED
    BY <2>1, <1>4, <1>5 DEF IsCut, OnlyAt, Node
<1>9. Typed(nn, free \cup Freed(node[b].ents, p, f, t)) /\ DOMAIN nn = DOMAIN node
  BY <1>6, <1>8 DEF Standing, GoodTree, OnlyAt
<1>10. nn \in [DOMAIN node -> Node]
  BY <1>9 DEF Typed
<1>11. nn[b].ents \in Seq(Entry)
  BY <1>1, <1>9, NodeOf
<1> QED
  BY <1>6, <1>8, <1>10, <1>11 DEF b, p, f, t, nn, LeafRest, LeafEnts, CutFree, OnlyAt

\* A leaf that has become empty leaves the nodes above it alone.
LEMMA LeafTreeEmpty ==
    ASSUME RemoveInv, path # <<>>, node[leaf.blk].depth = 0, LeafRest = <<>>
    PROVE  LeafTree = CutTree
<1>1. /\ CutTree \in [DOMAIN node -> Node] /\ CutTree[leaf.blk].ents = LeafRest
      /\ \A x \in DOMAIN node : x # leaf.blk => CutTree[x] = node[x]
  BY CutStands
<1>2. Typed(node, free) /\ leaf.blk \in DOMAIN node
  BY InLoop
<1>3. CutTree[leaf.blk] = [node[leaf.blk] EXCEPT !.ents = LeafRest]
  BY <1>2 DEF CutTree, LeafRest, LeafEnts
<1>4. ASSUME NEW x \in DOMAIN node PROVE LeafTree[x] = CutTree[x]
  <2>1. node[x] \in Node
    BY <1>2 DEF Typed
  <2>2. CASE x = leaf.blk
    BY <2>2, <1>3 DEF LeafTree
  <2>3. CASE x # leaf.blk
    <3>1. LeafTree[x] = [node[x] EXCEPT !.ents = node[x].ents]
      BY <2>3, <1>4 DEF LeafTree
    <3>2. [node[x] EXCEPT !.ents = node[x].ents] = node[x]
      BY <2>1 DEF Node
    <3> QED
      BY <2>3, <3>1, <3>2, <1>1
  <2> QED
    BY <2>2, <2>3
<1>5. DOMAIN LeafTree = DOMAIN node /\ LeafTree = [x \in DOMAIN node |-> LeafTree[x]]
  BY DEF LeafTree
<1>6. CutTree = [x \in DOMAIN node |-> CutTree[x]]
  BY <1>1
<1> QED
  BY <1>4, <1>5, <1>6

\* The levels that are corrected are those above which the path passes first entries.
LEMMA CorrectedAreFirst ==
    ASSUME path \in Seq(PathElem), path # <<>>, leaf.pos >= 1
    PROVE  CorrectedLevels = FirstUpTo(path, Len(path))
<1> DEFINE m == Len(path)
<1>1. m \in Nat \ {0} /\ leaf = path[m] /\ path[m] \in PathElem
  <2>1. m \in Nat \ {0}
    BY LenProperties, EmptySeq
  <2>2. m \in 1 .. m
    BY <2>1
  <2> QED
    BY <2>1, <2>2, LenProperties, ElementOfSeq DEF leaf
<1>2. leaf.pos \in Nat
  BY <1>1 DEF PathElem
<1> HIDE DEF m
<1>3. CASE leaf.pos > 1
  <2>1. CorrectedLevels = {}
    BY <1>3 DEF CorrectedLevels
  <2>2. \A j \in 1 .. m - 1 : m \in j + 1 .. m
    BY <1>1
  <2>3. FirstUpTo(path, m) = {}
    BY <1>1, <1>2, <1>3, <2>2 DEF FirstUpTo
  <2> QED
    BY <2>1, <2>3 DEF m
<1>4. CASE ~ leaf.pos > 1
  <2>1. path[m].pos = 1
    BY <1>1, <1>2, <1>4
  <2>2. CorrectedLevels = {k \in 1 .. m - 1 : \A j \in k + 1 .. m - 1 : path[j].pos = 1}
    BY <1>4 DEF CorrectedLevels, m
  <2>3. ASSUME NEW k \in 1 .. m - 1
        PROVE  (\A j \in k + 1 .. m - 1 : path[j].pos = 1) <=> (\A j \in k + 1 .. m : path[j].pos = 1)
    <3>1. k + 1 .. m = (k + 1 .. m - 1) \cup {m}
      BY <1>1
    <3> QED
      BY <2>1, <3>1
  <2>4. FirstUpTo(path, m) = {k \in 1 .. m - 1 : \A j \in k + 1 .. m : path[j].pos = 1}
    BY DEF FirstUpTo
  <2>5. CorrectedLevels = FirstUpTo(path, m)
    BY <2>2, <2>3, <2>4
  <2> QED
    BY <2>5 DEF m
<1> QED
  BY <1>3, <1>4

\* The first key of what is left goes up the path.
LEMMA LeafTreeKeys ==
    ASSUME RemoveInv, path # <<>>, node[leaf.blk].depth = 0, LeafRest # <<>>
    PROVE  /\ Rekeyed(CutTree, LeafTree, FirstSlots(path, Len(path)), LeafRest[1].lblk)
           /\ 1 \in DOMAIN LeafRest /\ LeafRest[1].lblk \in Nat
<1> DEFINE m == Len(path)
           R == FirstSlots(path, m)
           v == LeafRest[1].lblk
           b == leaf.blk
<1>1. /\ CutTree \in [DOMAIN node -> Node] /\ CutTree[b].ents = LeafRest
      /\ LeafRest \in Seq(Entry)
      /\ \A x \in DOMAIN node : x # b => CutTree[x] = node[x]
  BY CutStands
<1>2. PICK U : Standing(node, free, U, path, m, req.lblk)
  BY InLoop
<1>3. /\ m \in Nat \ {0} /\ b = path[m].blk /\ b \in DOMAIN node /\ Typed(node, free)
      /\ leaf.pos >= 1 /\ path \in Seq(PathElem)
  BY InLoop DEF RemoveInv, LocalType
<1>4. Route(node, path, m)
  BY <1>2 DEF Standing
<1>5. 1 \in DOMAIN LeafRest /\ v \in Nat
  <2>1. 1 \in DOMAIN LeafRest
    BY <1>1, EmptySeq, LenProperties
  <2>2. LeafRest[1] \in Entry
    BY <1>1, <2>1, ElementOfSeq
  <2> QED
    BY <2>1, <2>2 DEF Entry
<1>6. CorrectedLevels = FirstUpTo(path, m)
  BY <1>3, CorrectedAreFirst
<1>7. \A x \in DOMAIN node : \A i : <<x, i>> \in R <=>
         \E j \in CorrectedLevels : path[j].blk = x /\ path[j].pos = i
  BY <1>6 DEF FirstSlots
<1>8. \A j \in CorrectedLevels : path[j].blk # b
  <2> SUFFICES ASSUME NEW j \in CorrectedLevels, path[j].blk = b PROVE FALSE
    OBVIOUS
  <2>1. j \in 1 .. m - 1
    BY <1>6 DEF FirstUpTo
  <2>2. j \in 1 .. m /\ m \in 1 .. m /\ m \in Nat /\ j # m
    BY <1>3, <2>1
  <2>3. path[j].blk = path[m].blk
    BY <1>3
  <2> QED
    BY <1>3, <1>4, <2>2, <2>3, RouteDistinct
<1> HIDE DEF R, v, m
<1>9. ASSUME NEW x \in DOMAIN node
      PROVE  /\ LeafTree[x] \in Node
             /\ LeafTree[x].depth = CutTree[x].depth /\ LeafTree[x].max = CutTree[x].max
             /\ DOMAIN LeafTree[x].ents = DOMAIN CutTree[x].ents
             /\ \A i \in DOMAIN CutTree[x].ents :
                   LeafTree[x].ents[i] = IF <<x, i>> \in R THEN [CutTree[x].ents[i] EXCEPT !.lblk = v]
                                         ELSE CutTree[x].ents[i]
  <2>0. node[x] \in Node
    BY <1>3 DEF Typed
  <2>1. CASE x = b
    <3>1. LeafTree[b] = [node[b] EXCEPT !.ents = LeafRest]
      BY <1>3 DEF LeafTree
    <3>2. CutTree[b] = [node[b] EXCEPT !.ents = LeafRest]
      BY <1>3 DEF CutTree, LeafRest, LeafEnts
    <3>3. \A i : <<b, i>> \notin R
      BY <1>3, <1>7, <1>8
    <3>4. CutTree[b] \in Node
      BY <1>1, <1>3
    <3> HIDE DEF b
    <3> QED
      BY <2>1, <3>1, <3>2, <3>3, <3>4
  <2>2. CASE x # b
    <3> DEFINE es == node[x].ents
               fs == ext4_ext_correct_indexes(x, v)
    <3>1. LeafTree[x] = [node[x] EXCEPT !.ents = fs]
      BY <2>2 DEF LeafTree, v
    <3>2. CutTree[x] = node[x]
      BY <1>1, <2>2
    <3>3. es \in Seq(Entry) /\ Len(es) \in Nat /\ DOMAIN es = 1 .. Len(es) /\ \A i \in DOMAIN es : es[i] \in Entry
      BY <1>3, NodeOf
    <3>4. DOMAIN fs = DOMAIN es /\ fs = [i \in DOMAIN es |-> fs[i]]
      BY DEF ext4_ext_correct_indexes
    <3>5. \A i \in DOMAIN es :
            fs[i] = IF <<x, i>> \in R THEN [es[i] EXCEPT !.lblk = v] ELSE es[i]
      <4> SUFFICES ASSUME NEW i \in DOMAIN es
                   PROVE  fs[i] = IF <<x, i>> \in R THEN [es[i] EXCEPT !.lblk = v] ELSE es[i]
        OBVIOUS
      <4>1. fs[i] = IF \E k \in {k \in CorrectedLevels : path[k].blk = x} : path[k].pos = i
                    THEN [es[i] EXCEPT !.lblk = v] ELSE es[i]
        BY DEF ext4_ext_correct_indexes
      <4> QED
        BY <4>1, <1>7
    <3> HIDE DEF es, fs
    <3>6. \A i \in DOMAIN es : fs[i] \in Entry
      BY <3>3, <3>5, <1>5 DEF Entry
    <3>7. fs \in Seq(Entry)
      <4>1. fs \in [1 .. Len(es) -> Entry]
        BY <3>3, <3>4, <3>6
      <4> QED
        BY <4>1, <3>3, SeqDef
    <3>8. LeafTree[x] \in Node
      BY <2>0, <3>1, <3>7 DEF Node
    <3>9. LeafTree[x].depth = node[x].depth /\ LeafTree[x].max = node[x].max /\ LeafTree[x].ents = fs
      BY <2>0, <3>1 DEF Node
    <3> QED
      BY <3>2, <3>4, <3>5, <3>8, <3>9 DEF es
  <2> QED
    BY <2>1, <2>2
<1>10. DOMAIN CutTree = DOMAIN node
  BY <1>1
<1>11. LeafTree \in [DOMAIN node -> Node]
  <2>1. LeafTree = [x \in DOMAIN node |-> LeafTree[x]]
    BY DEF LeafTree
  <2> QED
    BY <2>1, <1>9
<1>12. Rekeyed(CutTree, LeafTree, R, v)
  <2> HIDE DEF b
  <2> QED
    BY <1>9, <1>10, <1>11 DEF Rekeyed
<1> QED
  BY <1>5, <1>12 DEF R, v, m

\* What a round of the loop does in a leaf.
LEMMA LeafRound ==
    ASSUME RemoveInLeaf
    PROVE  /\ pc = "remove" /\ path # <<>> /\ node[leaf.blk].depth = 0
           /\ UNCHANGED <<pc, req, newext, split, conv, res>>
           /\ LeafRest # <<>> \/ leaf.blk = Root =>
                 node' = LeafTree /\ free' = CutFree /\ path' = Up(1)
           /\ LeafRest = <<>> /\ leaf.blk # Root =>
                 /\ node' = ext4_ext_remove_idx(LeafTree, Len(path) - 1)
                 /\ free' = CutFree \cup {leaf.blk} /\ path' = Up(0)
<1>1. LET drop == LeafRest = <<>> /\ leaf.blk # Root
      IN  /\ node' = IF drop THEN ext4_ext_remove_idx(LeafTree, Len(path) - 1) ELSE LeafTree
          /\ free' = free \cup Dropped(drop) \cup Freed(LeafEnts, leaf.pos, LeafFrom, LeafTo)
          /\ path' = Up(IF drop THEN 0 ELSE 1)
  BY DEF RemoveInLeaf, LeafTree, LeafRest, LeafEnts, LeafFrom, LeafTo, Freed
<1>2. /\ pc = "remove" /\ path # <<>> /\ node[leaf.blk].depth = 0
      /\ UNCHANGED <<pc, req, newext, split, conv, res>>
  BY DEF RemoveInLeaf
<1>3. ASSUME LeafRest # <<>> \/ leaf.blk = Root
      PROVE  node' = LeafTree /\ free' = CutFree /\ path' = Up(1)
  BY <1>1, <1>3 DEF Dropped, CutFree
<1>4. ASSUME LeafRest = <<>> /\ leaf.blk # Root
      PROVE  /\ node' = ext4_ext_remove_idx(LeafTree, Len(path) - 1)
             /\ free' = CutFree \cup {leaf.blk} /\ path' = Up(0)
  BY <1>1, <1>4 DEF Dropped, CutFree
<1> QED
  BY <1>2, <1>3, <1>4

\* The keys above a leaf that keeps extents match its first one.
LEMMA LeafStands ==
    ASSUME RemoveInv, path # <<>>, node[leaf.blk].depth = 0, LeafRest # <<>>
    PROVE  /\ \E U : Standing(LeafTree, CutFree, U, path, Len(path), req.lblk)
           /\ 1 \in DOMAIN LeafTree[path[Len(path)].blk].ents
<1> DEFINE m == Len(path)
           v == LeafRest[1].lblk
           b == path[m].blk
           l == req.lblk
           nd == CutTree
           nn == LeafTree
           fr == CutFree
<1>1. m \in Nat \ {0} /\ b = leaf.blk /\ l \in Nat
  BY InLoop
<1>2. PICK U : Standing(nd, fr, U, path, m, l)
  BY CutStands
<1>3. nd[b].ents = LeafRest /\ nd[b].depth = 0
  BY <1>1, CutStands
<1>4. Rekeyed(nd, nn, FirstSlots(path, m), v) /\ 1 \in DOMAIN nd[b].ents /\ v \in Nat
  BY <1>3, LeafTreeKeys
<1>5. GoodTree(nd, fr, U) /\ Route(nd, path, m)
  BY <1>2 DEF Standing
<1> HIDE DEF m, nd, nn, fr
<1>6. b \in DOMAIN nd
  <2>1. m \in 1 .. m
    BY <1>1
  <2> QED
    BY <2>1, <1>5 DEF Route
<1>7. v = nd[b].ents[1].lblk
  BY <1>3
<1> HIDE DEF v, b, l
<1>8. v < U[b]
  <2>1. Typed(nd, fr) /\ U[b] \in Nat /\ Ordered(nd[b].ents, 0, U[b])
    BY <1>3, <1>5, <1>6 DEF GoodTree, Sorted
  <2>2. nd[b].ents[1].lblk < EndOf(nd[b].ents[1], 0) /\ EndOf(nd[b].ents[1], 0) <= U[b]
    BY <2>1, <1>4 DEF Ordered
  <2>3. EndOf(nd[b].ents[1], nd[b].depth) \in Nat /\ nd[b].ents[1].lblk \in Nat
    BY <2>1, <1>4, <1>6, NodeOf
  <2> QED
    BY <2>1, <2>2, <2>3, <1>3, <1>7
<1>9. FitsAbove(nd, path, m, v)
  <2> SUFFICES ASSUME m - 1 \in FirstUpTo(path, m)
               PROVE  KeyAt(nd, path, m - 1) <= v
    BY <1>4, <1>7 DEF FitsAbove, b
  <2>1. m - 1 \in 1 .. m - 1 /\ (m - 1) + 1 = m /\ m \in Nat
    BY <1>1 DEF FirstUpTo
  <2>2. PICK k : k = m - 1
    OBVIOUS
  <2>3. k \in 1 .. m - 1 /\ path[k + 1].blk = b
    BY <2>1, <2>2 DEF b
  <2>4. nd[path[k].blk].ents[path[k].pos].lblk <= nd[path[k + 1].blk].ents[1].lblk
    BY <2>1, <2>3, <1>4, <1>5, RouteStep, SMTT(30)
  <2> QED
    BY <2>2, <2>3, <2>4, <1>7 DEF KeyAt
<1>10. Standing(nn, fr, U, path, m, l) /\ EndKept(nd, nn, b, l)
  <2>1. v < U[path[m].blk]
    BY <1>8 DEF b
  <2> QED
    BY <1>1, <1>2, <1>4, <1>9, <2>1, KeysRaised DEF b
<1> QED
  BY <1>4, <1>10 DEF EndKept, m, v, b, l, nd, nn, fr

\* A round of the loop in a leaf.
LEMMA RemoveInLeafStep ==
    ASSUME RemoveInv, RemoveInLeaf
    PROVE  RemoveInv'
<1> DEFINE m == Len(path)
           k == Len(path) - 1
           l == req.lblk
<1>1. /\ pc = "remove" /\ path # <<>> /\ node[leaf.blk].depth = 0
      /\ UNCHANGED <<pc, req, newext, split, conv, res>>
  BY LeafRound
<1>2. m \in Nat \ {0} /\ leaf = path[m] /\ l \in Nat /\ path \in Seq(PathElem)
  BY <1>1, InLoop DEF RemoveInv, LocalType
<1>3. CASE LeafRest # <<>>
  <2>1. node' = LeafTree /\ free' = CutFree /\ path' = Up(1)
    BY <1>3, LeafRound
  <2>2. PICK U : Standing(node', free', U, path, m, l)
    BY <1>1, <1>3, <2>1, LeafStands
  <2>3. 1 \in DOMAIN node'[path[m].blk].ents
    BY <1>1, <1>3, <2>1, LeafStands
  <2>4. /\ GoodTree(node', free', U) /\ Family(node') /\ Filled(node', path[m].blk)
        /\ Route(node', path, m)
    BY <2>2 DEF Standing
  <2> HIDE DEF m, k
  <2>5. k = 0 => Filled(node', Root)
    <3> SUFFICES ASSUME k = 0 PROVE Filled(node', Root)
      OBVIOUS
    <3>1. m = 1
      BY <1>2 DEF k, m
    <3>2. path[m].blk = Root
      BY <3>1, <2>4 DEF Route
    <3> QED
      BY <3>2, <2>4
  <2>6. k # 0 => /\ Standing(node', free', U, path, k, l)
                 /\ node'[path[k].blk].depth > 0
                 /\ NoneBefore(node', path[k].blk, path[k].pos + 1, l)
    <3> SUFFICES ASSUME k # 0
                 PROVE  /\ Standing(node', free', U, path, k, l)
                        /\ node'[path[k].blk].depth > 0
                        /\ NoneBefore(node', path[k].blk, path[k].pos + 1, l)
      OBVIOUS
    <3>1. k \in Nat \ {0} /\ m = k + 1
      BY <1>2 DEF k, m
    <3>2. Standing(node', free', U, path, k + 1, l) /\ 1 \in DOMAIN node'[path[k + 1].blk].ents
      BY <2>2, <2>3, <3>1
    <3> QED
      BY ONLY <3>1, <3>2, <1>2, StandingAbove
  <2>7. k = Len(path) - 1 /\ 1 \in {0, 1}
    BY DEF k
  <2> QED
    BY <1>1, <2>1, <2>4, <2>5, <2>6, <2>7, WentUp
<1>4. CASE LeafRest = <<>> /\ leaf.blk = Root
  <2>1. node' = LeafTree /\ free' = CutFree /\ path' = Up(1)
    BY <1>4, LeafRound
  <2>2. node' = CutTree
    BY <1>1, <1>4, <2>1, LeafTreeEmpty
  <2>3. PICK U : Standing(node', free', U, path, m, l)
    BY <1>1, <2>1, <2>2, CutStands
  <2>4. /\ GoodTree(node', free', U) /\ Family(node') /\ Filled(node', path[m].blk)
        /\ Route(node', path, m)
    BY <2>3 DEF Standing
  <2>5. Typed(node', free')
    BY <2>4 DEF GoodTree
  <2> HIDE DEF m, k
  <2>6. k = 0
    <3>1. m \in Nat /\ 1 \in 1 .. m /\ m \in 1 .. m
      BY <1>2
    <3>2. path[1].blk = path[m].blk
      BY <3>1, <2>4, <1>2, <1>4 DEF Route
    <3>3. 1 = m
      BY <2>4, <2>5, <3>1, <3>2, RouteDistinct
    <3> QED
      BY <3>3 DEF k, m
  <2>7. Filled(node', Root)
    BY <1>2, <1>4, <2>4
  <2>8. k = Len(path) - 1 /\ 1 \in {0, 1}
    BY DEF k
  <2> QED
    BY <1>1, <2>1, <2>4, <2>6, <2>7, <2>8, WentUp
<1>5. CASE LeafRest = <<>> /\ leaf.blk # Root
  <2>1. /\ node' = ext4_ext_remove_idx(LeafTree, k)
        /\ free' = CutFree \cup {leaf.blk} /\ path' = Up(0)
    BY <1>5, LeafRound
  <2>2. LeafTree = CutTree
    BY <1>1, <1>5, LeafTreeEmpty
  <2>3. PICK U : Standing(CutTree, CutFree, U, path, m, l)
    BY <1>1, CutStands
  <2>4. CutTree[path[m].blk].ents = <<>>
    BY <1>1, <1>2, <1>5, CutStands
  <2> HIDE DEF m, k
  <2>5. k \in Nat \ {0} /\ k + 1 = m
    <3>1. Route(CutTree, path, m)
      BY <2>3 DEF Standing
    <3>2. m # 1
      BY <3>1, <1>2, <1>5 DEF Route
    <3> QED
      BY <3>2, <1>2 DEF k, m
  <2>6. Standing(CutTree, CutFree, U, path, k + 1, l) /\ CutTree[path[k + 1].blk].ents = <<>>
    BY <2>3, <2>4, <2>5
  <2>7. /\ \E V : Standing(node', CutFree \cup {path[k + 1].blk}, V, path, k, l)
        /\ node'[path[k].blk].depth > 0
        /\ NoneBefore(node', path[k].blk, path[k].pos, l)
    <3>1. node' = ext4_ext_remove_idx(CutTree, k)
      BY <2>1, <2>2
    <3> QED
      BY ONLY <3>1, <2>5, <2>6, <1>2, DroppedTree
  <2>8. PICK V : Standing(node', free', V, path, k, l)
    BY <2>1, <2>5, <2>7, <1>2
  <2>9. GoodTree(node', free', V) /\ Family(node')
    BY <2>8 DEF Standing
  <2>10. NoneBefore(node', path[k].blk, path[k].pos + 0, l)
    <3>1. k \in 1 .. Len(path)
      BY <2>5, <1>2 DEF m
    <3>2. path[k] \in PathElem
      BY <3>1, <1>2, LenProperties, ElementOfSeq
    <3>3. path[k].pos + 0 = path[k].pos
      BY <3>2 DEF PathElem
    <3> QED
      BY <3>3, <2>7
  <2>11. k = Len(path) - 1 /\ 0 \in {0, 1} /\ k # 0
    BY <2>5 DEF k
  <2> QED
    BY <1>1, <2>1, <2>7, <2>8, <2>9, <2>10, <2>11, WentUp
<1> QED
  BY <1>3, <1>4, <1>5

\* WentUp for a step that goes on to the next slot of the parent.
LEMMA WentOn ==
    ASSUME RemoveInv, pc = "remove", path # <<>>, path' = Up(1),
           UNCHANGED <<pc, req, newext, split, conv, res>>,
           NEW V, NEW k, k = Len(path) - 1,
           GoodTree(node', free', V), Family(node'),
           k = 0 => Filled(node', Root),
           k # 0 => /\ Standing(node', free', V, path, k, req.lblk)
                    /\ node'[path[k].blk].depth > 0
                    /\ NoneBefore(node', path[k].blk, path[k].pos + 1, req.lblk)
    PROVE  RemoveInv'
<1>1. 1 \in {0, 1}
  OBVIOUS
<1>2. ASSUME NEW n \in {0, 1}, n = 1
      PROVE  RemoveInv'
  <2>1. /\ path' = Up(n)
        /\ k # 0 => NoneBefore(node', path[k].blk, path[k].pos + n, req.lblk)
    BY <1>2
  <2>2. k # 0 => /\ Standing(node', free', V, path, k, req.lblk)
                 /\ node'[path[k].blk].depth > 0
    OBVIOUS
  <2> QED
    BY <2>1, <2>2, WentUp
<1> QED
  BY <1>1, <1>2

\* An index node is left upwards.
LEMMA RemoveUpStep ==
    ASSUME RemoveInv, RemoveUp
    PROVE  RemoveInv'
<1> DEFINE m == Len(path)
           k == Len(path) - 1
           l == req.lblk
           drop == node[leaf.blk].ents = <<>> /\ Len(path) > 1
<1>1. /\ pc = "remove" /\ path # <<>> /\ node[leaf.blk].depth > 0
      /\ UNCHANGED <<pc, req, newext, split, conv, res>>
      /\ node' = IF drop THEN ext4_ext_remove_idx(node, k) ELSE node
      /\ free' = free \cup Dropped(drop)
      /\ path' = Up(IF drop THEN 0 ELSE 1)
  BY DEF RemoveUp, AtIndex
<1>2. /\ m \in Nat \ {0} /\ leaf = path[m] /\ l \in Nat /\ path \in Seq(PathElem)
      /\ Typed(node, free) /\ leaf.blk \in DOMAIN node
  BY <1>1, InLoop DEF RemoveInv, LocalType
<1>3. PICK U : Standing(node, free, U, path, m, l)
  BY <1>1, InLoop
<1>4. CASE drop
  <2>1. node' = ext4_ext_remove_idx(node, k) /\ free' = free \cup {leaf.blk} /\ path' = Up(0)
    BY <1>1, <1>4 DEF Dropped
  <2>2. k \in Nat \ {0} /\ k + 1 = m
    BY <1>2, <1>4
  <2>3. node[path[m].blk].ents = <<>>
    BY <1>2, <1>4
  <2> HIDE DEF m, k
  <2>4. Standing(node, free, U, path, k + 1, l) /\ node[path[k + 1].blk].ents = <<>>
    BY <1>3, <2>2, <2>3
  <2>5. /\ \E V : Standing(node', free \cup {path[k + 1].blk}, V, path, k, l)
        /\ node'[path[k].blk].depth > 0
        /\ NoneBefore(node', path[k].blk, path[k].pos, l)
    BY ONLY <2>1, <2>2, <2>4, <1>2, DroppedTree
  <2>6. PICK V : Standing(node', free', V, path, k, l)
    BY <2>1, <2>2, <2>5, <1>2
  <2>7. GoodTree(node', free', V) /\ Family(node')
    BY <2>6 DEF Standing
  <2>8. NoneBefore(node', path[k].blk, path[k].pos + 0, l)
    <3>1. k \in 1 .. Len(path)
      BY <2>2, <1>2 DEF m
    <3>2. path[k] \in PathElem
      BY <3>1, <1>2, LenProperties, ElementOfSeq
    <3>3. path[k].pos + 0 = path[k].pos
      BY <3>2 DEF PathElem
    <3> QED
      BY <3>3, <2>5
  <2>9. k = Len(path) - 1 /\ 0 \in {0, 1} /\ k # 0
    BY <2>2 DEF k
  <2> QED
    BY <1>1, <2>1, <2>5, <2>6, <2>7, <2>8, <2>9, WentUp
<1>5. CASE ~ drop
  <2>1. node' = node /\ free' = free /\ path' = Up(1)
    BY <1>1, <1>5 DEF Dropped
  <2>2. Standing(node', free', U, path, m, l)
    BY <1>3, <2>1
  <2>3. /\ GoodTree(node', free', U) /\ Family(node') /\ Filled(node', path[m].blk)
        /\ Route(node', path, m)
    BY <2>2 DEF Standing
  <2>4. m > 1 => 1 \in DOMAIN node'[path[m].blk].ents
    <3>1. /\ node[leaf.blk].ents \in Seq(Entry)
          /\ DOMAIN node[leaf.blk].ents = 1 .. Len(node[leaf.blk].ents)
          /\ Len(node[leaf.blk].ents) \in Nat
      BY <1>2, NodeOf
    <3>2. node[leaf.blk].ents # <<>> => Len(node[leaf.blk].ents) # 0
      BY <3>1, EmptySeq
    <3>3. node[leaf.blk].ents # <<>> => 1 \in DOMAIN node[leaf.blk].ents
      BY <3>1, <3>2
    <3> QED
      BY <3>3, <1>2, <1>5, <2>1
  <2> HIDE DEF m, k
  <2>5. k = 0 => Filled(node', Root)
    <3> SUFFICES ASSUME k = 0 PROVE Filled(node', Root)
      OBVIOUS
    <3>1. m = 1
      BY <1>2 DEF k, m
    <3>2. path[m].blk = Root
      BY <3>1, <2>3 DEF Route
    <3> QED
      BY <3>2, <2>3
  <2>6. k # 0 => /\ Standing(node', free', U, path, k, l)
                 /\ node'[path[k].blk].depth > 0
                 /\ NoneBefore(node', path[k].blk, path[k].pos + 1, l)
    <3> SUFFICES ASSUME k # 0
                 PROVE  /\ Standing(node', free', U, path, k, l)
                        /\ node'[path[k].blk].depth > 0
                        /\ NoneBefore(node', path[k].blk, path[k].pos + 1, l)
      OBVIOUS
    <3>1. k \in Nat \ {0} /\ m = k + 1 /\ m > 1
      <4>1. k = m - 1
        BY DEF k, m
      <4> QED
        BY ONLY <4>1, <1>2, k # 0
    <3>2. Standing(node', free', U, path, k + 1, l) /\ 1 \in DOMAIN node'[path[k + 1].blk].ents
      BY <2>2, <2>4, <3>1
    <3> QED
      BY ONLY <3>1, <3>2, <1>2, StandingAbove
  <2>7. k = Len(path) - 1 /\ 1 \in {0, 1}
    BY DEF k
  <2>8. pc = "remove" /\ path # <<>> /\ UNCHANGED <<pc, req, newext, split, conv, res>> /\ path' = Up(1)
    BY <1>1, <2>1
  <2> HIDE DEF drop, m, k
  <2> QED
    BY ONLY RemoveInv, <2>3, <2>5, <2>6, <2>7, <2>8, WentOn
<1> QED
  BY <1>4, <1>5

\* The path with one more element.
LEMMA Longer ==
    ASSUME NEW s \in Seq(PathElem), NEW e \in PathElem
    PROVE  LET q == Append(s, e)
           IN  /\ q \in Seq(PathElem) /\ Len(q) = Len(s) + 1 /\ q # <<>>
               /\ q[Len(q)] = e /\ \A j \in 1 .. Len(s) : q[j] = s[j]
<1>1. Len(s) \in Nat
  BY LenProperties
<1>2. Append(s, e) \in Seq(PathElem) /\ Len(Append(s, e)) = Len(s) + 1
  BY AppendProperties
<1>3. \A j \in 1 .. Len(s) : Append(s, e)[j] = s[j]
  BY AppendProperties
<1>4. Append(s, e)[Len(s) + 1] = e
  BY AppendProperties
<1>5. Append(s, e) # <<>>
  BY AppendProperties
<1> QED
  BY <1>2, <1>3, <1>4, <1>5

\* The next child is read.
LEMMA RemoveDownStep ==
    ASSUME RemoveInv, RemoveDown
    PROVE  RemoveInv'
<1> DEFINE m == Len(path)
           l == req.lblk
           b == leaf.blk
           p == leaf.pos
           c == ex.pblk
           es == node[b].ents
<1>1. /\ pc = "remove" /\ path # <<>> /\ node[b].depth > 0
      /\ UNCHANGED <<node, free, pc, req, newext, split, conv, res>>
      /\ p \in DOMAIN es
      /\ c \in DOMAIN node /\ node[c].depth = node[b].depth - 1
      /\ path' = Append(path, [blk |-> c, pos |-> 1])
  BY DEF RemoveDown, AtIndex, ext4_ext_more_to_rm, ext4_ext_check, tree
<1>2. /\ m \in Nat \ {0} /\ leaf = path[m] /\ l \in Nat /\ path \in Seq(PathElem)
      /\ Typed(node, free) /\ b \in DOMAIN node
  BY <1>1, InLoop DEF RemoveInv, LocalType
<1>3. PICK U : Standing(node, free, U, path, m, l)
  BY <1>1, InLoop
<1>4. /\ GoodTree(node, free, U) /\ Family(node) /\ Filled(node, b)
      /\ Route(node, path, m) /\ Behind(node, path, m, l)
  BY <1>2, <1>3 DEF Standing
<1>5. \A j \in DOMAIN es : p <= j => l <= es[j].lblk
  <2>1. StandsAt(node, b, p, l)
    BY <1>1, InLoop
  <2> QED
    BY <2>1, <1>1 DEF StandsAt
<1>6. es[p].pblk = c /\ DOMAIN es = 1 .. Len(es) /\ Len(es) \in Nat /\ es[p].lblk \in Nat
  <2>1. DOMAIN es = 1 .. Len(es) /\ Len(es) \in Nat /\ es[p].lblk \in Nat
    BY <1>1, <1>2, NodeOf
  <2> QED
    BY <2>1 DEF ex
<1>7. [blk |-> c, pos |-> 1] \in PathElem
  <2>1. c \in PBlk \cup {Root}
    BY <1>1, <1>2 DEF Typed
  <2> QED
    BY <2>1 DEF PathElem
<1> DEFINE q == path'
<1>8. /\ q \in Seq(PathElem) /\ Len(q) = m + 1 /\ q # <<>>
      /\ q[m + 1] = [blk |-> c, pos |-> 1] /\ \A j \in 1 .. m : q[j] = path[j]
  <2>1. LET x == Append(path, [blk |-> c, pos |-> 1])
        IN  /\ x \in Seq(PathElem) /\ Len(x) = Len(path) + 1 /\ x # <<>>
            /\ x[Len(x)] = [blk |-> c, pos |-> 1] /\ \A j \in 1 .. Len(path) : x[j] = path[j]
    BY <1>2, <1>7, Longer
  <2> QED
    BY <2>1, <1>1
<1> HIDE DEF m, l, b, p, c, es, q
<1>9. /\ m \in 1 .. m /\ (m + 1) - 1 = m /\ m + 1 \in Nat /\ m \in Nat
      /\ \A j \in 1 .. m - 1 : j \in 1 .. m /\ j + 1 \in 1 .. m
  BY <1>2
<1>10. /\ q[m].blk = b /\ q[m].pos = p /\ q[m + 1].blk = c /\ q[m + 1].pos = 1
  BY <1>2, <1>8, <1>9 DEF b, p
<1>11. Route(node, q, m + 1)
  <2>1. q[1].blk = Root
    <3>1. 1 \in 1 .. m
      BY <1>2
    <3> QED
      BY <3>1, <1>8, <1>2, <1>4 DEF Route
  <2>2. ASSUME NEW j \in 1 .. m + 1
        PROVE  q[j].blk \in DOMAIN node /\ node[q[j].blk].depth = node[Root].depth - (j - 1)
    <3>1. CASE j \in 1 .. m
      BY <3>1, <1>8, <1>4 DEF Route
    <3>2. CASE j = m + 1
      <4>1. node[b].depth = node[Root].depth - (m - 1)
        BY <1>2, <1>4, <1>9 DEF Route, b
      <4>2. node[Root].depth \in Nat
        BY <1>2, NodeOf DEF Typed
      <4>3. node[c].depth = node[Root].depth - ((m + 1) - 1)
        BY <4>1, <4>2, <1>1, <1>2
      <4> QED
        BY <4>3, <3>2, <1>1, <1>10
    <3> QED
      BY <3>1, <3>2, <1>2
  <2>3. ASSUME NEW j \in 1 .. (m + 1) - 1
        PROVE  LET fs == node[q[j].blk].ents
               IN  q[j].pos \in DOMAIN fs /\ q[j + 1].blk = fs[q[j].pos].pblk
    <3>1. CASE j = m
      BY <3>1, <1>1, <1>6, <1>10 DEF es
    <3>2. CASE j # m
      <4>1. j \in 1 .. m - 1
        BY <3>2, <1>2
      <4>2. q[j] = path[j] /\ q[j + 1] = path[j + 1]
        BY <4>1, <1>8, <1>9
      <4> QED
        BY <4>1, <4>2, <1>4 DEF Route
    <3> QED
      BY <3>1, <3>2
  <2> QED
    BY <2>1, <2>2, <2>3 DEF Route
<1>12. Behind(node, q, m + 1, l)
  <2> SUFFICES ASSUME NEW j \in 1 .. (m + 1) - 1, NEW i \in DOMAIN node[q[j].blk].ents, q[j].pos < i
               PROVE  l <= node[q[j].blk].ents[i].lblk
    BY DEF Behind
  <2>1. CASE j = m
    <3>1. i \in DOMAIN es /\ p < i
      BY <2>1, <1>10 DEF es
    <3>2. p <= i
      BY <3>1, <1>1, <1>6
    <3> QED
      BY <2>1, <3>1, <3>2, <1>5, <1>10 DEF es
  <2>2. CASE j # m
    <3>1. j \in 1 .. m - 1
      BY <2>2, <1>2
    <3>2. q[j] = path[j]
      BY <3>1, <1>8, <1>9
    <3> QED
      BY <3>1, <3>2, <1>4 DEF Behind
  <2> QED
    BY <2>1, <2>2
<1>13. c # Root /\ c # b
  <2>1. c # Root
    BY <1>1, <1>2, <1>4, <1>6 DEF GoodTree, KidsLive, es
  <2>2. node[b].depth \in Nat
    BY <1>2, NodeOf
  <2> QED
    BY <2>1, <2>2, <1>1
<1>14. 1 \in DOMAIN node[c].ents
  BY <1>1, <1>4, <1>13 DEF Filled
<1>15. Filled(node, c)
  <2>1. 1 \in DOMAIN es
    BY <1>1, <1>6
  <2> QED
    BY <2>1, <1>4 DEF Filled, es
<1>16. StandsAt(node, c, 1, l)
  <2> DEFINE fs == node[c].ents
  <2>1. l <= es[p].lblk
    BY <1>1, <1>5, <1>6
  <2>2. m \in 1 .. (m + 1) - 1
    BY <1>9
  <2>3. fs[1].lblk \in Nat /\ node[q[m].blk].ents[q[m].pos].lblk <= node[q[m + 1].blk].ents[1].lblk
    <3>1. /\ 1 \in DOMAIN node[q[m + 1].blk].ents =>
               /\ node[q[m + 1].blk].ents[1].lblk \in Nat
               /\ node[q[m].blk].ents[q[m].pos].lblk <= node[q[m + 1].blk].ents[1].lblk
      BY <2>2, <1>4, <1>9, <1>11, RouteStep
    <3> QED
      BY <3>1, <1>10, <1>14
  <2>4. l <= fs[1].lblk
    BY <2>1, <2>3, <1>2, <1>6, <1>10, SMTT(30) DEF es
  <2>5. Ordered(fs, node[c].depth, U[c])
    BY <1>1, <1>4 DEF GoodTree, Sorted
  <2>6. /\ DOMAIN fs = 1 .. Len(fs) /\ Len(fs) \in Nat
        /\ \A j \in DOMAIN fs : fs[j].lblk \in Nat /\ EndOf(fs[j], node[c].depth) \in Nat
    BY <1>1, <1>2, NodeOf
  <2> HIDE DEF fs
  <2>7. ASSUME NEW j \in DOMAIN fs PROVE l <= fs[j].lblk
    <3>1. CASE j = 1
      BY <3>1, <2>4
    <3>2. CASE j # 1
      <4>1. 1 < j /\ 1 \in DOMAIN fs
        BY <3>2, <2>6
      <4>2. fs[1].lblk < EndOf(fs[1], node[c].depth) /\ EndOf(fs[1], node[c].depth) <= fs[j].lblk
        BY <4>1, <2>5 DEF Ordered
      <4> QED
        BY <4>1, <4>2, <2>4, <2>6, <1>2
    <3> QED
      BY <3>1, <3>2
  <2> QED
    BY <1>14, <2>4, <2>7 DEF StandsAt, fs
<1>17. LocalType' /\ np' = <<>> /\ todo' = <<>>
  <2>1. LocalType /\ np = <<>> /\ todo = <<>>
    BY DEF RemoveInv
  <2>2. LocalType'
    BY <2>1, <1>1, <1>8 DEF LocalType, split, conv, q
  <2> QED
    BY <2>1, <2>2, <1>1 DEF split, conv
<1>18. leaf' = q[m + 1] /\ q # <<>> /\ Len(q) = m + 1 /\ leaf'.blk = c /\ leaf'.pos = 1
  BY <1>8, <1>10 DEF leaf, q
<1>19. node' = node /\ free' = free /\ req'.lblk = l /\ path' = q
  BY <1>1 DEF l, q
<1> QED
  BY <1>4, <1>11, <1>12, <1>15, <1>16, <1>17, <1>18, <1>19 DEF RemoveInv

-----------------------------------------------------------------------------
(* Leaving the loop.                                                       *)

\* A tree whose root has no entries is the root alone.
LEMMA RootAlone ==
    ASSUME NEW nd, NEW fr, NEW U, GoodTree(nd, fr, U), Family(nd), nd[Root].ents = <<>>
    PROVE  DOMAIN nd = {Root}
<1> DEFINE N == DOMAIN nd \ {Root}
           n == nd[Root].depth
           S == {nd[c].depth + 1 : c \in N}
<1>1. Typed(nd, fr) /\ KidsLive(nd) /\ Fits(nd) /\ Root \in DOMAIN nd
  BY DEF GoodTree, Typed
<1>2. n \in Nat /\ \A c \in DOMAIN nd : nd[c].depth \in Nat
  BY <1>1, NodeOf
<1>3. \A c \in N : nd[c].depth + 1 \in 1 .. n
  BY <1>1, <1>2 DEF Fits
<1>4. SUFFICES ASSUME N # {} PROVE FALSE
  BY <1>1
<1>5. S \subseteq 1 .. n /\ S # {}
  BY <1>3, <1>4
<1>6. Max(S) \in S /\ \A y \in S : Max(S) >= y
  <2> HIDE DEF S, n
  <2> QED
    BY <1>2, <1>5, MaxOfSlots
<1>7. PICK c \in N : Max(S) = nd[c].depth + 1
  BY <1>6
<1>8. PICK b \in DOMAIN nd :
         nd[b].depth > 0 /\ \E i \in DOMAIN nd[b].ents : nd[b].ents[i].pblk = c
  BY <1>7 DEF Family, Child
<1>9. nd[c].depth = nd[b].depth - 1
  BY <1>1, <1>8 DEF KidsLive
<1>10. b # Root
  BY <1>8
<1>11. nd[b].depth + 1 \in S
  BY <1>8, <1>10
<1>12. Max(S) >= nd[b].depth + 1
  BY <1>6, <1>11
<1> HIDE DEF S
<1> QED
  BY <1>2, <1>7, <1>8, <1>9, <1>12

\* It may become a leaf again.
LEMMA RootEmptied ==
    ASSUME NEW nd, NEW fr, NEW U, GoodTree(nd, fr, U), Family(nd), nd[Root].ents = <<>>,
           NEW nn, nn = [nd EXCEPT ![Root].depth = 0, ![Root].max = SpaceRoot]
    PROVE  /\ GoodTree(nn, fr, U) /\ Family(nn) /\ Filled(nn, Root) /\ nn[Root].depth = 0
<1>1. DOMAIN nd = {Root}
  BY RootAlone
<1>2. Typed(nd, fr) /\ U \in [DOMAIN nd -> Nat]
  BY DEF GoodTree
<1>3. nd[Root] \in Node
  BY <1>1, <1>2, NodeOf
<1>4. DOMAIN nn = {Root} /\ nn[Root] = [[nd[Root] EXCEPT !.depth = 0] EXCEPT !.max = SpaceRoot]
  BY <1>1, <1>3
<1>5. /\ nn[Root] \in Node /\ nn[Root].depth = 0 /\ nn[Root].max = SpaceRoot
      /\ nn[Root].ents = <<>>
  BY <1>3, <1>4, ConstantsAssumption DEF Node
<1>6. nn = [x \in {Root} |-> nn[x]]
  BY <1>1
<1>7. DOMAIN nn[Root].ents = {} /\ Len(nn[Root].ents) = 0
  BY <1>5
<1>8. Typed(nn, fr)
  BY <1>1, <1>2, <1>4, <1>5, <1>6 DEF Typed
<1>9. SlotsOf(nn) = {}
  BY <1>4, <1>7 DEF SlotsOf
<1>10. OwnersDiffer(nn) /\ Unowned(nn, fr)
  BY <1>9 DEF OwnersDiffer, Unowned
<1>11. InDevice(nn) /\ RootRoom(nn) /\ KidsLive(nn)
  BY <1>4, <1>5, <1>7 DEF InDevice, RootRoom, KidsLive
<1>12. Fits(nn)
  <2>1. ext4_ext_max_entries(0, 0) = SpaceRoot
    BY DEF ext4_ext_max_entries
  <2> QED
    BY <2>1, <1>4, <1>5, <1>7, ConstantsAssumption DEF Fits
<1>13. Sorted(nn, U) /\ U \in [DOMAIN nn -> Nat]
  BY <1>1, <1>2, <1>4, <1>5, <1>7 DEF Sorted, Ordered
<1>14. Family(nn) /\ Filled(nn, Root)
  BY <1>4 DEF Family, Filled
<1> QED
  BY <1>5, <1>8, <1>10, <1>11, <1>12, <1>13, <1>14 DEF GoodTree

\* What is true of a file in all code but the removal loop.
CallInv == IInv /\ SortInv /\ WholeInv /\ AtRest

\* A call that is over leaves a tree that get_blocks() can work on.
LEMMA LoopLeft ==
    ASSUME LocalType, np = <<>>, NEW r \in Result, Return(r), UNCHANGED split,
           NEW U, GoodTree(node', free', U), Family(node'), Filled(node', Root),
           node'[Root].depth > 0 => 1 \in DOMAIN node'[Root].ents
    PROVE  CallInv' /\ pc' = "idle"
<1>1. /\ pc' = "idle" /\ newext' = NoExtent /\ path' = <<>> /\ todo' = <<>>
      /\ np' = <<>> /\ UNCHANGED <<at, key>>
  BY DEF Return, split
<1>2. /\ Typed(node', free') /\ KidsLive(node') /\ Fits(node')
      /\ OwnersDiffer(node') /\ Unowned(node', free') /\ InDevice(node')
      /\ RootRoom(node') /\ U \in [DOMAIN node' -> Nat] /\ Sorted(node', U)
  BY DEF GoodTree
<1>3. NodesFit(node')
  <2> SUFFICES ASSUME NEW b \in DOMAIN node', node'[b].depth > 0 PROVE node'[b].ents # <<>>
    BY <1>2 DEF NodesFit, Fits
  <2>1. 1 \in DOMAIN node'[b].ents
    BY DEF Filled
  <2> QED
    BY <2>1
<1>4. TreeInv'
  BY <1>2, <1>3 DEF TreeInv, TreeType, NodesNotFree, Typed
<1>5. LocalType'
  <2>1. NoExtent \in Entry /\ NoSlot.len \in RawLen
    BY InitMaxAssumption DEF NoExtent, NoSlot, Entry, RawLen
  <2>2. /\ pc' \in PCs
        /\ req' \in [lblk : Nat, max : Nat, create : BOOLEAN]
        /\ saved' \in [blk : PBlk \cup {Root}, pos : Nat, len : RawLen]
    BY <2>1 DEF Return, PCs, NoReq, NoSlot
  <2>3. path' \in Seq(PathElem) /\ todo' \in Seq(SplitStep)
    BY EmptySeq DEF Return
  <2> QED
    BY <2>1, <2>2, <2>3 DEF LocalType, Return, split
<1>6. PathInv' /\ GrowInv' /\ DataInv' /\ SplitInv'
  BY <1>1 DEF PathInv, Searching, Working, GrowInv, DataInv, Inserting, SplitInv
<1>7. OwnerInv'
  BY <1>1, <1>2, ReturnKeepsOwners
<1>8. FillInv'
  <2>1. AllUsed'
    BY DEF Filled, AllUsed, Used
  <2> QED
    BY <1>1, <2>1, Quiet
<1>9. OrderInv'
  BY <1>1, <1>2, Calm
<1>10. WholeInv'
  <2>1. Adopted'
    BY DEF Adopted, Family, Child
  <2>2. NewInDevice'
    BY <1>1 DEF NewInDevice, Inserting
  <2> QED
    BY <1>2, <2>1, <2>2 DEF WholeInv
<1> QED
  BY <1>1, <1>4, <1>5, <1>6, <1>7, <1>8, <1>9, <1>10 DEF CallInv, IInv, LocalInv, SortInv, AtRest

\* The loop is left, at its end or at a block that cannot be read: the tree is one
\* that get_blocks() can work on.
LEMMA RemoveEnds ==
    ASSUME RemoveInv, RemoveDownFails \/ RemovalDone
    PROVE  CallInv' /\ pc' = "idle"
<1>1. LocalType /\ np = <<>>
  BY DEF RemoveInv
<1>2. PICK U : GoodTree(node, free, U)
  BY DEF RemoveInv
<1>3. EOK(0, 0) \in Result /\ EFAIL \in Result
  BY DEF EOK, EFAIL, Result
<1>4. Typed(node, free) /\ Root \in DOMAIN node /\ Family(node)
  BY <1>2 DEF GoodTree, Typed, RemoveInv
<1>5. /\ node[Root].ents \in Seq(Entry)
      /\ \A b \in DOMAIN node : \A i \in DOMAIN node[b].ents : 1 \in DOMAIN node[b].ents
  <2>1. ASSUME NEW b \in DOMAIN node, NEW i \in DOMAIN node[b].ents
        PROVE  1 \in DOMAIN node[b].ents
    <3>1. DOMAIN node[b].ents = 1 .. Len(node[b].ents) /\ Len(node[b].ents) \in Nat
      BY <1>4, NodeOf
    <3> QED
      BY <3>1
  <2>2. node[Root].ents \in Seq(Entry)
    BY <1>4, NodeOf
  <2> QED
    BY <2>1, <2>2
<1>6. CASE RemoveDownFails
  <2>1. /\ path # <<>> /\ leaf.pos \in DOMAIN node[leaf.blk].ents
        /\ Return(EFAIL) /\ UNCHANGED <<node, free, split>>
    BY <1>6 DEF RemoveDownFails, AtIndex, ext4_ext_more_to_rm, Removed, tree
  <2>2. Len(path) \in Nat \ {0} /\ leaf = path[Len(path)] /\ leaf.blk \in DOMAIN node
    BY <2>1, InLoop
  <2>3. 1 \in DOMAIN node[leaf.blk].ents
    BY <2>1, <2>2, <1>5
  <2>4. Filled(node, Root)
    <3>1. Filled(node, leaf.blk)
      BY <2>1 DEF RemoveInv
    <3> QED
      BY <2>3, <3>1 DEF Filled
  <2>5. 1 \in DOMAIN node[Root].ents
    <3>1. Route(node, path, Len(path))
      BY DEF RemoveInv
    <3>2. CASE Len(path) = 1
      BY <3>1, <3>2, <2>2, <2>3 DEF Route
    <3>3. CASE Len(path) # 1
      <4>1. 1 \in 1 .. Len(path) - 1
        <5>1. PICK n : n = Len(path)
          OBVIOUS
        <5>2. n \in Nat /\ n # 0 /\ n # 1
          BY <5>1, <2>2, <3>3
        <5>3. 1 \in 1 .. n - 1
          BY ONLY <5>2
        <5> QED
          BY <5>1, <5>3
      <4>2. path[1].blk = Root
        BY <3>1, <2>2 DEF Route
      <4>3. path[1].pos \in DOMAIN node[path[1].blk].ents
        BY <3>1, <4>1 DEF Route
      <4> QED
        BY <4>2, <4>3, <1>4, <1>5
    <3> QED
      BY <3>2, <3>3
  <2>6. GoodTree(node', free', U) /\ Family(node') /\ Filled(node', Root)
        /\ 1 \in DOMAIN node'[Root].ents
    BY <2>1, <2>4, <2>5, <1>2, <1>4
  <2>7. Return(EFAIL) /\ UNCHANGED split
    BY <2>1
  <2> QED
    BY <1>1, <1>3, <2>6, <2>7, LoopLeft
<1>7. CASE RemovalDone
  <2>1. /\ path = <<>> /\ Return(EOK(0, 0)) /\ UNCHANGED split /\ free' = free
        /\ node[Root].ents = <<>> =>
              node' = [node EXCEPT ![Root].depth = 0, ![Root].max = SpaceRoot]
        /\ node[Root].ents # <<>> => node' = node
    BY <1>7 DEF RemovalDone, Removed
  <2>2. Filled(node, Root)
    BY <2>1 DEF RemoveInv
  <2>3. GoodTree(node', free', U) /\ Family(node') /\ Filled(node', Root)
        /\ (node'[Root].depth > 0 => 1 \in DOMAIN node'[Root].ents)
    <3>1. CASE node[Root].ents = <<>>
      <4>1. node' = [node EXCEPT ![Root].depth = 0, ![Root].max = SpaceRoot]
        BY <3>1, <2>1
      <4>2. GoodTree(node', free, U) /\ Family(node') /\ Filled(node', Root) /\ node'[Root].depth = 0
        BY <3>1, <4>1, <1>2, <1>4, RootEmptied
      <4> QED
        BY <4>2, <2>1
    <3>2. CASE node[Root].ents # <<>>
      <4>1. 1 \in DOMAIN node[Root].ents
        BY <3>2, <1>5, UsedWhenNonEmpty
      <4> QED
        BY <3>2, <4>1, <2>1, <2>2, <1>2, <1>4
    <3> QED
      BY <3>1, <3>2
  <2>4. Return(EOK(0, 0)) /\ UNCHANGED split
    BY <2>1
  <2> QED
    BY <1>1, <1>3, <2>3, <2>4, LoopLeft
<1> QED
  BY <1>6, <1>7

\* The tree of a call that is not inserting.
LEMMA CallTree ==
    ASSUME CallInv, pc \notin {"split", "link", "insert"}
    PROVE  /\ LocalType /\ np = <<>>
           /\ \E U : GoodTree(node, free, U)
           /\ Family(node) /\ Filled(node, Root)
           /\ node[Root].depth > 0 => 1 \in DOMAIN node[Root].ents
<1>1. IInv /\ OwnerInv /\ FillInv /\ OrderInv /\ WholeInv
  BY DEF CallInv, SortInv
<1>2. LocalType /\ np = <<>>
  BY <1>1 DEF IInv, LocalInv, SplitInv
<1>3. /\ TreeType /\ KidsLive(node) /\ NodesFit(node) /\ DOMAIN node \cap free = {}
  BY <1>1 DEF IInv, TreeInv, NodesNotFree
<1>4. Typed(node, free) /\ Fits(node)
  BY <1>3 DEF TreeType, Typed, NodesFit, Fits
<1>5. OwnersDiffer(node) /\ Unowned(node, free)
  BY <1>1 DEF OwnerInv
<1>6. InDevice(node) /\ RootRoom(node) /\ Adopted
  BY <1>1 DEF WholeInv
<1>7. \E U : U \in [DOMAIN node -> Nat] /\ Sorted(node, U)
  BY <1>1 DEF OrderInv
<1>8. \E U : GoodTree(node, free, U)
  BY <1>3, <1>4, <1>5, <1>6, <1>7 DEF GoodTree
<1>9. Family(node)
  BY <1>2, <1>6 DEF Adopted, Family
<1>10. AllUsed
  BY <1>1, NoneEmpty DEF FillInv
<1>11. Filled(node, Root)
  BY <1>10 DEF AllUsed, Used, Filled
<1>12. node[Root].depth > 0 => 1 \in DOMAIN node[Root].ents
  <2>1. Root \in DOMAIN node /\ node[Root].ents \in Seq(Entry)
    BY <1>4, NodeOf DEF Typed
  <2>2. node[Root].depth > 0 => node[Root].ents # <<>>
    BY <1>3, <2>1 DEF NodesFit
  <2> QED
    BY <2>1, <2>2, UsedWhenNonEmpty
<1> QED
  BY <1>2, <1>8, <1>9, <1>11, <1>12

\* The removal of a hole, and one whose insertion has failed.
LEMMA RemovalGivesUp ==
    ASSUME CallInv, NothingAtFrom \/ RemoveInsideFails
    PROVE  CallInv' /\ pc' = "idle"
<1>1. /\ pc \notin {"split", "link", "insert"}
      /\ node' = node /\ free' = free /\ UNCHANGED split
      /\ Return(EOK(0, 0)) \/ Return(EFAIL)
  BY DEF NothingAtFrom, RemoveInsideFails, Removed, tree
<1>2. EOK(0, 0) \in Result /\ EFAIL \in Result
  BY DEF EOK, EFAIL, Result
<1>3. PICK r \in Result : Return(r)
  BY <1>1, <1>2
<1>4. /\ LocalType /\ np = <<>>
      /\ \E U : GoodTree(node, free, U)
      /\ Family(node) /\ Filled(node, Root)
      /\ node[Root].depth > 0 => 1 \in DOMAIN node[Root].ents
  BY <1>1, CallTree
<1>5. PICK U : GoodTree(node, free, U)
  BY <1>4
<1>6. /\ GoodTree(node', free', U) /\ Family(node') /\ Filled(node', Root)
      /\ node'[Root].depth > 0 => 1 \in DOMAIN node'[Root].ents
  BY <1>1, <1>4, <1>5
<1>7. UNCHANGED split
  BY <1>1
<1> QED
  BY <1>3, <1>4, <1>6, <1>7, LoopLeft

\* A removal starts.
LEMMA RemovalCalled ==
    ASSUME CallInv, NEW r \in Ranges, ext4_extent_remove_space(r[1], r[2])
    PROVE  CallInv' /\ pc' = "find"
<1>1. /\ pc = "idle" /\ pc' = "find"
      /\ req' = [lblk |-> r[1], max |-> r[2] - r[1] + 1, create |-> FALSE]
      /\ path' = <<[blk |-> Root, pos |-> 0]>> /\ res' = EOK(0, 0)
      /\ UNCHANGED <<node, free, newext, at, key, np, todo, saved>>
  BY DEF ext4_extent_remove_space, tree, split, conv
<1>2. IInv /\ OwnerInv /\ FillInv /\ OrderInv /\ WholeInv
  BY DEF CallInv, SortInv
<1>3. TreeInv'
  BY <1>1, <1>2 DEF IInv, TreeInv, TreeType, NodesNotFree
<1>4. LocalType'
  <2>1. [blk |-> Root, pos |-> 0] \in PathElem
    BY DEF PathElem
  <2>2. path' \in Seq(PathElem)
    BY <2>1, <1>1
  <2>3. req' \in [lblk : Nat, max : Nat, create : BOOLEAN]
    <3>1. r[1] \in Nat /\ r[2] \in Nat /\ r[1] <= r[2]
      BY RangesAssumption
    <3>2. r[2] - r[1] + 1 \in Nat
      BY <3>1
    <3> QED
      BY <3>1, <3>2, <1>1
  <2>4. res' \in Result
    BY <1>1 DEF EOK, Result
  <2>5. LocalType
    BY <1>2 DEF IInv, LocalInv
  <2> QED
    BY <2>2, <2>3, <2>4, <2>5, <1>1 DEF LocalType, PCs
<1>5. PathInv'
  <2>1. Len(path') = 1 /\ path'[1].blk = Root /\ path' # <<>>
    BY <1>1
  <2>2. Root \in DOMAIN node /\ depth \in Nat
    BY <1>2, NodeFields DEF IInv, TreeInv, TreeType, depth
  <2> QED
    BY <2>1, <2>2, <1>1 DEF PathInv, Searching, Working, depth
<1>6. GrowInv' /\ DataInv' /\ SplitInv'
  BY <1>1, <1>2 DEF GrowInv, DataInv, Inserting, IInv, LocalInv, SplitInv
<1>7. OwnerInv'
  <2>1. todo = <<>>
    BY <1>1, <1>2 DEF OwnerInv, CutInv
  <2> QED
    BY <2>1, <1>1, <1>2, SameOwners DEF Inserting
<1>8. FillInv'
  <2>1. AllUsed
    BY <1>1, <1>2, NoneEmpty DEF FillInv
  <2>2. LeafInv'
    BY <1>1, <2>1 DEF LeafInv, AllUsed, Used
  <2>3. 1 .. Len(path') - 1 = {}
    BY <1>1
  <2>4. todo' = <<>>
    BY <1>1, <1>2 DEF FillInv, SearchInv
  <2>5. Searched(req.lblk)'
    BY <2>3 DEF Searched
  <2>6. SearchInv'
    BY <1>1, <2>4, <2>5 DEF SearchInv
  <2>7. FullInv' /\ HalvesInv'
    BY <1>1 DEF FullInv, SplitNodesFull, HalvesInv
  <2> QED
    BY <2>2, <2>6, <2>7 DEF FillInv
<1>9. OrderInv'
  <2>1. PICK U : U \in [DOMAIN node -> Nat] /\ Sorted(node, U)
    BY <1>2 DEF OrderInv
  <2> QED
    BY <2>1, <1>1, Calm
<1>10. WholeInv'
  BY <1>1, <1>2, WholeQuiet DEF Inserting
<1>11. AtRest'
  BY <1>1 DEF AtRest
<1> QED
  BY <1>1, <1>3, <1>4, <1>5, <1>6, <1>7, <1>8, <1>9, <1>10, <1>11
     DEF CallInv, IInv, LocalInv, SortInv

\* The loop starts at the extent that covers the first block.
LEMMA RemovalStarts ==
    ASSUME CallInv, StartRemoval
    PROVE  RemoveInv' /\ pc' = "remove"
<1> DEFINE n == Len(path)
           l == req.lblk
<1>1. /\ pc = "found" /\ FoundToRemove /\ pc' = "remove"
      /\ UNCHANGED <<node, free, req, path, newext, at, key, np, todo, saved, res>>
  BY DEF StartRemoval, tree, split, conv
<1>2. IInv /\ OwnerInv /\ FillInv
  BY DEF CallInv, SortInv
<1>3. /\ LocalType /\ np = <<>> /\ \E U : GoodTree(node, free, U)
      /\ Family(node) /\ Filled(node, Root)
  BY <1>1, CallTree
<1>4. pc \in Working /\ l \in Nat
  BY <1>1, <1>3 DEF Working, LocalType
<1>5. On(node, path, l) /\ Linked
  BY <1>1, <1>2, <1>4, ArrivedOn DEF FillInv, SearchInv
<1>6. /\ n \in Nat \ {0} /\ n = depth + 1 /\ depth \in Nat /\ path # <<>>
      /\ path[1].blk = Root /\ leaf = path[n]
      /\ \A k \in 1 .. n :
            LET es == node[path[k].blk].ents
            IN  /\ path[k].blk \in DOMAIN node /\ node[path[k].blk].depth = n - k
                /\ DOMAIN es = 1 .. Len(es)
                /\ \A i \in 1 .. Len(es) : es[i].lblk \in Nat
  BY <1>2, <1>4, PathFacts
<1>7. leaf.pos # 0 /\ Covers(ex, ext4_ext_get_actual_len(ex), l)
  BY <1>1 DEF FoundToRemove
<1>8. /\ leaf.blk \in DOMAIN node /\ node[leaf.blk].depth = 0 /\ leaf \in PathElem
      /\ leaf.pos \in DOMAIN node[leaf.blk].ents /\ ex \in Entry
  BY <1>2, <1>4, <1>6, <1>7, LeafOfPath
<1>17. Covers(ex, ee_len(ex), l)
  BY <1>4, <1>7, <1>8, FoundIsThere
<1> HIDE DEF n, l
<1>9. Route(node, path, n)
  <2>1. \A k \in 1 .. n : path[k].blk \in DOMAIN node
                          /\ node[path[k].blk].depth = node[Root].depth - (k - 1)
    BY <1>6 DEF depth
  <2>2. \A k \in 1 .. n - 1 :
           LET es == node[path[k].blk].ents
           IN  path[k].pos \in DOMAIN es /\ path[k + 1].blk = es[path[k].pos].pblk
    <3> SUFFICES ASSUME NEW k \in 1 .. n - 1
                 PROVE  LET es == node[path[k].blk].ents
                        IN  path[k].pos \in DOMAIN es /\ path[k + 1].blk = es[path[k].pos].pblk
      OBVIOUS
    <3>1. k \in 1 .. n
      BY <1>6
    <3> QED
      BY <3>1, <1>5, <1>6 DEF On, Placed, n
  <2> QED
    BY <2>1, <2>2, <1>6 DEF Route
<1>10. Behind(node, path, n, l)
  <2> SUFFICES ASSUME NEW k \in 1 .. n - 1, NEW j \in DOMAIN node[path[k].blk].ents,
                      path[k].pos < j
               PROVE  l <= node[path[k].blk].ents[j].lblk
    BY DEF Behind
  <2> DEFINE es == node[path[k].blk].ents
  <2>1. k \in 1 .. n
    BY <1>6
  <2>2. j \in 1 .. Len(es) /\ es[j].lblk \in Nat
    BY <2>1, <1>6
  <2>3. Placed(es, l, path[k].pos)
    BY <1>5 DEF On, n
  <2>4. l < es[j].lblk
    BY <2>2, <2>3 DEF Placed
  <2> QED
    BY <2>2, <2>4, <1>4
<1>11. StandsAt(node, leaf.blk, leaf.pos, l)
  BY <1>17, <1>8 DEF StandsAt, ex
<1>12. leaf.pos >= 1
  BY <1>7, <1>8 DEF PathElem
<1>13. Filled(node, leaf.blk)
  BY <1>3 DEF Filled
<1>14. todo = <<>>
  BY <1>1, <1>2 DEF OwnerInv, CutInv
<1>15. LocalType'
  BY <1>1, <1>3 DEF LocalType, PCs
<1>16. leaf' = leaf /\ Len(path') = n /\ req'.lblk = l /\ node' = node /\ path' = path
       /\ free' = free /\ np' = np /\ todo' = todo
  BY <1>1 DEF leaf, n, l
<1> QED
  BY <1>1, <1>3, <1>6, <1>9, <1>10, <1>11, <1>12, <1>13, <1>14, <1>15, <1>16 DEF RemoveInv

-----------------------------------------------------------------------------
(* A range inside an extent.                                               *)

\* The extent keeps what is before the range, and what is behind it is in hand.
InsideCut(g) ==
    /\ node' = [node EXCEPT ![leaf.blk].ents[leaf.pos] = g]
    /\ g \in Entry /\ g.lblk = ex.lblk /\ g.pblk = ex.pblk /\ Refers(g, 0) \subseteq Refers(ex, 0)
    /\ g.lblk < End(g) /\ End(g) \in Nat
    /\ newext' \in Entry /\ Refers(newext', 0) \subseteq Refers(ex, 0)
    /\ Refers(newext', 0) \cap Refers(g, 0) = {}
    /\ ee_len(newext') >= 1
    /\ newext'.pblk \in Refers(newext', 0)
    /\ End(g) <= newext'.lblk /\ newext'.lblk < End(ex) /\ End(newext') = End(ex)

\* RemoveInside cuts the extent in two and leaves the second part in hand.
LEMMA InsideEffect ==
    ASSUME CallInv, RemoveInside
    PROVE  /\ pc = "found" /\ pc' = "insert" /\ pc \in Working /\ path # <<>>
           /\ leaf.pos # 0 /\ ex \in Entry /\ np = <<>> /\ todo = <<>>
           /\ UNCHANGED <<free, req, path, at, key, np, todo, saved, res>>
           /\ \E g : InsideCut(g)
<1> DEFINE n == ee_len(ex)
           d == req.lblk - ex.lblk
           k == LastBlock(ex) - to
           q == to + 1 - ex.lblk + ex.pblk
           g == Part(ex, ex.lblk, ex.pblk, d)
           h == Part(ex, to + 1, q, k)
<1>1. /\ pc = "found" /\ pc' = "insert" /\ FoundToRemove /\ Inside
      /\ UNCHANGED <<free, req, path, at, key, np, todo, saved, res>>
  BY DEF RemoveInside, split, conv
<1>2. node' = [node EXCEPT ![leaf.blk].ents[leaf.pos] = g] /\ newext' = h
  BY DEF RemoveInside, Part, End
<1>3. IInv /\ OwnerInv
  BY DEF CallInv, SortInv
<1>4. /\ pc \in Working /\ path # <<>> /\ leaf.pos # 0
      /\ Covers(ex, ext4_ext_get_actual_len(ex), req.lblk)
  BY <1>1, <1>3, WorkingPath DEF Working, FoundToRemove
<1>5. ex \in Entry /\ ex.lblk \in Nat /\ ex.pblk \in Int /\ n \in Nat
  <2>1. ex \in Entry
    BY <1>3, <1>4, LeafOfPath
  <2> QED
    BY <2>1, RawLengths, InitMaxAssumption DEF Entry
<1>6. np = <<>> /\ todo = <<>>
  BY <1>1, <1>3, NoChain DEF OwnerInv, CutInv
<1>7. req.lblk \in Nat /\ to \in Int /\ req.lblk <= to + 1
  <2>1. req.lblk \in Nat /\ req.max \in Nat
    BY <1>3 DEF IInv, LocalInv, LocalType
  <2> QED
    BY <2>1 DEF to
<1>8. /\ End(ex) = ex.lblk + n /\ ex.lblk < req.lblk /\ to < ex.lblk + n - 1
      /\ LastBlock(ex) = End(ex) - 1
  <2>1. LastBlock(ex) = End(ex) - 1
    BY <1>4, <1>5, <1>7, FoundIsThere
  <2>2. End(ex) = ex.lblk + n
    BY DEF End
  <2>3. ex.lblk < req.lblk /\ to < LastBlock(ex)
    BY <1>1 DEF Inside
  <2>4. ex.lblk < req.lblk /\ to < ex.lblk + n - 1
    <3>1. ex.lblk < req.lblk /\ to < End(ex) - 1
      BY <2>1, <2>3
    <3> HIDE DEF n
    <3> QED
      BY <2>2, <3>1, <1>5, <1>7
  <2> QED
    BY <2>1, <2>2, <2>4
<1> HIDE DEF n
<1>9. /\ d \in Nat /\ 1 <= d /\ ex.lblk + d = req.lblk /\ req.lblk <= End(ex)
      /\ k \in Nat /\ 1 <= k /\ to + 1 \in Nat /\ ex.lblk <= to + 1 /\ (to + 1) + k = End(ex)
      /\ q \in Int /\ q - ex.pblk = (to + 1) - ex.lblk /\ to + 1 < End(ex)
      /\ End(ex) \in Nat
  BY <1>5, <1>7, <1>8
<1>10. ex.lblk <= ex.lblk /\ ex.lblk + d <= End(ex) /\ ex.pblk - ex.pblk = ex.lblk - ex.lblk
  BY <1>5, <1>9
<1> HIDE DEF d, k, q
<1>11. IsPart(g, ex, ex.lblk, ex.pblk, d)
  BY <1>5, <1>9, <1>10, PartOfExtent
<1>12. IsPart(h, ex, to + 1, q, k)
  <2>1. (to + 1) + k <= End(ex)
    BY <1>9
  <2>2. PICK t : t = to + 1
    OBVIOUS
  <2>3. IsPart(Part(ex, t, q, k), ex, t, q, k)
    BY <2>1, <2>2, <1>5, <1>9, PartOfExtent
  <2> QED
    BY <2>2, <2>3
<1> HIDE DEF g, h
<1>13. /\ g \in Entry /\ g.lblk = ex.lblk /\ g.pblk = ex.pblk /\ ee_len(g) = d
       /\ Refers(g, 0) \subseteq Refers(ex, 0) /\ Refers(g, 0) = ex.pblk .. ex.pblk + d - 1
  BY <1>11 DEF IsPart, Within
<1>14. /\ h \in Entry /\ h.lblk = to + 1 /\ h.pblk = q /\ ee_len(h) = k
       /\ Refers(h, 0) \subseteq Refers(ex, 0) /\ Refers(h, 0) = q .. q + k - 1
  BY <1>12 DEF IsPart, Within
<1>15. End(g) = req.lblk /\ End(h) = End(ex)
  BY <1>9, <1>13, <1>14 DEF End
<1>16. Refers(h, 0) \cap Refers(g, 0) = {}
  <2>1. ex.pblk + d <= q
    BY <1>5, <1>7, <1>9
  <2>2. \A x \in Refers(g, 0) : x \in Int /\ x < ex.pblk + d
    BY <1>5, <1>9, <1>13, SMTT(30)
  <2>3. \A x \in Refers(h, 0) : x \in Int /\ q <= x
    BY <1>9, <1>14
  <2> QED
    BY <2>1, <2>2, <2>3, <1>5, <1>9
<1>17. h.pblk \in Refers(h, 0)
  BY <1>9, <1>14
<1>18. InsideCut(g)
  BY <1>2, <1>5, <1>7, <1>8, <1>9, <1>13, <1>14, <1>15, <1>16, <1>17 DEF InsideCut
<1> QED
  BY <1>1, <1>4, <1>5, <1>6, <1>18

\* The new extent has the blocks that the slot has given up.
LEMMA InsideOwners ==
    ASSUME CallInv, RemoveInside
    PROVE  /\ OwnerInv' /\ NewBlocks' \subseteq PBlk /\ NewBlocks' \cap free = {}
           /\ NewBlocks' \cap DOMAIN node = {}
<1> DEFINE z == <<leaf.blk, leaf.pos>>
<1>1. /\ pc = "found" /\ pc' = "insert" /\ pc \in Working /\ path # <<>>
      /\ leaf.pos # 0 /\ ex \in Entry /\ np = <<>> /\ todo = <<>>
      /\ UNCHANGED <<free, path, np, todo, saved>>
  BY InsideEffect
<1>2. PICK g : InsideCut(g)
  BY InsideEffect
<1>3. IInv /\ OwnerInv /\ WholeInv
  BY DEF CallInv, SortInv
<1>4. /\ g \in Entry /\ node' = [node EXCEPT ![leaf.blk].ents[leaf.pos] = g]
      /\ Refers(g, 0) \subseteq Refers(ex, 0) /\ NewBlocks' \subseteq Refers(ex, 0)
      /\ NewBlocks' \cap Refers(g, 0) = {} /\ ee_len(newext') >= 1
  BY <1>2 DEF InsideCut, NewBlocks
<1>5. /\ z \in SlotsOf(node) /\ OwnedBy(node, z) = Refers(ex, 0)
      /\ \A s \in SlotsOf(node') :
            /\ s \in SlotsOf(node)
            /\ OwnedBy(node', s) = IF s = z THEN Refers(g, 0) ELSE OwnedBy(node, s)
  BY <1>1, <1>3, <1>4, RewrittenSlots
<1>6. OwnersDiffer(node') /\ Unowned(node', free)
  <2>1. Unowned(node, {}) /\ Unowned(node, free) /\ free \cap {} = {}
    BY <1>3 DEF Unowned, OwnerInv
  <2>2. Refers(g, 0) \subseteq Refers(ex, 0) \cup {}
    BY <1>4
  <2> QED
    BY <1>1, <1>3, <1>4, <2>1, <2>2, RewriteKeepsOwners
<1>7. Unowned(node', NewBlocks')
  <2> SUFFICES ASSUME NEW s \in SlotsOf(node')
               PROVE  NewBlocks' \cap OwnedBy(node', s) = {}
    BY DEF Unowned
  <2>1. CASE s = z
    BY <2>1, <1>4, <1>5
  <2>2. CASE s # z
    <3>1. OwnedBy(node, s) \cap OwnedBy(node, z) = {}
      BY <2>2, <1>3, <1>5 DEF OwnerInv, OwnersDiffer
    <3> QED
      BY <2>2, <3>1, <1>4, <1>5
  <2> QED
    BY <2>1, <2>2
<1>8. NewBlocks' \cap free = {}
  <2>1. free \cap OwnedBy(node, z) = {}
    BY <1>3, <1>5 DEF OwnerInv, Unowned
  <2> QED
    BY <2>1, <1>4, <1>5
<1>9. OwnerInv'
  <2>1. NewInv'
    BY <1>1, <1>4, <1>7, <1>8 DEF NewInv
  <2>2. ChainInv' /\ CutInv' /\ SavedInv'
    BY <1>1 DEF ChainInv, CutInv, SavedInv
  <2> QED
    BY <1>1, <1>6, <2>1, <2>2 DEF OwnerInv
<1>10. NewBlocks' \subseteq PBlk
  <2>1. Refers(ex, 0) \subseteq PBlk
    BY <1>1, <1>3, ExInDevice
  <2> QED
    BY <2>1, <1>4
<1>11. NewBlocks' \cap DOMAIN node = {}
  <2> SUFFICES ASSUME NEW x \in NewBlocks', x \in DOMAIN node PROVE FALSE
    OBVIOUS
  <2>1. x # Root
    BY <1>10, ConstantsAssumption
  <2>2. Child(node, x)
    BY <2>1, <1>1, <1>3 DEF WholeInv, Adopted
  <2>3. PICK y \in DOMAIN node :
           node[y].depth > 0 /\ \E i \in DOMAIN node[y].ents : node[y].ents[i].pblk = x
    BY <2>2 DEF Child
  <2>4. PICK i \in DOMAIN node[y].ents : node[y].ents[i].pblk = x
    BY <2>3
  <2>5. <<y, i>> \in SlotsOf(node) /\ OwnedBy(node, <<y, i>>) = Refers(node[y].ents[i], node[y].depth)
    BY SlotIn
  <2>6. x \in OwnedBy(node, <<y, i>>)
    BY <2>3, <2>4, <2>5 DEF Refers
  <2>7. node[leaf.blk].depth = 0
    BY <1>1, <1>3, LeafOfPath
  <2>8. <<y, i>> # z
    BY <2>3, <2>7
  <2>9. x \in OwnedBy(node, z)
    BY <1>4, <1>5
  <2> QED
    BY <2>5, <2>6, <2>8, <2>9, <1>3, <1>5 DEF OwnerInv, OwnersDiffer
<1> QED
  BY <1>8, <1>9, <1>10, <1>11

\* It leaves a tree into which insert_leaf() can insert.
LEMMA InsideTree ==
    ASSUME CallInv, RemoveInside
    PROVE  IInv'
<1>1. /\ pc = "found" /\ pc' = "insert" /\ pc \in Working /\ path # <<>>
      /\ leaf.pos # 0 /\ np = <<>> /\ todo = <<>>
      /\ UNCHANGED <<free, req, path, at, key, np, todo, saved, res>>
  BY InsideEffect
<1>2. PICK g : InsideCut(g)
  BY InsideEffect
<1>3. IInv
  BY DEF CallInv
<1>4. /\ g \in Entry /\ node' = [node EXCEPT ![leaf.blk].ents[leaf.pos] = g]
      /\ newext' \in Entry /\ newext'.pblk \in NewBlocks'
  BY <1>2 DEF InsideCut, NewBlocks
<1>5. TreeInv' /\ ShapeKept /\ leaf.pos <= Len(node'[leaf.blk].ents)
  BY <1>1, <1>3, <1>4, ExtentRewritten
<1>6. path' \in Seq(PathElem) /\ PathInv'
  <2>1. path' = [path EXCEPT ![Len(path)].pos = leaf.pos] /\ leaf.pos \in Nat
    BY <1>1, <1>3, SamePath
  <2>2. TreeType' /\ pc' \in Working
    BY <1>1, <1>5 DEF TreeInv, Working
  <2> QED
    BY <1>1, <1>3, <1>5, <2>1, <2>2, PathKept
<1>7. LocalType'
  BY <1>1, <1>3, <1>4, <1>6 DEF IInv, LocalInv, LocalType, PCs
<1>8. GrowInv' /\ SplitInv'
  BY <1>1 DEF GrowInv, SplitInv
<1>9. DataInv'
  <2>1. DOMAIN node' = DOMAIN node
    BY <1>5 DEF ShapeKept
  <2>2. newext'.pblk \in PBlk /\ newext'.pblk \notin free' /\ newext'.pblk \notin DOMAIN node'
    BY <2>1, <1>1, <1>4, InsideOwners
  <2> QED
    BY <2>2, <1>1 DEF DataInv
<1> QED
  BY <1>5, <1>6, <1>7, <1>8, <1>9 DEF IInv, LocalInv

\* The search for what is behind the range takes the path in hand, and it has its
\* place behind the extent that was cut.
LEMMA InsideOrders ==
    ASSUME CallInv, RemoveInside
    PROVE  OrderInv' /\ Arrived(newext.lblk)'
<1> DEFINE lb == leaf.blk
           p  == leaf.pos
           es == node[lb].ents
           fs == node'[lb].ents
           l  == newext'.lblk
           n  == Len(path)
<1>0. IInv /\ OrderInv /\ FillInv /\ IInv'
  BY InsideTree DEF CallInv, SortInv
<1>1. PICK U : U \in Bounds /\ Sorted(node, U)
  BY <1>0 DEF OrderInv, Bounds
<1>2. /\ pc = "found" /\ pc' = "insert" /\ pc \in Working /\ path # <<>>
      /\ leaf.pos # 0 /\ np = <<>> /\ todo = <<>>
      /\ path' = path /\ todo' = todo
  BY InsideEffect
<1>3. PICK g : InsideCut(g)
  BY InsideEffect
<1>4. /\ node' = [node EXCEPT ![leaf.blk].ents[leaf.pos] = g]
      /\ g \in Entry /\ g.lblk = ex.lblk /\ g.pblk = ex.pblk /\ g.lblk < End(g) /\ End(g) \in Nat
      /\ newext' \in Entry /\ End(g) <= l /\ l < End(ex) /\ End(newext') = End(ex)
  BY <1>3 DEF InsideCut
<1>5. /\ lb \in DOMAIN node /\ p \in 1 .. Len(es) /\ p \in Nat
      /\ Len(es) \in Nat /\ DOMAIN es = 1 .. Len(es) /\ ex = es[p]
      /\ ex.lblk \in Nat /\ End(ex) \in Nat /\ U[lb] \in Nat
      /\ End(ex) <= U[lb]
  BY <1>0, <1>1, <1>2, LeafFacts
<1>6. /\ \A i \in 1 .. Len(es) :
            es[i].lblk \in Nat /\ End(es[i]) \in Nat /\ es[i].lblk < End(es[i])
      /\ \A i, j \in 1 .. Len(es) : i < j => End(es[i]) <= es[j].lblk
  BY <1>0, <1>1, <1>2, LeafFacts
<1>7. /\ DOMAIN node' = DOMAIN node
      /\ \A b \in DOMAIN node : b # lb => node'[b] = node[b]
      /\ DOMAIN fs = DOMAIN es /\ Len(fs) = Len(es)
      /\ \A i \in DOMAIN es : fs[i] = IF i = p THEN g ELSE es[i]
  BY <1>0, <1>2, <1>4, RewriteEffect
<1>8. /\ n \in Nat \ {0} /\ leaf = path[n]
      /\ \A k \in 1 .. n : path[k].blk \in DOMAIN node
      /\ \A k \in 1 .. n - 1 : path[k].blk # lb
      /\ \A k \in 1 .. n - 1 : path[k].pos \in 1 .. Len(node[path[k].blk].ents)
  <2>1. /\ n \in Nat \ {0} /\ leaf = path[n]
        /\ \A k \in 1 .. n :
              /\ path[k].blk \in DOMAIN node
              /\ k < n => path[k].pos \in 1 .. Len(node[path[k].blk].ents)
        /\ \A k, j \in 1 .. n : path[k].blk = path[j].blk => k = j
    BY <1>0, <1>2, PathFacts
  <2>2. \A k \in 1 .. n - 1 : k \in 1 .. n /\ k < n /\ k # n /\ n \in 1 .. n
    BY <2>1
  <2> HIDE DEF n
  <2> QED
    BY <2>1, <2>2
<1>9. Linked /\ Used(lb)
  <2>1. Linked
    <3>1. req.lblk \in Nat /\ Arrived(req.lblk)
      BY <1>0, <1>2 DEF IInv, LocalInv, LocalType, FillInv, SearchInv
    <3> QED
      BY <3>1, <1>0, <1>2, ArrivedOn
  <2> QED
    BY <2>1, <1>5 DEF Used
<1> HIDE DEF lb, p, es, fs, l, n
<1>10. l \in Nat /\ ex.lblk < l /\ End(newext') \in Nat
  BY <1>4, <1>5 DEF Entry, l
<1>11. U \in [DOMAIN node' -> Nat] /\ Sorted(node', U)
  <2>1. /\ End(g) <= U[leaf.blk]
        /\ \A j \in DOMAIN node[leaf.blk].ents :
              leaf.pos < j => End(g) <= node[leaf.blk].ents[j].lblk
    <3>1. End(g) <= U[lb]
      BY <1>4, <1>5, <1>10
    <3>2. \A j \in DOMAIN es : p < j => End(g) <= es[j].lblk
      BY <1>4, <1>5, <1>6, <1>10
    <3> QED
      BY <3>1, <3>2 DEF lb, p, es
  <2> QED
    BY <2>1, <1>0, <1>1, <1>2, <1>4, RewriteSorts
<1>12. ASSUME NEW k \in 1 .. n - 1
       PROVE  LET ks == node'[path'[k].blk].ents
              IN  Placed(ks, l, path'[k].pos) /\ path'[k + 1].blk = ks[path'[k].pos].pblk
  <2> DEFINE ks == node[path[k].blk].ents
             q  == path[k].pos
  <2>1. node'[path'[k].blk].ents = ks /\ path'[k].pos = q /\ path'[k + 1] = path[k + 1]
    <3>1. k \in 1 .. n
      BY <1>8
    <3> QED
      BY <3>1, <1>2, <1>7, <1>8
  <2>2. path[k + 1].blk = ks[q].pblk
    BY <1>9 DEF Linked, n
  <2>3. q \in 1 .. Len(ks)
    BY <1>8
  <2>4. /\ \A i \in 1 .. Len(ks) : ks[i].lblk \in Nat
    BY <1>0, <1>1, <1>2, <1>9, PathChild DEF n
  <2>5. ks[q].lblk <= es[1].lblk
    BY <1>0, <1>1, <1>2, <1>9, KeyChain DEF n, lb, es
  <2>6. es[1].lblk <= ex.lblk /\ es[1].lblk \in Nat
    <3>1. 1 \in 1 .. Len(es) /\ (p = 1 \/ 1 < p)
      BY <1>5
    <3> QED
      BY <3>1, <1>5, <1>6
  <2>7. \A j \in 1 .. Len(ks) : q < j => U[lb] <= ks[j].lblk
    BY <1>0, <1>1, <1>2, <1>9, BoundChain DEF n, lb
  <2> HIDE DEF ks, q
  <2>8. ks[q].lblk <= l
    BY <2>3, <2>4, <2>5, <2>6, <1>5, <1>10, SMTT(30)
  <2>9. \A j \in 1 .. Len(ks) : q < j => l < ks[j].lblk
    <3>1. U[lb] \in Nat /\ l \in Nat /\ l < U[lb]
      BY <1>4, <1>5, <1>10
    <3> QED
      BY ONLY <3>1, <2>4, <2>7
  <2> QED
    BY <2>1, <2>2, <2>3, <2>8, <2>9 DEF Placed
<1>13. /\ fs[p] = g /\ 1 \in 1 .. Len(es)
       /\ \A i \in 1 .. Len(es) : i # p => fs[i] = es[i]
       /\ DOMAIN fs = 1 .. Len(es)
  BY <1>5, <1>7
<1>14. Placed(fs, l, p)
  <2>1. \A j \in 1 .. Len(fs) : p < j => l < fs[j].lblk
    <3> SUFFICES ASSUME NEW j \in 1 .. Len(fs), p < j PROVE l < fs[j].lblk
      OBVIOUS
    <3>1. j \in 1 .. Len(es) /\ fs[j] = es[j]
      BY <1>5, <1>7, <1>13
    <3>2. End(ex) <= es[j].lblk /\ es[j].lblk \in Nat
      BY <3>1, <1>5, <1>6
    <3> QED
      BY <3>1, <3>2, <1>4, <1>5, <1>10
  <2>2. fs[p].lblk <= l
    BY <1>4, <1>5, <1>10, <1>13
  <2> QED
    BY <2>1, <2>2, <1>5, <1>7 DEF Placed
<1>15. /\ path'[n] = leaf /\ leaf' = leaf
  BY <1>2, <1>8 DEF leaf
<1>16. On(node', path', l)
  <2>1. Len(path') = n
    BY <1>2 DEF n
  <2>2. path'[n].blk = lb /\ path'[n].pos = p /\ node'[path'[n].blk].ents = fs
    BY <1>15 DEF lb, p, fs
  <2>3. 1 \in DOMAIN fs
    BY <1>13
  <2> QED
    BY <2>1, <2>2, <2>3, <1>12, <1>14 DEF On
<1>17. Arrived(newext.lblk)'
  BY <1>0, <1>2, <1>16, NextArrives DEF l, Working
<1>18. FitsIn(U, leaf.blk)'
  <2>1. End(newext') <= U[lb]
    BY <1>4, <1>5
  <2>2. ASSUME NEW i \in DOMAIN fs
        PROVE  End(fs[i]) <= l \/ End(newext') <= fs[i].lblk
    <3>1. i \in 1 .. Len(es) /\ (i = p \/ i < p \/ p < i)
      BY <1>5, <1>13
    <3>2. CASE i = p
      BY <3>2, <1>4, <1>13
    <3>3. CASE i < p
      <4>1. fs[i] = es[i]
        BY <3>1, <3>3, <1>5, <1>13
      <4>2. End(es[i]) <= ex.lblk /\ End(es[i]) \in Nat
        BY <3>1, <3>3, <1>5, <1>6
      <4> QED
        BY <4>1, <4>2, <1>5, <1>10
    <3>4. CASE p < i
      <4>1. fs[i] = es[i]
        BY <3>1, <3>4, <1>5, <1>13
      <4>2. End(ex) <= es[i].lblk
        BY <3>1, <3>4, <1>5, <1>6
      <4> QED
        BY <4>1, <4>2, <1>4
    <3> QED
      BY <3>1, <3>2, <3>3, <3>4
  <2>3. leaf'.blk = lb
    BY <1>15 DEF lb
  <2> QED
    BY <2>1, <2>2, <2>3 DEF FitsIn, fs, l
<1>19. PlaceInv(U)'
  BY <1>2, <1>17, <1>18 DEF PlaceInv
<1>20. KeyInv(U)' /\ HalfInv(U)'
  BY <1>2 DEF KeyInv, HalfInv
<1>21. RestoreInv(U)'
  BY <1>2 DEF RestoreInv, Converting
<1> QED
  BY <1>11, <1>17, <1>19, <1>20, <1>21 DEF OrderInv, LocalOrder

\* The removal of a range inside an extent leaves an insertion to be made, as
\* get_blocks() does.
LEMMA RemoveInsideStep ==
    ASSUME CallInv, RemoveInside
    PROVE  CallInv' /\ pc' = "insert"
<1>1. /\ pc = "found" /\ pc' = "insert" /\ pc \in Working /\ path # <<>>
      /\ leaf.pos # 0 /\ np' = np /\ path' = path
  BY InsideEffect
<1>2. PICK g : InsideCut(g)
  BY InsideEffect
<1>3. /\ g \in Entry /\ node' = [node EXCEPT ![leaf.blk].ents[leaf.pos] = g]
      /\ Refers(g, 0) \subseteq Refers(ex, 0)
  BY <1>2 DEF InsideCut
<1>4. IInv /\ WholeInv /\ FillInv
  BY DEF CallInv, SortInv
<1>5. IInv' /\ OwnerInv' /\ NewBlocks' \subseteq PBlk
  BY InsideTree, InsideOwners
<1>6. OrderInv' /\ Arrived(newext.lblk)'
  BY InsideOrders
<1>7. FillInv'
  <2>1. /\ DOMAIN node' = DOMAIN node
        /\ \A b \in DOMAIN node : DOMAIN node'[b].ents = DOMAIN node[b].ents
    BY <1>1, <1>3, <1>4, RewriteEffect
  <2>2. AllUsed'
    BY <2>1, <1>1, <1>4, NoneEmpty, SameSlots DEF FillInv
  <2>3. leaf'.pos # 0
    BY <1>1 DEF leaf
  <2>4. SearchInv'
    BY <2>3, <1>1, <1>6 DEF SearchInv
  <2>5. FullInv' /\ HalvesInv'
    BY <1>1 DEF FullInv, SplitNodesFull, HalvesInv
  <2>6. LeafInv'
    BY <2>2 DEF LeafInv, AllUsed
  <2> QED
    BY <2>4, <2>5, <2>6 DEF FillInv
<1>8. WholeInv'
  <2>1. NewInDevice'
    BY <1>5 DEF NewInDevice
  <2>2. Refers(g, 0) \subseteq PBlk
    BY <1>1, <1>3, <1>4, ExInDevice
  <2> QED
    BY <2>1, <2>2, <1>1, <1>3, <1>4, <1>5, WholeRewrite
<1>9. AtRest'
  BY <1>1 DEF AtRest
<1> QED
  BY <1>1, <1>5, <1>6, <1>7, <1>8, <1>9 DEF CallInv, SortInv


-----------------------------------------------------------------------------
(* Every step of a file.                                                   *)

\* The code of get_blocks() neither starts nor ends in the removal loop.
LEMMA NotInLoop ==
    ASSUME (\E l \in LBlk, m \in MaxBlocks, c \in BOOLEAN : ext4_extent_get_blocks(l, m, c))
              \/ Find \/ Decide \/ Convert \/ Insert
    PROVE  pc # "remove" /\ pc' # "remove"
<1>1. CASE \E l \in LBlk, m \in MaxBlocks, c \in BOOLEAN :
              ext4_extent_get_blocks(l, m, c)
  BY <1>1 DEF ext4_extent_get_blocks
<1>2. CASE Find
  BY <1>2 DEF Find, ext4_find_extent_walk, ext4_find_extent_err, Return,
              ext4_find_extent_leaf, StartSplit
<1>3. CASE Decide
  BY <1>3 DEF Decide, ReturnMapped, ReturnHole, ext4_ext_convert_to_initialized,
              ext4_ext_zero_unwritten_range_err, AllocateData, AllocateDataFails, Return
<1>4. CASE Convert
  BY <1>4 DEF Convert, ext4_ext_split_extent_at, SplitExtentAt_whole, SplitExtentAt_cut,
              restore_extent_len, RestoreWithoutPath, Return
<1>5. CASE Insert
  <2>1. CASE ext4_ext_insert_leaf
    BY <2>1 DEF ext4_ext_insert_leaf, AppendToExtent, PrependToExtent, InsertIntoLeaf,
                NeedSplit, Inserted, Return, StartSplit
  <2>2. CASE ext4_ext_grow_indepth \/ GrowFails \/ FreeData
    BY <2>2 DEF ext4_ext_grow_indepth, GrowFails, FreeData, Return
  <2>3. CASE ext4_ext_split_node \/ SplitFails \/ ext4_ext_insert_index
    BY <2>3 DEF ext4_ext_split_node, SplitFails, ext4_ext_insert_index, Cleanup, LinkIndex
  <2> QED
    BY <1>5, <2>1, <2>2, <2>3 DEF Insert
<1> QED
  BY <1>1, <1>2, <1>3, <1>4, <1>5

\* get_blocks() keeps what it needs, and what a removal needs.
LEMMA CallKept ==
    ASSUME CallInv, SoundCuts, SoundMerges, [Next]_vars, SplitFails => Len(np) <= 1
    PROVE  CallInv'
<1>1. IInv /\ OwnerInv /\ FillInv /\ OrderInv /\ WholeInv /\ AtRest /\ SortInv
  BY DEF CallInv, SortInv
<1>2. IInv'
  BY <1>1, NextStep
<1>3. OwnerInv'
  BY <1>1, OwnerStep
<1>4. FillInv'
  BY <1>1, OrderGrows, FillStep
<1>5. OrderInv'
  BY <1>1, <1>2, OrderStep
<1>6. WholeInv'
  BY <1>1, <1>2, TreeStaysWhole
<1>7. AtRest'
  BY <1>1, RestStep
<1> QED
  BY <1>2, <1>3, <1>4, <1>5, <1>6, <1>7 DEF CallInv, SortInv

\* A step of neither call.
LEMMA FileStutters ==
    ASSUME FileInv, SoundCuts, SoundMerges, UNCHANGED vars
    PROVE  FileInv'
<1>1. UNCHANGED <<node, free, pc, req, path, newext, at, key, np, todo, saved, res>>
  BY DEF vars
<1>2. CASE pc = "remove"
  <2>1. RemoveInv /\ AtRest
    BY <1>2 DEF FileInv
  <2>2. LocalType'
    BY <1>1, <2>1 DEF RemoveInv, LocalType
  <2>3. leaf' = leaf
    BY <1>1 DEF leaf
  <2>4. RemoveInv'
    BY <1>1, <2>1, <2>2, <2>3 DEF RemoveInv
  <2> QED
    BY <1>1, <1>2, <2>1, <2>4 DEF FileInv, AtRest
<1>3. CASE pc # "remove"
  <2>1. CallInv
    BY <1>3 DEF FileInv, CallInv
  <2>2. ~ SplitFails
    BY <1>1 DEF SplitFails, Cleanup
  <2>3. CallInv'
    BY <2>1, <2>2, CallKept
  <2> QED
    BY <1>1, <1>3, <2>3 DEF FileInv, CallInv
<1> QED
  BY <1>2, <1>3

\* A removal, from its call to its return.
LEMMA RemovalKeeps ==
    ASSUME FileInv, (\E r \in Ranges : ext4_extent_remove_space(r[1], r[2])) \/ RemoveStep
    PROVE  FileInv'
<1>1. CASE pc # "remove"
  <2>1. CallInv
    BY <1>1 DEF FileInv, CallInv
  <2>2. CASE \E r \in Ranges : ext4_extent_remove_space(r[1], r[2])
    <3>1. CallInv' /\ pc' = "find"
      BY <2>1, <2>2, RemovalCalled
    <3> QED
      BY <3>1 DEF FileInv, CallInv
  <2>3. CASE NothingAtFrom \/ RemoveInsideFails
    <3>1. CallInv' /\ pc' = "idle"
      BY <2>1, <2>3, RemovalGivesUp
    <3> QED
      BY <3>1 DEF FileInv, CallInv
  <2>4. CASE RemoveInside
    <3>1. CallInv' /\ pc' = "insert"
      BY <2>1, <2>4, RemoveInsideStep
    <3> QED
      BY <3>1 DEF FileInv, CallInv
  <2>5. CASE StartRemoval
    <3>1. RemoveInv' /\ pc' = "remove"
      BY <2>1, <2>5, RemovalStarts
    <3> QED
      BY <3>1 DEF FileInv, AtRest
  <2>6. ~ (RemoveInLeaf \/ RemoveDown \/ RemoveDownFails \/ RemoveUp \/ RemovalDone)
    BY <1>1 DEF RemoveInLeaf, RemoveDown, RemoveDownFails, RemoveUp, RemovalDone, AtIndex
  <2> QED
    BY <2>2, <2>3, <2>4, <2>5, <2>6 DEF RemoveStep
<1>2. CASE pc = "remove"
  <2>1. RemoveInv
    BY <1>2 DEF FileInv
  <2>2. CASE RemoveInLeaf \/ RemoveDown \/ RemoveUp
    <3>1. RemoveInv'
      BY <2>1, <2>2, RemoveInLeafStep, RemoveDownStep, RemoveUpStep
    <3>2. pc' = "remove"
      BY <1>2, <2>2 DEF RemoveInLeaf, RemoveDown, RemoveUp
    <3> QED
      BY <3>1, <3>2 DEF FileInv, AtRest
  <2>3. CASE RemoveDownFails \/ RemovalDone
    <3>1. CallInv' /\ pc' = "idle"
      BY <2>1, <2>3, RemoveEnds
    <3> QED
      BY <3>1 DEF FileInv, CallInv
  <2>4. ~ (NothingAtFrom \/ RemoveInsideFails \/ RemoveInside \/ StartRemoval)
    BY <1>2 DEF NothingAtFrom, RemoveInsideFails, RemoveInside, StartRemoval
  <2>5. ~ \E r \in Ranges : ext4_extent_remove_space(r[1], r[2])
    BY <1>2 DEF ext4_extent_remove_space
  <2> QED
    BY <2>2, <2>3, <2>4, <2>5 DEF RemoveStep
<1> QED
  BY <1>1, <1>2

\* Every step of a file keeps its tree.
LEMMA FileKept ==
    ASSUME FileInv, SoundCuts, SoundMerges, [FileNext]_fileVars,
           [SplitFails => Len(np) <= 1]_fileVars
    PROVE  FileInv'
<1>1. CASE UNCHANGED fileVars
  BY <1>1, FileStutters DEF fileVars
<1>2. CASE fileVars' # fileVars /\ ((\E r \in Ranges : ext4_extent_remove_space(r[1], r[2]))
                                      \/ RemoveStep)
  BY <1>2, RemovalKeeps
<1>3. CASE /\ fileVars' # fileVars
           /\ (\E l \in LBlk, m \in MaxBlocks, c \in BOOLEAN : ext4_extent_get_blocks(l, m, c))
                 \/ Find \/ Decide \/ Convert \/ Insert
  <2>1. pc # "remove" /\ pc' # "remove"
    BY <1>3, NotInLoop
  <2>2. CallInv
    BY <2>1 DEF FileInv, CallInv
  <2>3. [Next]_vars
    BY <1>3 DEF Next, Step
  <2>4. SplitFails => Len(np) <= 1
    BY <1>3
  <2>5. CallInv'
    BY <2>2, <2>3, <2>4, CallKept
  <2> QED
    BY <2>1, <2>5 DEF FileInv, CallInv
<1> QED
  <2>1. \/ UNCHANGED fileVars
        \/ fileVars' # fileVars /\ FileNext
    OBVIOUS
  <2>2. FileNext => \/ \E l \in LBlk, m \in MaxBlocks, c \in BOOLEAN :
                          ext4_extent_get_blocks(l, m, c)
                    \/ \E r \in Ranges : ext4_extent_remove_space(r[1], r[2])
                    \/ Find \/ Decide \/ Convert \/ Insert \/ RemoveStep
    BY DEF FileNext, FileStep, Shared, GetBlocksStep
  <2> QED
    BY <1>1, <1>2, <1>3, <2>1, <2>2

\* A file as it is found.
LEMMA FileStarts ==
    ASSUME FileInit
    PROVE  FileInv
<1>1. Init
  BY DEF FileInit
<1>2. IInv /\ OwnerInv /\ FillInv /\ OrderInv
  BY <1>1, InitStep, OwnerInit, FillInit, OrderInit
<1>3. /\ pc = "idle" /\ newext = NoExtent /\ np = <<>>
      /\ \E f \in Files : node = f.node
  BY <1>1 DEF Init
<1>4. Family(node) /\ InDevice(node) /\ RootRoom(node)
  BY <1>3, FilesWhole
<1>5. WholeInv
  BY <1>3, <1>4 DEF WholeInv, Adopted, Family, NewInDevice, Inserting
<1> QED
  BY <1>2, <1>3, <1>5 DEF FileInv, AtRest, SortInv

-----------------------------------------------------------------------------
(* What the invariant of a file says about it.                             *)

\* Binary search is right in every node of a sorted tree.
LEMMA GoodSearches ==
    ASSUME NEW U, GoodTree(node, free, U)
    PROVE  BinSearchFindsClosest
<1> SUFFICES ASSUME NEW b \in DOMAIN node, node[b].ents # <<>>, NEW l \in LBlk
             PROVE  BinSearch(node[b].ents, l) = Closest(node[b].ents, l)
  BY DEF BinSearchFindsClosest
<1>1. Typed(node, free) /\ Sorted(node, U)
  BY DEF GoodTree
<1>2. PICK es : es = node[b].ents
  OBVIOUS
<1>3. PICK d : d = node[b].depth
  OBVIOUS
<1>4. /\ es \in Seq(Entry) /\ es # <<>> /\ DOMAIN es = 1 .. Len(es)
      /\ \A i \in DOMAIN es : es[i].lblk \in Nat /\ EndOf(es[i], d) \in Nat
  BY <1>1, <1>2, <1>3, NodeOf
<1>5. /\ \A i \in DOMAIN es : es[i].lblk < EndOf(es[i], d)
      /\ \A i, j \in DOMAIN es : i < j => EndOf(es[i], d) <= es[j].lblk
  BY <1>1, <1>2, <1>3 DEF Sorted, Ordered
<1>6. ASSUME NEW i \in 1 .. Len(es), NEW j \in 1 .. Len(es), i < j
      PROVE  es[i].lblk < es[j].lblk
  <2>1. /\ es[i].lblk \in Nat /\ es[j].lblk \in Nat /\ EndOf(es[i], d) \in Nat
        /\ es[i].lblk < EndOf(es[i], d) /\ EndOf(es[i], d) <= es[j].lblk
    BY <1>4, <1>5, <1>6
  <2> QED
    BY ONLY <2>1
<1>7. l \in Nat
  BY ConstantsAssumption
<1>8. BinSearch(es, l) = Closest(es, l)
  BY ONLY <1>4, <1>6, <1>7, BinSearchSorted
<1> QED
  BY <1>2, <1>8

\* The tree of a file, in the removal loop and outside it.
LEMMA FileTree ==
    ASSUME FileInv
    PROVE  /\ TreeType /\ LocalType /\ KidsLive(node) /\ NodesNotFree
           /\ WithinCapacity /\ PathLive
<1>1. CASE pc # "remove"
  <2>1. IInv
    BY <1>1 DEF FileInv
  <2>2. TreeType /\ LocalType /\ KidsLive(node) /\ NodesNotFree /\ WithinCapacity
    BY <2>1 DEF IInv, TreeInv, LocalInv, NodesFit, WithinCapacity
  <2>3. PathLive
    <3> SUFFICES ASSUME NEW k \in 1 .. Len(path)
                 PROVE  /\ path[k].blk \in DOMAIN node
                        /\ node[path[k].blk].depth = depth - (k - 1)
                        /\ k < Len(path) =>
                              path[k].pos \in DOMAIN node[path[k].blk].ents
      BY DEF PathLive
    <3>1. /\ path[k].blk \in DOMAIN node
          /\ node[path[k].blk].depth = depth - (k - 1)
          /\ k < Len(path) => path[k].pos \in 1 .. Len(node[path[k].blk].ents)
      BY <2>1 DEF IInv, LocalInv, PathInv
    <3>2. DOMAIN node[path[k].blk].ents = 1 .. Len(node[path[k].blk].ents)
      BY <2>1, <3>1, LiveNode
    <3> QED
      BY <3>1, <3>2
  <2> QED
    BY <2>2, <2>3
<1>2. CASE pc = "remove"
  <2>1. RemoveInv
    BY <1>2 DEF FileInv
  <2>2. PICK U : GoodTree(node, free, U)
    BY <2>1 DEF RemoveInv
  <2>3. LocalType /\ Route(node, path, Len(path))
    BY <2>1 DEF RemoveInv
  <2>4. TreeType /\ KidsLive(node) /\ NodesNotFree /\ Fits(node)
    BY <2>2 DEF GoodTree, Typed, TreeType, NodesNotFree
  <2>5. WithinCapacity
    BY <2>4 DEF Fits, WithinCapacity
  <2>6. PathLive
    <3>1. Len(path) \in Nat
      BY <2>3 DEF LocalType
    <3> SUFFICES ASSUME NEW k \in 1 .. Len(path)
                 PROVE  /\ path[k].blk \in DOMAIN node
                        /\ node[path[k].blk].depth = depth - (k - 1)
                        /\ k < Len(path) =>
                              path[k].pos \in DOMAIN node[path[k].blk].ents
      BY DEF PathLive
    <3>2. k < Len(path) => k \in 1 .. Len(path) - 1
      BY <3>1
    <3> QED
      BY <2>3, <3>2 DEF Route, depth
  <2> QED
    BY <2>3, <2>4, <2>5, <2>6
<1> QED
  BY <1>1, <1>2

\* The owners of its blocks.
LEMMA FileOwners ==
    ASSUME FileInv
    PROVE  OneOwner
<1>1. CASE pc # "remove"
  BY <1>1 DEF FileInv, SortInv, OwnerInv, NewInv, NewBlocks, Inserting, OneOwner
<1>2. CASE pc = "remove"
  <2>1. PICK U : GoodTree(node, free, U)
    BY <1>2 DEF FileInv, RemoveInv
  <2> QED
    BY <1>2, <2>1 DEF GoodTree, OneOwner
<1> QED
  BY <1>1, <1>2

\* Its searches.
LEMMA FileSearches ==
    ASSUME FileInv
    PROVE  BinSearchFindsClosest /\ EveryBlockFound
<1>1. CASE pc # "remove"
  <2>1. IInv /\ OrderInv /\ AtRest
    BY <1>1 DEF FileInv, SortInv
  <2> QED
    BY <2>1, SortedSearches, RestFound
<1>2. CASE pc = "remove"
  <2>1. PICK U : GoodTree(node, free, U)
    BY <1>2 DEF FileInv, RemoveInv
  <2> QED
    BY <1>2, <2>1, GoodSearches DEF EveryBlockFound, Idle
<1> QED
  BY <1>1, <1>2

\* Its splits, and its leaves between two calls.
LEMMA FileSplits ==
    ASSUME FileInv
    PROVE  RoomForIndex /\ SplitNodesFull /\ ConsistentLeafNotEmpty
<1>1. CASE pc # "remove"
  <2>1. IInv /\ OwnerInv /\ FillInv /\ OrderInv
    BY <1>1 DEF FileInv, SortInv
  <2>2. RoomForIndex
    BY <2>1, LinkRoom DEF RoomForIndex
  <2>3. SplitNodesFull
    BY <2>1 DEF FillInv, FullInv
  <2>4. ConsistentLeafNotEmpty
    <3> SUFFICES ASSUME pc = "idle", NEW b \in DOMAIN node, node[b].ents = <<>>
                 PROVE  b = Root /\ depth = 0
      BY DEF ConsistentLeafNotEmpty, Idle
    <3>1. node[b].depth \in Nat /\ node[b].ents \in Seq(Entry) /\ ~ Used(b)
      BY <2>1, LiveNode, UsedWhenNonEmpty DEF Used
    <3>2. b = Root
      BY <2>1, <3>1, NoneEmpty DEF FillInv, AllUsed
    <3>3. ~ (node[b].depth > 0)
      BY <2>1 DEF IInv, TreeInv, NodesFit
    <3> QED
      BY <3>1, <3>2, <3>3 DEF depth
  <2> QED
    BY <2>2, <2>3, <2>4
<1>2. CASE pc = "remove"
  BY <1>2 DEF RoomForIndex, SplitNodesFull, ConsistentLeafNotEmpty, Idle
<1> QED
  BY <1>1, <1>2

\* A tree with an index has a leaf below its root.
LEMMA LeafBelow ==
    ASSUME IInv, KidsLive(node), Filled(node, Root), 1 \in DOMAIN node[Root].ents,
           NEW R, Levels(R, {Root})
    PROVE  \E c \in R[depth] : c \in DOMAIN node /\ node[c].depth = 0
<1>1. Root \in DOMAIN node /\ depth \in Nat /\ depth = node[Root].depth
  <2>1. Root \in DOMAIN node
    BY DEF IInv, TreeInv, TreeType
  <2> QED
    BY <2>1, LiveNode DEF depth
<1> DEFINE V == {n \in Nat : n <= depth =>
                    \E c \in R[n] : c \in DOMAIN node /\ node[c].depth = depth - n}
<1>2. 0 \in V
  <2>1. Root \in R[0] /\ depth - 0 = depth
    BY <1>1 DEF Levels
  <2> QED
    BY <1>1, <2>1
<1>3. ASSUME NEW n \in Nat, n \in V PROVE n + 1 \in V
  <2> SUFFICES ASSUME n + 1 <= depth
               PROVE  \E c \in R[n + 1] : c \in DOMAIN node
                                          /\ node[c].depth = depth - (n + 1)
    OBVIOUS
  <2>1. n <= depth /\ depth - n > 0 /\ (depth - n) - 1 = depth - (n + 1)
    BY <1>1
  <2>2. PICK b \in R[n] : b \in DOMAIN node /\ node[b].depth = depth - n
    BY <1>3, <2>1
  <2>3. 1 \in DOMAIN node[b].ents
    BY <2>2 DEF Filled
  <2>4. PICK c : c = node[b].ents[1].pblk
    OBVIOUS
  <2>5. c \in DOMAIN node /\ node[c].depth = node[b].depth - 1
    BY <2>1, <2>2, <2>3, <2>4 DEF KidsLive
  <2>6. c \in Kids(R[n])
    BY <2>1, <2>2, <2>3, <2>4 DEF Kids
  <2>7. c \in R[n + 1]
    BY <2>6 DEF Levels
  <2> QED
    BY <2>1, <2>2, <2>5, <2>7
<1>4. \A n \in Nat : n \in V
  <2> HIDE DEF V
  <2> QED
    BY <1>2, <1>3, Induction
<1>5. depth \in V /\ depth - depth = 0
  BY <1>1, <1>4
<1> QED
  BY <1>1, <1>5

\* A file without blocks has only its root, an empty leaf.
LEMMA FileEmpty ==
    ASSUME FileInv
    PROVE  EmptyFileHasNoTree
<1> SUFFICES ASSUME pc = "idle", DOMAIN FileMap = {}
             PROVE  DOMAIN node = {Root} /\ depth = 0 /\ node[Root].max = SpaceRoot
  BY DEF EmptyFileHasNoTree, Idle
<1>1. CallInv /\ IInv
  BY DEF FileInv, CallInv
<1>2. /\ np = <<>> /\ Filled(node, Root)
      /\ \E U : GoodTree(node, free, U)
      /\ node[Root].depth > 0 => 1 \in DOMAIN node[Root].ents
  BY <1>1, CallTree
<1>3. PICK U : GoodTree(node, free, U)
  BY <1>2
<1>4. Typed(node, free) /\ KidsLive(node) /\ Fits(node) /\ RootRoom(node) /\ Sorted(node, U)
  BY <1>3 DEF GoodTree
<1>5. /\ Root \in DOMAIN node /\ depth = node[Root].depth
      /\ \A b \in DOMAIN node : node[b].depth \in Nat
  BY <1>4, NodeOf DEF Typed, depth
<1>6. CASE depth = 0
  <2>1. ASSUME NEW b \in DOMAIN node, b # Root PROVE FALSE
    <3>1. node[b].depth < node[Root].depth
      BY <1>4, <2>1 DEF Fits
    <3> QED
      BY <1>5, <1>6, <3>1
  <2> QED
    BY <1>4, <1>5, <1>6, <2>1 DEF RootRoom
<1>7. CASE depth > 0
  <2>1. PICK R : Levels(R, {Root}) /\ Below({Root}) = R[depth]
    BY <1>1, <1>5, BelowLevels
  <2>2. PICK c \in R[depth] : c \in DOMAIN node /\ node[c].depth = 0
    BY <1>1, <1>2, <1>4, <1>5, <1>7, <2>1, LeafBelow
  <2>3. 1 \in DOMAIN node[c].ents
    BY <1>2, <1>5, <1>7, <2>2 DEF Filled
  <2>4. PICK e : e = node[c].ents[1]
    OBVIOUS
  <2>5. e \in Entry /\ e.lblk < EndOf(e, 0)
    <3>1. e \in Entry
      BY <1>4, <2>2, <2>3, <2>4, NodeOf
    <3>2. Ordered(node[c].ents, 0, U[c])
      BY <1>4, <2>2 DEF Sorted
    <3> QED
      BY <2>3, <2>4, <3>1, <3>2 DEF Ordered
  <2>6. e.lblk \in FileBlocks(e)
    <3>1. e.lblk \in Nat /\ e.len \in RawLen
      BY <2>5 DEF Entry
    <3>2. ee_len(e) \in Nat
      BY <2>5, <3>1, RawLengths
    <3>3. e.lblk < e.lblk + ee_len(e)
      BY <2>5 DEF EndOf, End
    <3> QED
      BY <3>1, <3>2, <3>3 DEF FileBlocks
  <2>7. e \in Extents
    <3>1. {Root} \cup ToSet(np) = {Root}
      BY <1>2 DEF ToSet
    <3>2. c \in Below({Root} \cup ToSet(np))
      BY <2>1, <2>2, <3>1
    <3>3. e \in ToSet(node[c].ents)
      BY <2>3, <2>4 DEF ToSet
    <3>4. e \in ExtentsOf(Below({Root} \cup ToSet(np)))
      BY <2>2, <3>2, <3>3 DEF ExtentsOf
    <3> QED
      BY <3>4 DEF Extents
  <2>8. e.lblk \in DOMAIN FileMap
    BY <2>6, <2>7 DEF FileMap
  <2> QED
    BY <2>8
<1> QED
  BY <1>5, <1>6, <1>7

-----------------------------------------------------------------------------
(* The theorems about a file.                                              *)

\* Any sequence of calls of get_blocks() and remove_space(), on files of any shape,
\* keeps the tree whole and sorted and its blocks owned once, also in the middle of
\* a removal, after one that could not read a block, and after an insertion that
\* failed.  The blocks of an extent are those get_blocks() counts in it: none, if its
\* field is 0x8000.  Left out by hypothesis are the defects that break this: an extent
\* extended to the front or to the length 0x8000, a conversion that is not one cut
\* before the end of its extent, and a split of several levels that fails half way.
THEOREM FileInvariance ==
    FileSpec /\ []SoundCuts /\ []SoundMerges /\ [][NoHalfSplit]_fileVars => []FileInv
<1>1. FileInit => FileInv
  BY FileStarts
<1>2. FileInv /\ SoundCuts /\ SoundMerges /\ [FileNext]_fileVars /\ [NoHalfSplit]_fileVars
      => FileInv'
  BY FileKept DEF NoHalfSplit
<1> QED
  BY <1>1, <1>2, PTL DEF FileSpec

\* The variables keep their types, also while a removal shortens extents to raw
\* lengths, drops nodes and goes up and down its path.
THEOREM FileTypes ==
    FileSpec /\ []SoundCuts /\ []SoundMerges /\ [][NoHalfSplit]_fileVars => []TypeOK
<1>1. FileInv => TypeOK
  BY FileTree DEF TreeType, LocalType, TypeOK, PathElem, SplitStep, Result
<1> QED
  BY <1>1, FileInvariance, PTL

\* At every moment of a removal every index points to a live block of the next lower
\* depth: remove_idx() takes the index out when it frees the block, and no other
\* index refers to it.
THEOREM RemovalLeavesNoDanglingIndex ==
    FileSpec /\ []SoundCuts /\ []SoundMerges /\ [][NoHalfSplit]_fileVars => []ChildrenLive
<1>1. FileInv => ChildrenLive
  BY FileTree DEF ChildrenLive
<1> QED
  BY <1>1, FileInvariance, PTL

\* remove_blocks() and remove_idx() free no block that still holds a node.
THEOREM RemovalFreesNoNode ==
    FileSpec /\ []SoundCuts /\ []SoundMerges /\ [][NoHalfSplit]_fileVars => []NodesNotFree
<1>1. FileInv => NodesNotFree
  BY FileTree
<1> QED
  BY <1>1, FileInvariance, PTL

\* The insertion of what follows a removed range, and insertions after a removal, do
\* not overrun a node.
THEOREM FileNoOverrun ==
    FileSpec /\ []SoundCuts /\ []SoundMerges /\ [][NoHalfSplit]_fileVars => []WithinCapacity
<1>1. FileInv => WithinCapacity
  BY FileTree
<1> QED
  BY <1>1, FileInvariance, PTL

\* The path on which a removal goes up and down is never stale, whatever nodes and
\* indexes it has dropped.
THEOREM RemovalPathNeverStale ==
    FileSpec /\ []SoundCuts /\ []SoundMerges /\ [][NoHalfSplit]_fileVars => []PathLive
<1>1. FileInv => PathLive
  BY FileTree
<1> QED
  BY <1>1, FileInvariance, PTL

\* A removal frees no block that the tree still refers to, and cuts extents into
\* parts that share none.
THEOREM RemovalFreesNoOwnedBlock ==
    FileSpec /\ []SoundCuts /\ []SoundMerges /\ [][NoHalfSplit]_fileVars => []OneOwner
<1>1. FileInv => OneOwner
  BY FileOwners
<1> QED
  BY <1>1, FileInvariance, PTL

\* The binary searches are right in every node also after removals and during one.
THEOREM FileSearchesAreRight ==
    FileSpec /\ []SoundCuts /\ []SoundMerges /\ [][NoHalfSplit]_fileVars
       => []BinSearchFindsClosest
<1>1. FileInv => BinSearchFindsClosest
  BY FileSearches
<1> QED
  BY <1>1, FileInvariance, PTL

\* Every block that is left after a removal is found again: the keys that
\* correct_indexes() and remove_idx() send up the path keep every extent in sight.
THEOREM NothingElseIsLost ==
    FileSpec /\ []SoundCuts /\ []SoundMerges /\ [][NoHalfSplit]_fileVars => []EveryBlockFound
<1>1. FileInv => EveryBlockFound
  BY FileSearches
<1> QED
  BY <1>1, FileInvariance, PTL

\* A split finds room for its index also in a tree that removals have thinned out.
THEOREM FileSplitFindsRoom ==
    FileSpec /\ []SoundCuts /\ []SoundMerges /\ [][NoHalfSplit]_fileVars => []RoomForIndex
<1>1. FileInv => RoomForIndex
  BY FileSplits
<1> QED
  BY <1>1, FileInvariance, PTL

\* Only full nodes are split there.
THEOREM FileSplitsAreFull ==
    FileSpec /\ []SoundCuts /\ []SoundMerges /\ [][NoHalfSplit]_fileVars => []SplitNodesFull
<1>1. FileInv => SplitNodesFull
  BY FileSplits
<1> QED
  BY <1>1, FileInvariance, PTL

\* A removal leaves no empty leaf and no empty index node behind, whether it comes to
\* its end or stops at a block that it cannot read.
THEOREM RemovalLeavesNoEmptyNode ==
    FileSpec /\ []SoundCuts /\ []SoundMerges /\ [][NoHalfSplit]_fileVars
       => []ConsistentLeafNotEmpty
<1>1. FileInv => ConsistentLeafNotEmpty
  BY FileSplits
<1> QED
  BY <1>1, FileInvariance, PTL

\* "truncate to zero freed all the tree": whenever the last block of a file has been
\* removed, by one call or by many, every tree block has been freed and the root is a
\* leaf with the room of the inode again.
THEOREM TruncationFreesTheTree ==
    FileSpec /\ []SoundCuts /\ []SoundMerges /\ [][NoHalfSplit]_fileVars
       => []EmptyFileHasNoTree
<1>1. FileInv => EmptyFileHasNoTree
  BY FileEmpty
<1> QED
  BY <1>1, FileInvariance, PTL

=============================================================================
