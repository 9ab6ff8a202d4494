-------------------------- MODULE ExtentOwnerProofs --------------------------
(***************************************************************************)
(* What the steps of an insertion do to the tree, node by node; the proof  *)
(* that only full nodes are split; and the proof that every block of the   *)
(* device has one owner.                                                   *)
(*                                                                         *)
(* The code breaks the last where its merges and cuts go wrong: it keeps   *)
(* the first block of an extent that it extends to the front, takes an     *)
(* extent of 2^15 blocks for an unwritten one without any, converts the    *)
(* last blocks of an extent as if they lay inside it, and makes the second *)
(* cut of such a conversion in the wrong extent.  The theorem is about the *)
(* behaviours in which none of this happens (SoundCuts, SoundMerges).      *)
(***************************************************************************)
EXTENDS ExtentTreeMap, ExtentTreeProofs

-----------------------------------------------------------------------------
(* What a step does to the nodes.                                          *)

\* The nodes of the tree and what a header says of them.
LEMMA LiveNode ==
    ASSUME IInv, NEW b \in DOMAIN node
    PROVE  /\ node[b] \in Node /\ node[b].depth \in Nat /\ node[b].max \in Nat
           /\ node[b].ents \in Seq(Entry) /\ Len(node[b].ents) \in Nat
           /\ DOMAIN node[b].ents = 1 .. Len(node[b].ents)
           /\ \A i \in 1 .. Len(node[b].ents) : node[b].ents[i] \in Entry
           /\ Len(node[b].ents) <= node[b].max /\ node[b].max >= 1
<1>1. node[b] \in Node /\ NodesFit(node)
  BY DEF IInv, TreeInv, TreeType
<1>2. node[b].max \in 1 .. ext4_ext_max_entries(node[Root].depth, node[b].depth)
      /\ Len(node[b].ents) <= node[b].max
  BY <1>1 DEF NodesFit
<1>3. node[b].max >= 1
  BY <1>1, <1>2, NodeFields
<1> QED
  BY <1>1, <1>2, <1>3, NodeFields

\* The current extent is overwritten.
LEMMA RewriteEffect ==
    ASSUME IInv, path # <<>>, pc \in Working \cup {"fail"}, leaf.pos # 0,
           NEW e \in Entry,
           node' = [node EXCEPT ![leaf.blk].ents[leaf.pos] = e]
    PROVE  /\ DOMAIN node' = DOMAIN node
           /\ \A b \in DOMAIN node : b # leaf.blk => node'[b] = node[b]
           /\ node'[leaf.blk].depth = 0 /\ node[leaf.blk].depth = 0
           /\ node'[leaf.blk].max = node[leaf.blk].max
           /\ leaf.blk \in DOMAIN node
           /\ leaf.pos \in DOMAIN node[leaf.blk].ents
           /\ DOMAIN node'[leaf.blk].ents = DOMAIN node[leaf.blk].ents
           /\ Len(node'[leaf.blk].ents) = Len(node[leaf.blk].ents)
           /\ \A i \in DOMAIN node[leaf.blk].ents :
                 node'[leaf.blk].ents[i] =
                    IF i = leaf.pos THEN e ELSE node[leaf.blk].ents[i]
<1> DEFINE b == leaf.blk
           es == [node[b].ents EXCEPT ![leaf.pos] = e]
<1>1. /\ b \in DOMAIN node /\ node[b] \in Node /\ node[b].depth = 0
      /\ leaf.pos \in 1 .. Len(node[b].ents)
  BY LeafOfPath, NodeFields
<1>2. /\ node[b].ents \in Seq(Entry) /\ Len(node[b].ents) \in Nat
      /\ DOMAIN node[b].ents = 1 .. Len(node[b].ents)
  BY <1>1, NodeFields
<1>3. /\ es \in Seq(Entry) /\ Len(es) = Len(node[b].ents)
      /\ \A j \in 1 .. Len(node[b].ents) :
            es[j] = IF j = leaf.pos THEN e ELSE node[b].ents[j]
  BY <1>1, <1>2, ExceptSeq
<1>4. DOMAIN es = 1 .. Len(es)
  BY <1>3, LenProperties
<1>5. node' = [node EXCEPT ![b] = [node[b] EXCEPT !.ents = es]]
  BY <1>1 DEF Node
<1> HIDE DEF es
<1>6. /\ [node[b] EXCEPT !.ents = es].ents = es
      /\ [node[b] EXCEPT !.ents = es].depth = node[b].depth
      /\ [node[b] EXCEPT !.ents = es].max = node[b].max
  BY <1>1 DEF Node
<1>7. /\ DOMAIN node' = DOMAIN node
      /\ \A c \in DOMAIN node : c # b => node'[c] = node[c]
      /\ node'[b] = [node[b] EXCEPT !.ents = es]
  BY <1>1, <1>5
<1>8. /\ node'[b].ents = es /\ node'[b].depth = node[b].depth
      /\ node'[b].max = node[b].max
  BY <1>6, <1>7
<1> QED
  BY <1>1, <1>2, <1>3, <1>4, <1>7, <1>8

\* The new extent is inserted into the leaf, and indexes above are corrected.
LEMMA InsertEffect ==
    ASSUME IInv, pc = "insert", InsertIntoLeaf
    PROVE  LET lb == leaf.blk
               n  == Len(node[lb].ents)
           IN  /\ DOMAIN node' = DOMAIN node /\ lb \in DOMAIN node
               /\ node[lb].depth = 0 /\ n \in Nat
               /\ InsertSlot \in 1 .. n + 1
               /\ \A b \in DOMAIN node : /\ node'[b].depth = node[b].depth
                                         /\ node'[b].max = node[b].max
               /\ DOMAIN node'[lb].ents = 1 .. n + 1
               /\ Len(node'[lb].ents) = n + 1
               /\ \A i \in 1 .. n + 1 :
                     node'[lb].ents[i] =
                        IF i < InsertSlot THEN node[lb].ents[i]
                        ELSE IF i = InsertSlot THEN newext
                        ELSE node[lb].ents[i - 1]
               /\ node'[lb].ents[1].lblk \in Nat
               /\ \A b \in DOMAIN node : b # lb =>
                     node'[b].ents =
                        ext4_ext_correct_indexes(b, node'[lb].ents[1].lblk)
<1> DEFINE lb == leaf.blk
           old == node[lb].ents
           n == Len(old)
           slot == InsertSlot
           es == InsertAt(old, slot, newext)
           C(b) == ext4_ext_correct_indexes(b, es[1].lblk)
<1>1. node' = [b \in DOMAIN node |->
                    [node[b] EXCEPT !.ents = IF b = lb THEN es ELSE C(b)]]
  BY DEF InsertIntoLeaf
<1>2. pc \in Working /\ path # <<>> /\ newext \in Entry
  BY WorkingPath DEF Working, IInv, LocalInv, LocalType
<1>3. /\ lb \in DOMAIN node /\ node[lb] \in Node /\ node[lb].depth = 0
      /\ leaf.pos \in 0 .. n
  BY <1>2, LeafOfPath
<1>4. old \in Seq(Entry) /\ n \in Nat
  BY <1>3, NodeFields
<1>5. slot \in 1 .. n + 1
  <2>1. \/ slot = 1
        \/ leaf.pos # 0 /\ slot \in {leaf.pos, leaf.pos + 1}
    BY DEF InsertSlot
  <2> HIDE DEF slot
  <2> QED
    BY <2>1, <1>3, <1>4
<1> HIDE DEF slot, old
<1>6. /\ es \in Seq(Entry) /\ Len(es) = n + 1
  BY <1>2, <1>4, <1>5, InsertAtProperties
<1>7. ASSUME NEW i \in 1 .. n + 1
      PROVE  es[i] = IF i < slot THEN old[i]
                     ELSE IF i = slot THEN newext ELSE old[i - 1]
  BY <1>2, <1>4, <1>5, InsertAtProperties
<1>8. DOMAIN es = 1 .. n + 1 /\ es[1] \in Entry
  <2>1. 1 \in 1 .. Len(es)
    BY <1>4, <1>6
  <2> QED
    BY <2>1, <1>6, LenProperties, ElementOfSeq
<1> HIDE DEF es
<1>9. \A b \in DOMAIN node :
         /\ node'[b].depth = node[b].depth /\ node'[b].max = node[b].max
         /\ node'[b].ents = IF b = lb THEN es ELSE C(b)
  <2> HIDE DEF C
  <2> TAKE b \in DOMAIN node
  <2>1. node[b] \in Node
    BY DEF IInv, TreeInv, TreeType
  <2>2. node'[b] = [node[b] EXCEPT !.ents = IF b = lb THEN es ELSE C(b)]
    BY <1>1
  <2> QED
    BY <2>1, <2>2 DEF Node
<1>10. DOMAIN node' = DOMAIN node
  BY <1>1
<1>11. es[1].lblk \in Nat
  BY <1>8 DEF Entry
<1> HIDE DEF C
<1>12. /\ node'[lb].ents = es
       /\ \A b \in DOMAIN node : b # lb => node'[b].ents = C(b)
  BY <1>3, <1>9
<1> QED
  BY <1>3, <1>4, <1>5, <1>6, <1>7, <1>8, <1>9, <1>10, <1>11, <1>12 DEF old, slot, C

\* The tree grows.
LEMMA GrowEffect ==
    ASSUME IInv, ext4_ext_grow_indepth
    PROVE  \E b \in free :
              /\ free' = free \ {b}
              /\ b \notin DOMAIN node /\ b # Root /\ b \in PBlk
              /\ DOMAIN node' = DOMAIN node \cup {b}
              /\ node'[b].depth = depth /\ node'[b].ents = node[Root].ents
              /\ node'[b].max = IF depth = 0 THEN SpaceBlock ELSE SpaceBlockIdx
              /\ node'[Root].depth = depth + 1
              /\ node'[Root].ents = << [lblk |-> node[Root].ents[1].lblk,
                                        pblk |-> b, len |-> 0] >>
              /\ \A c \in DOMAIN node : c # Root => node'[c] = node[c]
<1> DEFINE root == node[Root]
           child == [root EXCEPT !.max = IF depth = 0 THEN SpaceBlock
                                         ELSE SpaceBlockIdx]
           Link(b) == [lblk |-> root.ents[1].lblk, pblk |-> b, len |-> 0]
           topmax == IF depth = 0 THEN SpaceRootIdx ELSE root.max
           Top(b) == [depth |-> depth + 1, max |-> topmax, ents |-> << Link(b) >>]
<1>1. PICK b \in free :
         /\ free' = free \ {b}
         /\ node' = WithNode([node EXCEPT ![Root] = Top(b)], b, child)
  BY DEF ext4_ext_grow_indepth
<1>2. Root \in DOMAIN node /\ root \in Node
  BY DEF IInv, TreeInv, TreeType
<1>3. b \in PBlk /\ b \notin DOMAIN node /\ b # Root
  BY ConstantsAssumption DEF IInv, TreeInv, TreeType, NodesNotFree
<1>4. /\ child.depth = depth /\ child.ents = root.ents
      /\ child.max = IF depth = 0 THEN SpaceBlock ELSE SpaceBlockIdx
  BY <1>2 DEF Node, depth
<1>5. Top(b).depth = depth + 1 /\ Top(b).ents = << Link(b) >>
  OBVIOUS
<1> HIDE DEF Top, child, Link
<1>6. /\ DOMAIN node' = DOMAIN node \cup {b}
      /\ node'[b] = child /\ node'[Root] = Top(b)
      /\ \A c \in DOMAIN node : c # Root => node'[c] = node[c]
  BY <1>1, <1>2, <1>3 DEF WithNode
<1> QED
  BY <1>1, <1>3, <1>4, <1>5, <1>6 DEF Link

\* What follows the current slot moves to a new node, behind the index of the
\* new node of the level below.
LEMMA SplitEffect ==
    ASSUME IInv, ext4_ext_split_node
    PROVE  LET c   == path[level].blk
               old == node[c].ents
               pos == path[level].pos
               m   == IF np = <<>> THEN 0 ELSE 1
           IN  \E b \in free :
                  /\ free' = free \ {b} /\ np' = <<b>> \o np
                  /\ b \notin DOMAIN node /\ b # Root /\ b \in PBlk
                  /\ DOMAIN node' = DOMAIN node \cup {b}
                  /\ \A x \in DOMAIN node : x # c => node'[x] = node[x]
                  /\ node'[c].depth = node[c].depth
                  /\ node'[c].max = node[c].max
                  /\ Len(node'[c].ents) = pos
                  /\ DOMAIN node'[c].ents = 1 .. pos
                  /\ \A i \in 1 .. pos : node'[c].ents[i] = old[i]
                  /\ node'[b].depth = node[c].depth
                  /\ node'[b].max = ext4_ext_max_entries(depth, Len(np))
                  /\ Len(node'[b].ents) = Len(old) - pos + m
                  /\ DOMAIN node'[b].ents = 1 .. Len(old) - pos + m
                  /\ np # <<>> => node'[b].ents[1] = [lblk |-> key, pblk |-> np[1],
                                                      len |-> 0]
                  /\ \A i \in 1 + m .. Len(old) - pos + m :
                        node'[b].ents[i] = old[pos + i - m]
<1> DEFINE c == path[level].blk
           old == node[c].ents
           pos == path[level].pos
           m == IF np = <<>> THEN 0 ELSE 1
           kept == SubSeq(old, 1, pos)
           moved == SubSeq(old, pos + 1, Len(old))
           link == [lblk |-> key, pblk |-> np[1], len |-> 0]
           new == IF np = <<>> THEN moved ELSE << link >> \o moved
           n == [depth |-> Len(np), max |-> ext4_ext_max_entries(depth, Len(np)),
                 ents |-> new]
<1>1. PICK b \in free :
         /\ free' = free \ {b}
         /\ node' = WithNode([node EXCEPT ![c].ents = kept], b, n)
         /\ np' = <<b>> \o np
  BY DEF ext4_ext_split_node, ext4_ext_init_header
<1>2. pc = "split"
  BY DEF ext4_ext_split_node
<1>3. /\ c \in DOMAIN node /\ node[c] \in Node /\ node[c].depth = Len(np)
      /\ pos \in 0 .. Len(old)
  BY <1>2, SplitLevel
<1>4. b \in PBlk /\ b \notin DOMAIN node /\ b # Root
  BY ConstantsAssumption DEF IInv, TreeInv, TreeType, NodesNotFree
<1>5. old \in Seq(Entry) /\ Len(old) \in Nat /\ pos \in Nat
  BY <1>3, NodeFields
<1>6. /\ kept \in Seq(Entry) /\ Len(kept) = pos
      /\ \A i \in 1 .. pos : kept[i] = old[i]
      /\ moved \in Seq(Entry) /\ Len(moved) = Len(old) - pos
      /\ \A i \in 1 .. Len(old) - pos : moved[i] = old[pos + i]
  BY <1>3, <1>5, CutSequence
<1>7. /\ new \in Seq(Entry) /\ Len(new) = Len(old) - pos + m
      /\ np # <<>> => new[1] = link
      /\ \A i \in 1 + m .. Len(old) - pos + m : new[i] = old[pos + i - m]
  <2> HIDE DEF moved, old, pos
  <2>1. CASE np = <<>>
    BY <2>1, <1>5, <1>6
  <2>2. CASE np # <<>>
    <3>1. link \in Entry
      <4>1. np \in Seq(PBlk) /\ key \in Nat
        BY DEF IInv, LocalInv, LocalType
      <4>2. np[1] \in PBlk
        BY <4>1, <2>2, EmptySeq, ElementOfSeq
      <4>3. \A x \in PBlk : x \in Int
        BY ConstantsAssumption
      <4> QED
        BY <4>1, <4>2, <4>3, InitMaxAssumption DEF Entry, RawLen
    <3> DEFINE one == << link >>
    <3>2. one \in Seq(Entry) /\ Len(one) = 1 /\ one[1] = link
      <4> HIDE DEF link
      <4> QED
        BY <3>1
    <3>3. new = one \o moved
      BY <2>2
    <3> HIDE DEF one, link, new
    <3>4. new \in Seq(Entry) /\ Len(new) = Len(one) + Len(moved)
      BY <3>2, <3>3, <1>6, ConcatProperties
    <3>5. ASSUME NEW i \in 1 .. Len(one) + Len(moved)
          PROVE  new[i] = IF i <= Len(one) THEN one[i] ELSE moved[i - Len(one)]
      BY <3>2, <3>3, <1>6, ConcatProperties
    <3>6. Len(new) = Len(old) - pos + m
      BY <2>2, <3>2, <3>4, <1>5, <1>6
    <3>7. new[1] = link
      BY <3>2, <3>5, <1>3, <1>5, <1>6
    <3>8. ASSUME NEW i \in 1 + m .. Len(old) - pos + m
          PROVE  new[i] = old[pos + i - m]
      <4>1. /\ i \in 1 .. Len(one) + Len(moved) /\ ~ (i <= Len(one))
            /\ i - Len(one) \in 1 .. Len(old) - pos /\ i - Len(one) = i - m
            /\ pos + (i - Len(one)) = pos + i - m
        BY <2>2, <3>2, <1>3, <1>5, <1>6
      <4>2. new[i] = moved[i - Len(one)]
        BY <4>1, <3>5
      <4> QED
        BY <4>1, <4>2, <1>6
    <3> QED
      BY <3>4, <3>6, <3>7, <3>8
  <2> QED
    BY <2>1, <2>2
<1>8. DOMAIN new = 1 .. Len(new) /\ DOMAIN kept = 1 .. pos
  BY <1>6, <1>7, LenProperties
<1> HIDE DEF new, kept, c
<1>9. /\ n.depth = Len(np) /\ n.max = ext4_ext_max_entries(depth, Len(np))
      /\ n.ents = new
  OBVIOUS
<1> HIDE DEF n
<1>10. /\ DOMAIN node' = DOMAIN node \cup {b}
       /\ node'[b] = n
       /\ \A x \in DOMAIN node : x # c => node'[x] = node[x]
       /\ node'[c] = [node[c] EXCEPT !.ents = kept]
  BY <1>1, <1>3, <1>4 DEF WithNode
<1>11. /\ node'[c].depth = node[c].depth /\ node'[c].max = node[c].max
       /\ node'[c].ents = kept
  BY <1>3, <1>10 DEF Node
<1>12. /\ node'[b].depth = node[c].depth /\ node'[b].ents = new
       /\ node'[b].max = ext4_ext_max_entries(depth, Len(np))
  BY <1>3, <1>9, <1>10
<1> HIDE DEF old, pos, link, m
<1>13. /\ Len(node'[c].ents) = pos /\ DOMAIN node'[c].ents = 1 .. pos
       /\ \A i \in 1 .. pos : node'[c].ents[i] = old[i]
  BY <1>6, <1>8, <1>11
<1>14. /\ Len(node'[b].ents) = Len(old) - pos + m
       /\ DOMAIN node'[b].ents = 1 .. Len(old) - pos + m
       /\ np # <<>> => node'[b].ents[1] = link
       /\ \A i \in 1 + m .. Len(old) - pos + m :
             node'[b].ents[i] = old[pos + i - m]
  BY <1>7, <1>8, <1>12
<1> QED
  BY <1>1, <1>4, <1>10, <1>11, <1>12, <1>13, <1>14, Zenon DEF c, old, pos, link, m

\* The place of the new index, and the new subtree that is linked there.
LEMMA LinkPlace ==
    ASSUME IInv, pc = "link"
    PROVE  /\ at \in 2 .. Len(path) /\ at \in Nat
           /\ Len(path) = depth + 1 /\ depth \in Nat
           /\ Len(np) = (Len(path) - at) + 1 /\ Len(np) \in Nat \ {0}
           /\ at - 1 \in 1 .. Len(path) - 1
           /\ path[at - 1].blk \in DOMAIN node
           /\ node[path[at - 1].blk].depth = depth - (at - 2)
           /\ node[path[at - 1].blk].depth > 0
           /\ path[at - 1].pos \in 1 .. Len(node[path[at - 1].blk].ents)
           /\ np[1] \in PBlk /\ np[1] \in Int
           /\ LinkSlot \in 1 .. Len(node[path[at - 1].blk].ents) + 1
           /\ [lblk |-> key, pblk |-> np[1], len |-> 0] \in Entry
<1>1. Len(path) = depth + 1 /\ depth \in Nat /\ path # <<>>
  BY WorkingPath DEF Working
<1>2. /\ at \in 2 .. Len(path) /\ Len(np) = (Len(path) - at) + 1 /\ at \in Nat
      /\ np \in Seq(PBlk) /\ key \in Nat
  BY DEF IInv, LocalInv, LocalType, SplitInv
<1>3. Len(np) \in Nat \ {0} /\ at - 1 \in 1 .. Len(path) - 1
      /\ at - 1 \in 1 .. Len(path) /\ at - 1 < Len(path) /\ 1 \in 1 .. Len(np)
  BY <1>1, <1>2
<1>4. /\ path[at - 1].blk \in DOMAIN node
      /\ node[path[at - 1].blk].depth = depth - (at - 1 - 1)
      /\ path[at - 1].pos \in 1 .. Len(node[path[at - 1].blk].ents)
  BY <1>3 DEF IInv, LocalInv, PathInv
<1>5. depth - (at - 1 - 1) = depth - (at - 2) /\ depth - (at - 2) > 0
  BY <1>1, <1>2
<1>6. np[1] \in PBlk /\ np[1] \in Int
  <2>1. np[1] \in PBlk
    BY <1>2, <1>3, ElementOfSeq
  <2>2. \A x \in PBlk : x \in Int
    BY ConstantsAssumption
  <2> QED
    BY <2>1, <2>2
<1>7. LinkSlot \in 1 .. Len(node[path[at - 1].blk].ents) + 1
  <2>1. LinkSlot \in {path[at - 1].pos, path[at - 1].pos + 1}
    BY DEF LinkSlot
  <2>2. Len(node[path[at - 1].blk].ents) \in Nat
    BY <1>4, LiveNode
  <2> QED
    BY <2>1, <2>2, <1>4
<1>8. [lblk |-> key, pblk |-> np[1], len |-> 0] \in Entry
  BY <1>2, <1>6, InitMaxAssumption DEF Entry, RawLen
<1> QED
  BY <1>1, <1>2, <1>3, <1>4, <1>5, <1>6, <1>7, <1>8

\* The topmost new node is linked.
LEMMA LinkEffect ==
    ASSUME IInv, pc = "link", LinkIndex
    PROVE  LET c   == path[at - 1].blk
               old == node[c].ents
           IN  /\ free' = free /\ DOMAIN node' = DOMAIN node
               /\ \A x \in DOMAIN node : x # c => node'[x] = node[x]
               /\ node'[c].depth = node[c].depth /\ node'[c].max = node[c].max
               /\ Len(node'[c].ents) = Len(old) + 1
               /\ DOMAIN node'[c].ents = 1 .. Len(old) + 1
               /\ \A i \in 1 .. Len(old) + 1 :
                     node'[c].ents[i] =
                        IF i < LinkSlot THEN old[i]
                        ELSE IF i = LinkSlot
                             THEN [lblk |-> key, pblk |-> np[1], len |-> 0]
                             ELSE old[i - 1]
<1> DEFINE c == path[at - 1].blk
           old == node[c].ents
           slot == LinkSlot
           ix == [lblk |-> key, pblk |-> np[1], len |-> 0]
           es == InsertAt(old, slot, ix)
<1>1. node' = [node EXCEPT ![c].ents = es] /\ free' = free
  BY DEF LinkIndex
<1>2. c \in DOMAIN node /\ slot \in 1 .. Len(old) + 1 /\ ix \in Entry
  BY LinkPlace
<1>3. node[c] \in Node /\ old \in Seq(Entry) /\ Len(old) \in Nat
  BY <1>2, LiveNode
<1> HIDE DEF slot, ix, old
<1>4. es \in Seq(Entry) /\ Len(es) = Len(old) + 1
  BY <1>2, <1>3, InsertAtProperties
<1>5. ASSUME NEW i \in 1 .. Len(old) + 1
      PROVE  es[i] = IF i < slot THEN old[i]
                     ELSE IF i = slot THEN ix ELSE old[i - 1]
  BY <1>2, <1>3, InsertAtProperties
<1>6. DOMAIN es = 1 .. Len(old) + 1
  BY <1>4, LenProperties
<1> HIDE DEF es, c
<1>7. /\ DOMAIN node' = DOMAIN node
      /\ \A x \in DOMAIN node : x # c => node'[x] = node[x]
      /\ node'[c] = [node[c] EXCEPT !.ents = es]
  BY <1>1, <1>2
<1>8. /\ node'[c].depth = node[c].depth /\ node'[c].max = node[c].max
      /\ node'[c].ents = es
  BY <1>3, <1>7 DEF Node
<1> QED
  BY <1>1, <1>4, <1>5, <1>6, <1>7, <1>8 DEF old, slot, ix, c

\* The blocks of a split that fails are given back.
LEMMA CleanupEffect ==
    ASSUME IInv, pc \in {"split", "link"}, Cleanup
    PROVE  /\ DOMAIN node' = DOMAIN node \ ToSet(np)
           /\ \A b \in DOMAIN node' : node'[b] = node[b]
           /\ free' = free \cup ToSet(np)
           /\ \A k \in 1 .. Len(path) : path[k].blk \in DOMAIN node'
           /\ ToSet(np) = {np[i] : i \in 1 .. Len(np)}
<1>1. node' = [b \in DOMAIN node \ ToSet(np) |-> node[b]] /\ free' = free \cup ToSet(np)
  BY DEF Cleanup
<1>2. np \in Seq(PBlk)
  BY DEF IInv, LocalInv, LocalType
<1>3. ToSet(np) = {np[i] : i \in 1 .. Len(np)}
  BY <1>2, LenProperties DEF ToSet
<1>4. \A k \in 1 .. Len(path) : path[k].blk \in DOMAIN node
  BY DEF IInv, LocalInv, PathInv
<1>5. \A i \in 1 .. Len(np) : \A k \in 1 .. Len(path) : path[k].blk # np[i]
  BY DEF IInv, LocalInv, SplitInv
<1> QED
  BY <1>1, <1>3, <1>4, <1>5

\* The length of one slot is put back.
LEMMA RestoreEffect ==
    ASSUME IInv, NEW sb, NEW sp,
           node' = [node EXCEPT ![sb].ents[sp].len = saved.len]
    PROVE  /\ DOMAIN node' = DOMAIN node
           /\ \A b \in DOMAIN node :
                 /\ node'[b].depth = node[b].depth /\ node'[b].max = node[b].max
                 /\ DOMAIN node'[b].ents = DOMAIN node[b].ents
                 /\ \A i \in DOMAIN node[b].ents :
                       node'[b].ents[i] =
                          IF b = sb /\ i = sp
                          THEN [node[b].ents[i] EXCEPT !.len = saved.len]
                          ELSE node[b].ents[i]
<1>1. DOMAIN node' = DOMAIN node /\ node \in [DOMAIN node -> Node]
      /\ saved.len \in RawLen
  BY DEF IInv, TreeInv, TreeType, LocalInv, LocalType
<1>2. ASSUME NEW b \in DOMAIN node
      PROVE  /\ node'[b].depth = node[b].depth /\ node'[b].max = node[b].max
             /\ DOMAIN node'[b].ents = DOMAIN node[b].ents
             /\ \A i \in DOMAIN node[b].ents :
                   node'[b].ents[i] =
                      IF b = sb /\ i = sp
                      THEN [node[b].ents[i] EXCEPT !.len = saved.len]
                      ELSE node[b].ents[i]
  <2> DEFINE old == node[b].ents
             e == [old[sp] EXCEPT !.len = saved.len]
             es == [old EXCEPT ![sp] = e]
  <2>1. /\ node[b] \in Node /\ old \in Seq(Entry) /\ Len(old) \in Nat
        /\ DOMAIN old = 1 .. Len(old)
    BY <1>1, NodeFields
  <2>2. CASE b # sb
    BY <2>1, <2>2, <1>1
  <2>3. CASE b = sb /\ sp \notin DOMAIN old
    <3>1. es = old
      BY <2>1, <2>3
    <3>2. node'[b] = [node[b] EXCEPT !.ents = es]
      BY <2>3, <1>1
    <3> HIDE DEF es
    <3>3. node'[b] = node[b]
      BY <3>1, <3>2, <2>1 DEF Node
    <3>4. \A i \in DOMAIN old : i # sp
      BY <2>3
    <3> HIDE DEF old
    <3> QED
      BY <3>3, <3>4 DEF old
  <2>4. CASE b = sb /\ sp \in DOMAIN old
    <3>1. old[sp] \in Entry
      BY <2>1, <2>4, ElementOfSeq
    <3>2. e \in Entry
      BY <3>1, <1>1 DEF Entry
    <3>3. node'[b] = [node[b] EXCEPT !.ents = es]
      BY <2>4, <1>1
    <3> HIDE DEF e
    <3>4. /\ es \in Seq(Entry) /\ Len(es) = Len(old)
          /\ \A j \in 1 .. Len(old) : es[j] = IF j = sp THEN e ELSE old[j]
      BY <2>1, <2>4, <3>2, ExceptSeq
    <3> HIDE DEF es
    <3>5. DOMAIN es = 1 .. Len(old)
      BY <3>4, LenProperties
    <3>6. /\ node'[b].depth = node[b].depth /\ node'[b].max = node[b].max
          /\ node'[b].ents = es
      BY <2>1, <3>3, <3>4 DEF Node
    <3> QED
      BY <2>1, <2>4, <3>4, <3>5, <3>6, ZenonT(40) DEF e
  <2> QED
    BY <2>2, <2>3, <2>4
<1> QED
  BY <1>1, <1>2

-----------------------------------------------------------------------------
(* What is full and what is empty.                                         *)

Full(b) == ~ (Len(node[b].ents) < node[b].max)
Used(b) == 1 \in DOMAIN node[b].ents

\* The path is the one that a search for file block l takes, and has arrived.
Searched(l) ==
    \A k \in 1 .. Len(path) - 1 :
       LET es == node[path[k].blk].ents
       IN  path[k].pos = Closest(es, l) /\ path[k + 1].blk = es[path[k].pos].pblk

Arrived(l) ==
    /\ Searched(l)
    /\ leaf.pos = IF Used(leaf.blk) THEN Closest(node[leaf.blk].ents, l) ELSE 0

\* After growing, insert_extent searches for the extent it inserts.  In a
\* conversion that may be another block than the one the path was searched for:
\* this says that a search for either takes the same path.
GrowsWhereSearched == pc = "grow" /\ Converting => Arrived(newext.lblk)

\* The nodes that a search for l meets, from the root to a leaf.
Way(q, l) ==
    /\ q \in [1 .. depth + 1 -> DOMAIN node]
    /\ q[1] = Root
    /\ \A k \in 1 .. depth :
          LET es == node[q[k]].ents IN q[k + 1] = es[Closest(es, l)].pblk

\* insert_extent() is called on the path of a search for the new extent.  When it
\* comes back after a split, the leaf has room.
SearchInv ==
    /\ pc \in {"idle", "find", "found"} => todo = <<>>
    /\ pc = "find" => Searched(req.lblk)
    /\ pc = "found" => Arrived(req.lblk)
    /\ pc = "refind" => Searched(newext.lblk)
    /\ pc = "grow" => Arrived(newext.lblk) \/ todo # <<>>
    /\ pc = "insert" =>
          /\ todo # <<>> \/ Arrived(newext.lblk) \/ ~ Full(leaf.blk)
          /\ leaf.pos = 0 => ~ Used(leaf.blk)

\* After growing, the search for the new extent meets the nodes of q: the root,
\* its only child, which has room, and below it nodes that are full.
Regrown(q) ==
    /\ depth >= 1
    /\ Way(q, newext.lblk)
    /\ ~ Full(q[2])
    /\ \A k \in 3 .. depth + 1 : Full(q[k])

\* The tree grows when every node of the path is full.  The search that follows
\* meets the same nodes again, one level further down and below a new one.
FullInv ==
    /\ pc = "grow" => \A k \in 1 .. Len(path) : Full(path[k].blk)
    /\ pc = "refind" =>
          \E q : Regrown(q) /\ \A k \in 1 .. Len(path) : path[k].blk = q[k]
    /\ SplitNodesFull

\* The key of a split whose right-hand leaf is empty is that of the new extent,
\* and the half of the leaf that the new extent belongs to has room.
HalvesInv ==
    pc \in {"split", "link"} =>
       /\ leaf.pos # 0
       /\ leaf.pos = node[leaf.blk].max => key = newext.lblk
       /\ np # <<>> =>
             /\ Len(node[leaf.blk].ents) = leaf.pos
             /\ ~ Full(np[Len(np)])

\* A node below the root has an entry, except for the new leaf of a split until
\* the new extent has been put into it.
LeafInv ==
    \A b \in DOMAIN node \ {Root} :
       \/ Used(b)
       \/ /\ pc \in {"split", "link"} /\ np # <<>> /\ b = np[Len(np)]
          /\ key = newext.lblk
       \/ pc = "insert" /\ b = leaf.blk

FillInv == SearchInv /\ FullInv /\ HalvesInv /\ LeafInv

-----------------------------------------------------------------------------
(* Steps that end or leave an insertion.                                   *)

\* No node below the root is empty.
AllUsed == \A b \in DOMAIN node \ {Root} : Used(b)

\* Three ways to say that a node has an entry.
LEMMA UsedWhenNonEmpty ==
    ASSUME NEW S, NEW s \in Seq(S)
    PROVE  /\ s # <<>> <=> 1 \in DOMAIN s
           /\ 1 \in DOMAIN s <=> Len(s) >= 1
<1>1. Len(s) \in Nat /\ DOMAIN s = 1 .. Len(s) /\ (s # <<>> <=> Len(s) # 0)
  BY EmptySeq, LenProperties
<1> QED
  BY <1>1

\* A full node has an entry: no header claims room for none.
LEMMA FullIsUsed ==
    ASSUME IInv, NEW b \in DOMAIN node, Full(b)
    PROVE  Used(b) /\ Len(node[b].ents) = node[b].max
  BY LiveNode DEF Full, Used

\* Outside an insertion, and in one that has found an extent, no leaf is empty.
LEMMA NoneEmpty ==
    ASSUME IInv, LeafInv,
           \/ pc \notin {"split", "link", "insert"}
           \/ pc = "insert" /\ leaf.pos # 0
    PROVE  AllUsed
<1>1. CASE pc \notin {"split", "link", "insert"}
  BY <1>1 DEF LeafInv, AllUsed
<1>2. CASE pc = "insert" /\ leaf.pos # 0
  <2>1. path # <<>> /\ pc \in Working
    BY <1>2, WorkingPath DEF Working
  <2>2. leaf.pos \in DOMAIN node[leaf.blk].ents /\ leaf.blk \in DOMAIN node
    BY <1>2, <2>1, LeafOfPath
  <2>3. Used(leaf.blk)
    BY <2>2, LiveNode DEF Used
  <2> QED
    BY <1>2, <2>3 DEF LeafInv, AllUsed
<1> QED
  BY <1>1, <1>2

\* A call that is not inserting needs no more than used leaves.
LEMMA Quiet ==
    ASSUME pc' \in {"idle", "fail", "bugcheck", "splitat"},
           pc' = "idle" => todo' = <<>>, AllUsed'
    PROVE  FillInv'
<1>1. SearchInv' /\ HalvesInv'
  BY DEF SearchInv, HalvesInv
<1>2. FullInv'
  BY DEF FullInv, SplitNodesFull
<1>3. LeafInv'
  BY DEF LeafInv, AllUsed
<1> QED
  BY <1>1, <1>2, <1>3 DEF FillInv

\* Steps that keep the entries of every node in their slots keep them used.
LEMMA SameSlots ==
    ASSUME AllUsed, DOMAIN node' = DOMAIN node,
           \A b \in DOMAIN node : DOMAIN node'[b].ents = DOMAIN node[b].ents
    PROVE  AllUsed'
  BY DEF AllUsed, Used

\* The steps of a call that ends, fails or turns to a conversion.
LEMMA QuietSteps ==
    ASSUME IInv, FillInv,
           \/ ReturnMapped \/ ReturnHole \/ ext4_ext_zero_unwritten_range_err
           \/ AllocateDataFails \/ ext4_ext_convert_to_initialized
           \/ ext4_find_extent_err \/ GrowFails \/ FreeData \/ RestoreWithoutPath
           \/ pc = "insert" /\ SameStart /\ ext4_ext_insert_leaf
    PROVE  FillInv'
<1>1. /\ pc \in {"find", "refind", "found", "grow", "fail", "insert"}
      /\ pc = "insert" => leaf.pos # 0
      /\ pc' \in {"idle", "fail", "bugcheck", "splitat"}
      /\ pc' = "idle" => todo' = <<>>
      /\ node' = node
  BY DEF ReturnMapped, ReturnHole, ext4_ext_zero_unwritten_range_err,
     AllocateDataFails, ext4_ext_convert_to_initialized, ext4_find_extent_err,
     GrowFails, FreeData, RestoreWithoutPath, ext4_ext_insert_leaf, SameStart,
     Return, tree
<1>2. AllUsed
  BY <1>1, NoneEmpty DEF FillInv
<1>3. AllUsed'
  BY <1>1, <1>2 DEF AllUsed, Used
<1> QED
  BY <1>1, <1>3, Quiet

\* So do the steps that rewrite an extent.
LEMMA RewriteSteps ==
    ASSUME IInv, FillInv,
           \/ CutWhole \/ restore_extent_len
           \/ pc = "insert" /\ (AppendToExtent \/ PrependToExtent)
    PROVE  FillInv'
<1>1. AllUsed
  <2>1. \/ pc \notin {"split", "link", "insert"}
        \/ pc = "insert" /\ leaf.pos # 0
    BY DEF CutWhole, CutHere, SplitExtentAt_whole, restore_extent_len, AppendToExtent, PrependToExtent,
       CanAppend, CanPrepend
  <2> QED
    BY <2>1, NoneEmpty DEF FillInv
<1>2. pc' \in {"idle", "splitat"} /\ (pc' = "idle" => todo' = <<>>)
  BY DEF CutWhole, CutHere, SplitExtentAt_whole, restore_extent_len, AppendToExtent, PrependToExtent,
     Inserted, Return
<1>3. CASE restore_extent_len
  <2>1. node' = [node EXCEPT ![saved.blk].ents[saved.pos].len = saved.len]
    BY <1>3 DEF restore_extent_len
  <2> QED
    BY <2>1, <1>1, <1>2, RestoreEffect, SameSlots, Quiet
<1>4. CASE \/ CutWhole
           \/ pc = "insert" /\ (AppendToExtent \/ PrependToExtent)
  <2>1. pc \in Working /\ leaf.pos # 0
    BY <1>4 DEF CutWhole, CutHere, SplitExtentAt_whole, AppendToExtent, PrependToExtent, CanAppend,
       CanPrepend, Working
  <2>2. path # <<>>
    BY <2>1, WorkingPath
  <2>3. ex \in Entry /\ newext \in Entry
    BY <2>1, <2>2, LeafOfPath DEF IInv, LocalInv, LocalType
  <2>4. \E e \in Entry : node' = [node EXCEPT ![leaf.blk].ents[leaf.pos] = e]
    <3>1. CASE CutWhole
      BY <3>1, <2>3, RawLengths DEF CutWhole, CutHere, SplitExtentAt_whole, ex
    <3>2. CASE AppendToExtent
      BY <3>2, <2>3, MergedExtents DEF AppendToExtent, ex, CanAppend
    <3>3. CASE PrependToExtent
      BY <3>3, <2>3, MergedExtents DEF PrependToExtent, ex, CanPrepend
    <3> QED
      BY <1>4, <3>1, <3>2, <3>3
  <2>5. /\ DOMAIN node' = DOMAIN node
        /\ \A b \in DOMAIN node : DOMAIN node'[b].ents = DOMAIN node[b].ents
    BY <2>1, <2>2, <2>4, RewriteEffect
  <2> QED
    BY <2>5, <1>1, <1>2, SameSlots, Quiet
<1> QED
  BY <1>3, <1>4

-----------------------------------------------------------------------------
(* The search.                                                             *)

\* A call starts.
LEMMA CallFills ==
    ASSUME IInv, FillInv, NEW l \in LBlk, NEW m \in MaxBlocks, NEW c \in BOOLEAN,
           ext4_extent_get_blocks(l, m, c)
    PROVE  FillInv'
<1>1. /\ pc = "idle" /\ pc' = "find" /\ node' = node /\ todo' = todo
      /\ path' = <<[blk |-> Root, pos |-> 0]>>
  BY DEF ext4_extent_get_blocks, tree, conv
<1>2. AllUsed
  BY <1>1, NoneEmpty DEF FillInv
<1>3. LeafInv'
  BY <1>1, <1>2 DEF LeafInv, AllUsed, Used
<1>4. 1 .. Len(path') - 1 = {}
  BY <1>1
<1>5. SearchInv'
  <2>1. todo' = <<>>
    BY <1>1 DEF FillInv, SearchInv
  <2>2. Searched(req.lblk)'
    BY <1>4 DEF Searched
  <2> QED
    BY <1>1, <2>1, <2>2 DEF SearchInv
<1>6. FullInv' /\ HalvesInv'
  BY <1>1 DEF FullInv, SplitNodesFull, HalvesInv
<1> QED
  BY <1>3, <1>5, <1>6 DEF FillInv

\* What a round of the walk does to the path.
LEMMA WalkEffect ==
    ASSUME IInv, ext4_find_extent_walk
    PROVE  LET n  == Len(path)
               es == node[leaf.blk].ents
               p  == Closest(es, target)
           IN  /\ n \in Nat \ {0} /\ Len(path') = n + 1 /\ n <= depth
               /\ leaf = path[n] /\ leaf.blk \in DOMAIN node
               /\ p \in DOMAIN es
               /\ es[p].pblk \in DOMAIN node
               /\ \A k \in 1 .. n - 1 : path'[k] = path[k]
               /\ path'[n].blk = leaf.blk /\ path'[n].pos = p
               /\ path'[n + 1].blk = es[p].pblk
<1> DEFINE n  == Len(path)
           es == node[leaf.blk].ents
           p  == Closest(es, target)
           child == es[p].pblk
           r  == [path EXCEPT ![n].pos = p]
<1>1. /\ pc \in Searching /\ node[leaf.blk].depth > 0
      /\ path' = Append(r, [blk |-> child, pos |-> 0])
  BY DEF ext4_find_extent_walk, Searching
<1>2. /\ n \in Nat \ {0} /\ leaf = path[n] /\ leaf.blk \in DOMAIN node
      /\ node[leaf.blk].depth = depth - (n - 1) /\ depth \in Nat
      /\ path \in Seq(PathElem) /\ path # <<>>
  BY <1>1, SearchNode DEF IInv, LocalInv, LocalType
<1>3. p \in 1 .. Len(es) /\ p \in DOMAIN es /\ p \in Nat
  <2>1. p \in 1 .. Len(es)
    BY <1>1, SearchNode, NodeFields, ClosestInRange
  <2> HIDE DEF p
  <2> QED
    BY <2>1, <1>2, LiveNode
<1>4. child \in DOMAIN node /\ child \in PBlk \cup {Root}
  <2>1. child \in DOMAIN node
    BY <1>1, <1>2, <1>3 DEF IInv, TreeInv, KidsLive
  <2> QED
    BY <2>1 DEF IInv, TreeInv, TreeType
<1> HIDE DEF child, p
<1>5. /\ r \in Seq(PathElem) /\ Len(r) = n
      /\ r[n].blk = path[n].blk /\ r[n].pos = p
      /\ \A k \in 1 .. n - 1 : r[k] = path[k]
  BY <1>2, <1>3, SetLeafPos
<1>6. [blk |-> child, pos |-> 0] \in PathElem
  BY <1>4 DEF PathElem
<1> HIDE DEF r
<1>7. /\ Len(path') = n + 1 /\ path'[n + 1] = [blk |-> child, pos |-> 0]
      /\ \A k \in 1 .. n : path'[k] = r[k]
  BY <1>1, <1>2, <1>5, <1>6, AppendProperties
<1>8. n <= depth
  BY <1>1, <1>2
<1>9. /\ \A k \in 1 .. n - 1 : path'[k] = path[k]
      /\ path'[n].blk = leaf.blk /\ path'[n].pos = p
      /\ path'[n + 1].blk = child
  BY <1>2, <1>5, <1>7
<1> QED
  BY <1>2, <1>3, <1>4, <1>7, <1>8, <1>9 DEF child, p

\* The search goes on.
LEMMA WalkFills ==
    ASSUME IInv, FillInv, ext4_find_extent_walk
    PROVE  FillInv'
<1> DEFINE n  == Len(path)
           es == node[leaf.blk].ents
           p  == Closest(es, target)
<1>1. /\ pc \in {"find", "refind"} /\ pc' = pc /\ node' = node /\ todo' = todo
      /\ newext' = newext /\ req' = req
  BY DEF ext4_find_extent_walk, tree, conv
<1>2. /\ n \in Nat \ {0} /\ Len(path') = n + 1 /\ n <= depth
      /\ leaf = path[n]
      /\ \A k \in 1 .. n - 1 : path'[k] = path[k]
      /\ path'[n].blk = leaf.blk /\ path'[n].pos = p
      /\ path'[n + 1].blk = es[p].pblk
      /\ depth \in Nat
  BY <1>1, WalkEffect, SearchNode DEF Searching
<1>3. ASSUME Searched(target)
      PROVE  \A k \in 1 .. Len(path') - 1 :
                LET fs == node[path'[k].blk].ents
                IN  /\ path'[k].pos = Closest(fs, target)
                    /\ path'[k + 1].blk = fs[path'[k].pos].pblk
  <2> HIDE DEF p
  <2> SUFFICES ASSUME NEW k \in 1 .. n
               PROVE  LET fs == node[path'[k].blk].ents
                      IN  /\ path'[k].pos = Closest(fs, target)
                          /\ path'[k + 1].blk = fs[path'[k].pos].pblk
    BY <1>2
  <2>1. CASE k = n
    BY <2>1, <1>2 DEF p
  <2>2. CASE k # n
    <3>1. k \in 1 .. n - 1 /\ path'[k] = path[k] /\ k + 1 \in 1 .. n
      BY <2>2, <1>2
    <3>2. path'[k + 1].blk = path[k + 1].blk
      BY <3>1, <1>2
    <3> QED
      BY <3>1, <3>2, <1>3 DEF Searched
  <2> QED
    BY <2>1, <2>2
<1>4. AllUsed
  BY <1>1, NoneEmpty DEF FillInv
<1>5. LeafInv'
  BY <1>1, <1>4 DEF LeafInv, AllUsed, Used
<1>6. HalvesInv' /\ SplitNodesFull'
  BY <1>1 DEF HalvesInv, SplitNodesFull
<1>7. SearchInv'
  <2>1. CASE pc = "find"
    <3>1. target = req.lblk /\ Searched(req.lblk) /\ todo = <<>>
      BY <2>1 DEF target, FillInv, SearchInv
    <3>2. Searched(req.lblk)'
      BY <3>1, <1>1, <1>3 DEF Searched
    <3> QED
      BY <3>1, <3>2, <1>1, <2>1 DEF SearchInv
  <2>2. CASE pc = "refind"
    <3>1. target = newext.lblk /\ Searched(newext.lblk)
      BY <2>2 DEF target, FillInv, SearchInv
    <3>2. Searched(newext.lblk)'
      BY <3>1, <1>1, <1>3 DEF Searched
    <3> QED
      BY <3>1, <3>2, <1>1, <2>2 DEF SearchInv
  <2> QED
    BY <2>1, <2>2, <1>1
<1>8. FullInv'
  <2>1. CASE pc = "find"
    BY <2>1, <1>1, <1>6 DEF FullInv
  <2>2. CASE pc = "refind"
    <3>1. PICK q : Regrown(q) /\ \A k \in 1 .. n : path[k].blk = q[k]
      BY <2>2 DEF FillInv, FullInv
    <3>2. Regrown(q)'
      BY <3>1, <1>1 DEF Regrown, Way, Full, depth
    <3>3. q[n] = leaf.blk /\ n \in 1 .. depth /\ target = newext.lblk
      BY <3>1, <1>2, <2>2 DEF target
    <3>4. q[n + 1] = es[p].pblk
      BY <3>1, <3>3 DEF Regrown, Way
    <3>5. \A k \in 1 .. Len(path') : path'[k].blk = q[k]
      <4> HIDE DEF p
      <4> SUFFICES ASSUME NEW k \in 1 .. n + 1 PROVE path'[k].blk = q[k]
        BY <1>2
      <4>1. k \in 1 .. n - 1 \/ k = n \/ k = n + 1
        BY <1>2
      <4> QED
        BY <4>1, <1>2, <3>1, <3>3, <3>4
    <3> QED
      BY <3>2, <3>5, <1>1, <1>6, <2>2 DEF FullInv
  <2> QED
    BY <2>1, <2>2, <1>1
<1> QED
  BY <1>5, <1>6, <1>7, <1>8 DEF FillInv

\* What reaching the leaf does to the path.
LEMMA ArriveEffect ==
    ASSUME IInv, ext4_find_extent_leaf
    PROVE  LET n  == Len(path)
               es == node[leaf.blk].ents
           IN  /\ n = depth + 1 /\ depth \in Nat /\ Len(path') = n
               /\ leaf = path[n] /\ leaf.blk \in DOMAIN node
               /\ \A k \in 1 .. n : path'[k].blk = path[k].blk
               /\ \A k \in 1 .. n - 1 : path'[k] = path[k]
               /\ leaf' = path'[n] /\ leaf'.blk = leaf.blk
               /\ leaf'.pos = IF Used(leaf.blk) THEN Closest(es, target) ELSE 0
               /\ Used(leaf.blk) => leaf'.pos \in DOMAIN es
<1> DEFINE n  == Len(path)
           es == node[leaf.blk].ents
           p  == IF es = <<>> THEN 0 ELSE Closest(es, target)
           r  == [path EXCEPT ![n].pos = p]
<1>1. pc \in Searching /\ node[leaf.blk].depth = 0 /\ path' = r
  BY DEF ext4_find_extent_leaf, Searching
<1>2. /\ n \in Nat \ {0} /\ leaf = path[n] /\ leaf.blk \in DOMAIN node
      /\ node[leaf.blk].depth = depth - (n - 1) /\ depth \in Nat
      /\ path \in Seq(PathElem) /\ path # <<>> /\ target \in Nat
  BY <1>1, SearchNode DEF IInv, LocalInv, LocalType
<1>3. es \in Seq(Entry) /\ DOMAIN es = 1 .. Len(es) /\ (Used(leaf.blk) <=> es # <<>>)
  BY <1>2, LiveNode, UsedWhenNonEmpty DEF Used
<1>4. (es # <<>> => p \in 1 .. Len(es)) /\ p \in Nat
  <2>1. CASE es = <<>>
    BY <2>1
  <2>2. CASE es # <<>>
    <3>1. p \in 1 .. Len(es)
      BY <2>2, <1>2, <1>3, ClosestInRange
    <3> HIDE DEF p
    <3> QED
      BY <3>1, <1>3
  <2> QED
    BY <2>1, <2>2
<1>5. n = depth + 1
  BY <1>1, <1>2
<1> HIDE DEF p
<1>6. /\ Len(r) = n /\ r[n].blk = path[n].blk /\ r[n].pos = p
      /\ \A k \in 1 .. n : r[k].blk = path[k].blk
      /\ \A k \in 1 .. n - 1 : r[k] = path[k]
  BY <1>2, <1>4, SetLeafPos
<1> HIDE DEF r
<1>7. leaf' = path'[n]
  BY <1>1, <1>6 DEF leaf
<1> QED
  BY <1>1, <1>2, <1>3, <1>4, <1>5, <1>6, <1>7 DEF p

\* The search is over.
LEMMA ArriveFills ==
    ASSUME IInv, FillInv, ext4_find_extent_leaf
    PROVE  FillInv'
<1> DEFINE n  == Len(path)
           es == node[leaf.blk].ents
<1>1. /\ pc \in {"find", "refind"} /\ node' = node /\ todo' = todo
      /\ newext' = newext /\ req' = req
  BY DEF ext4_find_extent_leaf, tree, conv
<1>2. \/ pc = "find" /\ pc' = "found"
      \/ pc = "refind" /\ pc' = "insert"
      \/ pc = "refind" /\ depth > 1 /\ StartSplit(path', 3)
  BY DEF ext4_find_extent_leaf
<1>3. /\ n = depth + 1 /\ depth \in Nat /\ Len(path') = n
      /\ leaf = path[n] /\ leaf.blk \in DOMAIN node
      /\ \A k \in 1 .. n : path'[k].blk = path[k].blk
      /\ \A k \in 1 .. n - 1 : path'[k] = path[k]
      /\ leaf' = path'[n] /\ leaf'.blk = leaf.blk
      /\ leaf'.pos = IF Used(leaf.blk) THEN Closest(es, target) ELSE 0
      /\ Used(leaf.blk) => leaf'.pos \in DOMAIN es
  BY ArriveEffect
<1>4. ASSUME Searched(target)
      PROVE  /\ \A k \in 1 .. Len(path') - 1 :
                   LET fs == node'[path'[k].blk].ents
                   IN  /\ path'[k].pos = Closest(fs, target)
                       /\ path'[k + 1].blk = fs[path'[k].pos].pblk
             /\ leaf'.pos = IF Used(leaf.blk)' THEN Closest(node'[leaf'.blk].ents, target)
                            ELSE 0
  <2>1. ASSUME NEW k \in 1 .. n - 1
        PROVE  LET fs == node'[path'[k].blk].ents
               IN  /\ path'[k].pos = Closest(fs, target)
                   /\ path'[k + 1].blk = fs[path'[k].pos].pblk
    <3>1. path'[k] = path[k] /\ k + 1 \in 1 .. n
      BY <1>3
    <3>2. path'[k + 1].blk = path[k + 1].blk
      BY <3>1, <1>3
    <3> QED
      BY <3>1, <3>2, <1>1, <1>4 DEF Searched
  <2>2. Used(leaf.blk)' <=> Used(leaf.blk)
    BY <1>1, <1>3 DEF Used
  <2> QED
    BY <2>1, <2>2, <1>1, <1>3
<1>5. AllUsed
  BY <1>1, NoneEmpty DEF FillInv
<1>6. LeafInv'
  BY <1>1, <1>5 DEF LeafInv, AllUsed, Used
<1>7. CASE pc = "find" /\ pc' = "found"
  <2>1. target = req.lblk /\ Searched(req.lblk) /\ todo = <<>>
    BY <1>7 DEF target, FillInv, SearchInv
  <2>2. Searched(req.lblk)'
    BY <2>1, <1>1, <1>4 DEF Searched
  <2>3. Arrived(req.lblk)'
    BY <2>1, <2>2, <1>1, <1>4 DEF Arrived
  <2>4. SearchInv'
    BY <2>1, <2>3, <1>1, <1>7 DEF SearchInv
  <2>5. FullInv' /\ HalvesInv'
    BY <1>7 DEF FullInv, SplitNodesFull, HalvesInv
  <2> QED
    BY <2>4, <2>5, <1>6 DEF FillInv
<1>8. CASE pc = "refind" /\ pc' = "insert"
  <2>1. target = newext.lblk /\ Searched(newext.lblk)
    BY <1>8 DEF target, FillInv, SearchInv
  <2>2. Searched(newext.lblk)'
    BY <2>1, <1>1, <1>4 DEF Searched
  <2>3. Arrived(newext.lblk)'
    BY <2>1, <2>2, <1>1, <1>4 DEF Arrived
  <2>4. leaf'.pos = 0 => ~ Used(leaf.blk)'
    <3>1. 0 \notin DOMAIN es
      BY <1>3, LiveNode
    <3> QED
      BY <3>1, <1>1, <1>3 DEF Used
  <2>5. SearchInv'
    BY <2>3, <2>4, <1>8 DEF SearchInv
  <2>6. FullInv' /\ HalvesInv'
    BY <1>8 DEF FullInv, SplitNodesFull, HalvesInv
  <2> QED
    BY <2>5, <2>6, <1>6 DEF FillInv
<1>9. CASE pc = "refind" /\ depth > 1 /\ StartSplit(path', 3)
  <2>1. PICK q : Regrown(q) /\ \A k \in 1 .. n : path[k].blk = q[k]
    BY <1>9 DEF FillInv, FullInv
  <2>2. \A k \in 3 .. n : Full(path'[k].blk)
    <3>1. \A k \in 3 .. n : k \in 1 .. n
      BY <1>3
    <3> QED
      BY <3>1, <2>1, <1>3 DEF Regrown
  <2>3. /\ at' = 3 /\ np' = <<>> /\ pc' = "split"
        /\ leaf'.pos = node[leaf.blk].max => key' = newext.lblk
    <3>1. path'[Len(path')] = leaf'
      BY <1>3
    <3> QED
      BY <3>1, <1>3, <1>9 DEF StartSplit
  <2>4. Len(np') = 0 /\ level' = n
    BY <2>3, <1>3 DEF level
  <2>5. SplitNodesFull'
    BY <2>2, <2>3, <2>4, <1>1 DEF SplitNodesFull, HasFree, Full
  <2>6. FullInv' /\ SearchInv'
    BY <2>3, <2>5 DEF FullInv, SearchInv
  <2>7. leaf'.pos # 0
    <3>1. Full(leaf.blk)
      BY <2>2, <1>3, <1>9
    <3>2. leaf'.pos \in DOMAIN es
      BY <3>1, <1>3, FullIsUsed
    <3> QED
      BY <3>2, <1>3, LiveNode
  <2>8. HalvesInv'
    BY <2>3, <2>7, <1>1, <1>3 DEF HalvesInv
  <2> QED
    BY <2>6, <2>8, <1>6 DEF FillInv
<1> QED
  BY <1>2, <1>7, <1>8, <1>9

-----------------------------------------------------------------------------
(* The insertion.                                                          *)

\* A block is allocated for the block that was searched for.
LEMMA AllocateFills ==
    ASSUME IInv, FillInv, AllocateData
    PROVE  FillInv'
<1>1. /\ pc = "found" /\ pc' = "insert" /\ node' = node /\ todo' = todo
      /\ path' = path /\ newext'.lblk = req.lblk
  BY DEF AllocateData, conv
<1>2. Arrived(req.lblk) /\ AllUsed
  BY <1>1, NoneEmpty DEF FillInv, SearchInv
<1>3. Arrived(newext.lblk)'
  BY <1>1, <1>2 DEF Arrived, Searched, leaf, Used
<1>4. leaf'.pos = 0 => ~ Used(leaf.blk)'
  <2>1. leaf' = leaf /\ path # <<>> /\ leaf.blk \in DOMAIN node
    BY <1>1, WorkingPath, LeafOfPath DEF leaf, Working
  <2>2. Used(leaf.blk) => leaf.pos # 0
    <3>1. ASSUME Used(leaf.blk)
          PROVE  leaf.pos # 0
      <4>1. leaf.pos = Closest(node[leaf.blk].ents, req.lblk)
        BY <3>1, <1>2 DEF Arrived
      <4>2. /\ node[leaf.blk].ents \in Seq(Entry) /\ node[leaf.blk].ents # <<>>
            /\ req.lblk \in Nat /\ Len(node[leaf.blk].ents) \in Nat
        BY <3>1, <2>1, LiveNode, UsedWhenNonEmpty DEF Used, IInv, LocalInv, LocalType
      <4>3. leaf.pos \in 1 .. Len(node[leaf.blk].ents)
        BY <4>1, <4>2, ClosestInRange
      <4> QED
        BY <4>2, <4>3
    <3> QED
      BY <3>1
  <2> QED
    BY <2>1, <2>2, <1>1 DEF Used
<1>5. SearchInv'
  BY <1>1, <1>3, <1>4 DEF SearchInv
<1>6. FullInv' /\ HalvesInv'
  BY <1>1 DEF FullInv, SplitNodesFull, HalvesInv
<1>7. LeafInv'
  BY <1>1, <1>2 DEF LeafInv, AllUsed, Used
<1> QED
  BY <1>5, <1>6, <1>7 DEF FillInv

\* An extent is cut in two; the second part is to be inserted.
LEMMA CutFills ==
    ASSUME IInv, FillInv, CutPart
    PROVE  FillInv'
<1>1. pc = "splitat" /\ pc' = "insert" /\ leaf.pos # 0 /\ path' = path /\ todo' = todo
  BY DEF CutPart, CutHere, SplitExtentAt_cut
<1>2. PICK e : node' = [node EXCEPT ![leaf.blk].ents[leaf.pos] = e]
  BY DEF CutPart, CutHere, SplitExtentAt_cut
<1>3. /\ DOMAIN node' = DOMAIN node
      /\ \A b \in DOMAIN node : DOMAIN node'[b].ents = DOMAIN node[b].ents
  <2>1. DOMAIN node' = DOMAIN node
    BY <1>2
  <2>2. ASSUME NEW b \in DOMAIN node
        PROVE  DOMAIN node'[b].ents = DOMAIN node[b].ents
    <3> DEFINE es == [node[b].ents EXCEPT ![leaf.pos] = e]
    <3>1. DOMAIN es = DOMAIN node[b].ents /\ node[b] \in Node
      BY LiveNode
    <3>2. node'[b] = IF b = leaf.blk THEN [node[b] EXCEPT !.ents = es] ELSE node[b]
      BY <1>2
    <3> HIDE DEF es
    <3> QED
      BY <3>1, <3>2 DEF Node
  <2> QED
    BY <2>1, <2>2
<1>4. AllUsed
  BY <1>1, NoneEmpty DEF FillInv
<1>5. AllUsed'
  BY <1>3, <1>4, SameSlots
<1>6. todo' # <<>> /\ leaf' = leaf
  BY <1>1 DEF IInv, LocalInv, DataInv, leaf
<1>7. SearchInv'
  BY <1>1, <1>6 DEF SearchInv
<1>8. FullInv' /\ HalvesInv'
  BY <1>1 DEF FullInv, SplitNodesFull, HalvesInv
<1>9. LeafInv'
  BY <1>5 DEF LeafInv, AllUsed
<1> QED
  BY <1>7, <1>8, <1>9 DEF FillInv

\* The new extent is put into the leaf, which it may find empty.
LEMMA InsertFills ==
    ASSUME IInv, FillInv, pc = "insert", InsertIntoLeaf
    PROVE  FillInv'
<1> DEFINE lb == leaf.blk
           n == Len(node[lb].ents)
<1>1. /\ DOMAIN node' = DOMAIN node /\ n \in Nat
      /\ DOMAIN node'[lb].ents = 1 .. n + 1
      /\ node'[lb].ents[1].lblk \in Nat
      /\ \A b \in DOMAIN node : b # lb =>
            node'[b].ents = ext4_ext_correct_indexes(b, node'[lb].ents[1].lblk)
  BY InsertEffect
<1>2. \A b \in DOMAIN node : b # lb => DOMAIN node'[b].ents = DOMAIN node[b].ents
  <2> DEFINE border == node'[lb].ents[1].lblk
  <2>1. \A b \in DOMAIN node :
           DOMAIN ext4_ext_correct_indexes(b, border) = DOMAIN node[b].ents
    <3> HIDE DEF border
    <3> QED
      BY DEF ext4_ext_correct_indexes
  <2> QED
    BY <1>1, <2>1
<1>3. AllUsed'
  <2>1. ASSUME NEW b \in DOMAIN node \ {Root}
        PROVE  1 \in DOMAIN node'[b].ents
    <3>1. CASE b = lb
      BY <3>1, <1>1
    <3>2. CASE b # lb
      <4>1. Used(b)
        BY <3>2 DEF FillInv, LeafInv
      <4> QED
        BY <4>1, <3>2, <1>2 DEF Used
    <3> QED
      BY <3>1, <3>2
  <2> QED
    BY <2>1, <1>1 DEF AllUsed, Used
<1>4. pc' \in {"idle", "splitat"} /\ (pc' = "idle" => todo' = <<>>)
  <2>1. Inserted(InsertSlot)
    BY DEF InsertIntoLeaf
  <2> QED
    BY <2>1 DEF Inserted, Return
<1> QED
  BY <1>3, <1>4, Quiet

\* The leaf is full: nodes are to be split, or the tree is to grow.
LEMMA NeedSplitFills ==
    ASSUME IInv, FillInv, pc = "insert", NeedSplit
    PROVE  FillInv'
<1> DEFINE room == {k \in 1 .. Len(path) : HasFree(k)}
<1>1. /\ ~ HasFree(Len(path)) /\ node' = node
      /\ \/ room = {} /\ pc' = "grow"
         \/ room # {} /\ StartSplit(path, Max(room) + 1)
      /\ UNCHANGED <<path, newext, todo>>
  BY DEF NeedSplit, tree, split, conv
<1>2. /\ pc \in Working /\ path # <<>> /\ Len(path) = depth + 1 /\ depth \in Nat
      /\ leaf.blk \in DOMAIN node /\ leaf' = leaf
  BY <1>1, WorkingPath, LeafOfPath DEF Working, leaf
<1>3. Full(leaf.blk) /\ Used(leaf.blk)
  <2>1. Full(leaf.blk)
    BY <1>1 DEF HasFree, Full, leaf
  <2> QED
    BY <2>1, <1>2, FullIsUsed
<1>4. leaf.pos # 0
  BY <1>3 DEF FillInv, SearchInv
<1>5. AllUsed
  BY <1>4, NoneEmpty DEF FillInv
<1>6. LeafInv'
  BY <1>1, <1>5 DEF LeafInv, AllUsed, Used
<1>7. CASE room = {} /\ pc' = "grow"
  <2>1. Arrived(newext.lblk) \/ todo # <<>>
    BY <1>3 DEF FillInv, SearchInv
  <2>2. (Arrived(newext.lblk) \/ todo # <<>>)'
    BY <2>1, <1>1, <1>2 DEF Arrived, Searched, Used
  <2>3. SearchInv'
    BY <2>2, <1>7 DEF SearchInv
  <2>4. FullInv'
    BY <1>1, <1>7 DEF FullInv, SplitNodesFull, Full, HasFree
  <2>5. HalvesInv'
    BY <1>7 DEF HalvesInv
  <2> QED
    BY <2>3, <2>4, <2>5, <1>6 DEF FillInv
<1>8. CASE room # {} /\ StartSplit(path, Max(room) + 1)
  <2>1. /\ at' = Max(room) + 1 /\ np' = <<>> /\ pc' = "split"
        /\ leaf.pos = node[leaf.blk].max => key' = newext.lblk
    BY <1>8 DEF StartSplit, leaf
  <2>2. Len(path) \in Nat /\ room \subseteq 1 .. Len(path)
    BY <1>2
  <2> HIDE DEF room
  <2>3. Max(room) \in room /\ \A y \in room : Max(room) >= y
    BY <2>2, <1>8, MaxOfSlots
  <2>4. Max(room) \in 1 .. Len(path)
    BY <2>2, <2>3
  <2> DEFINE mx == Max(room)
  <2> HIDE DEF mx
  <2>5. \A k \in mx + 1 .. Len(path) : k \in 1 .. Len(path) /\ k \notin room
    <3>1. \A y \in room : mx >= y
      BY <2>3 DEF mx
    <3>2. mx \in 1 .. Len(path)
      BY <2>4 DEF mx
    <3> QED
      BY <3>1, <3>2, <2>2
  <2>6. \A k \in mx + 1 .. Len(path) : ~ HasFree(k)
    BY <2>5 DEF room
  <2>7. at' = mx + 1
    BY <2>1 DEF mx
  <2>8. Len(np') = 0 /\ level' = Len(path)
    BY <2>1, <1>1, <2>2 DEF level
  <2>9. SplitNodesFull'
    BY <2>6, <2>7, <2>8, <1>1 DEF SplitNodesFull, HasFree
  <2>10. FullInv' /\ SearchInv'
    BY <2>1, <2>9 DEF FullInv, SearchInv
  <2>11. HalvesInv'
    BY <2>1, <1>1, <1>2, <1>4 DEF HalvesInv
  <2> QED
    BY <2>10, <2>11, <1>6 DEF FillInv
<1> QED
  BY <1>1, <1>7, <1>8

\* In a node with one entry the search finds that one.
LEMMA ClosestOfOne ==
    ASSUME NEW ents, Len(ents) = 1, NEW l
    PROVE  Closest(ents, l) = 1
<1>1. {1} \cup {k \in 2 .. Len(ents) : ents[k].lblk <= l} = {1}
  BY SMT
<1>2. Max({1}) \in {1}
  BY MaxOfSlots
<1> QED
  BY <1>1, <1>2 DEF Closest

\* The tree grows: a search then meets the root, the new node and below it the
\* nodes of the path again.
LEMMA GrownWay ==
    ASSUME IInv, ext4_ext_grow_indepth, Searched(newext.lblk)
    PROVE  LET old == node[Root].ents
           IN  \E b \in free : \E q :
                  /\ b \notin DOMAIN node /\ b # Root
                  /\ DOMAIN node' = DOMAIN node \cup {b}
                  /\ node'[b].depth = depth /\ node'[b].ents = old
                  /\ node'[b].max = IF depth = 0 THEN SpaceBlock ELSE SpaceBlockIdx
                  /\ node'[Root].depth = depth + 1
                  /\ node'[Root].ents = << [lblk |-> old[1].lblk, pblk |-> b, len |-> 0] >>
                  /\ \A c \in DOMAIN node : c # Root => node'[c] = node[c]
                  /\ Way(q, newext.lblk)'
                  /\ q[1] = Root /\ q[2] = b
                  /\ \A k \in 3 .. depth + 2 : q[k] = path[k - 1].blk
<1> DEFINE l == newext.lblk
           old == node[Root].ents
           n == Len(path)
<1>1. /\ pc = "grow" /\ pc' = "refind" /\ path' = <<[blk |-> Root, pos |-> 0]>>
      /\ newext' = newext
  BY DEF ext4_ext_grow_indepth
<1>2. PICK b \in free :
         /\ b \notin DOMAIN node /\ b # Root
         /\ DOMAIN node' = DOMAIN node \cup {b}
         /\ node'[b].depth = depth /\ node'[b].ents = old
         /\ node'[b].max = IF depth = 0 THEN SpaceBlock ELSE SpaceBlockIdx
         /\ node'[Root].depth = depth + 1
         /\ node'[Root].ents = << [lblk |-> old[1].lblk, pblk |-> b, len |-> 0] >>
         /\ \A c \in DOMAIN node : c # Root => node'[c] = node[c]
  BY GrowEffect
<1>3. /\ n = depth + 1 /\ depth \in Nat /\ path # <<>> /\ path[1].blk = Root
      /\ Root \in DOMAIN node
  BY <1>1, WorkingPath DEF Working, IInv, LocalInv, PathInv, TreeInv, TreeType
<1>4. \A k \in 1 .. n : /\ path[k].blk \in DOMAIN node
                        /\ node[path[k].blk].depth = depth - (k - 1)
  BY <1>1 DEF IInv, LocalInv, PathInv
<1>5. Searched(l)
  OBVIOUS
<1>6. \A k \in 2 .. n : path[k].blk # Root /\ node'[path[k].blk] = node[path[k].blk]
  <2> SUFFICES ASSUME NEW k \in 2 .. n PROVE path[k].blk # Root
    BY <1>2, <1>3, <1>4
  <2>1. node[path[k].blk].depth # node[Root].depth
    BY <1>3, <1>4 DEF depth
  <2> QED
    BY <2>1
<1>0. PICK q :
         q = [k \in 1 .. depth + 2 |->
                IF k = 1 THEN Root ELSE IF k = 2 THEN b ELSE path[k - 1].blk]
  OBVIOUS
<1>7. /\ q[1] = Root /\ q[2] = b
      /\ \A k \in 3 .. depth + 2 : q[k] = path[k - 1].blk
      /\ \A k \in 3 .. depth + 2 : k - 1 \in 2 .. n
  BY <1>0, <1>3
<1>8. depth' = depth + 1
  BY <1>2 DEF depth
<1>9. Way(q, newext.lblk)'
  <2>1. q \in [1 .. depth' + 1 -> DOMAIN node']
    <3>1. depth' + 1 = depth + 2
      BY <1>3, <1>8
    <3>2. \A k \in 1 .. depth + 2 : q[k] \in DOMAIN node'
      <4> SUFFICES ASSUME NEW k \in 1 .. depth + 2 PROVE q[k] \in DOMAIN node'
        OBVIOUS
      <4>1. k = 1 \/ k = 2 \/ k \in 3 .. depth + 2
        BY <1>3
      <4>2. CASE k \in 3 .. depth + 2
        <5>1. k - 1 \in 1 .. n /\ q[k] = path[k - 1].blk
          BY <4>2, <1>3, <1>7
        <5> QED
          BY <5>1, <1>2, <1>4
      <4> QED
        BY <4>1, <4>2, <1>2, <1>3, <1>7
    <3> QED
      BY <3>1, <3>2, <1>0
  <2>2. ASSUME NEW k \in 1 .. depth + 1
        PROVE  q[k + 1] = node'[q[k]].ents[Closest(node'[q[k]].ents, l)].pblk
    <3>1. CASE k = 1
      <4> DEFINE es == node'[Root].ents
      <4>1. Len(es) = 1 /\ es[1].pblk = b
        BY <1>2
      <4> HIDE DEF es
      <4>2. Closest(es, l) = 1
        BY <4>1, ClosestOfOne
      <4> QED
        BY <3>1, <4>1, <4>2, <1>7 DEF es
    <3>2. CASE k = 2
      <4>1. q[3] = path[2].blk /\ 1 \in 1 .. n - 1
        BY <3>2, <1>3, <1>7
      <4>2. path[2].blk = old[Closest(old, l)].pblk
        BY <4>1, <1>3, <1>5 DEF Searched
      <4> QED
        BY <3>2, <4>1, <4>2, <1>2, <1>7
    <3>3. CASE k \in 3 .. depth + 1
      <4>1. /\ q[k] = path[k - 1].blk /\ q[k + 1] = path[k].blk
            /\ k - 1 \in 1 .. n - 1 /\ k - 1 \in 2 .. n /\ k = (k - 1) + 1
        <5>1. k \in 3 .. depth + 2 /\ k + 1 \in 3 .. depth + 2 /\ (k + 1) - 1 = k
          BY <3>3, <1>3
        <5>2. k - 1 \in 1 .. n - 1 /\ k - 1 \in 2 .. n /\ k = (k - 1) + 1
          BY <3>3, <1>3
        <5> QED
          BY <5>1, <5>2, <1>7
      <4>2. node'[path[k - 1].blk] = node[path[k - 1].blk]
        BY <4>1, <1>6
      <4>3. LET es == node[path[k - 1].blk].ents
            IN  path[k - 1].pos = Closest(es, l)
                /\ path[(k - 1) + 1].blk = es[path[k - 1].pos].pblk
        BY <4>1, <1>5 DEF Searched
      <4> QED
        BY <4>1, <4>2, <4>3
    <3> QED
      BY <3>1, <3>2, <3>3, <1>3
  <2>3. \A k \in 1 .. depth' : k \in 1 .. depth + 1
    BY <1>8
  <2> QED
    BY <2>1, <2>2, <2>3, <1>1, <1>7 DEF Way
<1> QED
  BY <1>2, <1>7, <1>9

\* The tree grows: the search that follows meets the nodes of the path again.
LEMMA GrowFills ==
    ASSUME IInv, FillInv, GrowsWhereSearched, ext4_ext_grow_indepth
    PROVE  FillInv'
<1> DEFINE l == newext.lblk
           old == node[Root].ents
           n == Len(path)
<1>1. /\ pc = "grow" /\ pc' = "refind" /\ path' = <<[blk |-> Root, pos |-> 0]>>
      /\ newext' = newext /\ todo' = todo
  BY DEF ext4_ext_grow_indepth, conv
<1>5. Searched(l)
  BY <1>1 DEF FillInv, SearchInv, GrowsWhereSearched, Converting, Arrived
<1>2. PICK b \in free : \E q :
         /\ b \notin DOMAIN node /\ b # Root
         /\ DOMAIN node' = DOMAIN node \cup {b}
         /\ node'[b].depth = depth /\ node'[b].ents = old
         /\ node'[b].max = IF depth = 0 THEN SpaceBlock ELSE SpaceBlockIdx
         /\ node'[Root].depth = depth + 1
         /\ node'[Root].ents = << [lblk |-> old[1].lblk, pblk |-> b, len |-> 0] >>
         /\ \A c \in DOMAIN node : c # Root => node'[c] = node[c]
         /\ Way(q, newext.lblk)'
         /\ q[1] = Root /\ q[2] = b
         /\ \A k \in 3 .. depth + 2 : q[k] = path[k - 1].blk
  BY <1>5, GrownWay
<1>9. PICK q : /\ Way(q, newext.lblk)' /\ q[1] = Root /\ q[2] = b
               /\ \A k \in 3 .. depth + 2 : q[k] = path[k - 1].blk
  BY <1>2
<1>3. /\ n = depth + 1 /\ depth \in Nat /\ path # <<>> /\ path[1].blk = Root
      /\ Root \in DOMAIN node
  BY <1>1, WorkingPath DEF Working, IInv, LocalInv, PathInv, TreeInv, TreeType
<1>4. \A k \in 1 .. n : /\ path[k].blk \in DOMAIN node
                        /\ node[path[k].blk].depth = depth - (k - 1)
                        /\ Full(path[k].blk)
  BY <1>1 DEF IInv, LocalInv, PathInv, FillInv, FullInv
<1>6. \A k \in 2 .. n : path[k].blk # Root /\ node'[path[k].blk] = node[path[k].blk]
  <2> SUFFICES ASSUME NEW k \in 2 .. n PROVE path[k].blk # Root
    BY <1>2, <1>3, <1>4
  <2>1. node[path[k].blk].depth # node[Root].depth
    BY <1>3, <1>4 DEF depth
  <2> QED
    BY <2>1
<1>7. /\ q[1] = Root /\ q[2] = b
      /\ \A k \in 3 .. depth + 2 : q[k] = path[k - 1].blk
      /\ \A k \in 3 .. depth + 2 : k - 1 \in 2 .. n
  BY <1>9, <1>3
<1>8. depth' = depth + 1
  BY <1>2 DEF depth
<1>10. ~ Full(q[2])'
  <2>1. /\ Len(old) \in Nat /\ Len(old) <= node[Root].max
        /\ node[Root].max \in 1 .. ext4_ext_max_entries(depth, depth)
    <3>1. node[Root].max \in 1 .. ext4_ext_max_entries(node[Root].depth, node[Root].depth)
      BY <1>3 DEF IInv, TreeInv, NodesFit
    <3> QED
      BY <3>1, <1>3, LiveNode DEF depth
  <2>2. ext4_ext_max_entries(depth, depth) = IF depth = 0 THEN SpaceRoot ELSE SpaceRootIdx
    BY <1>3, Capacity
  <2>3. Len(old) < node'[b].max
    <3> HIDE DEF old
    <3> QED
      BY <2>1, <2>2, <1>2, ConstantsAssumption
  <2> QED
    BY <2>3, <1>2, <1>7 DEF Full
<1>11. \A k \in 3 .. depth' + 1 : Full(q[k])'
  <2> SUFFICES ASSUME NEW k \in 3 .. depth + 2 PROVE Full(q[k])'
    BY <1>3, <1>8
  <2>1. q[k] = path[k - 1].blk /\ k - 1 \in 2 .. n /\ k - 1 \in 1 .. n
    BY <1>3, <1>7
  <2> QED
    BY <2>1, <1>4, <1>6 DEF Full
<1>12. Regrown(q)'
  BY <1>3, <1>8, <1>9, <1>10, <1>11 DEF Regrown
<1>13. Len(path') = 1 /\ path'[1].blk = Root
  BY <1>1
<1>14. FullInv'
  <2>1. \A k \in 1 .. Len(path') : path'[k].blk = q[k]
    BY <1>7, <1>13
  <2>2. SplitNodesFull'
    BY <1>1 DEF SplitNodesFull
  <2> QED
    BY <2>1, <2>2, <1>1, <1>12 DEF FullInv
<1>15. SearchInv'
  <2>1. Searched(newext.lblk)'
    BY <1>13 DEF Searched
  <2> QED
    BY <2>1, <1>1, <1>5 DEF SearchInv
<1>16. HalvesInv'
  BY <1>1 DEF HalvesInv
<1>17. LeafInv'
  <2>1. AllUsed
    BY <1>1, NoneEmpty DEF FillInv
  <2>2. Used(Root)
    BY <1>3, <1>4, FullIsUsed
  <2> QED
    BY <2>1, <2>2, <1>2 DEF LeafInv, AllUsed, Used
<1> QED
  BY <1>14, <1>15, <1>16, <1>17 DEF FillInv

\* The last of the new nodes, when one more is put in front.
LEMMA LastOfChain ==
    ASSUME NEW s \in Seq(PBlk), NEW b \in PBlk
    PROVE  /\ <<b>> \o s # <<>>
           /\ LET r == <<b>> \o s
              IN  r[Len(r)] = IF s = <<>> THEN b ELSE s[Len(s)]
<1> DEFINE one == <<b>>
           r == one \o s
<1>1. one \in Seq(PBlk) /\ Len(one) = 1 /\ one[1] = b
  OBVIOUS
<1>2. Len(s) \in Nat /\ (s = <<>> <=> Len(s) = 0)
  BY EmptySeq, LenProperties
<1> HIDE DEF one
<1>3. /\ r \in Seq(PBlk) /\ Len(r) = 1 + Len(s)
      /\ \A i \in 1 .. 1 + Len(s) : r[i] = IF i <= 1 THEN one[i] ELSE s[i - 1]
  BY <1>1, <1>2, ConcatProperties, SMTT(30)
<1> HIDE DEF r
<1>4. Len(r) \in 1 .. 1 + Len(s) /\ Len(r) - 1 = Len(s)
  BY <1>2, <1>3
<1>5. r[Len(r)] = IF s = <<>> THEN b ELSE s[Len(s)]
  BY <1>1, <1>2, <1>3, <1>4
<1>6. r # <<>>
  BY <1>2, <1>3, EmptySeq
<1> QED
  BY <1>5, <1>6 DEF r, one

\* One level is split.
LEMMA SplitFills ==
    ASSUME IInv, FillInv, ext4_ext_split_node
    PROVE  FillInv'
<1> DEFINE c   == path[level].blk
           old == node[c].ents
           pos == path[level].pos
           m   == IF np = <<>> THEN 0 ELSE 1
<1>1. /\ pc = "split" /\ pc' \in {"split", "link"} /\ (pc' = "split" => level # at)
      /\ UNCHANGED <<path, newext, at, key>>
  BY DEF ext4_ext_split_node
<1>2. PICK b \in free :
         /\ np' = <<b>> \o np
         /\ b \notin DOMAIN node /\ b # Root /\ b \in PBlk
         /\ DOMAIN node' = DOMAIN node \cup {b}
         /\ \A x \in DOMAIN node : x # c => node'[x] = node[x]
         /\ node'[c].max = node[c].max
         /\ Len(node'[c].ents) = pos
         /\ DOMAIN node'[c].ents = 1 .. pos
         /\ node'[b].max = ext4_ext_max_entries(depth, Len(np))
         /\ Len(node'[b].ents) = Len(old) - pos + m
         /\ DOMAIN node'[b].ents = 1 .. Len(old) - pos + m
  BY SplitEffect
<1>3. /\ level \in at .. Len(path) /\ at >= 2 /\ at \in Nat /\ level = Len(path) - Len(np)
      /\ Len(np) \in Nat /\ Len(path) = depth + 1 /\ depth \in Nat /\ Len(np) < depth
      /\ c \in DOMAIN node /\ node[c].depth = Len(np)
      /\ pos \in 0 .. Len(old) /\ (np # <<>> => pos >= 1)
  BY <1>1, SplitLevel
<1>4. /\ path # <<>> /\ leaf = path[Len(path)] /\ leaf.blk \in DOMAIN node
      /\ node[leaf.blk].depth = 0 /\ np \in Seq(PBlk) /\ leaf' = leaf
      /\ Len(old) \in Nat /\ node[c].max \in Nat /\ Len(old) <= node[c].max
  BY <1>1, <1>3, WorkingPath, LeafOfPath, LiveNode
     DEF Working, IInv, LocalInv, LocalType, leaf
<1>5. np' # <<>> /\ np'[Len(np')] = IF np = <<>> THEN b ELSE np[Len(np)]
  BY <1>2, <1>4, LastOfChain
<1>6. np = <<>> <=> Len(np) = 0
  BY <1>4, EmptySeq
<1>7. /\ leaf.pos # 0 /\ (leaf.pos = node[leaf.blk].max => key = newext.lblk)
      /\ np # <<>> => Len(node[leaf.blk].ents) = leaf.pos /\ ~ Full(np[Len(np)])
  BY <1>1 DEF FillInv, HalvesInv
<1>8. np = <<>> => level = Len(path) /\ c = leaf.blk /\ pos = leaf.pos
  BY <1>3, <1>4, <1>6
<1>9. np # <<>> => c # leaf.blk
  BY <1>3, <1>4, <1>6
<1>10. np # <<>> => np[Len(np)] \in DOMAIN node /\ np[Len(np)] # c
  <2> SUFFICES ASSUME np # <<>>
               PROVE  np[Len(np)] \in DOMAIN node /\ np[Len(np)] # c
    OBVIOUS
  <2>1. Len(np) \in 1 .. Len(np) /\ level \in 1 .. Len(path)
    BY <1>3, <1>6
  <2>2. /\ np[Len(np)] \in DOMAIN node
        /\ \A k \in 1 .. Len(path) : path[k].blk # np[Len(np)]
    BY <2>1, <1>1 DEF IInv, LocalInv, SplitInv
  <2> QED
    BY <2>1, <2>2
<1>11. Full(c)
  <2>1. ~ HasFree(level)
    BY <1>1, <1>3 DEF FillInv, FullInv, SplitNodesFull
  <2> QED
    BY <2>1 DEF HasFree, Full
<1>12. Len(old) = node[c].max
  BY <1>3, <1>11, FullIsUsed
<1>13. FullInv' /\ SearchInv'
  <2>1. ASSUME pc' = "split", NEW k \in at .. level'
        PROVE  ~ HasFree(k)'
    <3>1. level' = level - 1
      <4>1. Len(np') = 1 + Len(np)
        <5> DEFINE one == <<b>>
        <5>1. one \in Seq(PBlk) /\ Len(one) = 1
          BY <1>2
        <5> HIDE DEF one
        <5>2. Len(one \o np) = Len(one) + Len(np)
          BY <5>1, <1>4, ConcatProperties
        <5> QED
          BY <5>1, <5>2, <1>2 DEF one
      <4> QED
        BY <4>1, <1>1, <1>3 DEF level
    <3>2. k \in at .. level /\ k \in 1 .. Len(path) /\ k # level
      BY <3>1, <1>3
    <3>3. path[k].blk \in DOMAIN node /\ node[path[k].blk].depth = depth - (k - 1)
      BY <3>2 DEF IInv, LocalInv, PathInv
    <3>4. path[k].blk # c
      <4>1. depth - (k - 1) # Len(np)
        <5> HIDE DEF c, old, pos
        <5> QED
          BY <3>2, <1>3
      <4>2. node[path[k].blk].depth # node[c].depth
        <5> HIDE DEF c
        <5> QED
          BY <4>1, <3>3, <1>3
      <4> QED
        BY <4>2
    <3>5. ~ HasFree(k)
      BY <3>2, <1>1 DEF FillInv, FullInv, SplitNodesFull
    <3> QED
      BY <3>3, <3>4, <3>5, <1>1, <1>2 DEF HasFree
  <2>2. SplitNodesFull'
    BY <2>1, <1>1 DEF SplitNodesFull
  <2> QED
    BY <2>2, <1>1 DEF FullInv, SearchInv
<1>14. HalvesInv'
  <2>1. node'[leaf.blk].max = node[leaf.blk].max
    BY <1>2, <1>4
  <2>2. CASE np = <<>>
    <3>1. Len(node'[leaf.blk].ents) = leaf.pos
      BY <2>2, <1>2, <1>8
    <3>2. ~ Full(b)'
      <4>1. node[c].max \in 1 .. ext4_ext_max_entries(depth, 0)
        <5>1. node[c].max \in 1 .. ext4_ext_max_entries(node[Root].depth, node[c].depth)
          BY <1>3 DEF IInv, TreeInv, NodesFit
        <5> QED
          BY <5>1, <2>2, <1>3, <1>6 DEF depth
      <4>2. ext4_ext_max_entries(depth, 0) = SpaceBlock
        <5>1. depth \in Nat /\ 0 \in Nat /\ 0 # depth
          BY <1>3
        <5> QED
          BY <5>1, Capacity
      <4>3. Len(node'[b].ents) < node'[b].max
        <5>1. /\ Len(node'[b].ents) = Len(old) - pos
              /\ node'[b].max = ext4_ext_max_entries(depth, 0)
          BY <2>2, <1>2, <1>3, <1>4, <1>6
        <5>2. pos # 0
          BY <2>2, <1>7, <1>8
        <5> HIDE DEF old, pos
        <5> QED
          BY <4>1, <4>2, <5>1, <5>2, <1>3, <1>4, ConstantsAssumption, SMTT(30)
      <4> QED
        BY <4>3 DEF Full
    <3>3. np'[Len(np')] = b
      BY <2>2, <1>5
    <3>4. ~ Full(np[Len(np)])'
      BY <3>2, <3>3 DEF Full
    <3> QED
      BY <3>1, <3>4, <2>1, <1>1, <1>4, <1>7 DEF HalvesInv
  <2>3. CASE np # <<>>
    <3>1. Len(node'[leaf.blk].ents) = leaf.pos
      BY <2>3, <1>2, <1>4, <1>7, <1>9
    <3>2. np'[Len(np')] = np[Len(np)]
      BY <2>3, <1>5
    <3>3. node'[np[Len(np)]] = node[np[Len(np)]]
      BY <2>3, <1>2, <1>10
    <3>4. ~ Full(np[Len(np)])'
      BY <2>3, <3>2, <3>3, <1>7 DEF Full
    <3> QED
      BY <3>1, <3>4, <2>1, <1>1, <1>4, <1>7 DEF HalvesInv
  <2> QED
    BY <2>2, <2>3
<1>15. LeafInv'
  <2> SUFFICES ASSUME NEW x \in DOMAIN node' \ {Root}
               PROVE  \/ 1 \in DOMAIN node'[x].ents
                      \/ x = np'[Len(np')] /\ key = newext.lblk
    BY <1>1, <1>5 DEF LeafInv, Used
  <2>1. CASE x = b
    <3>1. CASE np = <<>>
      <4>1. CASE pos = Len(old)
        BY <3>1, <4>1, <2>1, <1>5, <1>7, <1>8, <1>12
      <4>2. CASE pos # Len(old)
        <5>1. DOMAIN node'[b].ents = 1 .. Len(old) - pos
          BY <3>1, <1>2, <1>3, <1>4
        <5> HIDE DEF old, pos
        <5> QED
          BY <4>2, <5>1, <2>1, <1>3, <1>4
      <4> QED
        BY <4>1, <4>2
    <3>2. CASE np # <<>>
      <4>1. DOMAIN node'[b].ents = 1 .. Len(old) - pos + 1
        BY <3>2, <1>2
      <4> HIDE DEF old, pos
      <4> QED
        BY <4>1, <2>1, <1>3, <1>4
    <3> QED
      BY <3>1, <3>2
  <2>2. CASE x = c
    <3>1. pos >= 1
      <4>1. pos # 0
        BY <1>3, <1>7, <1>8
      <4> HIDE DEF pos, old
      <4> QED
        BY <4>1, <1>3, <1>4
    <3> QED
      BY <3>1, <2>2, <1>2, <1>3
  <2>3. CASE x # b /\ x # c
    <3>1. x \in DOMAIN node \ {Root} /\ node'[x] = node[x]
      BY <2>3, <1>2
    <3>2. Used(x) \/ (np # <<>> /\ x = np[Len(np)] /\ key = newext.lblk)
      BY <3>1, <1>1 DEF FillInv, LeafInv
    <3> QED
      BY <3>1, <3>2, <1>5 DEF Used
  <2> QED
    BY <2>1, <2>2, <2>3
<1> QED
  BY <1>13, <1>14, <1>15 DEF FillInv

\* The new nodes of a split that fails are freed, the empty one among them.
LEMMA CleanupFills ==
    ASSUME IInv, FillInv, pc \in {"split", "link"}, Cleanup
    PROVE  FillInv'
<1>1. /\ pc' = "fail"
      /\ DOMAIN node' = DOMAIN node \ ToSet(np)
      /\ \A b \in DOMAIN node' : node'[b] = node[b]
      /\ ToSet(np) = {np[i] : i \in 1 .. Len(np)}
  BY CleanupEffect DEF Cleanup
<1>2. np # <<>> => np[Len(np)] \in ToSet(np)
  <2>1. np \in Seq(PBlk)
    BY DEF IInv, LocalInv, LocalType
  <2>2. np # <<>> => Len(np) \in 1 .. Len(np)
    BY <2>1, EmptySeq
  <2> QED
    BY <2>2, <1>1
<1>3. AllUsed'
  BY <1>1, <1>2 DEF FillInv, LeafInv, AllUsed, Used
<1> QED
  BY <1>1, <1>3, Quiet

\* The new nodes are linked, and the insertion goes on in the half of the leaf that
\* the new extent belongs to.
LEMMA LinkFills ==
    ASSUME IInv, FillInv, pc = "link", LinkIndex
    PROVE  FillInv'
<1> DEFINE c == path[at - 1].blk
           z == np[Len(np)]
<1>1. pc' = "insert" /\ newext' = newext
  BY DEF LinkIndex
<1>2. /\ DOMAIN node' = DOMAIN node
      /\ \A x \in DOMAIN node : x # c => node'[x] = node[x]
      /\ DOMAIN node'[c].ents = 1 .. Len(node[c].ents) + 1
  BY LinkEffect
<1>3. /\ at \in 2 .. Len(path) /\ at \in Nat /\ Len(path) = depth + 1 /\ depth \in Nat
      /\ Len(np) = (Len(path) - at) + 1 /\ Len(np) \in Nat \ {0}
      /\ at - 1 \in 1 .. Len(path) - 1
      /\ c \in DOMAIN node /\ node[c].depth > 0
  BY LinkPlace
<1>4. /\ path # <<>> /\ leaf = path[Len(path)] /\ leaf.blk \in DOMAIN node
      /\ node[leaf.blk].depth = 0 /\ np \in Seq(PBlk) /\ path \in Seq(PathElem)
      /\ leaf.pos \in Nat
      /\ DOMAIN path = 1 .. Len(path)
  <2>1. path # <<>> /\ pc \in Working /\ np \in Seq(PBlk) /\ path \in Seq(PathElem)
    BY WorkingPath DEF Working, IInv, LocalInv, LocalType
  <2>2. leaf \in PathElem
    BY <2>1, LeafOfPath
  <2> QED
    BY <2>1, <2>2, LeafOfPath, LenProperties DEF PathElem
<1>5. np # <<>>
  BY <1>3, <1>4, EmptySeq
<1>6. /\ leaf.pos # 0 /\ (leaf.pos = node[leaf.blk].max => key = newext.lblk)
      /\ Len(node[leaf.blk].ents) = leaf.pos /\ ~ Full(z)
  BY <1>5 DEF FillInv, HalvesInv
<1>7. z \in DOMAIN node /\ z # c
  <2>1. Len(np) \in 1 .. Len(np) /\ at - 1 \in 1 .. Len(path)
    BY <1>3
  <2>2. z \in DOMAIN node /\ \A k \in 1 .. Len(path) : path[k].blk # z
    BY <2>1 DEF IInv, LocalInv, SplitInv
  <2> QED
    BY <2>1, <2>2
<1>8. key \in Nat /\ newext.lblk \in Nat
  BY DEF IInv, LocalInv, LocalType, Entry
<1>9. ASSUME InsRight
      PROVE  leaf' = [blk |-> z, pos |-> IF node[z].ents = <<>> THEN 0 ELSE 1]
  <2> DEFINE q == [k \in DOMAIN path |->
                     IF k < at - 1 THEN path[k]
                     ELSE IF k = at - 1 THEN [path[k] EXCEPT !.pos = LinkSlot]
                     ELSE [blk |-> np[k - at + 1],
                           pos |-> IF node[np[k - at + 1]].ents = <<>>
                                   THEN 0 ELSE 1]]
  <2>1. path' = q
    BY <1>9 DEF LinkIndex
  <2>2. Len(q) = Len(path)
    BY <1>4, <1>3
  <2>3. /\ Len(path) \in DOMAIN path /\ ~ (Len(path) < at - 1)
        /\ Len(path) # at - 1 /\ Len(path) - at + 1 = Len(np)
    BY <1>3, <1>4
  <2>4. q[Len(path)] = [blk |-> z, pos |-> IF node[z].ents = <<>> THEN 0 ELSE 1]
    BY <2>3
  <2> HIDE DEF q
  <2> QED
    BY <2>1, <2>2, <2>4 DEF leaf
<1>10. ASSUME ~ InsRight
       PROVE  leaf' = leaf
  BY <1>10 DEF LinkIndex, leaf
<1>11. SearchInv'
  <2>1. CASE InsRight
    <3>1. leaf'.blk = z /\ (leaf'.pos = 0 => node[z].ents = <<>>) /\ node'[z] = node[z]
      BY <2>1, <1>2, <1>7, <1>9
    <3>2. ~ Full(leaf.blk)'
      BY <3>1, <1>6 DEF Full
    <3>3. leaf'.pos = 0 => ~ Used(leaf.blk)'
      <4>1. node[z].ents = <<>> => ~ (1 \in DOMAIN node[z].ents)
        BY <1>7, LiveNode, UsedWhenNonEmpty
      <4> QED
        BY <3>1, <4>1 DEF Used
    <3> QED
      BY <3>2, <3>3, <1>1 DEF SearchInv
  <2>2. CASE ~ InsRight
    <3>1. leaf' = leaf /\ node'[leaf.blk] = node[leaf.blk]
      BY <2>2, <1>2, <1>3, <1>4, <1>10
    <3>2. leaf.pos # node[leaf.blk].max
      BY <2>2, <1>6, <1>8 DEF InsRight
    <3>3. ~ Full(leaf.blk)
      BY <3>2, <1>4, <1>6, LiveNode DEF Full
    <3>4. ~ Full(leaf.blk)'
      BY <3>1, <3>3 DEF Full
    <3> QED
      BY <3>1, <3>4, <1>1, <1>6 DEF SearchInv
  <2> QED
    BY <2>1, <2>2
<1>12. FullInv' /\ HalvesInv'
  BY <1>1 DEF FullInv, SplitNodesFull, HalvesInv
<1>13. LeafInv'
  <2> SUFFICES ASSUME NEW x \in DOMAIN node \ {Root}
               PROVE  1 \in DOMAIN node'[x].ents \/ x = leaf'.blk
    BY <1>1, <1>2 DEF LeafInv, Used
  <2>1. CASE x = c
    <3>1. Len(node[c].ents) \in Nat
      BY <1>3, LiveNode
    <3> QED
      BY <3>1, <2>1, <1>2
  <2>2. CASE x # c
    <3>1. node'[x] = node[x]
      BY <2>2, <1>2
    <3>2. Used(x) \/ (x = z /\ key = newext.lblk)
      BY DEF FillInv, LeafInv
    <3>3. key = newext.lblk => InsRight
      BY <1>8 DEF InsRight
    <3> QED
      BY <3>1, <3>2, <3>3, <1>9 DEF Used
  <2> QED
    BY <2>1, <2>2
<1> QED
  BY <1>11, <1>12, <1>13 DEF FillInv

-----------------------------------------------------------------------------
(* The theorems.                                                           *)

\* Files on the disk have no empty leaf.
LEMMA FillInit ==
    ASSUME Init
    PROVE  FillInv
<1>1. PICK f \in Files : node = f.node /\ free = f.free
  BY DEF Init
<1>2. pc = "idle" /\ todo = <<>>
  BY DEF Init
<1>3. AllUsed
  <2>1. ASSUME NEW b \in DOMAIN node \ {Root}
        PROVE  Used(b)
    <3>1. node[b].ents # <<>> /\ node[b] \in Node
      BY <1>1, FilesHaveNoEmptyLeaf, FilesAssumption DEF GoodFile
    <3>2. node[b].ents \in Seq(Entry)
      BY <3>1, NodeFields
    <3> QED
      BY <3>1, <3>2, UsedWhenNonEmpty DEF Used
  <2> QED
    BY <2>1 DEF AllUsed
<1>4. SearchInv /\ HalvesInv
  BY <1>2 DEF SearchInv, HalvesInv
<1>5. FullInv
  BY <1>2 DEF FullInv, SplitNodesFull
<1>6. LeafInv
  BY <1>3 DEF LeafInv, AllUsed
<1> QED
  BY <1>4, <1>5, <1>6 DEF FillInv

\* Every step keeps what is full full and what is used used.
LEMMA FillStep ==
    ASSUME IInv, FillInv, GrowsWhereSearched, [Next]_vars
    PROVE  FillInv'
<1>1. CASE UNCHANGED vars
  <2>1. UNCHANGED <<node, pc, req, newext, at, key, np, todo, path>>
    BY <1>1 DEF vars
  <2>2. UNCHANGED <<leaf, depth, level>>
    BY <2>1 DEF leaf, depth, level
  <2>3. SearchInv'
    BY <2>1, <2>2 DEF FillInv, SearchInv, Arrived, Searched, Used, Full
  <2>4. FullInv'
    BY <2>1, <2>2 DEF FillInv, FullInv, Regrown, Way, Full, SplitNodesFull, HasFree
  <2>5. HalvesInv' /\ LeafInv'
    BY <2>1, <2>2 DEF FillInv, HalvesInv, LeafInv, Full, Used
  <2> QED
    BY <2>3, <2>4, <2>5 DEF FillInv
<1>2. CASE \E l \in LBlk, m \in MaxBlocks, c \in BOOLEAN :
              ext4_extent_get_blocks(l, m, c)
  BY <1>2, CallFills
<1>3. CASE Find
  BY <1>3, WalkFills, ArriveFills, QuietSteps DEF Find
<1>4. CASE Decide
  BY <1>4, AllocateFills, QuietSteps DEF Decide
<1>5. CASE Convert
  BY <1>5, CutCases, RewriteSteps, CutFills, QuietSteps DEF Convert
<1>6. CASE Insert
  <2>1. CASE ext4_ext_insert_leaf
    <3>1. pc = "insert"
      BY <2>1 DEF ext4_ext_insert_leaf
    <3>2. CASE SameStart
      BY <2>1, <3>1, <3>2, QuietSteps
    <3>3. CASE ~ SameStart
      <4>1. AppendToExtent \/ PrependToExtent \/ InsertIntoLeaf \/ NeedSplit
        BY <2>1, <3>3 DEF ext4_ext_insert_leaf
      <4> QED
        BY <3>1, <4>1, RewriteSteps, InsertFills, NeedSplitFills
    <3> QED
      BY <3>2, <3>3
  <2>2. CASE ext4_ext_grow_indepth
    BY <2>2, GrowFills
  <2>3. CASE GrowFails \/ FreeData
    BY <2>3, QuietSteps
  <2>4. CASE ext4_ext_split_node
    BY <2>4, SplitFills
  <2>5. CASE SplitFails
    BY <2>5, CleanupFills DEF SplitFails
  <2>6. CASE ext4_ext_insert_index
    BY <2>6, CleanupFills, LinkFills DEF ext4_ext_insert_index
  <2> QED
    BY <1>6, <2>1, <2>2, <2>3, <2>4, <2>5, <2>6 DEF Insert
<1> QED
  BY <1>1, <1>2, <1>3, <1>4, <1>5, <1>6 DEF Next, Step

\* FillInv is invariant as long as the tree grows where it was searched.
THEOREM FillInvariance == Spec /\ []GrowsWhereSearched => []FillInv
<1>1. Init => FillInv
  BY FillInit
<1>2. IInv /\ FillInv /\ GrowsWhereSearched /\ [Next]_vars => FillInv'
  BY FillStep
<1> QED
  BY <1>1, <1>2, Invariance, PTL DEF Spec

\* split_node() takes the number of entries it moves from the room of a node; at
\* every level it splits, on a path that was searched before or after the tree grew,
\* the two are the same.
THEOREM OnlyFullNodesSplit == Spec /\ []GrowsWhereSearched => []SplitNodesFull
<1>1. FillInv => SplitNodesFull
  BY DEF FillInv, FullInv
<1> QED
  BY <1>1, FillInvariance, PTL

\* Between two calls no leaf below the root is empty, whichever calls have failed:
\* a leaf that a split has left empty is filled by the insertion that asked for it,
\* or freed.
THEOREM NoEmptyLeafLeft == Spec /\ []GrowsWhereSearched => []ConsistentLeafNotEmpty
<1>1. IInv /\ FillInv => ConsistentLeafNotEmpty
  <2> SUFFICES ASSUME IInv, FillInv, pc = "idle", NEW b \in DOMAIN node,
                      node[b].ents = <<>>
               PROVE  b = Root /\ depth = 0
    BY DEF ConsistentLeafNotEmpty, Idle
  <2>1. node[b].depth \in Nat /\ node[b].ents \in Seq(Entry) /\ ~ Used(b)
    BY LiveNode, UsedWhenNonEmpty DEF Used
  <2>2. b = Root
    BY <2>1, NoneEmpty DEF FillInv, AllUsed
  <2>3. ~ (node[b].depth > 0)
    BY DEF IInv, TreeInv, NodesFit
  <2> QED
    BY <2>1, <2>2, <2>3 DEF depth
<1> QED
  BY <1>1, FillInvariance, Invariance, PTL

-----------------------------------------------------------------------------
(* The owners of the blocks.                                               *)

\* Every conversion in this behaviour needs one cut, which lies before the end of
\* the extent: none writes the last block of an unwritten extent, or a range in
\* its middle, which the code gets wrong.
SoundCuts ==
    /\ Len(todo) <= 1
    /\ pc = "splitat" => Head(todo).split < ex.lblk + ee_len(ex)

\* No extent is extended to the front, where the code keeps its first block, or
\* grows to EXT_INIT_MAX_LEN blocks, a length that reads as "unwritten".
SoundMerges ==
    pc = "insert" =>
       /\ ~ CanPrepend
       /\ CanAppend => ee_len(ex) + ee_len(newext) < InitMax

\* The blocks of the extent that is being inserted.
NewBlocks == Refers(newext, 0)

\* They are nobody's.
NewInv ==
    pc \in Inserting =>
       /\ ee_len(newext) >= 1
       /\ NewBlocks \cap free = {}
       /\ Unowned(node, NewBlocks)

\* The topmost block of a split is nobody's yet; each of the others is the first
\* child of the one above it.
ChainInv ==
    np # <<>> =>
       /\ Unowned(node, {np[1]})
       /\ np[1] \notin NewBlocks
       /\ \A i \in 1 .. Len(np) - 1 :
             /\ 1 \in DOMAIN node[np[i]].ents
             /\ node[np[i]].ents[1].pblk = np[i + 1]

\* An extent is not cut before its start.
CutInv ==
    /\ pc \in {"idle", "find", "found"} => todo = <<>>
    /\ pc = "splitat" => leaf.pos # 0 /\ ex.lblk <= Head(todo).split

\* As long as the part that was cut off is in newext, the slot to be restored is
\* gone, has become an index, or holds the other part; its node is not one that a
\* failing split would free.
SavedInv ==
    pc \in Inserting /\ todo # <<>> =>
       /\ saved.blk \in DOMAIN node
       /\ \A i \in 1 .. Len(np) : saved.blk # np[i]
       /\ saved.len < InitMax
       /\ node[saved.blk].depth = 0 /\ saved.pos \in DOMAIN node[saved.blk].ents =>
             LET e == node[saved.blk].ents[saved.pos]
             IN  e.pblk .. e.pblk + saved.len - 1 \subseteq Refers(e, 0) \cup NewBlocks

OwnerInv ==
    /\ OwnersDiffer(node) /\ Unowned(node, free)
    /\ NewInv /\ ChainInv /\ CutInv /\ SavedInv

-----------------------------------------------------------------------------
(* Slots that move.                                                        *)

\* A slot in use and what it refers to.
LEMMA SlotIn ==
    ASSUME NEW nd, NEW b \in DOMAIN nd, NEW i \in DOMAIN nd[b].ents
    PROVE  /\ <<b, i>> \in SlotsOf(nd)
           /\ OwnedBy(nd, <<b, i>>) = Refers(nd[b].ents[i], nd[b].depth)
BY DEF SlotsOf, OwnedBy

\* Every slot in use is one of a node.
LEMMA SlotOut ==
    ASSUME NEW nd, NEW s \in SlotsOf(nd)
    PROVE  \E b \in DOMAIN nd : \E i \in DOMAIN nd[b].ents :
              /\ s = <<b, i>>
              /\ OwnedBy(nd, s) = Refers(nd[b].ents[i], nd[b].depth)
BY DEF SlotsOf, OwnedBy

\* A slot refers to no more than before, at another place perhaps, except for one
\* that gets blocks which nobody had.
LEMMA OwnersMoved ==
    ASSUME NEW nd, NEW nn, NEW f, NEW z, NEW X,
           OwnersDiffer(nd), Unowned(nd, X),
           \A s \in SlotsOf(nn) :
              OwnedBy(nn, s) \subseteq
                 (IF f[s] \in SlotsOf(nd) THEN OwnedBy(nd, f[s]) ELSE {})
                    \cup (IF s = z THEN X ELSE {}),
           \A s, t \in SlotsOf(nn) : s # t => f[s] # f[t]
    PROVE  /\ OwnersDiffer(nn)
           /\ \A Y : Unowned(nd, Y) /\ Y \cap X = {} => Unowned(nn, Y)
<1> DEFINE Old(s) == IF f[s] \in SlotsOf(nd) THEN OwnedBy(nd, f[s]) ELSE {}
<1>1. \A s \in SlotsOf(nn) : \A x \in OwnedBy(nn, s) : x \in Old(s) \/ (s = z /\ x \in X)
  OBVIOUS
<1>2. \A s \in SlotsOf(nn) : X \cap Old(s) = {}
  BY DEF Unowned
<1>3. \A s, t \in SlotsOf(nn) : s # t => Old(s) \cap Old(t) = {}
  BY DEF OwnersDiffer
<1>4. \A Y : Unowned(nd, Y) => \A s \in SlotsOf(nn) : Y \cap Old(s) = {}
  BY DEF Unowned
<1> HIDE DEF Old
<1>5. ASSUME NEW s \in SlotsOf(nn), NEW t \in SlotsOf(nn), s # t
      PROVE  OwnedBy(nn, s) \cap OwnedBy(nn, t) = {}
  <2> SUFFICES ASSUME NEW x, x \in OwnedBy(nn, s), x \in OwnedBy(nn, t)
               PROVE  FALSE
    OBVIOUS
  <2>1. x \in Old(s) \/ (s = z /\ x \in X)
    BY <1>1
  <2>2. x \in Old(t) \/ (t = z /\ x \in X)
    BY <1>1
  <2> QED
    BY <2>1, <2>2, <1>2, <1>3, <1>5
<1>6. ASSUME NEW Y, Unowned(nd, Y), Y \cap X = {}
      PROVE  Unowned(nn, Y)
  BY <1>1, <1>4, <1>6 DEF Unowned
<1> QED
  BY <1>5, <1>6 DEF OwnersDiffer

\* The same for slots that stay in place.
LEMMA OwnersStay ==
    ASSUME NEW nd, NEW nn, NEW z, NEW X,
           OwnersDiffer(nd), Unowned(nd, X),
           \A s \in SlotsOf(nn) :
              /\ s \in SlotsOf(nd)
              /\ OwnedBy(nn, s) \subseteq OwnedBy(nd, s) \cup (IF s = z THEN X ELSE {})
    PROVE  /\ OwnersDiffer(nn)
           /\ \A Y : Unowned(nd, Y) /\ Y \cap X = {} => Unowned(nn, Y)
<1> DEFINE f == [s \in SlotsOf(nn) |-> s]
<1>1. \A s \in SlotsOf(nn) : f[s] = s
  OBVIOUS
<1> HIDE DEF f
<1>2. \A s \in SlotsOf(nn) :
         OwnedBy(nn, s) \subseteq
            (IF f[s] \in SlotsOf(nd) THEN OwnedBy(nd, f[s]) ELSE {})
               \cup (IF s = z THEN X ELSE {})
  BY <1>1
<1>3. \A s, t \in SlotsOf(nn) : s # t => f[s] # f[t]
  BY <1>1
<1>4. OwnersDiffer(nd) /\ Unowned(nd, X)
  OBVIOUS
<1> QED
  BY ONLY <1>2, <1>3, <1>4, OwnersMoved, ZenonT(60)

-----------------------------------------------------------------------------
(* Lengths.                                                                *)

\* The mark is no part of the length.
LEMMA MarkedLength ==
    ASSUME NEW e \in Entry
    PROVE  /\ ee_len(ext4_ext_mark_unwritten(e)) = ee_len(e)
           /\ ee_len(ext4_ext_mark_initialized(e)) = ee_len(e)
           /\ ext4_ext_mark_unwritten(e).pblk = e.pblk
           /\ ext4_ext_mark_initialized(e).pblk = e.pblk
           /\ ext4_ext_mark_unwritten(e).lblk = e.lblk
           /\ ext4_ext_mark_initialized(e).lblk = e.lblk
<1> DEFINE u == ext4_ext_mark_unwritten(e)
           w == ext4_ext_mark_initialized(e)
<1>1. InitMax \in Nat /\ InitMax > 1 /\ e.len \in 0 .. 2 * InitMax - 1
  BY InitMaxAssumption DEF Entry, RawLen
<1>2. u \in Entry /\ w \in Entry
  BY RawLengths
<1>3. /\ u.pblk = e.pblk /\ u.lblk = e.lblk /\ w.pblk = e.pblk /\ w.lblk = e.lblk
      /\ u.len = (IF e.len >= InitMax THEN e.len ELSE e.len + InitMax)
      /\ w.len = ee_len(e)
  <2>1. AsRaw(ext4_ext_get_actual_len(e)) = ee_len(e)
    BY LengthValues
  <2> QED
    BY <2>1 DEF Entry, ext4_ext_mark_unwritten, ext4_ext_mark_initialized
<1> HIDE DEF u, w
<1>4. /\ ee_len(u) = (IF u.len < InitMax THEN u.len ELSE u.len - InitMax)
      /\ ee_len(w) = (IF w.len < InitMax THEN w.len ELSE w.len - InitMax)
      /\ ee_len(e) = (IF e.len < InitMax THEN e.len ELSE e.len - InitMax)
      /\ ee_len(e) \in 0 .. InitMax - 1
  BY <1>2, LengthValues
<1>5. ee_len(u) = ee_len(e) /\ ee_len(w) = ee_len(e)
  BY ONLY <1>1, <1>3, <1>4
<1> QED
  BY <1>3, <1>5 DEF u, w

\* Only initialised extents are appended to, and only by initialised ones.
LEMMA AppendedInitialised ==
    ASSUME NEW e \in Entry, NEW f \in Entry, ext4_ext_can_append(e, f)
    PROVE  /\ ~ ext4_ext_is_unwritten(e)
           /\ ext4_ext_get_actual_len(e) = ee_len(e)
           /\ ext4_ext_get_actual_len(f) = ee_len(f)
<1> DEFINE a == ext4_ext_get_actual_len(e)
           b == ext4_ext_get_actual_len(f)
<1>1. InitMax \in Nat /\ InitMax > 1
  BY InitMaxAssumption
<1>2. /\ ext4_ext_is_unwritten(e) <=> e.len >= InitMax
      /\ ee_len(e) \in 0 .. InitMax - 1 /\ ee_len(f) \in 0 .. InitMax - 1
      /\ a = IF e.len < InitMax THEN ee_len(e) ELSE ee_len(e) - 2 * InitMax
      /\ b = IF f.len < InitMax THEN ee_len(f) ELSE ee_len(f) - 2 * InitMax
      /\ a \in Int /\ b \in Int /\ e.len \in Nat /\ f.len \in Nat
  BY <1>1, LengthValues DEF Entry, RawLen
<1>3. ~ (a + b < 0)
  BY DEF ext4_ext_can_append, FitsLength, Exceeds
<1> HIDE DEF a, b
<1>4. e.len < InitMax /\ f.len < InitMax
  BY ONLY <1>1, <1>2, <1>3
<1> QED
  BY <1>1, <1>2, <1>4 DEF a, b

\* An extent that was appended to has the length of both, if the field can hold
\* it.
LEMMA AppendedLength ==
    ASSUME NEW e \in Entry, NEW f \in Entry, ext4_ext_can_append(e, f),
           ee_len(e) + ee_len(f) < InitMax
    PROVE  /\ ee_len(Appended(e, f)) = ee_len(e) + ee_len(f)
           /\ Appended(e, f).pblk = e.pblk /\ Appended(e, f).lblk = e.lblk
<1> DEFINE n == ee_len(e) + ee_len(f)
           g == Appended(e, f)
<1>1. InitMax \in Nat /\ InitMax > 1
  BY InitMaxAssumption
<1>2. n \in 0 .. InitMax - 1 /\ n \in 0 .. 2 * InitMax - 1
  <2>1. ee_len(e) \in 0 .. InitMax - 1 /\ ee_len(f) \in 0 .. InitMax - 1
    BY RawLengths
  <2> QED
    BY <1>1, <2>1
<1>3. /\ ~ ext4_ext_is_unwritten(e)
      /\ ext4_ext_get_actual_len(e) + ext4_ext_get_actual_len(f) = n
  BY AppendedInitialised
<1> HIDE DEF n
<1>4. AsRaw(n) = n
  BY <1>2, RawOf
<1>5. MergedLen(e, f) = n
  BY <1>3, <1>4 DEF MergedLen, Entry
<1>6. g \in Entry /\ g.len = n /\ g.pblk = e.pblk /\ g.lblk = e.lblk
  BY <1>5, MergedExtents DEF Appended, Entry
<1> HIDE DEF g
<1>7. ee_len(g) = n
  <2>1. ee_len(g) = IF g.len < InitMax THEN g.len ELSE g.len - InitMax
    BY <1>6, LengthValues
  <2> QED
    BY <1>1, <1>2, <1>6, <2>1
<1> QED
  BY <1>6, <1>7 DEF n, g

\* It covers the blocks of both.
LEMMA AppendedBlocks ==
    ASSUME NEW e \in Entry, NEW f \in Entry, ext4_ext_can_append(e, f),
           ee_len(e) + ee_len(f) < InitMax
    PROVE  Refers(Appended(e, f), 0) \subseteq Refers(e, 0) \cup Refers(f, 0)
<1> DEFINE k == ee_len(e)
           m == ee_len(f)
<1>1. k \in Nat /\ m \in Nat /\ e.pblk \in Int
  BY RawLengths, InitMaxAssumption DEF Entry
<1>2. e.pblk + k = f.pblk
  BY AppendedInitialised DEF ext4_ext_can_append
<1>3. Refers(Appended(e, f), 0) = e.pblk .. e.pblk + (k + m) - 1
  BY AppendedLength DEF Refers
<1>4. Refers(e, 0) = e.pblk .. e.pblk + k - 1 /\ Refers(f, 0) = f.pblk .. f.pblk + m - 1
  BY DEF Refers
<1>5. \A a \in Int : \A i, j \in Nat :
         a .. a + (i + j) - 1 \subseteq (a .. a + i - 1) \cup (a + i .. a + i + j - 1)
  OBVIOUS
<1> HIDE DEF k, m
<1> QED
  BY <1>1, <1>2, <1>3, <1>4, <1>5

-----------------------------------------------------------------------------
(* Steps that leave the tree alone, and returns.                           *)

\* No split is under way elsewhere.
LEMMA NoChain ==
    ASSUME IInv, pc \notin {"split", "link"}
    PROVE  np = <<>>
  BY DEF IInv, LocalInv, SplitInv

\* A step inside a call that changes neither tree nor extents keeps owners.
LEMMA SameOwners ==
    ASSUME OwnerInv, UNCHANGED <<node, free, np, newext, saved, todo>>,
           pc' \in Inserting => pc \in Inserting, pc' # "splitat",
           pc' \in {"idle", "find", "found"} => todo = <<>>
    PROVE  OwnerInv'
<1>1. OwnersDiffer(node)' /\ Unowned(node, free)' /\ NewBlocks' = NewBlocks
  BY DEF OwnerInv, NewBlocks
<1>2. NewInv' /\ ChainInv' /\ SavedInv'
  BY <1>1 DEF OwnerInv, NewInv, ChainInv, SavedInv
<1>3. CutInv'
  BY DEF CutInv
<1> QED
  BY <1>1, <1>2, <1>3 DEF OwnerInv

\* A call that returns has no extent in hand.
LEMMA ReturnKeepsOwners ==
    ASSUME NEW r, Return(r), np' = <<>>,
           OwnersDiffer(node'), Unowned(node', free')
    PROVE  OwnerInv'
<1>1. pc' = "idle" /\ todo' = <<>>
  BY DEF Return
<1>2. NewInv' /\ ChainInv' /\ CutInv' /\ SavedInv'
  BY <1>1 DEF NewInv, ChainInv, CutInv, SavedInv, Inserting
<1> QED
  BY <1>2 DEF OwnerInv

\* Entering a call and searching keep owners.
LEMMA FindKeepsOwners ==
    ASSUME IInv, OwnerInv,
           Find \/ (\E l \in LBlk, m \in MaxBlocks, c \in BOOLEAN :
                       ext4_extent_get_blocks(l, m, c))
    PROVE  OwnerInv'
<1>1. CASE \E l \in LBlk, m \in MaxBlocks, c \in BOOLEAN :
              ext4_extent_get_blocks(l, m, c)
  <2>1. /\ pc = "idle" /\ pc' = "find"
        /\ UNCHANGED <<node, free, np, newext, saved, todo>>
    BY <1>1 DEF ext4_extent_get_blocks, tree, split, conv
  <2>2. todo = <<>>
    BY <2>1 DEF OwnerInv, CutInv
  <2> QED
    BY <2>1, <2>2, SameOwners DEF Inserting
<1>2. CASE ext4_find_extent_walk
  <2>1. /\ pc \in {"find", "refind"} /\ pc' = pc
        /\ UNCHANGED <<node, free, np, newext, saved, todo>>
    BY <1>2 DEF ext4_find_extent_walk, tree, split, conv
  <2>2. pc = "find" => todo = <<>>
    BY DEF OwnerInv, CutInv
  <2> QED
    BY <2>1, <2>2, SameOwners DEF Inserting
<1>3. CASE ext4_find_extent_err
  <2>1. pc \in {"find", "refind"} /\ UNCHANGED <<node, free, np>>
    BY <1>3 DEF ext4_find_extent_err, tree, split
  <2>2. CASE pc = "find"
    <3>1. Return(EFAIL) /\ np' = <<>>
      BY <1>3, <2>1, <2>2, NoChain DEF ext4_find_extent_err
    <3>2. OwnersDiffer(node') /\ Unowned(node', free')
      BY <2>1 DEF OwnerInv
    <3> QED
      BY <3>1, <3>2, ReturnKeepsOwners
  <2>3. CASE pc = "refind"
    <3>1. /\ pc' \in {"fail", "bugcheck"}
          /\ UNCHANGED <<node, free, np, newext, saved, todo>>
      BY <1>3, <2>1, <2>3 DEF ext4_find_extent_err, conv
    <3> QED
      BY <2>3, <3>1, SameOwners DEF Inserting
  <2> QED
    BY <2>1, <2>2, <2>3
<1>4. CASE ext4_find_extent_leaf
  <2>1. /\ UNCHANGED <<node, free, newext, saved, todo>>
        /\ \/ pc = "find" /\ pc' = "found"
           \/ pc = "refind" /\ pc' \in {"insert", "split"}
    BY <1>4 DEF ext4_find_extent_leaf, StartSplit, tree, conv
  <2>2. np' = np
    BY <1>4, <2>1, NoChain DEF ext4_find_extent_leaf, StartSplit, split
  <2>3. pc = "find" => todo = <<>>
    BY DEF OwnerInv, CutInv
  <2> QED
    BY <2>1, <2>2, <2>3, SameOwners DEF Inserting
<1> QED
  BY <1>1, <1>2, <1>3, <1>4 DEF Find

\* Deciding what to do keeps owners: a new block was free, so it was nobody's,
\* and a cut of an unwritten extent is not before its start.
LEMMA DecideKeepsOwners ==
    ASSUME IInv, OwnerInv, Decide
    PROVE  OwnerInv'
<1>1. /\ pc = "found" /\ todo = <<>> /\ np = <<>>
  BY NoChain DEF Decide, ReturnMapped, ReturnHole, ext4_ext_convert_to_initialized,
     ext4_ext_zero_unwritten_range_err, AllocateData, AllocateDataFails,
     OwnerInv, CutInv
<1>2. CASE ReturnMapped \/ ReturnHole \/ AllocateDataFails
             \/ ext4_ext_zero_unwritten_range_err
  <2>1. UNCHANGED <<node, free, np>> /\ \E r : Return(r)
    BY <1>2 DEF ReturnMapped, ReturnHole, AllocateDataFails,
       ext4_ext_zero_unwritten_range_err, tree, split
  <2>2. OwnersDiffer(node') /\ Unowned(node', free') /\ np' = <<>>
    BY <1>1, <2>1 DEF OwnerInv
  <2> QED
    BY <2>1, <2>2, ReturnKeepsOwners
<1>3. CASE ext4_ext_convert_to_initialized
  <2> DEFINE n == ee_len(ex)
             s == req.lblk
  <2>1. /\ Found /\ pc' = "splitat" /\ todo' = ConvertSteps(ex, s, Remaining)
        /\ UNCHANGED <<node, free, np, newext, saved, path>>
    BY <1>3 DEF ext4_ext_convert_to_initialized, tree, split
  <2>2. ex' = ex /\ leaf' = leaf
    BY <2>1 DEF ex, leaf
  <2>3. leaf.pos # 0 /\ ex.lblk <= s /\ s < ex.lblk + n
    BY <2>1 DEF Found, Covers
  <2>4. Remaining \in Nat /\ ex \in Entry /\ s \in Nat
    BY <1>1, <2>1, RemainingBlocks
  <2>5. n \in Nat /\ ex.lblk \in Nat
    BY <2>4, RawLengths, InitMaxAssumption DEF Entry
  <2>6. Head(todo').split = s \/ Head(todo').split = s + Remaining
    BY <2>1 DEF ConvertSteps
  <2>7. ex.lblk <= Head(todo').split
    <3> DEFINE h == Head(todo').split
    <3>1. h = s \/ h = s + Remaining
      BY <2>6
    <3> HIDE DEF h, s, n
    <3> QED
      BY <3>1, <2>3, <2>4, <2>5 DEF h
  <2>9. CutInv'
    BY <2>1, <2>2, <2>3, <2>7 DEF CutInv
  <2>10. NewInv' /\ ChainInv' /\ SavedInv'
    BY <1>1, <2>1 DEF NewInv, ChainInv, SavedInv, Inserting
  <2> QED
    BY <2>1, <2>9, <2>10 DEF OwnerInv
<1>4. CASE AllocateData
  <2>1. PICK b \in free : /\ free' = free \ {b}
                          /\ newext' = [lblk |-> req.lblk, pblk |-> b, len |-> 1]
    BY <1>4 DEF AllocateData
  <2>2. pc' = "insert" /\ UNCHANGED <<node, np, todo, saved>>
    BY <1>4 DEF AllocateData, split, conv
  <2>3. b \in Int
    <3>1. b \in PBlk /\ \A x \in PBlk : x \in Int
      BY ConstantsAssumption DEF IInv, TreeInv, TreeType
    <3> QED
      BY <3>1
  <2>4. ee_len(newext') = 1 /\ NewBlocks' = {b}
    <3>1. newext'.len = 1 /\ newext'.pblk = b
      BY <2>1
    <3>2. ee_len(newext') = 1
      <4>1. newext'.len \in 0 .. InitMax - 1
        BY <3>1, InitMaxAssumption
      <4> QED
        BY <3>1, <4>1, PlainLength
    <3>3. NewBlocks' = b .. b + 1 - 1
      BY <3>1, <3>2 DEF NewBlocks, Refers
    <3> QED
      BY <2>3, <3>2, <3>3
  <2>5. Unowned(node, free \ {b}) /\ Unowned(node, {b})
    BY DEF OwnerInv, Unowned
  <2>6. NewInv'
    BY <2>1, <2>2, <2>4, <2>5 DEF NewInv
  <2>7. ChainInv' /\ CutInv' /\ SavedInv'
    BY <1>1, <2>2 DEF ChainInv, CutInv, SavedInv
  <2> QED
    BY <2>1, <2>2, <2>5, <2>6, <2>7 DEF OwnerInv
<1> QED
  BY <1>2, <1>3, <1>4 DEF Decide

-----------------------------------------------------------------------------
(* Steps that rewrite an extent in place.                                  *)

\* Rewriting the current extent leaves the other slots alone.
LEMMA RewrittenSlots ==
    ASSUME IInv, path # <<>>, pc \in Working \cup {"fail"}, leaf.pos # 0,
           NEW e \in Entry,
           node' = [node EXCEPT ![leaf.blk].ents[leaf.pos] = e]
    PROVE  LET z == <<leaf.blk, leaf.pos>>
           IN  /\ z \in SlotsOf(node) /\ OwnedBy(node, z) = Refers(ex, 0)
               /\ \A s \in SlotsOf(node') :
                     /\ s \in SlotsOf(node)
                     /\ OwnedBy(node', s) = IF s = z THEN Refers(e, 0)
                                            ELSE OwnedBy(node, s)
<1> DEFINE z == <<leaf.blk, leaf.pos>>
<1>1. /\ DOMAIN node' = DOMAIN node
      /\ \A b \in DOMAIN node : b # leaf.blk => node'[b] = node[b]
      /\ node'[leaf.blk].depth = 0 /\ node[leaf.blk].depth = 0
      /\ leaf.blk \in DOMAIN node /\ leaf.pos \in DOMAIN node[leaf.blk].ents
      /\ DOMAIN node'[leaf.blk].ents = DOMAIN node[leaf.blk].ents
      /\ \A i \in DOMAIN node[leaf.blk].ents :
            node'[leaf.blk].ents[i] =
               IF i = leaf.pos THEN e ELSE node[leaf.blk].ents[i]
  BY RewriteEffect
<1>2. ASSUME NEW s \in SlotsOf(node')
      PROVE  /\ s \in SlotsOf(node)
             /\ OwnedBy(node', s) = IF s = z THEN Refers(e, 0) ELSE OwnedBy(node, s)
  <2>1. PICK b \in DOMAIN node' : \E i \in DOMAIN node'[b].ents :
           s = <<b, i>> /\ OwnedBy(node', s) = Refers(node'[b].ents[i], node'[b].depth)
    BY DEF SlotsOf, OwnedBy
  <2>2. PICK i \in DOMAIN node'[b].ents :
           s = <<b, i>> /\ OwnedBy(node', s) = Refers(node'[b].ents[i], node'[b].depth)
    BY <2>1
  <2>3. b \in DOMAIN node /\ i \in DOMAIN node[b].ents /\ node'[b].depth = node[b].depth
    BY <1>1
  <2>4. s \in SlotsOf(node) /\ OwnedBy(node, s) = Refers(node[b].ents[i], node[b].depth)
    BY <2>2, <2>3, SlotIn
  <2>5. CASE s = z
    <3>1. b = leaf.blk /\ i = leaf.pos
      BY <2>2, <2>5
    <3> QED
      BY <3>1, <2>2, <2>4, <2>5, <1>1
  <2>6. CASE s # z
    <3>1. ~ (b = leaf.blk /\ i = leaf.pos)
      BY <2>2, <2>6
    <3>2. node'[b].ents[i] = node[b].ents[i]
      BY <3>1, <2>3, <1>1
    <3> QED
      BY <3>2, <2>2, <2>3, <2>4, <2>6
  <2> QED
    BY <2>5, <2>6
<1>3. z \in SlotsOf(node) /\ OwnedBy(node, z) = Refers(ex, 0)
  BY <1>1, SlotIn DEF ex
<1> QED
  BY <1>2, <1>3

\* So it keeps owners as long as what it newly refers to was nobody's.
LEMMA RewriteKeepsOwners ==
    ASSUME IInv, OwnerInv, path # <<>>, pc \in Working \cup {"fail"}, leaf.pos # 0,
           NEW e \in Entry, NEW X, Unowned(node, X),
           Refers(e, 0) \subseteq Refers(ex, 0) \cup X,
           node' = [node EXCEPT ![leaf.blk].ents[leaf.pos] = e]
    PROVE  /\ OwnersDiffer(node')
           /\ \A Y : Unowned(node, Y) /\ Y \cap X = {} => Unowned(node', Y)
<1> DEFINE z == <<leaf.blk, leaf.pos>>
<1>1. /\ z \in SlotsOf(node) /\ OwnedBy(node, z) = Refers(ex, 0)
      /\ \A s \in SlotsOf(node') :
            /\ s \in SlotsOf(node)
            /\ OwnedBy(node', s) = IF s = z THEN Refers(e, 0) ELSE OwnedBy(node, s)
  BY RewrittenSlots
<1> HIDE DEF z
<1>2. \A s \in SlotsOf(node') :
         /\ s \in SlotsOf(node)
         /\ OwnedBy(node', s) \subseteq OwnedBy(node, s) \cup (IF s = z THEN X ELSE {})
  BY <1>1
<1>3. OwnersDiffer(node)
  BY DEF OwnerInv
<1> QED
  BY ONLY <1>2, <1>3, Unowned(node, X), OwnersStay, ZenonT(60)

\* So does appending the new extent, whose blocks are nobody's.
LEMMA AppendKeepsOwners ==
    ASSUME IInv, OwnerInv, SoundCuts, SoundMerges, pc = "insert", AppendToExtent
    PROVE  OwnerInv'
<1>1. /\ leaf.pos # 0 /\ ext4_ext_can_append(ex, newext)
      /\ node' = [node EXCEPT ![leaf.blk].ents[leaf.pos] = Appended(ex, newext)]
      /\ Inserted(leaf.pos) /\ UNCHANGED <<free, np>>
  BY DEF AppendToExtent, CanAppend, split, ex
<1>2. pc \in Working /\ path # <<>> /\ newext \in Entry
  BY WorkingPath DEF Working, IInv, LocalInv, LocalType
<1>3. ex \in Entry
  BY <1>1, <1>2, LeafOfPath
<1>4. /\ Appended(ex, newext) \in Entry
      /\ Refers(Appended(ex, newext), 0) \subseteq Refers(ex, 0) \cup NewBlocks
  <2>1. ee_len(ex) + ee_len(newext) < InitMax
    BY DEF SoundMerges, AppendToExtent
  <2> QED
    BY <1>1, <1>2, <1>3, <2>1, MergedExtents, AppendedBlocks DEF NewBlocks
<1>5. Unowned(node, NewBlocks) /\ free \cap NewBlocks = {} /\ Unowned(node, free)
  BY DEF OwnerInv, NewInv, Inserting
<1>6. OwnersDiffer(node') /\ Unowned(node', free)
  BY <1>1, <1>2, <1>4, <1>5, RewriteKeepsOwners
<1>7. np' = <<>> /\ \E r : Return(r)
  BY <1>1, NoChain DEF Inserted, SoundCuts
<1> QED
  BY <1>1, <1>6, <1>7, ReturnKeepsOwners

\* A conversion has one cut to make.
LEMMA OneCutLeft ==
    ASSUME IInv, SoundCuts, todo # <<>>
    PROVE  Len(todo) = 1
<1>1. Len(todo) \in Nat \ {0}
  BY EmptySeq DEF IInv, LocalInv, LocalType
<1>2. \A n \in Nat \ {0} : n <= 1 => n = 1
  OBVIOUS
<1> QED
  BY <1>1, <1>2, Zenon DEF SoundCuts

\* Marking a whole extent changes no length and keeps owners.
LEMMA WholeKeepsOwners ==
    ASSUME IInv, OwnerInv, SoundCuts, CutWhole
    PROVE  OwnerInv'
<1> DEFINE e == IF "MARK_UNWRIT2" \in Head(todo).flag
                THEN ext4_ext_mark_unwritten(ex) ELSE ext4_ext_mark_initialized(ex)
<1>1. /\ pc = "splitat" /\ leaf.pos # 0 /\ UNCHANGED <<free, np>>
      /\ node' = [node EXCEPT ![leaf.blk].ents[leaf.pos] = e]
      /\ Len(todo) = 1 => Return(res)
  BY DEF CutWhole, CutHere, SplitExtentAt_whole, split, ex
<1>2. pc \in Working /\ path # <<>>
  BY <1>1, WorkingPath DEF Working
<1>3. ex \in Entry
  BY <1>1, <1>2, LeafOfPath
<1>4. e \in Entry
  BY <1>3, RawLengths
<1>6. Refers(e, 0) \subseteq Refers(ex, 0) \cup {}
  BY <1>3, MarkedLength DEF Refers
<1> HIDE DEF e
<1>7. Unowned(node, {}) /\ Unowned(node, free) /\ free \cap {} = {}
  BY DEF Unowned, OwnerInv
<1>8. OwnersDiffer(node') /\ Unowned(node', free)
  BY <1>1, <1>2, <1>4, <1>6, <1>7, RewriteKeepsOwners
<1>9. Len(todo) = 1
  BY <1>1, OneCutLeft DEF IInv, LocalInv, DataInv
<1> QED
  BY <1>1, <1>8, <1>9, NoChain, ReturnKeepsOwners

\* The two parts of an extent that was cut d blocks after its start.
LEMMA CutLengths ==
    ASSUME NEW e \in Entry, NEW f \in Entry, NEW n \in 0 .. InitMax - 1,
           NEW d \in 1 .. n - 1, e.len = AsRaw(d), f.len = AsRaw(n - d),
           NEW g \in {e, ext4_ext_mark_unwritten(e)},
           NEW h \in {f, ext4_ext_mark_unwritten(f)}
    PROVE  /\ ee_len(g) = d /\ ee_len(h) = n - d
           /\ g \in Entry /\ g.pblk = e.pblk /\ g.lblk = e.lblk
           /\ h \in Entry /\ h.pblk = f.pblk /\ h.lblk = f.lblk
<1>1. InitMax \in Nat /\ InitMax > 1
  BY InitMaxAssumption
<1>2. AsRaw(d) = d /\ AsRaw(n - d) = n - d
  <2>1. d \in 0 .. 2 * InitMax - 1 /\ n - d \in 0 .. 2 * InitMax - 1
    BY <1>1
  <2> QED
    BY <2>1, RawOf
<1>3. e.len = d /\ f.len = n - d /\ e.len < InitMax /\ f.len < InitMax
  BY <1>1, <1>2
<1>4. ee_len(e) = d /\ ee_len(f) = n - d
  BY <1>3, LengthValues
<1> QED
  BY <1>4, MarkedLength, RawLengths

\* The field of the part that is cut off: what the code subtracts from is negative
\* for an unwritten extent, and comes out right again in 16 bits.
LEMMA CutOffLength ==
    ASSUME NEW e \in Entry, NEW d \in 1 .. ee_len(e) - 1
    PROVE  AsRaw(ext4_ext_get_actual_len(e) - d) = AsRaw(ee_len(e) - d)
<1> DEFINE n == ee_len(e)
           a == ext4_ext_get_actual_len(e)
<1>1. InitMax \in Nat /\ InitMax > 1 /\ n \in 0 .. InitMax - 1
  BY InitMaxAssumption, RawLengths
<1>2. a = n \/ a = n - 2 * InitMax
  BY LengthValues
<1> HIDE DEF n, a
<1>3. n - d \in 0 .. 2 * InitMax - 1
  BY <1>1 DEF n
<1>4. CASE a = n - 2 * InitMax
  <2>1. a - d \in (0 - 2 * InitMax) .. (0 - 1) /\ a - d + 2 * InitMax = n - d
    BY <1>1, <1>3, <1>4
  <2>2. AsRaw(a - d) = n - d /\ AsRaw(n - d) = n - d
    BY <1>3, <2>1, RawOf
  <2> QED
    BY <2>2 DEF n, a
<1> QED
  BY <1>2, <1>4 DEF n, a

\* What cutting an extent does.
LEMMA CutEffect ==
    ASSUME IInv, OwnerInv, SoundCuts, CutPart
    PROVE  LET n == ee_len(ex)
           IN  /\ pc = "splitat" /\ pc' = "insert" /\ pc \in Working
               /\ leaf.pos # 0 /\ path # <<>> /\ np = <<>>
               /\ ex \in Entry /\ n \in 0 .. InitMax - 1
               /\ saved' = [blk |-> leaf.blk, pos |-> leaf.pos, len |-> n]
               /\ UNCHANGED <<free, np, todo, path>> /\ todo # <<>>
               /\ \E g \in Entry : \E d \in 1 .. n - 1 :
                     /\ node' = [node EXCEPT ![leaf.blk].ents[leaf.pos] = g]
                     /\ ee_len(g) = d
                     /\ g.pblk = ex.pblk /\ g.lblk = ex.lblk
                     /\ ee_len(newext') = n - d
                     /\ newext' \in Entry
                     /\ newext'.pblk = d + ex.pblk /\ newext'.lblk = ex.lblk + d
<1> DEFINE n == ee_len(ex)
           d == Head(todo).split - ex.lblk
           Mark(u, x) == IF u \in Head(todo).flag
                         THEN ext4_ext_mark_unwritten(x) ELSE x
           e == [ex EXCEPT !.len = AsRaw(d)]
           g == Mark("MARK_UNWRIT1", e)
           a == ext4_ext_get_actual_len(ex)
           f == [lblk |-> Head(todo).split, pblk |-> d + ex.pblk,
                 len  |-> AsRaw(a - d)]
<1>1. /\ pc = "splitat" /\ pc' = "insert" /\ leaf.pos # 0
      /\ Head(todo).split # ex.lblk
      /\ newext' = Mark("MARK_UNWRIT2", f)
      /\ saved' = [blk |-> leaf.blk, pos |-> leaf.pos, len |-> AsRaw(a)]
      /\ node' = [node EXCEPT ![leaf.blk].ents[leaf.pos] = g]
      /\ UNCHANGED <<free, np, todo, path>>
  BY DEF CutPart, CutHere, SplitExtentAt_cut, split, ex
<1>2. pc \in Working /\ path # <<>> /\ np = <<>>
  BY <1>1, WorkingPath, NoChain DEF Working
<1>3. ex \in Entry /\ ex.lblk \in Nat /\ ex.pblk \in Int
  BY <1>1, <1>2, LeafOfPath DEF Entry
<1>4. n \in 0 .. InitMax - 1
  BY <1>3, RawLengths
<1>5. todo # <<>> /\ Head(todo).split \in Nat
  <2>1. todo # <<>> /\ todo \in Seq(SplitStep)
    BY <1>1 DEF IInv, LocalInv, LocalType, DataInv
  <2>2. Head(todo) \in SplitStep
    BY <2>1, HeadTailProperties
  <2> QED
    BY <2>1, <2>2 DEF SplitStep
<1>6. d \in 1 .. n - 1 /\ Head(todo).split = ex.lblk + d
  <2>1. ex.lblk <= Head(todo).split /\ Head(todo).split < ex.lblk + n
    BY <1>1 DEF OwnerInv, CutInv, SoundCuts
  <2>2. \A i, j \in Nat : (i # j => i - j # 0) /\ i = j + (i - j)
    OBVIOUS
  <2>3. d # 0 /\ Head(todo).split = ex.lblk + d
    BY ONLY <1>1, <1>3, <1>5, <2>2, Zenon DEF d
  <2>4. d \in Int
    BY <1>3, <1>5
  <2> HIDE DEF d, n
  <2> QED
    BY <1>3, <1>4, <2>1, <2>3, <2>4, InitMaxAssumption
<1>7. e \in Entry /\ e.len = AsRaw(d) /\ e.pblk = ex.pblk /\ e.lblk = ex.lblk
  <2>1. AsRaw(d) \in RawLen
    <3> HIDE DEF d
    <3> QED
      BY <1>6, RawLengths
  <2> HIDE DEF d
  <2> QED
    BY <1>3, <2>1 DEF Entry
<1>8. f \in Entry /\ f.len = AsRaw(n - d) /\ f.pblk = d + ex.pblk /\ f.lblk = ex.lblk + d
  <2>1. n - d \in Int /\ d + ex.pblk \in Int
    <3> HIDE DEF d, n
    <3> QED
      BY <1>3, <1>4, <1>6, InitMaxAssumption
  <2>2. AsRaw(a - d) = AsRaw(n - d)
    BY <1>3, <1>6, CutOffLength
  <2>3. AsRaw(n - d) \in RawLen
    BY <2>1, RawLengths
  <2> HIDE DEF d, n, a
  <2> QED
    BY <1>5, <1>6, <2>1, <2>2, <2>3 DEF Entry
<1>9. /\ g \in {e, ext4_ext_mark_unwritten(e)}
      /\ newext' \in {f, ext4_ext_mark_unwritten(f)}
  BY <1>1
<1>12. saved' = [blk |-> leaf.blk, pos |-> leaf.pos, len |-> n]
  BY <1>1, <1>3, LengthValues
<1> HIDE DEF n, d, e, f, g, a
<1>10. /\ ee_len(g) = d /\ ee_len(newext') = n - d
       /\ g \in Entry /\ g.pblk = e.pblk /\ g.lblk = e.lblk
       /\ newext' \in Entry /\ newext'.pblk = f.pblk /\ newext'.lblk = f.lblk
  BY <1>4, <1>6, <1>7, <1>8, <1>9, CutLengths
<1>11. \E h \in Entry : \E i \in 1 .. n - 1 :
          /\ node' = [node EXCEPT ![leaf.blk].ents[leaf.pos] = h]
          /\ ee_len(h) = i
          /\ h.pblk = ex.pblk /\ h.lblk = ex.lblk
          /\ ee_len(newext') = n - i
          /\ newext' \in Entry
          /\ newext'.pblk = i + ex.pblk /\ newext'.lblk = ex.lblk + i
  <2>1. /\ node' = [node EXCEPT ![leaf.blk].ents[leaf.pos] = g]
        /\ g.pblk = ex.pblk /\ g.lblk = ex.lblk
        /\ newext'.pblk = d + ex.pblk /\ newext'.lblk = ex.lblk + d
    BY <1>1, <1>7, <1>8, <1>10
  <2> QED
    BY <2>1, <1>6, <1>10
<1> QED
  BY <1>1, <1>2, <1>3, <1>4, <1>5, <1>11, <1>12 DEF n

\* A run of n numbers from a, cut at d, is the run before the cut and the
\* run after it, and the two have nothing in common.
LEMMA CutRun ==
    ASSUME NEW a \in Int, NEW n \in Nat, NEW d \in Nat, d <= n
    PROVE  /\ a .. a + d - 1 \subseteq a .. a + n - 1
           /\ a + d .. a + n - 1 \subseteq a .. a + n - 1
           /\ (a + d .. a + n - 1) \cap (a .. a + d - 1) = {}
           /\ a .. a + n - 1 \subseteq (a .. a + d - 1) \cup (a + d .. a + n - 1)
<1>1. a .. a + d - 1 \subseteq a .. a + n - 1
  OBVIOUS
<1>2. a + d .. a + n - 1 \subseteq a .. a + n - 1
  OBVIOUS
<1>3. (a + d .. a + n - 1) \cap (a .. a + d - 1) = {}
  OBVIOUS
<1>4. a .. a + n - 1 \subseteq (a .. a + d - 1) \cup (a + d .. a + n - 1)
  OBVIOUS
<1> QED
  BY ONLY <1>1, <1>2, <1>3, <1>4

\* Cutting an extent shares its blocks out between the slot and newext.
LEMMA CutKeepsOwners ==
    ASSUME IInv, OwnerInv, SoundCuts, CutPart
    PROVE  OwnerInv'
<1> DEFINE n == ee_len(ex)
           z == <<leaf.blk, leaf.pos>>
<1>1. /\ pc = "splitat" /\ pc' = "insert" /\ leaf.pos # 0
      /\ saved' = [blk |-> leaf.blk, pos |-> leaf.pos, len |-> n]
      /\ UNCHANGED <<free, np, todo>>
  BY CutEffect
<1>2. pc \in Working /\ path # <<>> /\ np = <<>>
  BY CutEffect
<1>3. ex \in Entry
  BY CutEffect
<1>4. n \in 0 .. InitMax - 1
  BY CutEffect
<1>5. PICK g \in Entry : \E d \in 1 .. n - 1 :
         /\ node' = [node EXCEPT ![leaf.blk].ents[leaf.pos] = g]
         /\ ee_len(g) = d
         /\ g.pblk = ex.pblk /\ g.lblk = ex.lblk
         /\ ee_len(newext') = n - d
         /\ newext' \in Entry
         /\ newext'.pblk = d + ex.pblk /\ newext'.lblk = ex.lblk + d
  BY CutEffect
<1>6. PICK d \in 1 .. n - 1 :
         /\ node' = [node EXCEPT ![leaf.blk].ents[leaf.pos] = g]
         /\ ee_len(g) = d /\ g.pblk = ex.pblk
         /\ ee_len(newext') = n - d /\ newext'.pblk = d + ex.pblk
  BY <1>5
<1> HIDE DEF n
<1>9. g \in Entry /\ g.pblk = ex.pblk
  BY <1>6
<1>10. /\ Refers(g, 0) = ex.pblk .. ex.pblk + d - 1
       /\ NewBlocks' = ex.pblk + d .. ex.pblk + n - 1
       /\ ee_len(newext') >= 1
  <2>1. n \in Nat /\ d \in Nat /\ n - d >= 1 /\ ex.pblk \in Int
    BY <1>3, <1>4, InitMaxAssumption DEF Entry
  <2>2. Refers(newext', 0) = d + ex.pblk .. d + ex.pblk + (n - d) - 1
    BY <1>6 DEF Refers
  <2>3. d + ex.pblk + (n - d) - 1 = ex.pblk + n - 1 /\ d + ex.pblk = ex.pblk + d
    BY <2>1
  <2>4. Refers(g, 0) = ex.pblk .. ex.pblk + d - 1
    BY <1>6 DEF Refers
  <2> QED
    BY <1>6, <2>1, <2>2, <2>3, <2>4 DEF NewBlocks
<1>11. Refers(ex, 0) = ex.pblk .. ex.pblk + n - 1 /\ ex.pblk \in Int
  BY <1>3 DEF Refers, n, Entry
<1>12. /\ Refers(g, 0) \subseteq Refers(ex, 0)
       /\ NewBlocks' \subseteq Refers(ex, 0)
       /\ NewBlocks' \cap Refers(g, 0) = {}
       /\ Refers(ex, 0) \subseteq Refers(g, 0) \cup NewBlocks'
  <2>1. n \in Nat /\ d \in Nat /\ d <= n
    BY <1>4, InitMaxAssumption
  <2>2. PICK a \in Int : a = ex.pblk
    BY <1>11
  <2>3. /\ Refers(g, 0) = a .. a + d - 1
        /\ NewBlocks' = a + d .. a + n - 1
        /\ Refers(ex, 0) = a .. a + n - 1
    BY ONLY <2>2, <1>10, <1>11
  <2>4. /\ a .. a + d - 1 \subseteq a .. a + n - 1
        /\ a + d .. a + n - 1 \subseteq a .. a + n - 1
        /\ (a + d .. a + n - 1) \cap (a .. a + d - 1) = {}
        /\ a .. a + n - 1 \subseteq (a .. a + d - 1) \cup (a + d .. a + n - 1)
    BY ONLY <2>1, <2>2, CutRun
  <2> QED
    BY ONLY <2>3, <2>4
<1>13. /\ z \in SlotsOf(node) /\ OwnedBy(node, z) = Refers(ex, 0)
       /\ \A s \in SlotsOf(node') :
             /\ s \in SlotsOf(node)
             /\ OwnedBy(node', s) = IF s = z THEN Refers(g, 0) ELSE OwnedBy(node, s)
  BY <1>1, <1>2, <1>6, <1>9, RewrittenSlots
<1>14. OwnersDiffer(node') /\ Unowned(node', free)
  <2>1. Unowned(node, {}) /\ Unowned(node, free) /\ free \cap {} = {}
    BY DEF Unowned, OwnerInv
  <2>2. Refers(g, 0) \subseteq Refers(ex, 0) \cup {}
    BY <1>12
  <2> QED
    BY <1>1, <1>2, <1>6, <1>9, <2>1, <2>2, RewriteKeepsOwners
<1>15. NewInv'
  <2>1. Unowned(node', NewBlocks')
    <3> SUFFICES ASSUME NEW s \in SlotsOf(node')
                 PROVE  NewBlocks' \cap OwnedBy(node', s) = {}
      BY DEF Unowned
    <3>1. CASE s = z
      BY <3>1, <1>12, <1>13
    <3>2. CASE s # z
      <4>1. OwnedBy(node, s) \cap OwnedBy(node, z) = {}
        BY <3>2, <1>13 DEF OwnerInv, OwnersDiffer
      <4> QED
        BY <3>2, <4>1, <1>12, <1>13
    <3> QED
      BY <3>1, <3>2
  <2>2. NewBlocks' \cap free = {}
    <3>1. free \cap OwnedBy(node, z) = {}
      BY <1>13 DEF OwnerInv, Unowned
    <3> QED
      BY <3>1, <1>12, <1>13
  <2> QED
    BY <1>1, <1>10, <2>1, <2>2 DEF NewInv
<1>16. ChainInv' /\ CutInv'
  BY <1>1, <1>2 DEF ChainInv, CutInv
<1>17. SavedInv'
  <2>1. /\ leaf.blk \in DOMAIN node' /\ node'[leaf.blk].ents[leaf.pos] = g
    <3>1. /\ DOMAIN node' = DOMAIN node /\ leaf.blk \in DOMAIN node
          /\ leaf.pos \in DOMAIN node[leaf.blk].ents
          /\ \A i \in DOMAIN node[leaf.blk].ents :
                node'[leaf.blk].ents[i] =
                   IF i = leaf.pos THEN g ELSE node[leaf.blk].ents[i]
      BY <1>1, <1>2, <1>6, <1>9, RewriteEffect
    <3> QED
      BY <3>1
  <2>2. saved'.blk = leaf.blk /\ saved'.pos = leaf.pos /\ saved'.len = n
    BY <1>1
  <2>3. n < InitMax /\ 1 .. Len(np') = {}
    <3>1. Len(np') = 0
      BY <1>1, <1>2, EmptySeq
    <3> QED
      BY <1>4, <3>1, InitMaxAssumption
  <2>4. g.pblk .. g.pblk + n - 1 \subseteq Refers(g, 0) \cup NewBlocks'
    BY <1>9, <1>11, <1>12
  <2> QED
    BY <2>1, <2>2, <2>3, <2>4 DEF SavedInv
<1> QED
  BY <1>1, <1>14, <1>15, <1>16, <1>17 DEF OwnerInv

-----------------------------------------------------------------------------
(* Steps of an insertion that has failed.                                  *)

\* Putting the length back takes from newext what the cut has given it.
LEMMA RestoreKeepsOwners ==
    ASSUME IInv, OwnerInv, SoundCuts, restore_extent_len
    PROVE  OwnerInv'
<1> DEFINE sb == saved.blk
           sp == saved.pos
           z == <<sb, sp>>
<1>1. /\ pc = "fail" /\ todo # <<>> /\ UNCHANGED <<free, np>>
      /\ node' = [node EXCEPT ![sb].ents[sp].len = saved.len]
      /\ Len(todo) = 1 => Return(res)
  BY DEF restore_extent_len, Converting, split
<1>2. /\ saved.len < InitMax /\ saved.len \in RawLen
      /\ node[sb].depth = 0 /\ sp \in DOMAIN node[sb].ents =>
            node[sb].ents[sp].pblk .. node[sb].ents[sp].pblk + saved.len - 1
               \subseteq Refers(node[sb].ents[sp], 0) \cup NewBlocks
  BY <1>1 DEF OwnerInv, SavedInv, Inserting, IInv, LocalInv, LocalType
<1> HIDE DEF sb, sp
<1>3. /\ DOMAIN node' = DOMAIN node
      /\ \A b \in DOMAIN node :
            /\ node'[b].depth = node[b].depth
            /\ DOMAIN node'[b].ents = DOMAIN node[b].ents
            /\ \A i \in DOMAIN node[b].ents :
                  node'[b].ents[i] =
                     IF b = sb /\ i = sp
                     THEN [node[b].ents[i] EXCEPT !.len = saved.len]
                     ELSE node[b].ents[i]
  BY <1>1, RestoreEffect
<1>4. ASSUME NEW s \in SlotsOf(node')
      PROVE  /\ s \in SlotsOf(node)
             /\ OwnedBy(node', s) \subseteq
                   OwnedBy(node, s) \cup (IF s = z THEN NewBlocks ELSE {})
  <2>1. PICK b \in DOMAIN node' : \E i \in DOMAIN node'[b].ents :
           s = <<b, i>> /\ OwnedBy(node', s) = Refers(node'[b].ents[i], node'[b].depth)
    BY DEF SlotsOf, OwnedBy
  <2>2. PICK i \in DOMAIN node'[b].ents :
           s = <<b, i>> /\ OwnedBy(node', s) = Refers(node'[b].ents[i], node'[b].depth)
    BY <2>1
  <2>3. b \in DOMAIN node /\ i \in DOMAIN node[b].ents /\ node'[b].depth = node[b].depth
    BY <1>3
  <2>4. s \in SlotsOf(node) /\ OwnedBy(node, s) = Refers(node[b].ents[i], node[b].depth)
    BY <2>2, <2>3, SlotIn
  <2>5. CASE b = sb /\ i = sp
    <3> DEFINE o == node[b].ents[i]
               e == [o EXCEPT !.len = saved.len]
    <3>1. o \in Entry /\ node[b].depth \in Nat
      BY <2>3, LiveNode
    <3>2. e.pblk = o.pblk /\ e.len = saved.len /\ node'[b].ents[i] = e
      BY <3>1, <2>3, <2>5, <1>3 DEF Entry
    <3> HIDE DEF e
    <3>3. CASE node[b].depth > 0
      <4>1. OwnedBy(node', s) = {e.pblk} /\ OwnedBy(node, s) = {o.pblk}
        BY <3>2, <3>3, <2>2, <2>3, <2>4 DEF Refers
      <4> QED
        BY <4>1, <3>2, <2>4
    <3>4. CASE node[b].depth = 0
      <4>1. ee_len(e) = saved.len
        <5>1. e \in Entry
          BY <3>1, <1>2 DEF e, Entry
        <5> QED
          BY <5>1, <3>2, <1>2, LengthValues
      <4>2. OwnedBy(node', s) = o.pblk .. o.pblk + saved.len - 1
        BY <4>1, <3>2, <3>4, <2>2, <2>3 DEF Refers
      <4>3. OwnedBy(node, s) = Refers(o, 0)
        BY <3>4, <2>4
      <4>4. s = z
        BY <2>2, <2>5
      <4> HIDE DEF z
      <4> QED
        BY <4>2, <4>3, <4>4, <3>4, <2>3, <2>4, <2>5, <1>2
    <3> QED
      BY <3>1, <3>3, <3>4
  <2>6. CASE ~ (b = sb /\ i = sp)
    <3>1. node'[b].ents[i] = node[b].ents[i]
      BY <2>3, <2>6, <1>3
    <3>2. OwnedBy(node', s) = OwnedBy(node, s)
      BY <3>1, <2>2, <2>3, <2>4
    <3> QED
      BY <3>2, <2>4
  <2> QED
    BY <2>5, <2>6
<1>5. /\ OwnersDiffer(node) /\ Unowned(node, NewBlocks)
      /\ Unowned(node, free) /\ free \cap NewBlocks = {}
  BY <1>1 DEF OwnerInv, NewInv, Inserting
<1> HIDE DEF z
<1>6. /\ OwnersDiffer(node')
      /\ \A Y : Unowned(node, Y) /\ Y \cap NewBlocks = {} => Unowned(node', Y)
  BY ONLY <1>4, <1>5, OwnersStay, ZenonT(60)
<1>7. Return(res) /\ np' = <<>>
  BY <1>1, OneCutLeft, NoChain
<1>8. Unowned(node', free')
  BY <1>1, <1>5, <1>6
<1> QED
  BY <1>6, <1>7, <1>8, ReturnKeepsOwners

\* The data block that is given back was nobody's.
LEMMA FreeDataKeepsOwners ==
    ASSUME IInv, OwnerInv, FreeData
    PROVE  OwnerInv'
<1>1. /\ pc = "fail" /\ free' = free \cup {newext.pblk} /\ Return(EFAIL)
      /\ UNCHANGED <<node, np>>
  BY DEF FreeData, split
<1>2. newext.pblk \in NewBlocks
  <2>1. newext \in Entry /\ ee_len(newext) >= 1
    BY <1>1 DEF OwnerInv, NewInv, Inserting, IInv, LocalInv, LocalType
  <2>2. newext.pblk \in Int /\ ee_len(newext) \in 0 .. InitMax - 1
    BY <2>1, RawLengths DEF Entry
  <2> QED
    BY <2>1, <2>2, InitMaxAssumption DEF NewBlocks, Refers
<1>3. Unowned(node, NewBlocks) /\ Unowned(node, free) /\ OwnersDiffer(node)
  BY <1>1 DEF OwnerInv, NewInv, Inserting
<1>4. Unowned(node', free') /\ OwnersDiffer(node')
  BY <1>1, <1>2, <1>3 DEF Unowned
<1> QED
  BY <1>1, <1>4, NoChain, ReturnKeepsOwners

\* Neither a failure nor the start of a split changes the tree.
LEMMA FailKeepsOwners ==
    ASSUME IInv, OwnerInv,
           \/ RestoreWithoutPath \/ GrowFails
           \/ pc = "insert" /\ NeedSplit
           \/ pc = "insert" /\ SameStart /\ ext4_ext_insert_leaf
    PROVE  OwnerInv'
<1>1. /\ pc \in {"fail", "grow", "insert"}
      /\ pc' \in {"bugcheck", "fail", "grow", "split"}
      /\ UNCHANGED <<node, free, newext, saved, todo>>
  BY DEF RestoreWithoutPath, GrowFails, NeedSplit, StartSplit,
     ext4_ext_insert_leaf, tree, conv
<1>2. np' = np
  BY <1>1, NoChain DEF RestoreWithoutPath, GrowFails, NeedSplit, StartSplit,
     ext4_ext_insert_leaf, split
<1> QED
  BY <1>1, <1>2, SameOwners DEF Inserting

-----------------------------------------------------------------------------
(* Steps that insert an entry.                                             *)

\* Tree nn is tree nd with entry e put into slot p of node c, the later entries
\* being moved up; the other slots refer to what they did.
EntryPut(nd, nn, c, p, e) ==
    LET n == Len(nd[c].ents)
    IN  /\ c \in DOMAIN nd /\ n \in Nat /\ p \in 1 .. n + 1
        /\ DOMAIN nn = DOMAIN nd
        /\ \A b \in DOMAIN nd : nn[b].depth = nd[b].depth
        /\ DOMAIN nd[c].ents = 1 .. n /\ DOMAIN nn[c].ents = 1 .. n + 1
        /\ \A i \in 1 .. n + 1 :
              nn[c].ents[i] = IF i < p THEN nd[c].ents[i]
                              ELSE IF i = p THEN e ELSE nd[c].ents[i - 1]
        /\ \A b \in DOMAIN nd : b # c =>
              /\ DOMAIN nn[b].ents = DOMAIN nd[b].ents
              /\ \A i \in DOMAIN nd[b].ents :
                    Refers(nn[b].ents[i], nd[b].depth) =
                       Refers(nd[b].ents[i], nd[b].depth)

\* That keeps owners if what the entry refers to was nobody's.
LEMMA EntryInserted ==
    ASSUME NEW nd, NEW nn, NEW c, NEW p, NEW e, NEW X,
           OwnersDiffer(nd), Unowned(nd, X), Refers(e, nd[c].depth) \subseteq X,
           EntryPut(nd, nn, c, p, e)
    PROVE  /\ OwnersDiffer(nn)
           /\ \A Y : Unowned(nd, Y) /\ Y \cap X = {} => Unowned(nn, Y)
<1> DEFINE n == Len(nd[c].ents)
<1>0. /\ c \in DOMAIN nd /\ n \in Nat /\ p \in 1 .. n + 1
      /\ DOMAIN nn = DOMAIN nd /\ nn[c].depth = nd[c].depth
      /\ DOMAIN nd[c].ents = 1 .. n /\ DOMAIN nn[c].ents = 1 .. n + 1
      /\ \A i \in 1 .. n + 1 :
            nn[c].ents[i] = IF i < p THEN nd[c].ents[i]
                            ELSE IF i = p THEN e ELSE nd[c].ents[i - 1]
      /\ \A b \in DOMAIN nd : b # c =>
            /\ DOMAIN nn[b].ents = DOMAIN nd[b].ents
            /\ \A i \in DOMAIN nd[b].ents :
                  Refers(nn[b].ents[i], nn[b].depth) =
                     Refers(nd[b].ents[i], nd[b].depth)
  BY DEF EntryPut
<1> HIDE DEF n
<1> DEFINE F(s) == IF s[1] # c \/ s[2] < p THEN s
                   ELSE IF s[2] = p THEN <<c, 0>> ELSE <<c, s[2] - 1>>
           f == [s \in SlotsOf(nn) |-> F(s)]
           z == <<c, p>>
<1>1. \A s \in SlotsOf(nn) : f[s] = F(s)
  OBVIOUS
<1> HIDE DEF f
<1>2. ASSUME NEW s \in SlotsOf(nn)
      PROVE  \E b \in DOMAIN nd : \E i \in DOMAIN nn[b].ents :
                /\ s = <<b, i>> /\ (b = c => i \in 1 .. n + 1)
                /\ OwnedBy(nn, s) = Refers(nn[b].ents[i], nn[b].depth)
  BY <1>0, SlotOut
<1>3. ASSUME NEW s \in SlotsOf(nn)
      PROVE  OwnedBy(nn, s) \subseteq
                (IF f[s] \in SlotsOf(nd) THEN OwnedBy(nd, f[s]) ELSE {})
                   \cup (IF s = z THEN X ELSE {})
  <2> PICK b \in DOMAIN nd : \E i \in DOMAIN nn[b].ents :
         s = <<b, i>> /\ OwnedBy(nn, s) = Refers(nn[b].ents[i], nn[b].depth)
    BY <1>2
  <2>1. PICK i \in DOMAIN nn[b].ents :
           s = <<b, i>> /\ OwnedBy(nn, s) = Refers(nn[b].ents[i], nn[b].depth)
    OBVIOUS
  <2>2. CASE b # c
    <3>1. f[s] = s
      BY <1>1, <2>1, <2>2
    <3>2. s \in SlotsOf(nd) /\ OwnedBy(nd, s) = Refers(nd[b].ents[i], nd[b].depth)
      BY <1>0, <2>1, <2>2, SlotIn
    <3>3. OwnedBy(nn, s) = OwnedBy(nd, s)
      BY <1>0, <3>2, <2>1, <2>2
    <3> QED
      BY <3>1, <3>2, <3>3
  <2>3. CASE b = c
    <3>1. i \in 1 .. n + 1 /\ s[1] = c /\ s[2] = i
      BY <1>0, <2>1, <2>3
    <3>2. CASE i < p
      <4>1. i \in DOMAIN nd[c].ents /\ nn[c].ents[i] = nd[c].ents[i]
        BY <1>0, <3>1, <3>2
      <4>2. f[s] = s
        BY <1>1, <3>1, <3>2
      <4>3. s \in SlotsOf(nd) /\ OwnedBy(nd, s) = Refers(nd[c].ents[i], nd[c].depth)
        BY <1>0, <2>1, <2>3, <4>1, SlotIn
      <4>4. OwnedBy(nn, s) = OwnedBy(nd, s)
        BY <1>0, <4>1, <4>3, <2>1, <2>3
      <4> QED
        BY <4>2, <4>3, <4>4
    <3>3. CASE i = p
      <4>1. nn[c].ents[i] = e /\ s = z
        BY <1>0, <3>1, <3>3, <2>1, <2>3
      <4>2. OwnedBy(nn, s) \subseteq X
        BY <1>0, <4>1, <2>1, <2>3
      <4> QED
        BY <4>1, <4>2
    <3>4. CASE i > p
      <4>1. i - 1 \in DOMAIN nd[c].ents /\ nn[c].ents[i] = nd[c].ents[i - 1]
        BY <1>0, <3>1, <3>4
      <4>2. f[s] = <<c, i - 1>>
        <5>1. ~ (i < p) /\ i # p
          BY <1>0, <3>1, <3>4
        <5> QED
          BY <1>1, <3>1, <5>1
      <4>3. /\ <<c, i - 1>> \in SlotsOf(nd)
            /\ OwnedBy(nd, <<c, i - 1>>) = Refers(nd[c].ents[i - 1], nd[c].depth)
        BY <1>0, <4>1, SlotIn
      <4>4. OwnedBy(nn, s) = OwnedBy(nd, f[s]) /\ f[s] \in SlotsOf(nd)
        BY <1>0, <4>1, <4>2, <4>3, <2>1, <2>3
      <4> QED
        BY <4>4
    <3> QED
      BY <1>0, <3>1, <3>2, <3>3, <3>4
  <2> QED
    BY <2>2, <2>3
<1>4. ASSUME NEW s \in SlotsOf(nn), NEW t \in SlotsOf(nn), s # t
      PROVE  f[s] # f[t]
  <2> PICK b \in DOMAIN nd : \E i \in DOMAIN nn[b].ents : s = <<b, i>>
    BY <1>2
  <2>1. PICK i \in DOMAIN nn[b].ents : s = <<b, i>>
    OBVIOUS
  <2> PICK d \in DOMAIN nd : \E j \in DOMAIN nn[d].ents : t = <<d, j>>
    BY <1>2
  <2>2. PICK j \in DOMAIN nn[d].ents : t = <<d, j>>
    OBVIOUS
  <2>3. /\ f[s] = (IF b # c \/ i < p THEN <<b, i>>
                   ELSE IF i = p THEN <<c, 0>> ELSE <<c, i - 1>>)
        /\ f[t] = (IF d # c \/ j < p THEN <<d, j>>
                   ELSE IF j = p THEN <<c, 0>> ELSE <<c, j - 1>>)
    BY <1>1, <2>1, <2>2
  <2>4. f[s][1] = b /\ f[t][1] = d
    BY <2>3
  <2>5. CASE b # d
    BY <2>4, <2>5
  <2>6. CASE b = d /\ b # c
    BY <1>4, <2>1, <2>2, <2>3, <2>6
  <2>7. CASE b = d /\ b = c
    <3>1. i \in 1 .. n + 1 /\ j \in 1 .. n + 1 /\ i # j
      BY <1>0, <1>4, <2>1, <2>2, <2>7
    <3>2. /\ f[s][2] = IF i < p THEN i ELSE IF i = p THEN 0 ELSE i - 1
          /\ f[t][2] = IF j < p THEN j ELSE IF j = p THEN 0 ELSE j - 1
      BY <2>3, <2>7
    <3>3. f[s][2] # f[t][2]
      BY <1>0, <3>1, <3>2
    <3> QED
      BY <3>3
  <2> QED
    BY <2>5, <2>6, <2>7
<1> HIDE DEF z
<1>5. OwnersDiffer(nd) /\ Unowned(nd, X)
  OBVIOUS
<1> QED
  BY ONLY <1>3, <1>4, <1>5, OwnersMoved, ZenonT(60)

\* The new extent enters a leaf; the indexes above change in their first blocks
\* only.
LEMMA InsertKeepsOwners ==
    ASSUME IInv, OwnerInv, SoundCuts, pc = "insert", InsertIntoLeaf
    PROVE  OwnerInv'
<1> DEFINE lb == leaf.blk
           n == Len(node[lb].ents)
<1>1. /\ DOMAIN node' = DOMAIN node /\ lb \in DOMAIN node
      /\ node[lb].depth = 0 /\ n \in Nat
      /\ InsertSlot \in 1 .. n + 1
      /\ \A b \in DOMAIN node : node'[b].depth = node[b].depth
      /\ DOMAIN node'[lb].ents = 1 .. n + 1
      /\ \A i \in 1 .. n + 1 :
            node'[lb].ents[i] = IF i < InsertSlot THEN node[lb].ents[i]
                                ELSE IF i = InsertSlot THEN newext
                                ELSE node[lb].ents[i - 1]
      /\ node'[lb].ents[1].lblk \in Nat
      /\ \A b \in DOMAIN node : b # lb =>
            node'[b].ents = ext4_ext_correct_indexes(b, node'[lb].ents[1].lblk)
  BY InsertEffect
<1>2. UNCHANGED <<free, np>> /\ Inserted(InsertSlot)
  BY DEF InsertIntoLeaf, split
<1> HIDE DEF lb
<1>3. DOMAIN node[lb].ents = 1 .. n
  BY <1>1, LiveNode
<1>4. ASSUME NEW b \in DOMAIN node, b # lb
      PROVE  /\ DOMAIN node'[b].ents = DOMAIN node[b].ents
             /\ \A i \in DOMAIN node[b].ents :
                   Refers(node'[b].ents[i], node[b].depth) =
                      Refers(node[b].ents[i], node[b].depth)
  <2> DEFINE border == node'[lb].ents[1].lblk
  <2>0. node'[b].ents = ext4_ext_correct_indexes(b, border)
    BY <1>1, <1>4
  <2> HIDE DEF border
  <2>1. /\ DOMAIN node'[b].ents = DOMAIN node[b].ents
        /\ \A i \in DOMAIN node[b].ents :
              node'[b].ents[i] \in {node[b].ents[i],
                                    [node[b].ents[i] EXCEPT !.lblk = border]}
    BY <2>0 DEF ext4_ext_correct_indexes
  <2>2. \A i \in DOMAIN node[b].ents : node[b].ents[i] \in Entry
    BY LiveNode
  <2>3. \A i \in DOMAIN node[b].ents :
           /\ node'[b].ents[i].pblk = node[b].ents[i].pblk
           /\ node'[b].ents[i].len = node[b].ents[i].len
    BY <2>1, <2>2 DEF Entry
  <2>4. \A i \in DOMAIN node[b].ents :
           ee_len(node'[b].ents[i]) = ee_len(node[b].ents[i])
    BY <2>3, SameLength
  <2> QED
    BY <2>1, <2>3, <2>4 DEF Refers
<1>5. /\ OwnersDiffer(node) /\ Unowned(node, NewBlocks)
      /\ Unowned(node, free) /\ free \cap NewBlocks = {}
  BY DEF OwnerInv, NewInv, Inserting
<1>6. Refers(newext, node[lb].depth) \subseteq NewBlocks
  BY <1>1 DEF NewBlocks
<1>10. EntryPut(node, node', lb, InsertSlot, newext)
  BY <1>1, <1>3, <1>4 DEF EntryPut
<1>7. /\ OwnersDiffer(node')
      /\ \A Y : Unowned(node, Y) /\ Y \cap NewBlocks = {} => Unowned(node', Y)
  BY ONLY <1>5, <1>6, <1>10, EntryInserted, ZenonT(60)
<1>8. np' = <<>> /\ \E r : Return(r)
  BY <1>2, NoChain DEF Inserted, SoundCuts
<1>9. Unowned(node', free')
  BY <1>2, <1>5, <1>7
<1> QED
  BY <1>7, <1>8, <1>9, ReturnKeepsOwners

\* An index of a new node refers to that node.
LEMMA IndexRefers ==
    ASSUME NEW d, NEW l, NEW b \in Int
    PROVE  Refers([lblk |-> l, pblk |-> b, len |-> 0], d) \subseteq {b}
<1> DEFINE e == [lblk |-> l, pblk |-> b, len |-> 0]
<1>1. ee_len(e) = 0
  <2>1. e.len = 0 /\ 0 \in 0 .. InitMax - 1
    BY InitMaxAssumption
  <2> HIDE DEF e
  <2> QED
    BY <2>1, PlainLength
<1>2. e.pblk = b
  OBVIOUS
<1> HIDE DEF e
<1>3. b .. b + 0 - 1 = {}
  OBVIOUS
<1>4. Refers(e, d) = {b} \/ Refers(e, d) = b .. b + 0 - 1
  BY <1>1, <1>2 DEF Refers
<1>5. Refers(e, d) \subseteq {b}
  BY <1>3, <1>4
<1> QED
  BY <1>5 DEF e

\* The topmost block of a split gets its owner.
LEMMA LinkKeepsOwners ==
    ASSUME IInv, OwnerInv, pc = "link", LinkIndex
    PROVE  OwnerInv'
<1> DEFINE c == path[at - 1].blk
           n == Len(node[c].ents)
           ix == [lblk |-> key, pblk |-> np[1], len |-> 0]
           X == {np[1]}
<1>1. /\ free' = free /\ DOMAIN node' = DOMAIN node
      /\ \A x \in DOMAIN node : x # c => node'[x] = node[x]
      /\ node'[c].depth = node[c].depth
      /\ DOMAIN node'[c].ents = 1 .. n + 1
      /\ \A i \in 1 .. n + 1 :
            node'[c].ents[i] = IF i < LinkSlot THEN node[c].ents[i]
                               ELSE IF i = LinkSlot THEN ix
                               ELSE node[c].ents[i - 1]
  BY LinkEffect
<1>2. /\ c \in DOMAIN node /\ node[c].depth > 0 /\ np[1] \in Int
      /\ LinkSlot \in 1 .. n + 1 /\ Len(np) \in Nat \ {0}
  BY LinkPlace
<1>3. DOMAIN node[c].ents = 1 .. n /\ n \in Nat /\ node[c].depth \in Nat
  BY <1>2, LiveNode
<1>4. pc' = "insert" /\ np' = <<>> /\ UNCHANGED <<newext, todo, saved>>
  BY DEF LinkIndex, conv
<1>5. Refers(ix, node[c].depth) \subseteq X
  BY <1>2, IndexRefers
<1> HIDE DEF c, ix
<1>6. EntryPut(node, node', c, LinkSlot, ix)
  BY <1>1, <1>2, <1>3 DEF EntryPut
<1>7. np # <<>> /\ np[1] \in DOMAIN node
  <2>1. np # <<>> /\ 1 \in 1 .. Len(np)
    BY <1>2, EmptySeq DEF IInv, LocalInv, LocalType
  <2> QED
    BY <2>1 DEF IInv, LocalInv, SplitInv
<1>8. /\ OwnersDiffer(node) /\ Unowned(node, X) /\ Unowned(node, free)
      /\ Unowned(node, NewBlocks)
  BY <1>7 DEF OwnerInv, ChainInv, NewInv, Inserting
<1>9. free \cap X = {} /\ NewBlocks \cap X = {}
  BY <1>7 DEF OwnerInv, ChainInv, IInv, TreeInv, NodesNotFree
<1> HIDE DEF X
<1>10. /\ OwnersDiffer(node')
       /\ \A Y : Unowned(node, Y) /\ Y \cap X = {} => Unowned(node', Y)
  BY ONLY <1>5, <1>6, <1>8, EntryInserted, ZenonT(60)
<1>11. Unowned(node', free') /\ Unowned(node', NewBlocks) /\ NewBlocks' = NewBlocks
  BY <1>1, <1>4, <1>8, <1>9, <1>10 DEF NewBlocks
<1>12. NewInv'
  <2>1. ee_len(newext) >= 1 /\ NewBlocks \cap free = {}
    BY DEF OwnerInv, NewInv, Inserting
  <2> QED
    BY <1>1, <1>4, <1>11, <2>1 DEF NewInv
<1>13. ChainInv' /\ CutInv'
  BY <1>4 DEF ChainInv, CutInv
<1>14. SavedInv'
  <2> SUFFICES ASSUME todo # <<>> PROVE SavedInv'
    BY <1>4 DEF SavedInv
  <2>1. /\ saved.blk \in DOMAIN node /\ saved.len < InitMax
        /\ node[saved.blk].depth = 0 /\ saved.pos \in DOMAIN node[saved.blk].ents =>
              LET e == node[saved.blk].ents[saved.pos]
              IN  e.pblk .. e.pblk + saved.len - 1 \subseteq Refers(e, 0) \cup NewBlocks
    BY DEF OwnerInv, SavedInv, Inserting
  <2>2. node'[saved.blk].depth = 0 => node'[saved.blk] = node[saved.blk]
    BY <1>1, <1>2, <1>3, <2>1
  <2>3. 1 .. Len(np') = {}
    <3>1. Len(np') = 0
      BY <1>4, EmptySeq
    <3> QED
      BY <3>1
  <2>4. UNCHANGED <<saved, todo, NewBlocks>> /\ saved.blk \in DOMAIN node'
    BY <1>1, <1>4, <1>11, <2>1
  <2> QED
    BY <2>1, <2>2, <2>3, <2>4 DEF SavedInv
<1> QED
  BY <1>10, <1>11, <1>12, <1>13, <1>14 DEF OwnerInv

-----------------------------------------------------------------------------
(* Steps that move entries to a new node.                                  *)

\* The root's entries move to a block that was free, which becomes their owner's
\* only entry.
LEMMA GrowKeepsOwners ==
    ASSUME IInv, OwnerInv, ext4_ext_grow_indepth
    PROVE  OwnerInv'
<1>1. PICK b \in free :
         /\ free' = free \ {b}
         /\ b \notin DOMAIN node /\ b # Root /\ b \in PBlk
         /\ DOMAIN node' = DOMAIN node \cup {b}
         /\ node'[b].depth = depth /\ node'[b].ents = node[Root].ents
         /\ node'[Root].depth = depth + 1
         /\ node'[Root].ents = << [lblk |-> node[Root].ents[1].lblk,
                                   pblk |-> b, len |-> 0] >>
         /\ \A c \in DOMAIN node : c # Root => node'[c] = node[c]
  BY GrowEffect
<1>2. /\ pc = "grow" /\ pc' = "refind" /\ UNCHANGED <<newext, np, todo, saved>>
  BY DEF ext4_ext_grow_indepth, split, conv
<1>3. np = <<>> /\ b \in Int /\ Root \in DOMAIN node /\ depth \in Nat
  <2>1. \A x \in PBlk : x \in Int
    BY ConstantsAssumption
  <2>2. Root \in DOMAIN node
    BY DEF IInv, TreeInv, TreeType
  <2>3. depth \in Nat
    BY <2>2, LiveNode DEF depth
  <2> QED
    BY <1>1, <1>2, <2>1, <2>2, <2>3, NoChain
<1> DEFINE Swap(x) == IF x = b THEN Root ELSE IF x = Root THEN b ELSE x
           f == [s \in SlotsOf(node') |-> <<Swap(s[1]), s[2]>>]
           z == <<Root, 1>>
           X == {b}
<1>4. \A s \in SlotsOf(node') : f[s] = <<Swap(s[1]), s[2]>>
  OBVIOUS
<1> HIDE DEF f
<1>5. ASSUME NEW s \in SlotsOf(node')
      PROVE  OwnedBy(node', s) \subseteq
                (IF f[s] \in SlotsOf(node) THEN OwnedBy(node, f[s]) ELSE {})
                   \cup (IF s = z THEN X ELSE {})
  <2>1. PICK c \in DOMAIN node' : \E i \in DOMAIN node'[c].ents :
           s = <<c, i>> /\ OwnedBy(node', s) = Refers(node'[c].ents[i], node'[c].depth)
    BY DEF SlotsOf, OwnedBy
  <2>2. PICK i \in DOMAIN node'[c].ents :
           s = <<c, i>> /\ OwnedBy(node', s) = Refers(node'[c].ents[i], node'[c].depth)
    BY <2>1
  <2>3. f[s] = <<Swap(c), i>>
    BY <1>4, <2>2
  <2>4. CASE c = b
    <3>1. i \in DOMAIN node[Root].ents /\ f[s] = <<Root, i>>
      BY <1>1, <2>3, <2>4
    <3>2. /\ <<Root, i>> \in SlotsOf(node)
          /\ OwnedBy(node, <<Root, i>>) = Refers(node[Root].ents[i], node[Root].depth)
      BY <1>3, <3>1, SlotIn
    <3>3. f[s] \in SlotsOf(node) /\ OwnedBy(node', s) = OwnedBy(node, f[s])
      BY <1>1, <2>2, <2>4, <3>1, <3>2 DEF depth
    <3> QED
      BY <3>3
  <2>5. CASE c = Root
    <3>1. i = 1 /\ node'[Root].ents[1] = [lblk |-> node[Root].ents[1].lblk,
                                         pblk |-> b, len |-> 0]
      BY <1>1, <2>5
    <3>2. s = z /\ OwnedBy(node', s) \subseteq X
      BY <1>3, <2>2, <2>5, <3>1, IndexRefers
    <3> QED
      BY <3>2
  <2>6. CASE c # b /\ c # Root
    <3>1. c \in DOMAIN node /\ node'[c] = node[c] /\ f[s] = s
      BY <1>1, <2>2, <2>3, <2>6
    <3>2. s \in SlotsOf(node) /\ OwnedBy(node, s) = Refers(node[c].ents[i], node[c].depth)
      BY <2>2, <3>1, SlotIn
    <3>3. f[s] \in SlotsOf(node) /\ OwnedBy(node', s) = OwnedBy(node, f[s])
      BY <2>2, <3>1, <3>2
    <3> QED
      BY <3>3
  <2> QED
    BY <2>4, <2>5, <2>6
<1>6. ASSUME NEW s \in SlotsOf(node'), NEW t \in SlotsOf(node'), s # t
      PROVE  f[s] # f[t]
  <2>1. s = <<s[1], s[2]>> /\ t = <<t[1], t[2]>>
    BY DEF SlotsOf
  <2>2. s[1] # t[1] \/ s[2] # t[2]
    BY <1>6, <2>1
  <2>3. f[s] = <<Swap(s[1]), s[2]>> /\ f[t] = <<Swap(t[1]), t[2]>>
    BY <1>4
  <2>4. s[1] # t[1] => Swap(s[1]) # Swap(t[1])
    BY <1>1
  <2> HIDE DEF Swap
  <2> QED
    BY <2>2, <2>3, <2>4
<1>7. /\ OwnersDiffer(node) /\ Unowned(node, X) /\ Unowned(node, free \ {b})
      /\ Unowned(node, NewBlocks)
  <2>1. /\ OwnersDiffer(node) /\ Unowned(node, free) /\ Unowned(node, NewBlocks)
    BY <1>2 DEF OwnerInv, NewInv, Inserting
  <2> QED
    BY <2>1 DEF Unowned
<1>8. (free \ {b}) \cap X = {} /\ NewBlocks \cap X = {} /\ NewBlocks \cap free = {}
  BY <1>2 DEF OwnerInv, NewInv, Inserting
<1> HIDE DEF z, X
<1>9. /\ OwnersDiffer(node')
      /\ \A Y : Unowned(node, Y) /\ Y \cap X = {} => Unowned(node', Y)
  BY ONLY <1>5, <1>6, <1>7, OwnersMoved, ZenonT(60)
<1>10. Unowned(node', free') /\ Unowned(node', NewBlocks) /\ NewBlocks' = NewBlocks
  BY <1>1, <1>2, <1>7, <1>8, <1>9 DEF NewBlocks
<1>11. NewInv'
  <2>1. ee_len(newext) >= 1
    BY <1>2 DEF OwnerInv, NewInv, Inserting
  <2> QED
    BY <1>1, <1>2, <1>8, <1>10, <2>1 DEF NewInv
<1>12. ChainInv' /\ CutInv'
  BY <1>2, <1>3 DEF ChainInv, CutInv
<1>13. SavedInv'
  <2> SUFFICES ASSUME todo # <<>> PROVE SavedInv'
    BY <1>2 DEF SavedInv
  <2>1. /\ saved.blk \in DOMAIN node /\ saved.len < InitMax
        /\ \A i \in 1 .. Len(np) : saved.blk # np[i]
        /\ node[saved.blk].depth = 0 /\ saved.pos \in DOMAIN node[saved.blk].ents =>
              LET e == node[saved.blk].ents[saved.pos]
              IN  e.pblk .. e.pblk + saved.len - 1 \subseteq Refers(e, 0) \cup NewBlocks
    BY <1>2 DEF OwnerInv, SavedInv, Inserting
  <2>2. node'[saved.blk].depth = 0 => node'[saved.blk] = node[saved.blk]
    BY <1>1, <1>3, <2>1
  <2>3. UNCHANGED <<saved, todo, np, NewBlocks>> /\ saved.blk \in DOMAIN node'
    BY <1>1, <1>2, <1>10, <2>1
  <2> QED
    BY <2>1, <2>2, <2>3 DEF SavedInv
<1> QED
  BY <1>9, <1>10, <1>11, <1>12, <1>13 DEF OwnerInv

\* One level of a split moves the entries after the current one to a block that
\* was free, behind an index to the block made before, which nobody had.
LEMMA SplitKeepsOwners ==
    ASSUME IInv, OwnerInv, ext4_ext_split_node
    PROVE  OwnerInv'
<1> DEFINE c == path[level].blk
           old == node[c].ents
           n == Len(old)
           pos == path[level].pos
           m == IF np = <<>> THEN 0 ELSE 1
<1>1. PICK b \in free :
         /\ free' = free \ {b} /\ np' = <<b>> \o np
         /\ b \notin DOMAIN node
         /\ DOMAIN node' = DOMAIN node \cup {b}
         /\ \A x \in DOMAIN node : x # c => node'[x] = node[x]
         /\ node'[c].depth = node[c].depth
         /\ DOMAIN node'[c].ents = 1 .. pos
         /\ \A i \in 1 .. pos : node'[c].ents[i] = old[i]
         /\ node'[b].depth = node[c].depth
         /\ DOMAIN node'[b].ents = 1 .. n - pos + m
         /\ np # <<>> => node'[b].ents[1] = [lblk |-> key, pblk |-> np[1],
                                             len |-> 0]
         /\ \A i \in 1 + m .. n - pos + m : node'[b].ents[i] = old[pos + i - m]
  BY SplitEffect
<1>2. /\ pc = "split" /\ pc' \in {"link", "split"} /\ UNCHANGED <<newext, todo, saved>>
  BY DEF ext4_ext_split_node, conv
<1>3. /\ c \in DOMAIN node /\ pos \in 0 .. n /\ np \in Seq(PBlk)
      /\ level \in 1 .. Len(path)
  <2>1. c \in DOMAIN node /\ pos \in 0 .. n /\ level \in at .. Len(path) /\ at >= 2
        /\ at \in Nat /\ Len(path) = depth + 1 /\ depth \in Nat
    BY <1>2, SplitLevel
  <2> QED
    BY <2>1 DEF IInv, LocalInv, LocalType
<1>4. /\ DOMAIN old = 1 .. n /\ n \in Nat /\ m \in {0, 1} /\ pos \in Nat
      /\ np # <<>> => m = 1 /\ np[1] \in DOMAIN node /\ np[1] \in Int
  <2>1. DOMAIN old = 1 .. n /\ n \in Nat
    BY <1>3, LiveNode
  <2>2. ASSUME np # <<>>
        PROVE  np[1] \in DOMAIN node /\ np[1] \in Int
    <3>1. 1 \in 1 .. Len(np)
      BY <1>3, <2>2, EmptySeq
    <3>2. np[1] \in PBlk /\ np[1] \in DOMAIN node
      BY <1>2, <1>3, <3>1, ElementOfSeq DEF IInv, LocalInv, SplitInv
    <3>3. \A x \in PBlk : x \in Int
      BY ConstantsAssumption
    <3> QED
      BY <3>2, <3>3
  <2> QED
    BY <2>1, <2>2, <1>3
<1>5. \A k \in 1 .. Len(np) : c # np[k]
  BY <1>2, <1>3 DEF IInv, LocalInv, SplitInv
<1> DEFINE X == IF np = <<>> THEN {} ELSE {np[1]}
           F(s) == IF s[1] = b /\ s[2] > m THEN <<c, pos + s[2] - m>> ELSE s
           f == [s \in SlotsOf(node') |-> F(s)]
           z == <<b, 1>>
<1>6. \A s \in SlotsOf(node') : f[s] = F(s)
  OBVIOUS
<1> HIDE DEF f, c, pos, m, n
<1>7. ASSUME NEW s \in SlotsOf(node')
      PROVE  \E x \in DOMAIN node' : \E i \in DOMAIN node'[x].ents :
                /\ s = <<x, i>>
                /\ OwnedBy(node', s) = Refers(node'[x].ents[i], node'[x].depth)
  BY DEF SlotsOf, OwnedBy
<1>8. ASSUME NEW s \in SlotsOf(node')
      PROVE  OwnedBy(node', s) \subseteq
                (IF f[s] \in SlotsOf(node) THEN OwnedBy(node, f[s]) ELSE {})
                   \cup (IF s = z THEN X ELSE {})
  <2> PICK x \in DOMAIN node' : \E i \in DOMAIN node'[x].ents :
         s = <<x, i>> /\ OwnedBy(node', s) = Refers(node'[x].ents[i], node'[x].depth)
    BY <1>7
  <2>1. PICK i \in DOMAIN node'[x].ents :
         s = <<x, i>> /\ OwnedBy(node', s) = Refers(node'[x].ents[i], node'[x].depth)
    OBVIOUS
  <2>2. CASE x # b
    <3>1. f[s] = s /\ x \in DOMAIN node
      BY <1>1, <1>6, <2>1, <2>2
    <3>2. /\ i \in DOMAIN node[x].ents /\ node'[x].ents[i] = node[x].ents[i]
          /\ node'[x].depth = node[x].depth
      <4>1. CASE x = c
        BY <4>1, <1>1, <1>3, <1>4
      <4>2. CASE x # c
        BY <4>2, <3>1, <1>1
      <4> QED
        BY <4>1, <4>2
    <3>3. s \in SlotsOf(node) /\ OwnedBy(node, s) = Refers(node[x].ents[i], node[x].depth)
      BY <2>1, <3>1, <3>2, SlotIn
    <3>4. f[s] \in SlotsOf(node) /\ OwnedBy(node', s) = OwnedBy(node, f[s])
      BY <2>1, <3>1, <3>2, <3>3
    <3> QED
      BY <3>4
  <2>3. CASE x = b /\ i > m
    <3>1. i \in 1 + m .. n - pos + m /\ pos + i - m \in 1 .. n
      <4>1. i \in 1 .. n - pos + m
        BY <1>1, <2>3
      <4>2. i > m /\ n \in Nat /\ m \in {0, 1} /\ pos \in Nat /\ pos <= n
        BY <1>3, <1>4, <2>3
      <4> QED
        BY ONLY <4>1, <4>2
    <3>2. f[s] = <<c, pos + i - m>> /\ node'[b].ents[i] = old[pos + i - m]
      BY <1>1, <1>6, <2>1, <2>3, <3>1
    <3>3. /\ <<c, pos + i - m>> \in SlotsOf(node)
          /\ OwnedBy(node, <<c, pos + i - m>>) = Refers(old[pos + i - m], node[c].depth)
      BY <1>3, <1>4, <3>1, SlotIn
    <3>4. f[s] \in SlotsOf(node) /\ OwnedBy(node', s) = OwnedBy(node, f[s])
      BY <1>1, <2>1, <2>3, <3>2, <3>3
    <3> QED
      BY <3>4
  <2>4. CASE x = b /\ ~ (i > m)
    <3>1. i = 1 /\ m = 1 /\ np # <<>>
      BY <1>1, <1>3, <1>4, <2>4 DEF m
    <3>2. node'[b].ents[i] = [lblk |-> key, pblk |-> np[1], len |-> 0]
      BY <1>1, <3>1
    <3>3. OwnedBy(node', s) \subseteq {np[1]}
      BY <1>4, <2>1, <2>4, <3>1, <3>2, IndexRefers
    <3>4. s = z /\ X = {np[1]}
      BY <2>1, <2>4, <3>1
    <3> QED
      BY <3>3, <3>4
  <2> QED
    BY <2>2, <2>3, <2>4
<1>9. ASSUME NEW s \in SlotsOf(node'), NEW t \in SlotsOf(node'), s # t
      PROVE  f[s] # f[t]
  <2> PICK x \in DOMAIN node' : \E i \in DOMAIN node'[x].ents : s = <<x, i>>
    BY <1>7
  <2>1. PICK i \in DOMAIN node'[x].ents : s = <<x, i>>
    OBVIOUS
  <2> PICK y \in DOMAIN node' : \E j \in DOMAIN node'[y].ents : t = <<y, j>>
    BY <1>7
  <2>2. PICK j \in DOMAIN node'[y].ents : t = <<y, j>>
    OBVIOUS
  <2>3. /\ f[s] = IF x = b /\ i > m THEN <<c, pos + i - m>> ELSE <<x, i>>
        /\ f[t] = IF y = b /\ j > m THEN <<c, pos + j - m>> ELSE <<y, j>>
    BY <1>6, <2>1, <2>2
  <2>4. CASE ~ (x = b /\ i > m) /\ ~ (y = b /\ j > m)
    BY <1>9, <2>1, <2>2, <2>3, <2>4
  <2>5. CASE (x = b /\ i > m) /\ (y = b /\ j > m)
    <3>1. i \in 1 .. n - pos + m /\ j \in 1 .. n - pos + m /\ i # j
      BY <1>1, <1>9, <2>1, <2>2, <2>5
    <3>2. pos + i - m # pos + j - m
      BY <1>3, <1>4, <3>1, SMTT(30)
    <3> QED
      BY <2>3, <2>5, <3>2
  <2>6. CASE (x = b /\ i > m) /\ ~ (y = b /\ j > m)
    <3>1. i \in 1 .. n - pos + m /\ pos + i - m > pos
      BY <1>1, <1>3, <1>4, <2>6, SMTT(30)
    <3>2. y = c => j \in 1 .. pos
      BY <1>1
    <3>3. y = c => j # pos + i - m
      BY <1>4, <3>1, <3>2
    <3> QED
      BY <2>3, <2>6, <3>3
  <2>7. CASE ~ (x = b /\ i > m) /\ (y = b /\ j > m)
    <3>1. j \in 1 .. n - pos + m /\ pos + j - m > pos
      BY <1>1, <1>3, <1>4, <2>7, SMTT(30)
    <3>2. x = c => i \in 1 .. pos
      BY <1>1
    <3>3. x = c => i # pos + j - m
      BY <1>4, <3>1, <3>2
    <3> QED
      BY <2>3, <2>7, <3>3
  <2> QED
    BY <2>4, <2>5, <2>6, <2>7
<1>10. /\ OwnersDiffer(node) /\ Unowned(node, X) /\ Unowned(node, free \ {b})
       /\ Unowned(node, NewBlocks) /\ Unowned(node, {b})
  <2>1. /\ OwnersDiffer(node) /\ Unowned(node, free) /\ Unowned(node, NewBlocks)
        /\ np # <<>> => Unowned(node, {np[1]})
    BY <1>2 DEF OwnerInv, NewInv, ChainInv, Inserting
  <2> QED
    BY <2>1 DEF Unowned
<1>11. /\ (free \ {b}) \cap X = {} /\ NewBlocks \cap X = {} /\ {b} \cap X = {}
       /\ NewBlocks \cap free = {}
  <2>1. NewBlocks \cap free = {} /\ (np # <<>> => np[1] \notin NewBlocks)
    BY <1>2 DEF OwnerInv, NewInv, ChainInv, Inserting
  <2>2. np # <<>> => np[1] \notin free
    BY <1>4 DEF IInv, TreeInv, NodesNotFree
  <2> QED
    BY <1>1, <1>4, <2>1, <2>2
<1> HIDE DEF z, X
<1>12. /\ OwnersDiffer(node')
       /\ \A Y : Unowned(node, Y) /\ Y \cap X = {} => Unowned(node', Y)
  BY ONLY <1>8, <1>9, <1>10, OwnersMoved, ZenonT(60)
<1>13. /\ Unowned(node', free') /\ Unowned(node', NewBlocks) /\ Unowned(node', {b})
       /\ NewBlocks' = NewBlocks
  BY <1>1, <1>2, <1>10, <1>11, <1>12 DEF NewBlocks
<1>14. NewInv'
  <2>1. ee_len(newext) >= 1
    BY <1>2 DEF OwnerInv, NewInv, Inserting
  <2> QED
    BY <1>1, <1>2, <1>11, <1>13, <2>1 DEF NewInv
<1>15. /\ np'[1] = b /\ Len(np') = Len(np) + 1 /\ Len(np) \in Nat
       /\ \A i \in 1 .. Len(np) : np'[i + 1] = np[i]
  BY <1>1, <1>3
<1>16. ChainInv'
  <2>1. ASSUME NEW i \in 1 .. Len(np') - 1
        PROVE  1 \in DOMAIN node'[np'[i]].ents /\ node'[np'[i]].ents[1].pblk = np'[i + 1]
    <3>1. CASE i = 1
      <4>1. np # <<>> /\ 1 \in 1 .. Len(np)
        BY <1>3, <1>15, <2>1, EmptySeq
      <4>2. np'[2] = np[1] /\ 1 \in 1 .. n - pos + m
        BY <1>3, <1>4, <1>15, <4>1
      <4>3. 1 \in DOMAIN node'[b].ents /\ node'[b].ents[1].pblk = np[1]
        BY <1>1, <4>1, <4>2
      <4>4. np'[i] = b /\ np'[i + 1] = np[1]
        BY <1>15, <3>1, <4>2
      <4> QED
        BY <4>3, <4>4
    <3>2. CASE i # 1
      <4>1. /\ i - 1 \in 1 .. Len(np) - 1 /\ i - 1 \in 1 .. Len(np) /\ i \in 1 .. Len(np)
            /\ i - 1 + 1 = i
        BY <1>15, <2>1, <3>2
      <4>2. np'[i] = np[i - 1] /\ np'[i + 1] = np[i]
        BY <1>15, <4>1
      <4>3. np # <<>>
        BY <1>3, <4>1, EmptySeq
      <4>4. 1 \in DOMAIN node[np[i - 1]].ents /\ node[np[i - 1]].ents[1].pblk = np[i]
        BY <4>1, <4>3 DEF OwnerInv, ChainInv
      <4>5. node'[np[i - 1]] = node[np[i - 1]]
        <5>1. np[i - 1] \in DOMAIN node
          BY <1>2, <4>1 DEF IInv, LocalInv, SplitInv
        <5> QED
          BY <1>1, <1>5, <4>1, <5>1
      <4> QED
        BY <4>2, <4>4, <4>5
    <3> QED
      BY <3>1, <3>2
  <2>2. b \notin NewBlocks
    BY <1>11
  <2> QED
    BY <1>13, <1>15, <2>1, <2>2 DEF ChainInv
<1>17. CutInv'
  BY <1>2 DEF CutInv
<1>18. SavedInv'
  <2> SUFFICES ASSUME todo # <<>> PROVE SavedInv'
    BY <1>2 DEF SavedInv
  <2>1. /\ saved.blk \in DOMAIN node /\ saved.len < InitMax
        /\ \A i \in 1 .. Len(np) : saved.blk # np[i]
        /\ node[saved.blk].depth = 0 /\ saved.pos \in DOMAIN node[saved.blk].ents =>
              LET e == node[saved.blk].ents[saved.pos]
              IN  e.pblk .. e.pblk + saved.len - 1 \subseteq Refers(e, 0) \cup NewBlocks
    BY <1>2 DEF OwnerInv, SavedInv, Inserting
  <2>2. /\ node'[saved.blk].depth = node[saved.blk].depth
        /\ saved.pos \in DOMAIN node'[saved.blk].ents =>
              /\ saved.pos \in DOMAIN node[saved.blk].ents
              /\ node'[saved.blk].ents[saved.pos] = node[saved.blk].ents[saved.pos]
    <3>1. CASE saved.blk = c
      BY <3>1, <1>1, <1>3, <1>4
    <3>2. CASE saved.blk # c
      BY <3>2, <2>1, <1>1
    <3> QED
      BY <3>1, <3>2
  <2>3. \A i \in 1 .. Len(np') : saved.blk # np'[i]
    <3> TAKE i \in 1 .. Len(np')
    <3>1. CASE i = 1
      BY <3>1, <1>1, <1>15, <2>1
    <3>2. CASE i # 1
      <4>1. i - 1 \in 1 .. Len(np) /\ i - 1 + 1 = i
        BY <3>2, <1>15
      <4> QED
        BY <4>1, <1>15, <2>1
    <3> QED
      BY <3>1, <3>2
  <2>4. UNCHANGED <<saved, todo, NewBlocks>> /\ saved.blk \in DOMAIN node'
    BY <1>1, <1>2, <1>13, <2>1
  <2> QED
    BY <2>1, <2>2, <2>3, <2>4 DEF SavedInv
<1> QED
  BY <1>12, <1>13, <1>14, <1>16, <1>17, <1>18 DEF OwnerInv

\* Freeing the blocks of a split that fails: what refers to one of them is freed
\* with it.
LEMMA CleanupKeepsOwners ==
    ASSUME IInv, OwnerInv, pc \in {"split", "link"}, Cleanup
    PROVE  OwnerInv'
<1>1. /\ DOMAIN node' = DOMAIN node \ ToSet(np)
      /\ \A b \in DOMAIN node' : node'[b] = node[b]
      /\ free' = free \cup ToSet(np)
      /\ ToSet(np) = {np[i] : i \in 1 .. Len(np)}
  BY CleanupEffect
<1>2. pc' = "fail" /\ np' = <<>> /\ UNCHANGED <<newext, todo, saved>>
  BY DEF Cleanup, conv
<1>3. np \in Seq(PBlk) /\ Len(np) \in Nat
  BY DEF IInv, LocalInv, LocalType
<1>4. \A s \in SlotsOf(node') :
         /\ s \in SlotsOf(node) /\ s[1] \notin ToSet(np)
         /\ OwnedBy(node', s) = OwnedBy(node, s)
  <2> TAKE s \in SlotsOf(node')
  <2>1. PICK x \in DOMAIN node' : \E i \in DOMAIN node'[x].ents :
           s = <<x, i>> /\ OwnedBy(node', s) = Refers(node'[x].ents[i], node'[x].depth)
    BY DEF SlotsOf, OwnedBy
  <2>2. x \in DOMAIN node /\ x \notin ToSet(np) /\ node'[x] = node[x]
    BY <1>1
  <2> QED
    BY <2>1, <2>2, SlotIn
<1>5. /\ OwnersDiffer(node) /\ Unowned(node, free) /\ Unowned(node, NewBlocks)
      /\ NewBlocks \cap free = {} /\ ee_len(newext) >= 1
  BY DEF OwnerInv, NewInv, Inserting
<1>6. OwnersDiffer(node')
  BY <1>4, <1>5 DEF OwnersDiffer
<1>7. Unowned(node', free) /\ Unowned(node', NewBlocks)
  BY <1>4, <1>5 DEF Unowned
\* Each of the blocks is nobody's, or that of a slot of another one.
<1>8. ASSUME NEW k \in 1 .. Len(np)
      PROVE  /\ np[k] \notin NewBlocks
             /\ \A s \in SlotsOf(node') : np[k] \notin OwnedBy(node', s)
  <2>1. np # <<>>
    BY <1>3, EmptySeq
  <2>2. CASE k = 1
    <3>1. Unowned(node, {np[1]}) /\ np[1] \notin NewBlocks
      BY <2>1 DEF OwnerInv, ChainInv
    <3> QED
      BY <2>2, <3>1, <1>4 DEF Unowned
  <2>3. CASE k # 1
    <3> DEFINE p == np[k - 1]
               t == <<p, 1>>
    <3>1. k - 1 \in 1 .. Len(np) - 1 /\ k - 1 \in 1 .. Len(np) /\ k - 1 + 1 = k
          /\ Len(np) - (k - 1) > 0
      BY <1>3, <2>3
    <3>2. 1 \in DOMAIN node[p].ents /\ node[p].ents[1].pblk = np[k]
      BY <2>1, <3>1 DEF OwnerInv, ChainInv
    <3>3. p \in DOMAIN node /\ node[p].depth = Len(np) - (k - 1) /\ p \in ToSet(np)
      BY <1>1, <3>1 DEF IInv, LocalInv, SplitInv
    <3>4. t \in SlotsOf(node) /\ OwnedBy(node, t) = {np[k]}
      <4>1. Refers(node[p].ents[1], node[p].depth) = {np[k]}
        BY <3>1, <3>2, <3>3 DEF Refers
      <4> QED
        BY <3>2, <3>3, <4>1, SlotIn
    <3>5. \A s \in SlotsOf(node') : s # t
      BY <1>4, <3>3
    <3> HIDE DEF t
    <3>6. np[k] \notin NewBlocks
      BY <3>4, <1>5 DEF Unowned
    <3>7. ASSUME NEW s \in SlotsOf(node')
          PROVE  np[k] \notin OwnedBy(node', s)
      <4>1. OwnedBy(node, s) \cap OwnedBy(node, t) = {}
        BY <1>4, <1>5, <3>4, <3>5 DEF OwnersDiffer
      <4> QED
        BY <4>1, <3>4, <1>4
    <3> QED
      BY <3>6, <3>7
  <2> QED
    BY <2>2, <2>3
<1>9. Unowned(node', free')
  <2> SUFFICES ASSUME NEW s \in SlotsOf(node'), NEW x \in free', x \in OwnedBy(node', s)
               PROVE  FALSE
    BY DEF Unowned
  <2>1. CASE x \in free
    BY <2>1, <1>7 DEF Unowned
  <2>2. CASE x \in ToSet(np)
    BY <2>2, <1>1, <1>8
  <2> QED
    BY <2>1, <2>2, <1>1
<1>10. NewInv'
  <2>1. NewBlocks' = NewBlocks
    BY <1>2 DEF NewBlocks
  <2>2. NewBlocks \cap free' = {}
    BY <1>1, <1>5, <1>8
  <2> QED
    BY <1>2, <1>5, <1>7, <2>1, <2>2 DEF NewInv
<1>11. ChainInv' /\ CutInv'
  BY <1>2 DEF ChainInv, CutInv
<1>12. SavedInv'
  <2> SUFFICES ASSUME todo # <<>> PROVE SavedInv'
    BY <1>2 DEF SavedInv
  <2>1. /\ saved.blk \in DOMAIN node /\ saved.len < InitMax
        /\ \A i \in 1 .. Len(np) : saved.blk # np[i]
        /\ node[saved.blk].depth = 0 /\ saved.pos \in DOMAIN node[saved.blk].ents =>
              LET e == node[saved.blk].ents[saved.pos]
              IN  e.pblk .. e.pblk + saved.len - 1 \subseteq Refers(e, 0) \cup NewBlocks
    BY DEF OwnerInv, SavedInv, Inserting
  <2>2. saved.blk \in DOMAIN node' /\ node'[saved.blk] = node[saved.blk]
    BY <1>1, <2>1
  <2>3. 1 .. Len(np') = {}
    <3>1. Len(np') = 0
      BY <1>2, EmptySeq
    <3> QED
      BY <3>1
  <2>4. UNCHANGED <<saved, todo, NewBlocks>>
    BY <1>2 DEF NewBlocks
  <2> QED
    BY <2>1, <2>2, <2>3, <2>4 DEF SavedInv
<1> QED
  BY <1>6, <1>9, <1>10, <1>11, <1>12 DEF OwnerInv

-----------------------------------------------------------------------------
(* The theorem.                                                            *)

\* Files on the disk own their blocks once.
LEMMA OwnerInit ==
    ASSUME Init
    PROVE  OwnerInv
<1>1. OwnersDiffer(node) /\ Unowned(node, free)
  BY FilesOwnBlocksOnce DEF Init
<1>2. pc = "idle" /\ np = <<>> /\ todo = <<>>
  BY DEF Init
<1>3. NewInv /\ ChainInv /\ CutInv /\ SavedInv
  BY <1>2 DEF NewInv, ChainInv, CutInv, SavedInv, Inserting
<1> QED
  BY <1>1, <1>3 DEF OwnerInv

\* Every step but those two keeps owners.
LEMMA OwnerStep ==
    ASSUME IInv, OwnerInv, SoundCuts, SoundMerges, [Next]_vars
    PROVE  OwnerInv'
<1>1. CASE UNCHANGED vars
  <2>1. /\ UNCHANGED <<node, free, pc, newext, np, todo, saved, path>>
    BY <1>1 DEF vars
  <2>2. UNCHANGED <<leaf, ex, NewBlocks>>
    BY <2>1 DEF leaf, ex, NewBlocks
  <2>3. NewInv' /\ ChainInv' /\ SavedInv'
    BY <2>1, <2>2 DEF OwnerInv, NewInv, ChainInv, SavedInv
  <2>4. CutInv'
    BY <2>1, <2>2 DEF OwnerInv, CutInv
  <2> QED
    BY <2>1, <2>3, <2>4 DEF OwnerInv
<1>2. CASE Find \/ \E l \in LBlk, m \in MaxBlocks, c \in BOOLEAN :
                      ext4_extent_get_blocks(l, m, c)
  BY <1>2, FindKeepsOwners
<1>3. CASE Decide
  BY <1>3, DecideKeepsOwners
<1>4. CASE Convert
  BY <1>4, CutCases, WholeKeepsOwners, CutKeepsOwners, RestoreKeepsOwners, FailKeepsOwners
     DEF Convert
<1>5. CASE Insert
  <2>1. CASE ext4_ext_insert_leaf
    <3>1. pc = "insert"
      BY <2>1 DEF ext4_ext_insert_leaf
    <3>2. CASE SameStart
      BY <2>1, <3>1, <3>2, FailKeepsOwners
    <3>3. CASE ~ SameStart
      <4>1. AppendToExtent \/ PrependToExtent \/ InsertIntoLeaf \/ NeedSplit
        BY <2>1, <3>3 DEF ext4_ext_insert_leaf
      <4>2. ~ PrependToExtent
        BY <3>1 DEF SoundMerges, PrependToExtent
      <4> QED
        BY <3>1, <4>1, <4>2, AppendKeepsOwners, InsertKeepsOwners, FailKeepsOwners
    <3> QED
      BY <3>2, <3>3
  <2>2. CASE ext4_ext_grow_indepth \/ GrowFails
    BY <2>2, GrowKeepsOwners, FailKeepsOwners
  <2>3. CASE ext4_ext_split_node \/ FreeData
    BY <2>3, SplitKeepsOwners, FreeDataKeepsOwners
  <2>4. CASE SplitFails
    BY <2>4, CleanupKeepsOwners DEF SplitFails
  <2>5. CASE ext4_ext_insert_index
    BY <2>5, CleanupKeepsOwners, LinkKeepsOwners DEF ext4_ext_insert_index
  <2> QED
    BY <1>5, <2>1, <2>2, <2>3, <2>4, <2>5 DEF Insert
<1> QED
  BY <1>1, <1>2, <1>3, <1>4, <1>5 DEF Next, Step

\* Every block has one owner, at every point of every call and whichever
\* allocations and reads fail, in each behaviour whose conversions are cuts before
\* the end of an extent, and which neither extends an extent to the front nor
\* makes one of EXT_INIT_MAX_LEN blocks.  Each of these conditions excludes what
\* the code gets wrong; nothing else makes get_blocks() share a block between
\* entries or with the allocator.
THEOREM BlocksHaveOneOwner ==
    Spec /\ []SoundCuts /\ []SoundMerges => []OneOwner
<1>1. Init => OwnerInv
  BY OwnerInit
<1>2. IInv /\ OwnerInv /\ SoundCuts /\ SoundMerges /\ [Next]_vars => OwnerInv'
  BY OwnerStep
<1>3. OwnerInv => OneOwner
  BY DEF OwnerInv, NewInv, NewBlocks, Inserting, OneOwner
<1> QED
  BY <1>1, <1>2, <1>3, Invariance, PTL DEF Spec

=============================================================================
