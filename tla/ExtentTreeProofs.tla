-------------------------- MODULE ExtentTreeProofs --------------------------
(***************************************************************************)
(* Proofs about ExtentTree, for every device, every capacity of the nodes, *)
(* every allocator and every combination of failing calls.                 *)
(***************************************************************************)
EXTENDS ExtentTree, SequenceTheorems, WellFoundedInduction, TLAPS

Searching == {"find", "refind"}
Working   == {"found", "splitat", "insert", "grow", "split", "link"}
Inserting == {"insert", "grow", "refind", "split", "link", "fail"}

\* The path leads from the root down, one level per element, and the slots of
\* its index nodes exist.
PathInv ==
    /\ path # <<>> => path[1].blk = Root
    /\ \A k \in 1 .. Len(path) :
          /\ path[k].blk \in DOMAIN node
          /\ node[path[k].blk].depth = depth - (k - 1)
          /\ k < Len(path) =>
                path[k].pos \in 1 .. Len(node[path[k].blk].ents)
    /\ pc \in Searching => path # <<>>
    /\ pc \in Working => Len(path) = depth + 1
    /\ pc = "fail" => path = <<>> \/ Len(path) = depth + 1
    /\ pc \in Working \cup {"fail"} /\ path # <<>> =>
          leaf.pos <= Len(node[leaf.blk].ents)

\* When the tree is to grow the root has an entry.
GrowInv == pc = "grow" => node[Root].ents # <<>>

\* The blocks of a split are a chain of live nodes that no node outside it
\* points to, so they can be freed together.
SplitInv ==
    /\ pc \notin {"split", "link"} => np = <<>>
    /\ pc \in {"split", "link"} =>
          /\ at \in 2 .. Len(path)
          /\ \A i \in 1 .. Len(np) :
                /\ np[i] \in DOMAIN node \ {Root}
                /\ node[np[i]].depth = Len(np) - i
                /\ \A k \in 1 .. Len(path) : path[k].blk # np[i]
          /\ \A b \in DOMAIN node : \A j \in DOMAIN node[b].ents :
                node[b].depth > 0 /\ node[b].ents[j].pblk \in ToSet(np)
                  => b \in ToSet(np)
    /\ pc = "split" => Len(np) <= Len(path) - at
    /\ pc = "link" => Len(np) = Len(path) - at + 1

\* The data block that get_blocks() has allocated is nobody else's, and a
\* conversion, which allocates none, has a split to make.
DataInv ==
    /\ pc \in Inserting /\ todo = <<>> =>
          /\ newext.pblk \in PBlk
          /\ newext.pblk \notin free
          /\ newext.pblk \notin DOMAIN node
    /\ pc = "splitat" => todo # <<>>

\* TypeOK in two parts, and the inductive invariant: what is true of the tree
\* and of the free blocks, and what is true of the call in progress.
Result == [err : {"EOK", "EFAIL"}, pblk : Int, count : Int]
PathElem == [blk : PBlk \cup {Root}, pos : Nat]
SplitStep == [split : Nat, flag : SUBSET {"MARK_UNWRIT1", "MARK_UNWRIT2"}]

TreeType ==
    /\ DOMAIN node \subseteq PBlk \cup {Root}
    /\ Root \in DOMAIN node
    /\ node \in [DOMAIN node -> Node]
    /\ free \subseteq PBlk

LocalType ==
    /\ pc \in PCs
    /\ req \in [lblk : Nat, max : Nat, create : BOOLEAN]
    /\ path \in Seq(PathElem)
    /\ newext \in Entry
    /\ at \in Nat
    /\ key \in Nat
    /\ np \in Seq(PBlk)
    /\ todo \in Seq(SplitStep)
    /\ saved \in [blk : PBlk \cup {Root}, pos : Nat, len : RawLen]
    /\ res \in Result

TreeInv == TreeType /\ KidsLive(node) /\ NodesFit(node) /\ NodesNotFree

LocalInv == LocalType /\ PathInv /\ GrowInv /\ SplitInv /\ DataInv

IInv == TreeInv /\ LocalInv

-----------------------------------------------------------------------------
(* Facts about the operators the model is built from.                      *)

\* A non-empty set of slots has a last one.
LEMMA MaxOfSlots ==
    ASSUME NEW n \in Nat, NEW S, S \subseteq 1 .. n, S # {}
    PROVE  Max(S) \in S /\ \A y \in S : Max(S) >= y
<1> DEFINE T == {n - x : x \in S}
<1>1. \A x \in S : x \in Nat /\ n - x \in Nat
  OBVIOUS
<1>2. T \subseteq Nat
  BY <1>1
<1>3. T # {}
  <2>1. PICK x \in S : TRUE
    OBVIOUS
  <2> QED
    BY <2>1
<1>4. PICK t \in T : \A u \in T : ~ (<<u, t>> \in OpToRel(<, Nat))
  <2> HIDE DEF T
  <2> QED
    BY <1>2, <1>3, WFMin, NatLessThanWellFounded
<1>5. \A u \in T : t <= u
  <2> SUFFICES ASSUME NEW u \in T, u < t PROVE FALSE
    BY <1>2
  <2>1. <<u, t>> \in Nat \X Nat
    BY <1>2
  <2>2. <<u, t>> \in OpToRel(<, Nat)
    BY <2>1 DEF OpToRel
  <2> QED
    BY <2>2, <1>4
<1>6. PICK x \in S : t = n - x
  OBVIOUS
<1>7. \A y \in S : x >= y
  <2> TAKE y \in S
  <2>1. t <= n - y
    BY <1>5
  <2> QED
    BY <2>1, <1>1, <1>6
<1> QED
  BY <1>7 DEF Max

\* Both binary searches leave a slot that is in use.
LEMMA ClosestInRange ==
    ASSUME NEW ents \in Seq(Entry), ents # <<>>, NEW b \in Nat
    PROVE  Closest(ents, b) \in 1 .. Len(ents)
<1> DEFINE S == {1} \cup {k \in 2 .. Len(ents) : ents[k].lblk <= b}
<1>1. Len(ents) \in Nat \ {0}
  BY EmptySeq
<1>2. S \subseteq 1 .. Len(ents) /\ S # {}
  BY <1>1
<1>3. Max(S) \in S
  BY <1>1, <1>2, MaxOfSlots
<1> QED
  BY <1>2, <1>3 DEF Closest

\* What inserting an element does to a sequence.
LEMMA InsertAtProperties ==
    ASSUME NEW S, NEW s \in Seq(S), NEW i \in 1 .. Len(s) + 1, NEW e \in S
    PROVE  /\ InsertAt(s, i, e) \in Seq(S)
           /\ Len(InsertAt(s, i, e)) = Len(s) + 1
           /\ \A k \in 1 .. Len(s) + 1 :
                 InsertAt(s, i, e)[k] = IF k < i THEN s[k]
                                        ELSE IF k = i THEN e ELSE s[k - 1]
<1> DEFINE p == SubSeq(s, 1, i - 1)
           q == SubSeq(s, i, Len(s))
<1>1. Len(s) \in Nat /\ \A k \in 1 .. Len(s) : s[k] \in S
  BY LenProperties, ElementOfSeq
<1>2. /\ p \in Seq(S)
      /\ Len(p) = i - 1
      /\ \A k \in 1 .. i - 1 : p[k] = s[k]
  <2>1. i - 1 \in Int /\ \A k \in 1 .. i - 1 : s[k] \in S
    BY <1>1
  <2>2. /\ p \in Seq(S)
        /\ Len(p) = IF 1 <= i - 1 THEN i - 1 - 1 + 1 ELSE 0
        /\ \A k \in 1 .. i - 1 - 1 + 1 : p[k] = s[1 + k - 1]
    BY <2>1, SubSeqProperties
  <2> QED
    BY <2>2, <1>1
<1>3. /\ q \in Seq(S)
      /\ Len(q) = Len(s) - i + 1
      /\ \A k \in 1 .. Len(s) - i + 1 : q[k] = s[i + k - 1]
  <2>1. \A k \in i .. Len(s) : s[k] \in S
    BY <1>1
  <2>2. /\ q \in Seq(S)
        /\ Len(q) = IF i <= Len(s) THEN Len(s) - i + 1 ELSE 0
        /\ \A k \in 1 .. Len(s) - i + 1 : q[k] = s[i + k - 1]
    BY <2>1, <1>1, SubSeqProperties
  <2> QED
    BY <2>2, <1>1
<1>4. /\ p \o <<e>> \in Seq(S)
      /\ Len(p \o <<e>>) = i
      /\ \A k \in 1 .. i : (p \o <<e>>)[k] = IF k < i THEN s[k] ELSE e
  <2>1. <<e>> \in Seq(S) /\ Len(<<e>>) = 1 /\ <<e>>[1] = e
    OBVIOUS
  <2> QED
    BY <2>1, <1>1, <1>2, ConcatProperties
<1>5. /\ (p \o <<e>>) \o q \in Seq(S)
      /\ Len((p \o <<e>>) \o q) = Len(s) + 1
      /\ \A k \in 1 .. Len(s) + 1 : ((p \o <<e>>) \o q)[k] =
            IF k <= i THEN (p \o <<e>>)[k] ELSE q[k - i]
  <2> DEFINE pe == p \o <<e>>
  <2>1. /\ pe \in Seq(S) /\ q \in Seq(S)
        /\ Len(pe) = i /\ Len(q) = Len(s) - i + 1
    BY <1>3, <1>4
  <2> HIDE DEF pe, q
  <2>2. /\ pe \o q \in Seq(S)
        /\ Len(pe \o q) = Len(pe) + Len(q)
        /\ \A k \in 1 .. Len(pe) + Len(q) : (pe \o q)[k] =
              IF k <= Len(pe) THEN pe[k] ELSE q[k - Len(pe)]
    BY <2>1, ConcatProperties
  <2>3. Len(pe) + Len(q) = Len(s) + 1
    BY <2>1, <1>1
  <2> QED
    BY <2>1, <2>2, <2>3 DEF pe
<1>6. \A k \in 1 .. Len(s) + 1 : ((p \o <<e>>) \o q)[k] =
            IF k < i THEN s[k] ELSE IF k = i THEN e ELSE s[k - 1]
  <2> HIDE DEF p, q
  <2> TAKE k \in 1 .. Len(s) + 1
  <2>1. CASE k <= i
    BY <2>1, <1>1, <1>4, <1>5
  <2>2. CASE k > i
    <3>1. k - i \in 1 .. Len(s) - i + 1 /\ i + (k - i) - 1 = k - 1
      BY <2>2, <1>1
    <3>2. q[k - i] = s[k - 1]
      BY <3>1, <1>3
    <3> QED
      BY <2>2, <3>2, <1>1, <1>5
  <2>3. k <= i \/ k > i
    BY <1>1
  <2> QED
    BY <2>1, <2>2, <2>3
<1> QED
  BY <1>5, <1>6 DEF InsertAt

\* A number that fits in the length field is stored as it is, and a negative one
\* as its two's complement.
LEMMA RawOf ==
    /\ \A n \in 0 .. 2 * InitMax - 1 : AsRaw(n) = n
    /\ \A n \in (0 - 2 * InitMax) .. (0 - 1) : AsRaw(n) = n + 2 * InitMax
<1>1. 2 * InitMax \in Nat \ {0}
  BY InitMaxAssumption
<1>2. \A m \in Nat \ {0} : \A k \in 0 .. m - 1 : k % m = k
  OBVIOUS
<1>3. \A m \in Nat \ {0} : \A k \in (0 - m) .. (0 - 1) : k % m = k + m
  OBVIOUS
<1> QED
  BY <1>1, <1>2, <1>3 DEF AsRaw

\* What the functions on the signed field compute from a bit pattern.
LEMMA LengthValues ==
    ASSUME NEW e \in Entry
    PROVE  /\ ext4_ext_is_unwritten(e) <=> e.len >= InitMax
           /\ ee_len(e) = IF e.len < InitMax THEN e.len ELSE e.len - InitMax
           /\ ee_len(e) \in 0 .. InitMax - 1
           /\ ext4_ext_get_actual_len(e) =
                 IF e.len < InitMax THEN ee_len(e) ELSE ee_len(e) - 2 * InitMax
           /\ ext4_ext_get_actual_len(e) \in Int
           /\ AsRaw(ext4_ext_get_actual_len(e)) = ee_len(e)
<1> DEFINE n == ext4_ext_get_actual_len(e)
<1>1. InitMax \in Nat /\ InitMax > 1 /\ e.len \in 0 .. 2 * InitMax - 1
  BY InitMaxAssumption DEF Entry, RawLen
<1>2. /\ ext4_ext_is_unwritten(e) <=> e.len >= InitMax
      /\ n = IF e.len < InitMax THEN e.len ELSE e.len - InitMax - 2 * InitMax
  BY <1>1 DEF ext4_ext_is_unwritten, ext4_ext_get_actual_len, le16_to_cpu, Exceeds
<1> HIDE DEF n
<1>3. CASE e.len < InitMax
  <2>1. n = e.len /\ n \in 0 .. 2 * InitMax - 1
    BY <1>1, <1>2, <1>3
  <2>2. AsRaw(n) = e.len
    BY <2>1, RawOf
  <2>3. ee_len(e) = e.len
    BY <1>3, <2>2 DEF ee_len, le16_to_cpu, n
  <2> QED
    BY <1>1, <1>2, <1>3, <2>1, <2>2, <2>3 DEF n
<1>4. CASE ~ (e.len < InitMax)
  <2>1. /\ n = e.len - InitMax - 2 * InitMax
        /\ n \in (0 - 2 * InitMax) .. (0 - 1)
        /\ n + 2 * InitMax = e.len - InitMax
        /\ e.len - InitMax \in 0 .. InitMax - 1
    BY <1>1, <1>2, <1>4
  <2>2. AsRaw(n) = e.len - InitMax
    BY <2>1, RawOf
  <2>3. ee_len(e) = e.len - InitMax
    BY <1>1, <2>1, <2>2 DEF ee_len, le16_to_cpu, n
  <2> QED
    BY <1>1, <1>2, <1>4, <2>1, <2>2, <2>3 DEF n
<1> QED
  BY <1>3, <1>4

\* The length is one of the field alone.
LEMMA SameLength ==
    ASSUME NEW e, NEW f, e.len = f.len
    PROVE  ee_len(e) = ee_len(f)
  BY DEF ee_len, ext4_ext_get_actual_len

\* A field without the mark is the length.
LEMMA PlainLength ==
    ASSUME NEW e, e.len \in 0 .. InitMax - 1
    PROVE  ee_len(e) = e.len
<1> DEFINE f == [lblk |-> 0, pblk |-> 0, len |-> e.len]
<1>1. InitMax \in Nat /\ InitMax > 1
  BY InitMaxAssumption
<1>2. f \in Entry /\ f.len = e.len
  BY <1>1 DEF Entry, RawLen
<1>3. ee_len(e) = ee_len(f)
  BY <1>2, SameLength
<1>4. ee_len(f) = IF f.len < InitMax THEN f.len ELSE f.len - InitMax
  BY <1>2, LengthValues
<1> QED
  BY <1>1, <1>2, <1>3, <1>4

\* The length field holds any stored value, and marking keeps it in range.
LEMMA RawLengths ==
    /\ \A n \in Int : AsRaw(n) \in RawLen
    /\ \A e \in Entry :
          /\ ee_len(e) \in 0 .. InitMax - 1
          /\ ext4_ext_mark_unwritten(e) \in Entry
          /\ ext4_ext_mark_initialized(e) \in Entry
          /\ ext4_ext_mark_unwritten(e).pblk = e.pblk
          /\ ext4_ext_mark_initialized(e).pblk = e.pblk
<1>1. InitMax \in Nat /\ InitMax > 1
  BY InitMaxAssumption
<1>2. \A n \in Int, m \in Nat \ {0} : n % m \in 0 .. m - 1
  OBVIOUS
<1>3. \A n \in Int : AsRaw(n) \in RawLen
  BY <1>1, <1>2 DEF AsRaw, RawLen
<1>4. ASSUME NEW e \in Entry
      PROVE  /\ ee_len(e) \in 0 .. InitMax - 1
             /\ ext4_ext_mark_unwritten(e) \in Entry
             /\ ext4_ext_mark_initialized(e) \in Entry
             /\ ext4_ext_mark_unwritten(e).pblk = e.pblk
             /\ ext4_ext_mark_initialized(e).pblk = e.pblk
  <2>1. ee_len(e) \in 0 .. InitMax - 1 /\ ee_len(e) \in RawLen
    BY <1>1, LengthValues DEF RawLen
  <2>2. AsRaw(ext4_ext_get_actual_len(e)) = ee_len(e)
    BY LengthValues
  <2>3. /\ ext4_ext_mark_initialized(e) \in Entry
        /\ ext4_ext_mark_initialized(e).pblk = e.pblk
    BY <2>1, <2>2 DEF Entry, ext4_ext_mark_initialized
  <2>4. /\ ext4_ext_mark_unwritten(e) \in Entry
        /\ ext4_ext_mark_unwritten(e).pblk = e.pblk
    BY <1>1 DEF Entry, RawLen, ext4_ext_mark_unwritten
  <2> QED
    BY <2>1, <2>3, <2>4
<1> QED
  BY <1>3, <1>4

\* Merging two extents yields an extent at the same physical block.
LEMMA MergedExtents ==
    ASSUME NEW e \in Entry, NEW f \in Entry
    PROVE  /\ Appended(e, f) \in Entry
           /\ Prepended(e, f) \in Entry
<1>1. MergedLen(e, f) \in RawLen
  <2> DEFINE n == ext4_ext_get_actual_len(e) + ext4_ext_get_actual_len(f)
             sum == [e EXCEPT !.len = AsRaw(n)]
  <2>1. AsRaw(n) \in RawLen
    <3>1. n \in Int
      BY LengthValues
    <3> HIDE DEF n
    <3> QED
      BY <3>1, RawLengths
  <2>2. sum \in Entry
    BY <2>1 DEF Entry
  <2>3. ext4_ext_mark_unwritten(sum).len \in RawLen /\ sum.len \in RawLen
    BY <2>2, RawLengths DEF Entry
  <2> QED
    BY <2>3 DEF MergedLen
<1> QED
  BY <1>1 DEF Appended, Prepended, Entry

-----------------------------------------------------------------------------
(* Facts about trees.                                                      *)

\* The fields of a typed node.
LEMMA NodeFields ==
    ASSUME NEW n \in Node
    PROVE  /\ n.depth \in Nat /\ n.max \in Nat /\ n.ents \in Seq(Entry)
           /\ Len(n.ents) \in Nat /\ DOMAIN n.ents = 1 .. Len(n.ents)
           /\ \A i \in 1 .. Len(n.ents) : n.ents[i] \in Entry
<1>1. n.depth \in Nat /\ n.max \in Nat /\ n.ents \in Seq(Entry)
  BY DEF Node
<1> QED
  BY <1>1, LenProperties, ElementOfSeq

\* A change that keeps the shape of every node, and lets index nodes point only
\* where they pointed before, keeps the tree.
LEMMA SameShape ==
    ASSUME NEW nd, NEW nn,
           Root \in DOMAIN nd, nd \in [DOMAIN nd -> Node],
           KidsLive(nd), NodesFit(nd),
           nn \in [DOMAIN nd -> Node],
           \A b \in DOMAIN nd :
              /\ nn[b].depth = nd[b].depth
              /\ nn[b].max = nd[b].max
              /\ Len(nn[b].ents) <= nd[b].max
              /\ nd[b].depth > 0 =>
                    /\ nn[b].ents # <<>>
                    /\ \A i \in DOMAIN nn[b].ents :
                          \E j \in DOMAIN nd[b].ents :
                             nn[b].ents[i].pblk = nd[b].ents[j].pblk
    PROVE  DOMAIN nn = DOMAIN nd /\ KidsLive(nn) /\ NodesFit(nn)
<1>1. DOMAIN nn = DOMAIN nd
  OBVIOUS
<1>2. KidsLive(nn)
  <2> SUFFICES ASSUME NEW b \in DOMAIN nd, nn[b].depth > 0,
                      NEW i \in DOMAIN nn[b].ents
               PROVE  /\ nn[b].ents[i].pblk \in DOMAIN nd \ {Root}
                      /\ nn[nn[b].ents[i].pblk].depth = nn[b].depth - 1
    BY <1>1 DEF KidsLive
  <2>1. PICK j \in DOMAIN nd[b].ents :
               nn[b].ents[i].pblk = nd[b].ents[j].pblk
    OBVIOUS
  <2>2. /\ nd[b].ents[j].pblk \in DOMAIN nd \ {Root}
        /\ nd[nd[b].ents[j].pblk].depth = nd[b].depth - 1
    BY DEF KidsLive
  <2> QED
    BY <2>1, <2>2
<1>3. NodesFit(nn)
  BY <1>1 DEF NodesFit
<1> QED
  BY <1>1, <1>2, <1>3

\* The same for a change of one leaf.
LEMMA LeafChanged ==
    ASSUME NEW nd, NEW b \in DOMAIN nd, NEW es \in Seq(Entry),
           Root \in DOMAIN nd, nd \in [DOMAIN nd -> Node],
           KidsLive(nd), NodesFit(nd),
           nd[b].depth = 0, Len(es) <= nd[b].max
    PROVE  LET nn == [nd EXCEPT ![b].ents = es]
           IN  /\ DOMAIN nn = DOMAIN nd
               /\ nn \in [DOMAIN nd -> Node]
               /\ KidsLive(nn) /\ NodesFit(nn)
               /\ \A c \in DOMAIN nd : nn[c].depth = nd[c].depth
               /\ \A c \in DOMAIN nd : c # b => nn[c] = nd[c]
               /\ nn[b].ents = es
<1> DEFINE nn == [nd EXCEPT ![b].ents = es]
<1>1. nd[b] \in Node
  OBVIOUS
<1>2. /\ nn[b].depth = nd[b].depth /\ nn[b].max = nd[b].max
      /\ nn[b].ents = es /\ nn[b] \in Node
  BY <1>1 DEF Node
<1>3. nn \in [DOMAIN nd -> Node] /\ \A c \in DOMAIN nd : c # b => nn[c] = nd[c]
  BY <1>2
<1>4. \A c \in DOMAIN nd : /\ nn[c].depth = nd[c].depth
                           /\ nn[c].max = nd[c].max
                           /\ Len(nn[c].ents) <= nd[c].max
  BY <1>2, <1>3 DEF NodesFit
<1>5. \A c \in DOMAIN nd : nd[c].depth > 0 =>
         /\ nn[c].ents # <<>>
         /\ \A i \in DOMAIN nn[c].ents :
               \E j \in DOMAIN nd[c].ents :
                  nn[c].ents[i].pblk = nd[c].ents[j].pblk
  BY <1>3 DEF NodesFit
<1> HIDE DEF nn
<1>6. DOMAIN nn = DOMAIN nd /\ KidsLive(nn) /\ NodesFit(nn)
  BY <1>3, <1>4, <1>5, SameShape
<1> QED
  BY <1>2, <1>3, <1>4, <1>6 DEF nn

\* The leaf of a complete path.
LEMMA LeafOfPath ==
    ASSUME IInv, path # <<>>, pc \in Working \cup {"fail"}
    PROVE  /\ Len(path) = depth + 1 /\ depth \in Nat
           /\ leaf \in PathElem /\ leaf = path[Len(path)]
           /\ leaf.blk \in DOMAIN node /\ node[leaf.blk] \in Node
           /\ node[leaf.blk].depth = 0
           /\ leaf.pos \in 0 .. Len(node[leaf.blk].ents)
           /\ leaf.pos # 0 => leaf.pos \in DOMAIN node[leaf.blk].ents /\ ex \in Entry
<1>1. /\ path \in Seq(PathElem) /\ node \in [DOMAIN node -> Node]
      /\ Root \in DOMAIN node
  BY DEF IInv, TreeInv, LocalInv, TreeType, LocalType
<1>2. Len(path) \in Nat \ {0} /\ Len(path) \in 1 .. Len(path)
  BY <1>1, EmptySeq
<1>3. depth \in Nat
  BY <1>1, NodeFields DEF depth
<1>4. Len(path) = depth + 1
  BY DEF IInv, LocalInv, PathInv, Working
<1>5. leaf \in PathElem /\ leaf = path[Len(path)]
  BY <1>1, <1>2, ElementOfSeq DEF leaf
<1>6. leaf.blk \in DOMAIN node /\ node[leaf.blk].depth = depth - (Len(path) - 1)
  BY <1>2, <1>5 DEF IInv, LocalInv, PathInv
<1>7. leaf.pos \in Nat /\ leaf.pos <= Len(node[leaf.blk].ents)
  BY <1>5 DEF IInv, LocalInv, PathInv, PathElem
<1>8. node[leaf.blk] \in Node
  BY <1>1, <1>6
<1> QED
  BY <1>3, <1>4, <1>5, <1>6, <1>7, <1>8, NodeFields DEF ex

-----------------------------------------------------------------------------
(* The steps.  First, those that return or leave the tree alone.           *)

\* A call that returns forgets its path, its split and its extent.
LEMMA ReturnStep ==
    ASSUME LocalInv, NEW r \in Result, pc \notin {"split", "link"},
           Return(r), UNCHANGED split
    PROVE  LocalInv'
<1>1. LocalType'
  <2>1. NoExtent \in Entry /\ NoSlot.len \in RawLen
    BY InitMaxAssumption DEF NoExtent, NoSlot, Entry, RawLen
  <2>2. /\ pc' \in PCs
        /\ req' \in [lblk : Nat, max : Nat, create : BOOLEAN]
        /\ saved' \in [blk : PBlk \cup {Root}, pos : Nat, len : RawLen]
    BY <2>1 DEF Return, PCs, NoReq, NoSlot
  <2>3. path' \in Seq(PathElem) /\ todo' \in Seq(SplitStep)
    BY EmptySeq DEF Return
  <2> QED
    BY <2>1, <2>2, <2>3 DEF LocalInv, LocalType, Return, split
<1>2. PathInv'
  BY DEF Return, PathInv, Searching, Working
<1>3. GrowInv' /\ DataInv'
  BY DEF Return, GrowInv, DataInv, Inserting
<1>4. SplitInv'
  BY DEF LocalInv, Return, SplitInv, split
<1> QED
  BY <1>1, <1>2, <1>3, <1>4 DEF LocalInv

\* Entering ext4_extent_get_blocks keeps the invariant: the new path is the root alone.
LEMMA CallStep ==
    ASSUME IInv, NEW l \in LBlk, NEW m \in MaxBlocks, NEW c \in BOOLEAN,
           ext4_extent_get_blocks(l, m, c)
    PROVE  IInv'
<1> USE DEF ext4_extent_get_blocks
<1>1. TreeInv'
  BY DEF IInv, TreeInv, TreeType, NodesNotFree, tree
<1>2. LocalType'
  <2>1. [blk |-> Root, pos |-> 0] \in PathElem
    BY DEF PathElem
  <2>2. path' \in Seq(PathElem)
    BY <2>1
  <2>3. req' \in [lblk : Nat, max : Nat, create : BOOLEAN] /\ res' \in Result
    BY ConstantsAssumption DEF EOK, Result
  <2> QED
    BY <2>2, <2>3 DEF IInv, LocalInv, LocalType, PCs, split, conv
<1>3. PathInv'
  <2>1. /\ Len(path') = 1 /\ path'[1].blk = Root /\ path' # <<>>
        /\ node' = node /\ pc' = "find"
    BY DEF tree
  <2>2. Root \in DOMAIN node /\ depth \in Nat
    BY NodeFields DEF IInv, TreeInv, TreeType, depth
  <2> QED
    BY <2>1, <2>2 DEF PathInv, Searching, Working, depth
<1>4. GrowInv' /\ DataInv'
  BY DEF GrowInv, DataInv, Inserting
<1>5. SplitInv'
  BY DEF IInv, LocalInv, SplitInv, split
<1> QED
  BY <1>1, <1>2, <1>3, <1>4, <1>5 DEF IInv, LocalInv

\* The node at the end of a path that a search has reached.
LEMMA SearchNode ==
    ASSUME IInv, pc \in Searching
    PROVE  /\ path # <<>> /\ Len(path) \in Nat \ {0}
           /\ leaf \in PathElem /\ leaf = path[Len(path)]
           /\ depth \in Nat /\ target \in Nat
           /\ leaf.blk \in DOMAIN node /\ node[leaf.blk] \in Node
           /\ node[leaf.blk].depth = depth - (Len(path) - 1)
           /\ node[leaf.blk].depth > 0 => node[leaf.blk].ents # <<>>
<1>1. /\ path \in Seq(PathElem) /\ node \in [DOMAIN node -> Node]
      /\ Root \in DOMAIN node /\ path # <<>>
  BY DEF IInv, TreeInv, LocalInv, TreeType, LocalType, PathInv
<1>2. Len(path) \in Nat \ {0} /\ Len(path) \in 1 .. Len(path)
  BY <1>1, EmptySeq
<1>3. depth \in Nat
  BY <1>1, NodeFields DEF depth
<1>4. target \in Nat
  BY DEF IInv, LocalInv, LocalType, target, Entry
<1>5. leaf \in PathElem /\ leaf = path[Len(path)]
  BY <1>1, <1>2, ElementOfSeq DEF leaf
<1>6. leaf.blk \in DOMAIN node /\ node[leaf.blk].depth = depth - (Len(path) - 1)
  BY <1>2, <1>5 DEF IInv, LocalInv, PathInv
<1>7. node[leaf.blk] \in Node
  BY <1>1, <1>6
<1> QED
  BY <1>1, <1>2, <1>3, <1>4, <1>5, <1>6, <1>7 DEF IInv, TreeInv, NodesFit

\* One round of ext4_find_extent's walk keeps the invariant: the child it appends to
\* the path is live and one level further down.
LEMMA WalkStep ==
    ASSUME IInv, ext4_find_extent_walk
    PROVE  IInv'
<1> DEFINE p     == Closest(node[leaf.blk].ents, target)
           child == node[leaf.blk].ents[p].pblk
           n     == Len(path)
           q     == [path EXCEPT ![n].pos = p]
<1>1. /\ pc \in Searching /\ pc' = pc /\ node' = node /\ free' = free
      /\ node[leaf.blk].depth > 0
      /\ ext4_ext_check(child, node[leaf.blk].depth - 1)
      /\ path' = Append(q, [blk |-> child, pos |-> 0])
      /\ UNCHANGED <<req, newext, at, key, np, todo, saved, res>>
  BY DEF ext4_find_extent_walk, Searching, tree, split, conv
<1>2. TreeInv'
  BY <1>1 DEF IInv, TreeInv, TreeType, NodesNotFree
<1>3. p \in 1 .. Len(node[leaf.blk].ents)
  BY <1>1, SearchNode, NodeFields, ClosestInRange
<1>4. child \in DOMAIN node \ {Root} /\ node[child].depth = node[leaf.blk].depth - 1
  BY <1>1, <1>3, SearchNode, NodeFields DEF IInv, TreeInv, KidsLive
<1>5. /\ n \in Nat \ {0} /\ path \in Seq(PathElem)
      /\ [blk |-> child, pos |-> 0] \in PathElem
      /\ [leaf EXCEPT !.pos = p] \in PathElem
  <2>1. n \in Nat \ {0} /\ leaf \in PathElem
    BY <1>1, SearchNode
  <2>2. path \in Seq(PathElem) /\ DOMAIN node \subseteq PBlk \cup {Root}
    BY DEF IInv, TreeInv, TreeType, LocalInv, LocalType
  <2>3. p \in Nat
    BY <1>1, <1>3, SearchNode, NodeFields
  <2> HIDE DEF p, child
  <2> QED
    BY <1>4, <2>1, <2>2, <2>3 DEF PathElem
<1> HIDE DEF p, child
<1>6. /\ q \in Seq(PathElem) /\ Len(q) = n
      /\ q[n].blk = path[n].blk /\ q[n].pos = p
      /\ \A k \in 1 .. n - 1 : q[k] = path[k]
  <2>1. q = [path EXCEPT ![n] = [leaf EXCEPT !.pos = p]]
    BY <1>5 DEF leaf
  <2>2. [leaf EXCEPT !.pos = p].pos = p /\ [leaf EXCEPT !.pos = p].blk = leaf.blk
    BY <1>1, SearchNode DEF PathElem
  <2>3. leaf = path[n]
    BY <1>1, SearchNode
  <2>4. n \in 1 .. Len(path)
    BY <1>5
  <2> QED
    BY <1>5, <2>1, <2>2, <2>3, <2>4, ExceptSeq
<1> HIDE DEF q
<1>7. /\ path' \in Seq(PathElem) /\ Len(path') = n + 1
      /\ path'[n + 1] = [blk |-> child, pos |-> 0]
      /\ \A k \in 1 .. n : path'[k] = q[k]
  BY <1>1, <1>5, <1>6, AppendProperties
<1>8. LocalType'
  BY <1>1, <1>7 DEF IInv, LocalInv, LocalType
<1>9. PathInv'
  <2>1. path' # <<>>
    BY <1>5, <1>7
  <2>2. path'[1].blk = Root
    <3>1. path[1].blk = Root
      BY <1>1, SearchNode DEF IInv, LocalInv, PathInv
    <3> QED
      BY <3>1, <1>5, <1>6, <1>7
  <2>3. ASSUME NEW k \in 1 .. n + 1
        PROVE  /\ path'[k].blk \in DOMAIN node
               /\ node[path'[k].blk].depth = depth - (k - 1)
               /\ k < n + 1 => path'[k].pos \in 1 .. Len(node[path'[k].blk].ents)
    <3>1. CASE k < n
      <4>1. k \in 1 .. Len(path) /\ k < Len(path)
        BY <3>1, <1>5
      <4>2. path'[k] = path[k]
        BY <3>1, <1>5, <1>6, <1>7
      <4>3. /\ path[k].blk \in DOMAIN node
            /\ node[path[k].blk].depth = depth - (k - 1)
            /\ path[k].pos \in 1 .. Len(node[path[k].blk].ents)
        BY <4>1 DEF IInv, LocalInv, PathInv
      <4> QED
        BY <4>2, <4>3
    <3>2. CASE k = n
      <4>1. path'[k].blk = leaf.blk /\ path'[k].pos = p
        BY <3>2, <1>1, <1>5, <1>6, <1>7, SearchNode
      <4>2. leaf.blk \in DOMAIN node /\ node[leaf.blk].depth = depth - (n - 1)
        BY <1>1, SearchNode
      <4> QED
        BY <3>2, <4>1, <4>2, <1>3
    <3>3. CASE k = n + 1
      <4>1. node[leaf.blk].depth = depth - (n - 1) /\ depth \in Nat
        BY <1>1, SearchNode
      <4> QED
        BY <3>3, <4>1, <1>4, <1>5, <1>7
    <3> QED
      BY <3>1, <3>2, <3>3, <1>5
  <2> QED
    BY <1>1, <1>7, <2>1, <2>2, <2>3 DEF PathInv, Searching, Working, depth
<1>10. GrowInv' /\ DataInv'
  BY <1>1 DEF IInv, LocalInv, GrowInv, DataInv
<1>11. SplitInv'
  BY <1>1 DEF IInv, LocalInv, SplitInv, Searching
<1> QED
  BY <1>2, <1>8, <1>9, <1>10, <1>11 DEF IInv, LocalInv

\* Setting the slot of the last element of a path.
LEMMA SetLeafPos ==
    ASSUME NEW q \in Seq(PathElem), q # <<>>, NEW p \in Nat
    PROVE  LET r == [q EXCEPT ![Len(q)].pos = p]
           IN  /\ r \in Seq(PathElem) /\ Len(r) = Len(q) /\ r # <<>>
               /\ r[Len(q)].blk = q[Len(q)].blk /\ r[Len(q)].pos = p
               /\ \A k \in 1 .. Len(q) : r[k].blk = q[k].blk
               /\ \A k \in 1 .. Len(q) - 1 : r[k] = q[k]
<1> DEFINE n == Len(q)
           e == [q[n] EXCEPT !.pos = p]
           r == [q EXCEPT ![n].pos = p]
<1>1. n \in Nat \ {0} /\ n \in 1 .. Len(q)
  BY EmptySeq
<1>2. q[n] \in PathElem
  BY <1>1, ElementOfSeq
<1>3. e \in PathElem /\ e.pos = p /\ e.blk = q[n].blk
  BY <1>2 DEF PathElem
<1>4. r = [q EXCEPT ![n] = e]
  OBVIOUS
<1> HIDE DEF n, e, r
<1>5. /\ r \in Seq(PathElem) /\ Len(r) = Len(q)
      /\ \A j \in 1 .. Len(q) : r[j] = IF j = n THEN e ELSE q[j]
  BY <1>1, <1>3, <1>4, ExceptSeq
<1>6. r # <<>>
  BY <1>1, <1>5, EmptySeq
<1> QED
  BY <1>1, <1>3, <1>5, <1>6 DEF n, r

\* The start of a split: nothing has been made yet.
LEMMA SplitStarts ==
    ASSUME TreeType, newext \in Entry, NEW q \in Seq(PathElem), q # <<>>,
           q[Len(q)].blk \in DOMAIN node, NEW a \in 2 .. Len(q),
           StartSplit(q, a)
    PROVE  at' = a /\ key' \in Nat /\ np' = <<>> /\ pc' = "split"
<1> DEFINE l == q[Len(q)]
<1>1. node[l.blk] \in Node
  BY DEF TreeType
<1>2. \A i \in DOMAIN node[l.blk].ents : node[l.blk].ents[i].lblk \in Nat
  BY <1>1, NodeFields DEF Entry
<1>3. \A i : SlotKey(node[l.blk].ents, i) \subseteq Nat
  BY <1>2, ConstantsAssumption DEF SlotKey
<1>4. newext.lblk \in Nat
  BY DEF Entry
<1>5. key' \in IF l.pos # node[l.blk].max
               THEN SlotKey(node[l.blk].ents, l.pos + 1) ELSE {newext.lblk}
  BY DEF StartSplit
<1> HIDE DEF l
<1>6. key' \in Nat
  BY <1>3, <1>4, <1>5
<1> QED
  BY <1>6 DEF StartSplit

\* A failing search keeps the invariant: the path it frees is gone.
LEMMA FindErrStep ==
    ASSUME IInv, ext4_find_extent_err
    PROVE  IInv'
<1>1. /\ pc \in Searching /\ node' = node /\ free' = free
      /\ UNCHANGED <<at, key, np>>
  BY DEF ext4_find_extent_err, Searching, tree, split
<1>2. TreeInv'
  BY <1>1 DEF IInv, TreeInv, TreeType, NodesNotFree
<1>3. CASE pc = "find"
  <2>1. Return(EFAIL) /\ UNCHANGED split /\ EFAIL \in Result
    BY <1>3 DEF ext4_find_extent_err, EFAIL, Result
  <2> QED
    BY <1>2, <1>3, <2>1, ReturnStep DEF IInv
<1>4. CASE pc # "find"
  <2>1. /\ path' = <<>> /\ pc' \in {"fail", "bugcheck"} /\ pc = "refind"
        /\ UNCHANGED <<req, newext, todo, saved, res>>
    BY <1>1, <1>4 DEF ext4_find_extent_err, Searching, conv
  <2>2. LocalType'
    BY <1>1, <2>1, EmptySeq DEF IInv, LocalInv, LocalType, PCs
  <2>3. PathInv' /\ GrowInv'
    BY <2>1 DEF PathInv, GrowInv, Searching, Working
  <2>4. SplitInv'
    BY <1>1, <2>1 DEF IInv, LocalInv, SplitInv
  <2>5. DataInv'
    BY <1>1, <2>1 DEF IInv, LocalInv, DataInv, Inserting
  <2> QED
    BY <1>2, <2>2, <2>3, <2>4, <2>5 DEF IInv, LocalInv
<1> QED
  BY <1>3, <1>4

\* Reaching the leaf keeps the invariant, also when a split starts from there.
LEMMA FindLeafStep ==
    ASSUME IInv, ext4_find_extent_leaf
    PROVE  IInv'
<1> DEFINE p == IF node[leaf.blk].ents = <<>> THEN 0
                ELSE Closest(node[leaf.blk].ents, target)
<1>1. /\ pc \in Searching /\ node' = node /\ free' = free
      /\ node[leaf.blk].depth = 0
      /\ path' = [path EXCEPT ![Len(path)].pos = p]
      /\ UNCHANGED <<req, newext, todo, saved, res>>
  BY DEF ext4_find_extent_leaf, Searching, tree, conv
<1>2. \/ pc = "find" /\ pc' = "found" /\ UNCHANGED split
      \/ pc = "refind" /\ depth = 1 /\ pc' = "insert" /\ UNCHANGED split
      \/ pc = "refind" /\ depth > 1 /\ StartSplit(path', 3)
  BY DEF ext4_find_extent_leaf
<1>3. TreeInv'
  BY <1>1 DEF IInv, TreeInv, TreeType, NodesNotFree
<1>4. p \in 0 .. Len(node[leaf.blk].ents) /\ p \in Nat
  BY <1>1, SearchNode, NodeFields, ClosestInRange
<1> HIDE DEF p
<1>5. /\ path \in Seq(PathElem) /\ path # <<>> /\ Len(path) \in Nat \ {0}
      /\ depth \in Nat /\ Len(path) = depth + 1
  <2>1. path \in Seq(PathElem)
    BY DEF IInv, LocalInv, LocalType
  <2>2. path # <<>> /\ Len(path) \in Nat \ {0} /\ depth \in Nat
    BY <1>1, SearchNode
  <2>3. node[leaf.blk].depth = depth - (Len(path) - 1)
    BY <1>1, SearchNode
  <2> QED
    BY <1>1, <2>1, <2>2, <2>3
<1>6. /\ path' \in Seq(PathElem) /\ Len(path') = Len(path) /\ path' # <<>>
      /\ path'[Len(path)].blk = leaf.blk /\ path'[Len(path)].pos = p
      /\ \A k \in 1 .. Len(path) : path'[k].blk = path[k].blk
      /\ \A k \in 1 .. Len(path) - 1 : path'[k] = path[k]
  <2> DEFINE r == [path EXCEPT ![Len(path)].pos = p]
  <2>1. /\ r \in Seq(PathElem) /\ Len(r) = Len(path) /\ r # <<>>
        /\ r[Len(path)].blk = path[Len(path)].blk /\ r[Len(path)].pos = p
        /\ \A k \in 1 .. Len(path) : r[k].blk = path[k].blk
        /\ \A k \in 1 .. Len(path) - 1 : r[k] = path[k]
    BY <1>4, <1>5, SetLeafPos
  <2>2. path' = r
    BY <1>1
  <2> HIDE DEF r
  <2> QED
    BY <2>1, <2>2 DEF leaf
<1>7. /\ path'[1].blk = Root
      /\ \A k \in 1 .. Len(path') :
            /\ path'[k].blk \in DOMAIN node'
            /\ node'[path'[k].blk].depth = depth' - (k - 1)
            /\ k < Len(path') =>
                  path'[k].pos \in 1 .. Len(node'[path'[k].blk].ents)
      /\ leaf'.pos <= Len(node'[leaf'.blk].ents)
  <2>1. depth' = depth /\ leaf' = path'[Len(path)]
    BY <1>1, <1>6 DEF depth, leaf
  <2>2. leaf'.pos <= Len(node'[leaf'.blk].ents)
    BY <1>1, <1>4, <1>6, <2>1, SearchNode, NodeFields
  <2>3. path[1].blk = Root /\ 1 \in 1 .. Len(path)
    BY <1>5 DEF IInv, LocalInv, PathInv
  <2>4. \A k \in 1 .. Len(path) :
            /\ path[k].blk \in DOMAIN node
            /\ node[path[k].blk].depth = depth - (k - 1)
            /\ k < Len(path) =>
                  path[k].pos \in 1 .. Len(node[path[k].blk].ents)
    BY DEF IInv, LocalInv, PathInv
  <2>5. \A k \in 1 .. Len(path) : k < Len(path) => k \in 1 .. Len(path) - 1
    BY <1>5
  <2> QED
    BY <1>1, <1>6, <2>1, <2>2, <2>3, <2>4, <2>5
<1>8. pc' \in {"found", "insert", "split"} => PathInv'
  <2>1. Len(path') = depth' + 1
    BY <1>1, <1>5, <1>6 DEF depth
  <2> QED
    BY <1>6, <1>7, <2>1 DEF PathInv, Searching, Working
<1>9. ASSUME UNCHANGED split, pc' \in {"found", "insert"},
             pc' = "insert" => pc = "refind"
      PROVE  LocalInv'
  <2>1. LocalType'
    BY <1>1, <1>6, <1>9 DEF IInv, LocalInv, LocalType, PCs, split
  <2>2. GrowInv' /\ SplitInv'
    BY <1>1, <1>9 DEF IInv, LocalInv, GrowInv, SplitInv, split, Searching
  <2>3. DataInv'
    BY <1>1, <1>9 DEF IInv, LocalInv, DataInv, Inserting
  <2> QED
    BY <1>8, <1>9, <2>1, <2>2, <2>3 DEF LocalInv
<1>10. ASSUME pc = "refind", depth > 1, StartSplit(path', 3)
       PROVE  LocalInv'
  <2>1. 3 \in 2 .. Len(path')
    BY <1>5, <1>6, <1>10
  <2>2. at' = 3 /\ key' \in Nat /\ np' = <<>> /\ pc' = "split"
    <3>1. TreeType /\ newext \in Entry
      BY DEF IInv, TreeInv, LocalInv, LocalType
    <3>2. path'[Len(path')].blk \in DOMAIN node
      BY <1>1, <1>6, SearchNode
    <3> QED
      BY <1>6, <1>10, <2>1, <3>1, <3>2, SplitStarts
  <2>3. LocalType'
    BY <1>1, <1>6, <2>2, EmptySeq DEF IInv, LocalInv, LocalType, PCs
  <2>4. GrowInv'
    BY <2>2 DEF GrowInv
  <2>5. SplitInv'
    <3>1. ToSet(np') = {} /\ Len(np') = 0
      BY <2>2 DEF ToSet
    <3>2. Len(np') <= Len(path') - at' /\ at' \in 2 .. Len(path')
      BY <1>5, <1>6, <2>1, <2>2, <3>1
    <3> QED
      BY <2>2, <3>1, <3>2 DEF SplitInv
  <2>6. DataInv'
    BY <1>1, <1>10, <2>2 DEF IInv, LocalInv, DataInv, Inserting
  <2> QED
    BY <1>8, <2>2, <2>3, <2>4, <2>5, <2>6 DEF LocalInv
<1> QED
  BY <1>2, <1>3, <1>9, <1>10 DEF IInv

-----------------------------------------------------------------------------
(* The decision of get_blocks().                                           *)

\* The smaller of two numbers is one of them.
LEMMA MinOfTwo ==
    ASSUME NEW a \in Int, NEW b \in Int
    PROVE  Min({a, b}) \in {a, b}
<1>1. \E x \in {a, b} : \A y \in {a, b} : x <= y
  OBVIOUS
<1> QED
  BY <1>1 DEF Min

\* The part of an extent from the requested block on is not empty.
LEMMA RemainingBlocks ==
    ASSUME IInv, pc = "found", Found
    PROVE  Remaining \in Nat /\ ex \in Entry /\ req.lblk \in Nat
<1>1. path # <<>>
  <2>1. Len(path) = depth + 1 /\ depth \in Nat
    BY NodeFields DEF IInv, TreeInv, TreeType, LocalInv, PathInv, Working, depth
  <2> QED
    BY <2>1
<1>2. ex \in Entry
  BY <1>1, LeafOfPath DEF Found, Working
<1>3. req.lblk \in Nat /\ req.max \in Nat
  BY DEF IInv, LocalInv, LocalType
<1>4. ee_len(ex) - (req.lblk - ex.lblk) \in Nat
  <2>1. ee_len(ex) \in Nat /\ ex.lblk \in Nat
    BY <1>2, RawLengths, InitMaxAssumption DEF Entry
  <2> QED
    BY <1>3, <2>1 DEF Found, Covers
<1>5. Remaining \in {ee_len(ex) - (req.lblk - ex.lblk), req.max}
  BY <1>3, <1>4, MinOfTwo DEF Remaining
<1> QED
  BY <1>2, <1>3, <1>4, <1>5

\* ext4_ext_convert_to_initialized asks for one or two well-formed cuts.
LEMMA ConvertStepsType ==
    ASSUME NEW e \in Entry, NEW s \in Nat, NEW n \in Nat
    PROVE  ConvertSteps(e, s, n) \in Seq(SplitStep) /\ ConvertSteps(e, s, n) # <<>>
<1> DEFINE u1 == "MARK_UNWRIT1"
           u2 == "MARK_UNWRIT2"
           a == [split |-> s, flag |-> {u1}]
           b == [split |-> s + n, flag |-> {u2}]
           c == [split |-> s + n, flag |-> {u1, u2}]
<1>1. a \in SplitStep /\ b \in SplitStep /\ c \in SplitStep
  BY DEF SplitStep
<1>2. ConvertSteps(e, s, n) \in {<<a>>, <<b>>, <<c, a>>}
  BY DEF ConvertSteps
<1> HIDE DEF a, b, c
<1>3. /\ <<a>> \in Seq(SplitStep) /\ <<b>> \in Seq(SplitStep)
      /\ <<c, a>> \in Seq(SplitStep)
  BY <1>1
<1>4. <<a>> # <<>> /\ <<b>> # <<>> /\ <<c, a>> # <<>>
  OBVIOUS
<1> QED
  BY <1>2, <1>3, <1>4

\* The returns of ext4_extent_get_blocks that change no tree keep the invariant.
LEMMA ReturnFoundStep ==
    ASSUME IInv, \/ ReturnMapped \/ ReturnHole \/ AllocateDataFails
                 \/ ext4_ext_zero_unwritten_range_err
    PROVE  IInv'
<1>1. pc = "found" /\ node' = node /\ free' = free /\ UNCHANGED split
  BY DEF ReturnMapped, ReturnHole, AllocateDataFails,
         ext4_ext_zero_unwritten_range_err, tree
<1>2. TreeInv'
  BY <1>1 DEF IInv, TreeInv, TreeType, NodesNotFree
<1>3. EFAIL \in Result /\ EOK(0, 0) \in Result
  BY DEF EFAIL, EOK, Result
<1>4. \E r \in Result : Return(r)
  <2>1. CASE ReturnMapped
    <3>1. Remaining \in Nat /\ ex \in Entry /\ req.lblk \in Nat
      BY <1>1, <2>1, RemainingBlocks DEF ReturnMapped
    <3>2. req.lblk - ex.lblk + ex.pblk \in Int
      BY <3>1 DEF Entry
    <3>3. EOK(req.lblk - ex.lblk + ex.pblk, Remaining) \in Result
      BY <3>1, <3>2 DEF EOK, Result
    <3>4. EOK(0, Remaining) \in Result
      BY <3>1 DEF EOK, Result
    <3> QED
      BY <2>1, <3>3, <3>4 DEF ReturnMapped
  <2> QED
    BY <1>3, <2>1 DEF ReturnHole, AllocateDataFails,
                      ext4_ext_zero_unwritten_range_err
<1> QED
  BY <1>1, <1>2, <1>4, ReturnStep DEF IInv

\* Starting a conversion keeps the invariant: the path has an extent to cut.
LEMMA ConvertStep ==
    ASSUME IInv, ext4_ext_convert_to_initialized
    PROVE  IInv'
<1>1. /\ pc = "found" /\ pc' = "splitat" /\ node' = node /\ free' = free
      /\ todo' = ConvertSteps(ex, req.lblk, Remaining)
      /\ res' = EOK(req.lblk - ex.lblk + ex.pblk, Remaining)
      /\ UNCHANGED <<req, path, newext, at, key, np, saved>>
      /\ Found
  BY DEF ext4_ext_convert_to_initialized, tree, split
<1>2. TreeInv'
  BY <1>1 DEF IInv, TreeInv, TreeType, NodesNotFree
<1>3. Remaining \in Nat /\ ex \in Entry /\ req.lblk \in Nat
  BY <1>1, RemainingBlocks
<1>4. todo' \in Seq(SplitStep) /\ todo' # <<>>
  BY <1>1, <1>3, ConvertStepsType
<1>5. res' \in Result
  BY <1>1, <1>3 DEF EOK, Result, Entry
<1>6. LocalType'
  BY <1>1, <1>4, <1>5 DEF IInv, LocalInv, LocalType, PCs
<1>7. PathInv' /\ GrowInv'
  BY <1>1 DEF IInv, LocalInv, PathInv, GrowInv, Searching, Working, depth, leaf
<1>8. SplitInv' /\ DataInv'
  BY <1>1, <1>4 DEF IInv, LocalInv, SplitInv, DataInv, Inserting
<1> QED
  BY <1>2, <1>6, <1>7, <1>8 DEF IInv, LocalInv

\* Allocating the data block keeps the invariant: no node gives up its block.
LEMMA AllocateStep ==
    ASSUME IInv, AllocateData
    PROVE  IInv'
<1>1. PICK b \in free : /\ free' = free \ {b}
                        /\ newext' = [lblk |-> req.lblk, pblk |-> b, len |-> 1]
  BY DEF AllocateData
<1>2. /\ pc = "found" /\ pc' = "insert" /\ node' = node
      /\ UNCHANGED <<req, path, at, key, np, todo, saved, res>>
  BY DEF AllocateData, split, conv
<1>3. b \in PBlk /\ b \notin DOMAIN node
  BY DEF IInv, TreeInv, TreeType, NodesNotFree
<1>4. TreeInv'
  BY <1>1, <1>2 DEF IInv, TreeInv, TreeType, NodesNotFree
<1>5. newext' \in Entry
  BY <1>1, <1>3, ConstantsAssumption, InitMaxAssumption
     DEF IInv, LocalInv, LocalType, Entry, RawLen
<1>6. LocalType'
  BY <1>2, <1>5 DEF IInv, LocalInv, LocalType, PCs
<1>7. PathInv' /\ GrowInv'
  BY <1>2 DEF IInv, LocalInv, PathInv, GrowInv, Searching, Working, depth, leaf
<1>8. SplitInv' /\ DataInv'
  BY <1>1, <1>2, <1>3 DEF IInv, LocalInv, SplitInv, DataInv, Inserting
<1> QED
  BY <1>4, <1>6, <1>7, <1>8 DEF IInv, LocalInv

-----------------------------------------------------------------------------
(* Steps that change a leaf and keep the shape of the tree.                *)

\* The same nodes at the same depths, none with fewer entries.
ShapeKept ==
    /\ DOMAIN node' = DOMAIN node
    /\ \A b \in DOMAIN node :
          /\ node'[b].depth = node[b].depth
          /\ Len(node'[b].ents) >= Len(node[b].ents)

\* Such a step keeps the path, whichever slot of the leaf it selects.
LEMMA PathKept ==
    ASSUME IInv, TreeType', ShapeKept, path # <<>>,
           pc \in Working \cup {"fail"}, pc' \in Working \cup {"fail"},
           NEW p \in Nat, p <= Len(node'[leaf.blk].ents),
           path' = [path EXCEPT ![Len(path)].pos = p]
    PROVE  path' \in Seq(PathElem) /\ PathInv'
<1>1. path \in Seq(PathElem) /\ node \in [DOMAIN node -> Node]
  BY DEF IInv, TreeInv, TreeType, LocalInv, LocalType
<1>2. /\ Len(path) = depth + 1 /\ depth \in Nat /\ leaf = path[Len(path)]
      /\ leaf.blk \in DOMAIN node
  BY LeafOfPath
<1>3. /\ path' \in Seq(PathElem) /\ Len(path') = Len(path) /\ path' # <<>>
      /\ path'[Len(path)].blk = leaf.blk /\ path'[Len(path)].pos = p
      /\ \A k \in 1 .. Len(path) : path'[k].blk = path[k].blk
      /\ \A k \in 1 .. Len(path) - 1 : path'[k] = path[k]
  <2> DEFINE r == [path EXCEPT ![Len(path)].pos = p]
  <2>1. /\ r \in Seq(PathElem) /\ Len(r) = Len(path) /\ r # <<>>
        /\ r[Len(path)].blk = path[Len(path)].blk /\ r[Len(path)].pos = p
        /\ \A k \in 1 .. Len(path) : r[k].blk = path[k].blk
        /\ \A k \in 1 .. Len(path) - 1 : r[k] = path[k]
    BY <1>1, SetLeafPos
  <2>2. path' = r
    OBVIOUS
  <2> HIDE DEF r
  <2> QED
    BY <1>2, <2>1, <2>2
<1>4. depth' = depth /\ leaf' = path'[Len(path)]
  BY <1>3 DEF ShapeKept, depth, leaf, IInv, TreeInv, TreeType
<1>5. path'[1].blk = Root
  <2>1. 1 \in 1 .. Len(path) /\ path[1].blk = Root
    BY <1>2 DEF IInv, LocalInv, PathInv
  <2> QED
    BY <1>3, <2>1
<1>6. ASSUME NEW k \in 1 .. Len(path)
      PROVE  /\ path'[k].blk \in DOMAIN node'
             /\ node'[path'[k].blk].depth = depth - (k - 1)
             /\ k < Len(path) => path'[k].pos \in 1 .. Len(node'[path'[k].blk].ents)
  <2>1. /\ path[k].blk \in DOMAIN node
        /\ node[path[k].blk].depth = depth - (k - 1)
        /\ k < Len(path) => path[k].pos \in 1 .. Len(node[path[k].blk].ents)
    BY DEF IInv, LocalInv, PathInv
  <2>2. /\ path'[k].blk \in DOMAIN node'
        /\ node'[path'[k].blk].depth = depth - (k - 1)
    BY <2>1, <1>3 DEF ShapeKept
  <2>3. CASE k < Len(path)
    <3>1. k \in 1 .. Len(path) - 1
      BY <1>2, <2>3
    <3>2. path'[k] = path[k]
      BY <3>1, <1>3
    <3>3. /\ Len(node[path[k].blk].ents) \in Nat
          /\ Len(node'[path[k].blk].ents) \in Nat
          /\ Len(node'[path[k].blk].ents) >= Len(node[path[k].blk].ents)
      BY <1>1, <2>1, NodeFields DEF ShapeKept, TreeType
    <3> QED
      BY <2>1, <2>2, <2>3, <3>2, <3>3, SMTT(30)
  <2> QED
    BY <2>2, <2>3
<1> QED
  BY <1>2, <1>3, <1>4, <1>5, <1>6 DEF PathInv, Searching, Working

\* Rewriting the current extent keeps the tree.
LEMMA ExtentRewritten ==
    ASSUME IInv, path # <<>>, pc \in Working \cup {"fail"}, leaf.pos # 0,
           NEW e \in Entry, free' = free,
           node' = [node EXCEPT ![leaf.blk].ents[leaf.pos] = e]
    PROVE  TreeInv' /\ ShapeKept /\ leaf.pos <= Len(node'[leaf.blk].ents)
<1> DEFINE b == leaf.blk
           es == [node[b].ents EXCEPT ![leaf.pos] = e]
<1>1. /\ b \in DOMAIN node /\ node[b] \in Node /\ node[b].depth = 0
      /\ leaf.pos \in 1 .. Len(node[b].ents)
  BY LeafOfPath, NodeFields
<1>2. node[b].ents \in Seq(Entry) /\ Len(node[b].ents) \in Nat
  BY <1>1, NodeFields
<1>3. es \in Seq(Entry) /\ Len(es) = Len(node[b].ents)
  BY <1>1, <1>2, ExceptSeq
<1>4. node' = [node EXCEPT ![b].ents = es]
  BY <1>1 DEF Node
<1>5. /\ Root \in DOMAIN node /\ node \in [DOMAIN node -> Node]
      /\ KidsLive(node) /\ NodesFit(node)
  BY DEF IInv, TreeInv, TreeType
<1>6. Len(es) <= node[b].max
  BY <1>1, <1>3, <1>5 DEF NodesFit
<1> HIDE DEF es, b
<1>7. /\ DOMAIN node' = DOMAIN node
      /\ node' \in [DOMAIN node -> Node]
      /\ KidsLive(node') /\ NodesFit(node')
      /\ \A c \in DOMAIN node : node'[c].depth = node[c].depth
      /\ \A c \in DOMAIN node : c # b => node'[c] = node[c]
      /\ node'[b].ents = es
  <2> DEFINE nn == [node EXCEPT ![b].ents = es]
  <2>1. /\ DOMAIN nn = DOMAIN node
        /\ nn \in [DOMAIN node -> Node]
        /\ KidsLive(nn) /\ NodesFit(nn)
        /\ \A c \in DOMAIN node : nn[c].depth = node[c].depth
        /\ \A c \in DOMAIN node : c # b => nn[c] = node[c]
        /\ nn[b].ents = es
    BY <1>1, <1>3, <1>5, <1>6, LeafChanged
  <2>2. node' = nn
    BY <1>4
  <2> HIDE DEF nn
  <2> QED
    BY <2>1, <2>2
<1>8. TreeInv'
  BY <1>7 DEF IInv, TreeInv, TreeType, NodesNotFree
<1>9. ASSUME NEW c \in DOMAIN node
      PROVE  Len(node'[c].ents) >= Len(node[c].ents)
  <2>1. Len(node[c].ents) \in Nat
    BY <1>5, NodeFields
  <2>2. Len(node'[c].ents) = Len(node[c].ents)
    BY <1>3, <1>7
  <2> QED
    BY <2>1, <2>2
<1> QED
  BY <1>1, <1>2, <1>3, <1>7, <1>8, <1>9 DEF ShapeKept, b

\* Going on to the next split of a conversion.
LEMMA TailOfTodo ==
    ASSUME NEW t \in Seq(SplitStep), t # <<>>, Len(t) # 1
    PROVE  Tail(t) \in Seq(SplitStep) /\ Tail(t) # <<>>
<1>1. Len(t) \in Nat \ {0}
  BY EmptySeq
<1>2. Tail(t) \in Seq(SplitStep) /\ Len(Tail(t)) = Len(t) - 1
  BY HeadTailProperties
<1>3. Len(Tail(t)) # 0
  BY <1>1, <1>2
<1>4. Tail(t) # <<>>
  <2>1. Len(<<>>) = 0
    OBVIOUS
  <2> QED
    BY <1>3, <2>1
<1> QED
  BY <1>2, <1>4

\* A list that is neither empty nor of length 1 has a non-empty tail.
LEMMA MoreThanOne ==
    ASSUME NEW t \in Seq(SplitStep), ~ (Len(t) <= 1)
    PROVE  t # <<>> /\ Len(t) # 1
<1>1. Len(t) \in Nat
  BY LenProperties
<1>2. \A n \in Nat : ~ (n <= 1) => n # 0 /\ n # 1
  OBVIOUS
<1>3. Len(t) # 0 /\ Len(t) # 1
  BY <1>1, <1>2, Zenon
<1> QED
  BY <1>3

\* Going on to the second cut keeps what the invariant says of the cuts to come.
LEMMA NextSplitStep ==
    ASSUME IInv, TreeType', ShapeKept, path # <<>>,
           pc \in Working \cup {"fail"}, pc \notin {"split", "link"},
           todo # <<>>, Len(todo) # 1, todo' = Tail(todo), pc' = "splitat",
           NEW p \in Nat, p <= Len(node'[leaf.blk].ents),
           path' = [path EXCEPT ![Len(path)].pos = p],
           UNCHANGED <<req, newext, at, key, np, saved, res>>
    PROVE  LocalInv'
<1>1. path' \in Seq(PathElem) /\ PathInv'
  BY PathKept DEF Working
<1>2. todo' \in Seq(SplitStep) /\ todo' # <<>>
  BY TailOfTodo DEF IInv, LocalInv, LocalType
<1>3. LocalType'
  BY <1>1, <1>2 DEF IInv, LocalInv, LocalType, PCs
<1>4. GrowInv' /\ SplitInv' /\ DataInv'
  BY <1>2 DEF IInv, LocalInv, GrowInv, SplitInv, DataInv, Inserting
<1> QED
  BY <1>1, <1>3, <1>4 DEF LocalInv

\* Keeping the path is selecting the slot that is selected.
LEMMA SamePath ==
    ASSUME IInv, path # <<>>, pc \in Working \cup {"fail"}
    PROVE  path = [path EXCEPT ![Len(path)].pos = leaf.pos] /\ leaf.pos \in Nat
<1>1. path \in Seq(PathElem) /\ leaf \in PathElem /\ leaf = path[Len(path)]
  BY LeafOfPath DEF IInv, LocalInv, LocalType
<1>2. leaf = [leaf EXCEPT !.pos = leaf.pos] /\ leaf.pos \in Nat
  BY <1>1 DEF PathElem
<1>3. DOMAIN path = 1 .. Len(path)
  BY <1>1, LenProperties
<1>4. path = [k \in 1 .. Len(path) |-> path[k]]
  BY <1>1, <1>3
<1>5. [path EXCEPT ![Len(path)].pos = leaf.pos] =
        [k \in 1 .. Len(path) |-> IF k = Len(path) THEN [path[k] EXCEPT !.pos = leaf.pos]
                                  ELSE path[k]]
  BY <1>3
<1> QED
  BY <1>1, <1>2, <1>4, <1>5

\* While an extent is cut or inserted, the path in hand is complete.
LEMMA WorkingPath ==
    ASSUME IInv, pc \in Working
    PROVE  path # <<>> /\ Len(path) = depth + 1 /\ depth \in Nat
<1>1. Len(path) = depth + 1 /\ depth \in Nat
  BY NodeFields DEF IInv, TreeInv, TreeType, LocalInv, PathInv, depth
<1> QED
  BY <1>1

\* split_extent_at() marks the extent it is to cut, or cuts it.
CutHere  == pc = "splitat" /\ leaf.pos # 0
CutWhole == CutHere /\ Head(todo).split = ex.lblk /\ SplitExtentAt_whole
CutPart  == CutHere /\ Head(todo).split # ex.lblk /\ SplitExtentAt_cut

LEMMA CutCases == ext4_ext_split_extent_at => CutWhole \/ CutPart
  BY DEF ext4_ext_split_extent_at, CutHere, CutWhole, CutPart

\* Changing the state of a whole extent in place keeps the invariant.
LEMMA WholeStep ==
    ASSUME IInv, CutWhole
    PROVE  IInv'
<1> DEFINE e == IF "MARK_UNWRIT2" \in Head(todo).flag
                THEN ext4_ext_mark_unwritten(ex) ELSE ext4_ext_mark_initialized(ex)
<1>1. /\ pc = "splitat" /\ leaf.pos # 0 /\ free' = free /\ UNCHANGED split
      /\ \/ Len(todo) = 1 /\ Return(res)
         \/ /\ Len(todo) # 1 /\ todo' = Tail(todo)
            /\ UNCHANGED <<pc, res, req, path, newext, saved>>
  BY DEF CutWhole, CutHere, SplitExtentAt_whole
<1>2. pc \in Working /\ path # <<>>
  BY <1>1, WorkingPath DEF Working
<1>3. ex \in Entry
  BY <1>1, <1>2, LeafOfPath
<1>4. e \in Entry
  BY <1>3, RawLengths
<1>5. node' = [node EXCEPT ![leaf.blk].ents[leaf.pos] = e]
  BY DEF CutWhole, CutHere, SplitExtentAt_whole, ex
<1> HIDE DEF e
<1>6. TreeInv' /\ ShapeKept /\ leaf.pos <= Len(node'[leaf.blk].ents)
  BY <1>1, <1>2, <1>4, <1>5, ExtentRewritten
<1>7. CASE Len(todo) = 1 /\ Return(res)
  <2>1. res \in Result
    BY DEF IInv, LocalInv, LocalType
  <2> QED
    BY <1>1, <1>6, <1>7, <2>1, ReturnStep DEF IInv
<1>8. CASE Len(todo) # 1 /\ ~ Return(res)
  <2>1. todo # <<>> /\ TreeType'
    BY <1>1, <1>6 DEF IInv, LocalInv, DataInv, TreeInv
  <2>2. path' = [path EXCEPT ![Len(path)].pos = leaf.pos] /\ leaf.pos \in Nat
    BY <1>1, <1>2, <1>8, SamePath
  <2>3. /\ todo' = Tail(todo) /\ pc' = "splitat" /\ pc \notin {"split", "link"}
        /\ UNCHANGED <<req, newext, at, key, np, saved, res>>
    BY <1>1, <1>8 DEF split
  <2>4. LocalInv'
    BY <1>2, <1>6, <1>8, <2>1, <2>2, <2>3, NextSplitStep
  <2> QED
    BY <1>6, <2>4 DEF IInv
<1>9. CASE Len(todo) # 1 /\ Return(res)
  <2>1. res \in Result
    BY DEF IInv, LocalInv, LocalType
  <2> QED
    BY <1>1, <1>6, <1>9, <2>1, ReturnStep DEF IInv
<1> QED
  BY <1>1, <1>7, <1>8, <1>9

\* Shortening an extent and holding its rest in newext keeps the invariant.
LEMMA SplitAtStep ==
    ASSUME IInv, CutPart
    PROVE  IInv'
<1> DEFINE s == Head(todo).split
           n == ext4_ext_get_actual_len(ex)
           Mark(u, x) == IF u \in Head(todo).flag
                         THEN ext4_ext_mark_unwritten(x) ELSE x
           e == Mark("MARK_UNWRIT1", [ex EXCEPT !.len = AsRaw(s - ex.lblk)])
           f == [lblk |-> s, pblk |-> s - ex.lblk + ex.pblk,
                 len  |-> AsRaw(n - (s - ex.lblk))]
<1>1. /\ pc = "splitat" /\ pc' = "insert" /\ leaf.pos # 0 /\ free' = free
      /\ newext' = Mark("MARK_UNWRIT2", f)
      /\ saved' = [blk |-> leaf.blk, pos |-> leaf.pos, len |-> AsRaw(n)]
      /\ UNCHANGED <<req, path, at, key, np, todo, res>>
  BY DEF CutPart, CutHere, SplitExtentAt_cut, split
<1>2. pc \in Working /\ path # <<>>
  BY <1>1, WorkingPath DEF Working
<1>3. ex \in Entry /\ leaf \in PathElem
  BY <1>1, <1>2, LeafOfPath
<1>4. todo # <<>> /\ todo \in Seq(SplitStep)
  BY <1>1 DEF IInv, LocalInv, LocalType, DataInv
<1>5. s \in Nat
  <2>1. Head(todo) \in SplitStep
    BY <1>4, HeadTailProperties
  <2> QED
    BY <2>1 DEF SplitStep
<1>6. n \in Int
  BY <1>3, LengthValues
<1> HIDE DEF s, n
<1>7. /\ [ex EXCEPT !.len = AsRaw(s - ex.lblk)] \in Entry
      /\ f \in Entry
  <2>1. s - ex.lblk \in Int /\ n - (s - ex.lblk) \in Int
        /\ s - ex.lblk + ex.pblk \in Int
    BY <1>3, <1>5, <1>6, InitMaxAssumption DEF Entry
  <2>2. AsRaw(s - ex.lblk) \in RawLen /\ AsRaw(n - (s - ex.lblk)) \in RawLen
    BY <2>1, RawLengths
  <2> QED
    BY <1>3, <1>5, <2>1, <2>2 DEF Entry
<1>8. e \in Entry /\ newext' \in Entry
  BY <1>1, <1>7, RawLengths
<1>9. saved' \in [blk : PBlk \cup {Root}, pos : Nat, len : RawLen]
  <2>1. AsRaw(n) \in RawLen
    BY <1>6, RawLengths
  <2> QED
    BY <1>1, <1>3, <2>1 DEF PathElem
<1>10. node' = [node EXCEPT ![leaf.blk].ents[leaf.pos] = e]
  BY DEF CutPart, CutHere, SplitExtentAt_cut, ex, s
<1> HIDE DEF e
<1>11. TreeInv' /\ ShapeKept /\ leaf.pos <= Len(node'[leaf.blk].ents)
  BY <1>1, <1>2, <1>8, <1>10, ExtentRewritten
<1>12. path' \in Seq(PathElem) /\ PathInv'
  <2>1. path' = [path EXCEPT ![Len(path)].pos = leaf.pos] /\ leaf.pos \in Nat
    BY <1>1, <1>2, SamePath
  <2>2. TreeType' /\ pc' \in Working
    BY <1>1, <1>11 DEF TreeInv, Working
  <2> QED
    BY <1>2, <1>11, <2>1, <2>2, PathKept
<1>13. LocalType'
  BY <1>1, <1>8, <1>9, <1>12 DEF IInv, LocalInv, LocalType, PCs
<1>14. GrowInv' /\ SplitInv' /\ DataInv'
  BY <1>1, <1>4 DEF IInv, LocalInv, GrowInv, SplitInv, DataInv
<1> QED
  BY <1>11, <1>12, <1>13, <1>14 DEF IInv, LocalInv

-----------------------------------------------------------------------------
(* Insertion into a leaf.                                                  *)

\* The end of an insertion, back to the caller or on to the next cut, keeps the
\* invariant.
LEMMA InsertedStep ==
    ASSUME IInv, TreeInv', ShapeKept, pc = "insert",
           NEW p \in Nat, p <= Len(node'[leaf.blk].ents), Inserted(p),
           UNCHANGED split
    PROVE  IInv'
<1>1. pc \in Working /\ path # <<>> /\ todo \in Seq(SplitStep) /\ TreeType'
  BY WorkingPath DEF Working, IInv, LocalInv, LocalType, TreeInv
<1>2. CASE Len(todo) <= 1
  <2>1. res \in Result /\ EOK(newext.pblk, 1) \in Result
    BY DEF IInv, LocalInv, LocalType, EOK, Result, Entry
  <2>2. \E r \in Result : Return(r)
    BY <1>2, <2>1 DEF Inserted
  <2> QED
    BY <2>2, ReturnStep DEF IInv
<1>3. CASE ~ (Len(todo) <= 1)
  <2>1. todo # <<>> /\ Len(todo) # 1
    BY <1>1, <1>3, MoreThanOne
  <2>2. /\ todo' = Tail(todo) /\ pc' = "splitat"
        /\ path' = [path EXCEPT ![Len(path)].pos = p]
        /\ UNCHANGED <<req, newext, at, key, np, saved, res>>
    BY <1>3 DEF Inserted, split
  <2>3. LocalInv'
    BY <1>1, <2>1, <2>2, NextSplitStep
  <2> QED
    BY <2>3 DEF IInv
<1> QED
  BY <1>2, <1>3

\* Appending or prepending to the current extent keeps the invariant.
LEMMA MergeStep ==
    ASSUME IInv, pc = "insert", AppendToExtent \/ PrependToExtent
    PROVE  IInv'
<1>1. leaf.pos # 0 /\ free' = free /\ UNCHANGED split /\ Inserted(leaf.pos)
  BY DEF AppendToExtent, PrependToExtent, CanAppend, CanPrepend
<1>2. pc \in Working /\ path # <<>> /\ newext \in Entry
  BY WorkingPath DEF Working, IInv, LocalInv, LocalType
<1>3. ex \in Entry /\ leaf.pos \in Nat
  BY <1>1, <1>2, LeafOfPath DEF PathElem
<1>4. PICK e \in Entry : node' = [node EXCEPT ![leaf.blk].ents[leaf.pos] = e]
  <2>1. Appended(ex, newext) \in Entry /\ Prepended(ex, newext) \in Entry
    BY <1>2, <1>3, MergedExtents
  <2> QED
    BY <2>1 DEF AppendToExtent, PrependToExtent, ex
<1>5. TreeInv' /\ ShapeKept /\ leaf.pos <= Len(node'[leaf.blk].ents)
  BY <1>1, <1>2, <1>4, ExtentRewritten
<1> QED
  BY <1>1, <1>3, <1>5, InsertedStep

\* ext4_ext_correct_indexes changes first blocks and nothing else.
LEMMA CorrectedIndexes ==
    ASSUME IInv, NEW b \in DOMAIN node, NEW border \in Nat
    PROVE  LET es == ext4_ext_correct_indexes(b, border)
           IN  /\ es \in Seq(Entry)
               /\ Len(es) = Len(node[b].ents)
               /\ \A i \in 1 .. Len(es) : es[i].pblk = node[b].ents[i].pblk
<1> DEFINE es == ext4_ext_correct_indexes(b, border)
           old == node[b].ents
<1>1. /\ Len(old) \in Nat /\ DOMAIN old = 1 .. Len(old)
      /\ \A i \in 1 .. Len(old) : old[i] \in Entry
  BY NodeFields DEF IInv, TreeInv, TreeType
<1>2. \A i \in 1 .. Len(old) : [old[i] EXCEPT !.lblk = border] \in Entry
  BY <1>1 DEF Entry
<1>3. DOMAIN es = 1 .. Len(old)
  BY <1>1 DEF ext4_ext_correct_indexes
<1>4. \A i \in 1 .. Len(old) : es[i] \in {old[i], [old[i] EXCEPT !.lblk = border]}
  BY <1>1 DEF ext4_ext_correct_indexes
<1>5. \A i \in 1 .. Len(old) : es[i] \in Entry /\ es[i].pblk = old[i].pblk
  BY <1>1, <1>2, <1>4 DEF Entry
<1>6. es = [i \in 1 .. Len(old) |-> es[i]]
  BY <1>1 DEF ext4_ext_correct_indexes
<1> HIDE DEF es, old
<1>7. es \in Seq(Entry) /\ Len(es) = Len(old)
  BY <1>1, <1>3, <1>5, <1>6
<1> QED
  BY <1>5, <1>7 DEF es, old

\* Inserting into a leaf with room, and correcting the indexes above, keeps the
\* invariant.
LEMMA InsertIntoLeafStep ==
    ASSUME IInv, pc = "insert", InsertIntoLeaf
    PROVE  IInv'
<1> DEFINE lb == leaf.blk
           es == InsertAt(node[lb].ents, InsertSlot, newext)
           C(b) == ext4_ext_correct_indexes(b, es[1].lblk)
<1>1. /\ node' = [b \in DOMAIN node |->
                    [node[b] EXCEPT !.ents = IF b = lb THEN es ELSE C(b)]]
      /\ HasFree(Len(path))
      /\ Inserted(InsertSlot) /\ free' = free /\ UNCHANGED split
  BY DEF InsertIntoLeaf
<1>2. pc \in Working /\ path # <<>> /\ newext \in Entry
  BY WorkingPath DEF Working, IInv, LocalInv, LocalType
<1>3. /\ lb \in DOMAIN node /\ node[lb] \in Node /\ node[lb].depth = 0
      /\ leaf.pos \in 0 .. Len(node[lb].ents) /\ leaf = path[Len(path)]
  BY <1>2, LeafOfPath
<1>4. node[lb].ents \in Seq(Entry) /\ Len(node[lb].ents) \in Nat
  BY <1>3, NodeFields
<1>5. InsertSlot \in 1 .. Len(node[lb].ents) + 1
  <2>1. \/ InsertSlot = 1
        \/ leaf.pos # 0 /\ InsertSlot \in {leaf.pos, leaf.pos + 1}
    BY DEF InsertSlot
  <2> QED
    BY <2>1, <1>3, <1>4
<1>6. es \in Seq(Entry) /\ Len(es) = Len(node[lb].ents) + 1
  <2> DEFINE old == node[lb].ents
             slot == InsertSlot
  <2>1. old \in Seq(Entry) /\ slot \in 1 .. Len(old) + 1 /\ newext \in Entry
    BY <1>2, <1>4, <1>5
  <2> HIDE DEF old, slot
  <2>2. /\ InsertAt(old, slot, newext) \in Seq(Entry)
        /\ Len(InsertAt(old, slot, newext)) = Len(old) + 1
    BY <2>1, InsertAtProperties
  <2> QED
    BY <2>2 DEF old, slot
<1>7. es[1].lblk \in Nat
  <2>1. 1 \in 1 .. Len(es)
    BY <1>4, <1>6
  <2>2. es[1] \in Entry
    BY <1>6, <2>1, ElementOfSeq
  <2> QED
    BY <2>2 DEF Entry
<1>8. Len(es) <= node[lb].max
  BY <1>1, <1>3, <1>4, <1>6, NodeFields DEF HasFree
<1>9. \A b \in DOMAIN node :
         /\ C(b) \in Seq(Entry) /\ Len(C(b)) = Len(node[b].ents)
         /\ \A i \in 1 .. Len(C(b)) : C(b)[i].pblk = node[b].ents[i].pblk
  BY <1>7, CorrectedIndexes
<1> HIDE DEF es, C, lb
<1>10. /\ Root \in DOMAIN node /\ node \in [DOMAIN node -> Node]
       /\ KidsLive(node) /\ NodesFit(node)
  BY DEF IInv, TreeInv, TreeType
<1>11. ASSUME NEW b \in DOMAIN node
       PROVE  /\ node'[b] \in Node
              /\ node'[b].depth = node[b].depth
              /\ node'[b].max = node[b].max
              /\ node'[b].ents = IF b = lb THEN es ELSE C(b)
  <2>1. node'[b] = [node[b] EXCEPT !.ents = IF b = lb THEN es ELSE C(b)]
    BY <1>1
  <2>2. node[b] \in Node /\ (IF b = lb THEN es ELSE C(b)) \in Seq(Entry)
    BY <1>6, <1>9, <1>10
  <2> QED
    BY <2>1, <2>2 DEF Node
<1>12. DOMAIN node' = DOMAIN node /\ node' \in [DOMAIN node -> Node]
  BY <1>1, <1>11
<1>13. ASSUME NEW b \in DOMAIN node
       PROVE  /\ Len(node'[b].ents) <= node[b].max
              /\ Len(node'[b].ents) >= Len(node[b].ents)
              /\ node[b].depth > 0 =>
                    /\ node'[b].ents # <<>>
                    /\ \A i \in DOMAIN node'[b].ents :
                          \E j \in DOMAIN node[b].ents :
                             node'[b].ents[i].pblk = node[b].ents[j].pblk
  <2>1. /\ Len(node[b].ents) \in Nat /\ node[b].max \in Nat
        /\ DOMAIN node[b].ents = 1 .. Len(node[b].ents)
        /\ node[b].ents \in Seq(Entry) /\ Len(node[b].ents) <= node[b].max
    BY <1>10, NodeFields DEF NodesFit
  <2>2. CASE b = lb
    BY <2>1, <2>2, <1>3, <1>6, <1>8, <1>11
  <2>3. CASE b # lb
    <3>1. node'[b].ents = C(b) /\ C(b) \in Seq(Entry)
      BY <2>3, <1>9, <1>11
    <3>2. Len(node'[b].ents) = Len(node[b].ents)
      BY <3>1, <1>9
    <3>3. DOMAIN node'[b].ents = 1 .. Len(node[b].ents)
      BY <3>1, <3>2, LenProperties
    <3>4. node[b].depth > 0 => node'[b].ents # <<>>
      <4>1. node[b].depth > 0 => Len(node[b].ents) # 0
        BY <2>1, <1>10, EmptySeq DEF NodesFit
      <4>2. Len(<<>>) = 0
        OBVIOUS
      <4> QED
        BY <4>1, <4>2, <3>2
    <3>5. \A i \in 1 .. Len(node[b].ents) :
             node'[b].ents[i].pblk = node[b].ents[i].pblk
      BY <3>1, <3>2, <1>9
    <3> QED
      BY <2>1, <3>2, <3>3, <3>4, <3>5
  <2> QED
    BY <2>2, <2>3
<1>14. KidsLive(node') /\ NodesFit(node')
  <2>1. \A b \in DOMAIN node :
           /\ node'[b].depth = node[b].depth
           /\ node'[b].max = node[b].max
           /\ Len(node'[b].ents) <= node[b].max
           /\ node[b].depth > 0 =>
                 /\ node'[b].ents # <<>>
                 /\ \A i \in DOMAIN node'[b].ents :
                       \E j \in DOMAIN node[b].ents :
                          node'[b].ents[i].pblk = node[b].ents[j].pblk
    BY <1>11, <1>13
  <2> QED
    BY <2>1, <1>10, <1>12, SameShape
<1>15. TreeInv'
  BY <1>1, <1>12, <1>14 DEF IInv, TreeInv, TreeType, NodesNotFree
<1>16. ShapeKept
  BY <1>11, <1>12, <1>13 DEF ShapeKept
<1>17. InsertSlot <= Len(node'[lb].ents)
  BY <1>3, <1>4, <1>5, <1>6, <1>11
<1>18. InsertSlot \in Nat /\ InsertSlot <= Len(node'[leaf.blk].ents)
  BY <1>4, <1>5, <1>17 DEF lb
<1> QED
  BY <1>1, <1>15, <1>16, <1>18, InsertedStep

\* A full leaf leads to a split from the deepest node with room, or to growth, with
\* the invariant kept.
LEMMA NeedSplitStep ==
    ASSUME IInv, pc = "insert", NeedSplit
    PROVE  IInv'
<1> DEFINE room == {k \in 1 .. Len(path) : HasFree(k)}
<1>1. /\ ~ HasFree(Len(path)) /\ node' = node /\ free' = free
      /\ \/ room = {} /\ pc' = "grow" /\ UNCHANGED <<at, key, np>>
         \/ room # {} /\ StartSplit(path, Max(room) + 1)
      /\ UNCHANGED <<req, path, newext, todo, saved, res>>
  BY DEF NeedSplit, tree, split, conv
<1>2. pc \in Working /\ path # <<>> /\ Len(path) = depth + 1 /\ depth \in Nat
  BY WorkingPath DEF Working
<1>3. TreeInv'
  BY <1>1 DEF IInv, TreeInv, TreeType, NodesNotFree
<1>4. pc' \in Working => PathInv'
  BY <1>1, <1>2 DEF IInv, LocalInv, PathInv, Searching, Working, depth, leaf
<1>5. CASE room = {} /\ pc' = "grow" /\ UNCHANGED <<at, key, np>>
  <2>1. GrowInv'
    <3>1. ~ HasFree(1) /\ path[1].blk = Root
      BY <1>2, <1>5 DEF IInv, LocalInv, PathInv
    <3>2. /\ node[Root] \in Node /\ node[Root].max \in Nat
          /\ node[Root].max >= 1 /\ Len(node[Root].ents) \in Nat
      BY NodeFields DEF IInv, TreeInv, TreeType, NodesFit
    <3>3. Len(node[Root].ents) # 0
      BY <3>1, <3>2 DEF HasFree
    <3>4. node[Root].ents # <<>>
      BY <3>3
    <3> QED
      BY <3>4, <1>1 DEF GrowInv
  <2>2. LocalType' /\ SplitInv'
    BY <1>1, <1>5 DEF IInv, LocalInv, LocalType, PCs, SplitInv
  <2>3. DataInv'
    BY <1>1, <1>5 DEF IInv, LocalInv, DataInv, Inserting
  <2> QED
    BY <1>3, <1>4, <1>5, <2>1, <2>2, <2>3 DEF IInv, LocalInv, Working
<1>6. CASE room # {} /\ StartSplit(path, Max(room) + 1)
  <2> DEFINE a == Max(room) + 1
  <2>1. a \in 2 .. Len(path)
    <3>1. Len(path) \in Nat /\ room \subseteq 1 .. Len(path)
      BY <1>2
    <3>2. Max(room) \in room
      <4> HIDE DEF room
      <4> QED
        BY <3>1, <1>6, MaxOfSlots
    <3>3. Max(room) \in 1 .. Len(path) /\ Max(room) # Len(path)
      BY <3>2, <1>1
    <3> HIDE DEF room
    <3> QED
      BY <3>1, <3>3
  <2> HIDE DEF a
  <2>2. at' = a /\ key' \in Nat /\ np' = <<>> /\ pc' = "split"
    <3>1. TreeType /\ newext \in Entry /\ path \in Seq(PathElem)
      BY DEF IInv, TreeInv, LocalInv, LocalType
    <3>2. path[Len(path)].blk \in DOMAIN node
      BY <1>2, LeafOfPath
    <3>3. StartSplit(path, a)
      BY <1>6 DEF a
    <3> QED
      BY <1>2, <2>1, <3>1, <3>2, <3>3, SplitStarts
  <2>3. LocalType'
    <3>1. a \in Nat /\ np' \in Seq(PBlk)
      BY <1>2, <2>1, <2>2, EmptySeq
    <3> QED
      BY <1>1, <2>2, <3>1 DEF IInv, LocalInv, LocalType, PCs
  <2>4. GrowInv'
    BY <2>2 DEF GrowInv
  <2>5. SplitInv'
    <3>1. ToSet(np') = {} /\ Len(np') = 0
      BY <2>2 DEF ToSet
    <3>2. Len(np') <= Len(path') - at' /\ at' \in 2 .. Len(path')
      BY <1>1, <1>2, <2>1, <2>2, <3>1
    <3> QED
      BY <2>2, <3>1, <3>2 DEF SplitInv
  <2>6. DataInv'
    BY <1>1, <2>2 DEF IInv, LocalInv, DataInv, Inserting
  <2> QED
    BY <1>3, <1>4, <2>2, <2>3, <2>4, <2>5, <2>6 DEF IInv, LocalInv, Working
<1> QED
  BY <1>1, <1>5, <1>6

\* An insertion or a growth that fails without having changed the tree.
LEMMA FailStep ==
    ASSUME IInv, pc \in {"insert", "grow"}, pc' = "fail",
           UNCHANGED <<tree, req, path, newext, split, conv, res>>
    PROVE  IInv'
<1>1. /\ node' = node /\ free' = free
      /\ UNCHANGED <<req, path, newext, at, key, np, todo, saved, res>>
  BY DEF tree, split, conv
<1>2. TreeInv'
  BY <1>1 DEF IInv, TreeInv, TreeType, NodesNotFree
<1>3. LocalType'
  BY <1>1 DEF IInv, LocalInv, LocalType, PCs
<1>4. PathInv' /\ GrowInv'
  BY <1>1 DEF IInv, LocalInv, PathInv, GrowInv, Searching, Working, depth, leaf
<1>5. SplitInv' /\ DataInv'
  BY <1>1 DEF IInv, LocalInv, SplitInv, DataInv, Inserting
<1> QED
  BY <1>2, <1>3, <1>4, <1>5 DEF IInv, LocalInv

\* ext4_ext_insert_leaf as a whole keeps the invariant.
LEMMA InsertLeafStep ==
    ASSUME IInv, ext4_ext_insert_leaf
    PROVE  IInv'
<1>1. pc = "insert"
  BY DEF ext4_ext_insert_leaf
<1>2. \/ pc' = "fail" /\ UNCHANGED <<tree, req, path, newext, split, conv, res>>
      \/ AppendToExtent \/ PrependToExtent \/ InsertIntoLeaf \/ NeedSplit
  BY DEF ext4_ext_insert_leaf
<1> QED
  BY <1>1, <1>2, FailStep, MergeStep, InsertIntoLeafStep, NeedSplitStep

-----------------------------------------------------------------------------
(* Growing the tree.                                                       *)

\* The room of a node, whether or not it is the root.
LEMMA Capacity ==
    ASSUME NEW top \in Nat, NEW d \in Nat
    PROVE  /\ d = top => ext4_ext_max_entries(top, d) =
                            IF d = 0 THEN SpaceRoot ELSE SpaceRootIdx
           /\ d # top => ext4_ext_max_entries(top, d) =
                            IF d = 0 THEN SpaceBlock ELSE SpaceBlockIdx
BY DEF ext4_ext_max_entries

\* ext4_ext_grow_indepth keeps the invariant: the new root's only child is the new
\* block, one level below.
LEMMA GrowStep ==
    ASSUME IInv, ext4_ext_grow_indepth
    PROVE  IInv'
<1> DEFINE root == node[Root]
           child == [root EXCEPT !.max = IF depth = 0 THEN SpaceBlock
                                         ELSE SpaceBlockIdx]
           Link(b) == [lblk |-> root.ents[1].lblk, pblk |-> b, len |-> 0]
           topmax == IF depth = 0 THEN SpaceRootIdx ELSE root.max
           Top(b) == [depth |-> depth + 1, max |-> topmax, ents |-> << Link(b) >>]
<1>1. PICK b \in free :
         /\ free' = free \ {b}
         /\ node' = WithNode([node EXCEPT ![Root] = Top(b)], b, child)
  BY DEF ext4_ext_grow_indepth
<1>2. /\ pc = "grow" /\ pc' = "refind" /\ path' = <<[blk |-> Root, pos |-> 0]>>
      /\ UNCHANGED <<req, newext, at, key, np, todo, saved, res>>
  BY DEF ext4_ext_grow_indepth, split, conv
<1>3. /\ Root \in DOMAIN node /\ node \in [DOMAIN node -> Node]
      /\ DOMAIN node \subseteq PBlk \cup {Root}
      /\ KidsLive(node) /\ NodesFit(node)
  BY DEF IInv, TreeInv, TreeType
<1>4. b \in PBlk /\ b \notin DOMAIN node /\ b # Root /\ b \in Int
  BY <1>3, ConstantsAssumption DEF IInv, TreeInv, TreeType, NodesNotFree
<1>5. /\ root \in Node /\ depth \in Nat /\ root.depth = depth
      /\ root.max \in Nat /\ root.ents \in Seq(Entry) /\ Len(root.ents) \in Nat
  BY <1>3, NodeFields DEF depth
<1>6. root.ents # <<>> /\ Len(root.ents) # 0
  <2>1. root.ents # <<>>
    BY <1>2 DEF IInv, LocalInv, GrowInv
  <2> QED
    BY <2>1, <1>5, EmptySeq
<1>7. Link(b) \in Entry
  <2>1. root.ents[1] \in Entry
    BY <1>5, <1>6, ElementOfSeq
  <2> QED
    BY <2>1, <1>4, InitMaxAssumption DEF Entry, RawLen
<1>8. /\ root.max >= 1 /\ Len(root.ents) <= root.max
      /\ depth = 0 => root.max <= SpaceRoot
      /\ depth # 0 => root.max <= SpaceRootIdx
  <2>1. /\ root.max \in 1 .. ext4_ext_max_entries(depth, depth)
        /\ Len(root.ents) <= root.max
    BY <1>3, <1>5 DEF NodesFit
  <2> QED
    BY <2>1, <1>5, Capacity
<1>9. topmax \in 1 .. SpaceRootIdx /\ topmax \in Nat
  BY <1>5, <1>8, ConstantsAssumption
<1> HIDE DEF topmax
<1>10. /\ Top(b) \in Node /\ Top(b).depth = depth + 1 /\ Top(b).max = topmax
       /\ Top(b).ents = << Link(b) >>
  <2> HIDE DEF Link
  <2>1. << Link(b) >> \in Seq(Entry)
    BY <1>7
  <2> QED
    BY <2>1, <1>5, <1>9 DEF Node
<1>11. /\ child \in Node /\ child.depth = depth /\ child.ents = root.ents
       /\ child.max = IF depth = 0 THEN SpaceBlock ELSE SpaceBlockIdx
  BY <1>5, ConstantsAssumption DEF Node
<1> HIDE DEF Top, child
<1>12. /\ DOMAIN node' = DOMAIN node \cup {b}
       /\ node'[b] = child /\ node'[Root] = Top(b)
       /\ \A c \in DOMAIN node : c # Root => node'[c] = node[c]
  <2> DEFINE nd == [node EXCEPT ![Root] = Top(b)]
             nn == WithNode(nd, b, child)
  <2>1. /\ DOMAIN nd = DOMAIN node /\ nd[Root] = Top(b)
        /\ \A c \in DOMAIN node : c # Root => nd[c] = node[c]
    BY <1>3
  <2> HIDE DEF nd
  <2>2. /\ DOMAIN nn = DOMAIN nd \cup {b} /\ nn[b] = child
        /\ \A c \in DOMAIN nd : c # b => nn[c] = nd[c]
    BY DEF WithNode
  <2>3. node' = nn
    BY <1>1 DEF nd
  <2> HIDE DEF nn
  <2> QED
    BY <2>1, <2>2, <2>3, <1>3, <1>4
<1>13. node' \in [DOMAIN node' -> Node]
  <2>1. \A c \in DOMAIN node' : node'[c] \in Node
    BY <1>3, <1>10, <1>11, <1>12
  <2>2. node' = [c \in DOMAIN node' |-> node'[c]]
    BY <1>1 DEF WithNode
  <2> QED
    BY <2>1, <2>2
<1>14. KidsLive(node')
  <2> SUFFICES ASSUME NEW c \in DOMAIN node', node'[c].depth > 0,
                      NEW i \in DOMAIN node'[c].ents
               PROVE  /\ node'[c].ents[i].pblk \in DOMAIN node' \ {Root}
                      /\ node'[node'[c].ents[i].pblk].depth = node'[c].depth - 1
    BY DEF KidsLive
  <2>1. CASE c = Root
    <3>1. i = 1 /\ node'[c].ents[i] = Link(b)
      BY <2>1, <1>10, <1>12
    <3>2. node'[c].ents[i].pblk = b
      BY <3>1
    <3> QED
      BY <3>2, <2>1, <1>4, <1>5, <1>10, <1>11, <1>12, SMTT(30)
  <2>2. CASE c # Root
    <3> DEFINE o == IF c = b THEN Root ELSE c
    <3>1. /\ o \in DOMAIN node /\ node'[c].ents = node[o].ents
          /\ node'[c].depth = node[o].depth
      BY <2>2, <1>3, <1>5, <1>11, <1>12
    <3> HIDE DEF o
    <3>2. /\ node[o].ents[i].pblk \in DOMAIN node \ {Root}
          /\ node[node[o].ents[i].pblk].depth = node[o].depth - 1
      BY <3>1, <1>3 DEF KidsLive
    <3> QED
      BY <3>1, <3>2, <1>12
  <2> QED
    BY <2>1, <2>2
<1>15. NodesFit(node')
  <2> SUFFICES ASSUME NEW c \in DOMAIN node'
               PROVE  /\ c # Root => node'[c].depth < depth + 1
                      /\ Len(node'[c].ents) <= node'[c].max
                      /\ node'[c].max \in
                            1 .. ext4_ext_max_entries(depth + 1, node'[c].depth)
                      /\ node'[c].depth > 0 => node'[c].ents # <<>>
    BY <1>10, <1>12 DEF NodesFit
  <2>1. CASE c = Root
    <3>1. /\ node'[c].depth = depth + 1 /\ node'[c].max = topmax
          /\ node'[c].ents = << Link(b) >>
      BY <2>1, <1>10, <1>12
    <3>2. Len(node'[c].ents) = 1 /\ node'[c].ents # <<>>
      BY <3>1
    <3>3. ext4_ext_max_entries(depth + 1, depth + 1) = SpaceRootIdx
      BY <1>5, Capacity
    <3> QED
      BY <2>1, <3>1, <3>2, <3>3, <1>9
  <2>2. CASE c = b
    <3>1. ext4_ext_max_entries(depth + 1, depth) =
             IF depth = 0 THEN SpaceBlock ELSE SpaceBlockIdx
      BY <1>5, Capacity
    <3>2. /\ node'[c].depth = depth /\ node'[c].ents = root.ents
          /\ node'[c].max = IF depth = 0 THEN SpaceBlock ELSE SpaceBlockIdx
      BY <2>2, <1>11, <1>12
    <3> QED
      BY <3>1, <3>2, <1>5, <1>6, <1>8, ConstantsAssumption
  <2>3. CASE c \in DOMAIN node \ {Root}
    <3>1. /\ node'[c] = node[c] /\ node[c].depth < depth
          /\ node[c].depth \in Nat
          /\ Len(node[c].ents) <= node[c].max
          /\ node[c].max \in 1 .. ext4_ext_max_entries(depth, node[c].depth)
          /\ node[c].depth > 0 => node[c].ents # <<>>
      BY <2>3, <1>3, <1>12, NodeFields DEF NodesFit, depth
    <3>2. ext4_ext_max_entries(depth + 1, node[c].depth) =
             ext4_ext_max_entries(depth, node[c].depth)
      <4>1. node[c].depth # depth /\ node[c].depth # depth + 1 /\ depth + 1 \in Nat
        BY <3>1, <1>5
      <4> HIDE DEF depth
      <4> QED
        BY <3>1, <4>1, <1>5, Capacity
    <3> QED
      BY <3>1, <3>2, <1>5
  <2> QED
    BY <2>1, <2>2, <2>3, <1>12
<1>16. TreeInv'
  BY <1>1, <1>3, <1>4, <1>12, <1>13, <1>14, <1>15
     DEF IInv, TreeInv, TreeType, NodesNotFree
<1>17. LocalType'
  <2>1. [blk |-> Root, pos |-> 0] \in PathElem
    BY DEF PathElem
  <2>2. path' \in Seq(PathElem)
    BY <1>2, <2>1
  <2> QED
    BY <1>2, <2>2 DEF IInv, LocalInv, LocalType, PCs
<1>18. PathInv'
  <2>1. Len(path') = 1 /\ path'[1].blk = Root /\ path' # <<>>
    BY <1>2
  <2>2. Root \in DOMAIN node' /\ depth' \in Nat
    BY <1>16, NodeFields DEF TreeInv, TreeType, depth
  <2> QED
    BY <1>2, <2>1, <2>2 DEF PathInv, Searching, Working, depth
<1>19. GrowInv' /\ SplitInv'
  BY <1>2 DEF IInv, LocalInv, GrowInv, SplitInv
<1>20. DataInv'
  BY <1>1, <1>2, <1>12 DEF IInv, LocalInv, DataInv, Inserting
<1> QED
  BY <1>16, <1>17, <1>18, <1>19, <1>20 DEF IInv, LocalInv

-----------------------------------------------------------------------------
(* Splitting nodes.                                                        *)

\* The first pos entries of a node, and the rest of them.
LEMMA CutSequence ==
    ASSUME NEW s \in Seq(Entry), NEW p \in 0 .. Len(s)
    PROVE  /\ SubSeq(s, 1, p) \in Seq(Entry) /\ Len(SubSeq(s, 1, p)) = p
           /\ \A i \in 1 .. p : SubSeq(s, 1, p)[i] = s[i]
           /\ SubSeq(s, p + 1, Len(s)) \in Seq(Entry)
           /\ Len(SubSeq(s, p + 1, Len(s))) = Len(s) - p
           /\ \A i \in 1 .. Len(s) - p : SubSeq(s, p + 1, Len(s))[i] = s[p + i]
<1>1. Len(s) \in Nat /\ p \in Nat /\ \A i \in 1 .. Len(s) : s[i] \in Entry
  BY LenProperties, ElementOfSeq
<1>2. /\ SubSeq(s, 1, p) \in Seq(Entry)
      /\ Len(SubSeq(s, 1, p)) = IF 1 <= p THEN p - 1 + 1 ELSE 0
      /\ \A i \in 1 .. p - 1 + 1 : SubSeq(s, 1, p)[i] = s[1 + i - 1]
  <2>1. \A i \in 1 .. p : s[i] \in Entry
    BY <1>1
  <2> QED
    BY <1>1, <2>1, SubSeqProperties
<1>3. /\ SubSeq(s, p + 1, Len(s)) \in Seq(Entry)
      /\ Len(SubSeq(s, p + 1, Len(s))) =
            IF p + 1 <= Len(s) THEN Len(s) - (p + 1) + 1 ELSE 0
      /\ \A i \in 1 .. Len(s) - (p + 1) + 1 :
            SubSeq(s, p + 1, Len(s))[i] = s[p + 1 + i - 1]
  <2>1. \A i \in p + 1 .. Len(s) : s[i] \in Entry
    BY <1>1
  <2> QED
    BY <1>1, <2>1, SubSeqProperties
<1> QED
  BY <1>1, <1>2, <1>3

\* The level that is split next, its node and its slot.
LEMMA SplitLevel ==
    ASSUME IInv, pc = "split"
    PROVE  /\ level \in at .. Len(path) /\ at >= 2 /\ at \in Nat
           /\ Len(np) \in Nat /\ Len(path) = depth + 1 /\ depth \in Nat
           /\ Len(np) < depth /\ level = Len(path) - Len(np)
           /\ path[level].blk \in DOMAIN node
           /\ node[path[level].blk] \in Node
           /\ node[path[level].blk].depth = Len(np)
           /\ path[level].pos \in 0 .. Len(node[path[level].blk].ents)
           /\ np # <<>> => path[level].pos >= 1
<1>1. /\ Len(path) = depth + 1 /\ depth \in Nat /\ path # <<>>
      /\ at \in 2 .. Len(path) /\ at \in Nat /\ Len(np) <= Len(path) - at
      /\ np \in Seq(PBlk) /\ path \in Seq(PathElem)
  BY WorkingPath DEF Working, IInv, LocalInv, LocalType, SplitInv
<1>2. Len(np) \in Nat /\ (np # <<>> => Len(np) # 0)
  BY <1>1, EmptySeq
<1>3. level = Len(path) - Len(np) /\ level \in at .. Len(path) /\ Len(np) < depth
  BY <1>1, <1>2 DEF level
<1>4. level \in 1 .. Len(path)
  BY <1>1, <1>3
<1>5. /\ path[level].blk \in DOMAIN node
      /\ node[path[level].blk].depth = depth - (level - 1)
      /\ level < Len(path) =>
            path[level].pos \in 1 .. Len(node[path[level].blk].ents)
  BY <1>4 DEF IInv, LocalInv, PathInv
<1>6. node[path[level].blk] \in Node /\ Len(node[path[level].blk].ents) \in Nat
  BY <1>5, NodeFields DEF IInv, TreeInv, TreeType
<1>7. path[level].pos \in 0 .. Len(node[path[level].blk].ents)
  <2>1. CASE level < Len(path)
    BY <2>1, <1>5, <1>6
  <2>2. CASE level = Len(path)
    BY <2>2, <1>1, LeafOfPath DEF Working
  <2> QED
    BY <2>1, <2>2, <1>1, <1>2, <1>3
<1>8. np # <<>> => path[level].pos >= 1
  <2>1. np # <<>> => level < Len(path)
    BY <1>1, <1>2, <1>3
  <2> QED
    BY <2>1, <1>5, <1>6
<1>9. node[path[level].blk].depth = Len(np)
  BY <1>1, <1>2, <1>3, <1>5
<1> QED
  BY <1>1, <1>2, <1>3, <1>5, <1>6, <1>7, <1>8, <1>9

\* The entries of the new node.
LEMMA NewEntries ==
    ASSUME NEW old \in Seq(Entry), NEW p \in 0 .. Len(old), NEW q \in Seq(PBlk),
           NEW k \in Nat, q # <<>> => p >= 1
    PROVE  LET moved == SubSeq(old, p + 1, Len(old))
               new == IF q = <<>> THEN moved
                      ELSE << [lblk |-> k, pblk |-> q[1], len |-> 0] >> \o moved
           IN  /\ new \in Seq(Entry) /\ Len(new) <= Len(old)
               /\ q # <<>> => new # <<>>
               /\ \A i \in 1 .. Len(new) :
                     \/ q # <<>> /\ new[i].pblk = q[1]
                     \/ \E j \in 1 .. Len(old) : new[i] = old[j]
<1> DEFINE moved == SubSeq(old, p + 1, Len(old))
           link == [lblk |-> k, pblk |-> q[1], len |-> 0]
<1>1. /\ moved \in Seq(Entry) /\ Len(moved) = Len(old) - p
      /\ \A i \in 1 .. Len(old) - p : moved[i] = old[p + i]
  BY CutSequence
<1>2. Len(old) \in Nat /\ p \in Nat /\ p <= Len(old)
  BY LenProperties
<1>3. \A i \in 1 .. Len(moved) : \E j \in 1 .. Len(old) : moved[i] = old[j]
  <2> TAKE i \in 1 .. Len(moved)
  <2>1. p + i \in 1 .. Len(old) /\ i \in 1 .. Len(old) - p
    BY <1>1, <1>2, SMTT(30)
  <2> QED
    BY <2>1, <1>1
<1> HIDE DEF moved
<1>4. CASE q = <<>>
  <2>1. Len(moved) <= Len(old)
    BY <1>1, <1>2
  <2> QED
    BY <1>1, <1>3, <1>4, <2>1 DEF moved
<1>5. CASE q # <<>>
  <2>1. q[1] \in PBlk /\ q[1] \in Int
    <3>1. Len(q) \in Nat \ {0}
      BY <1>5, EmptySeq
    <3>2. 1 \in 1 .. Len(q)
      BY <3>1
    <3>3. q[1] \in PBlk
      BY <3>2, ElementOfSeq
    <3>4. \A b \in PBlk : b \in Int
      BY ConstantsAssumption
    <3> QED
      BY <3>3, <3>4
  <2>2. link \in Entry /\ link.pblk = q[1]
    BY <2>1, InitMaxAssumption DEF Entry, RawLen
  <2> HIDE DEF link
  <2>3. << link >> \in Seq(Entry) /\ Len(<< link >>) = 1 /\ << link >>[1] = link
    BY <2>2
  <2> DEFINE new == << link >> \o moved
  <2>4. /\ new \in Seq(Entry) /\ Len(new) = 1 + Len(moved)
        /\ \A i \in 1 .. 1 + Len(moved) :
              new[i] = IF i <= 1 THEN << link >>[i] ELSE moved[i - 1]
    <3> DEFINE one == << link >>
    <3>1. one \in Seq(Entry) /\ moved \in Seq(Entry) /\ Len(one) = 1
      BY <2>3, <1>1
    <3> HIDE DEF one, moved
    <3>2. one \o moved \in Seq(Entry) /\ Len(one \o moved) = Len(one) + Len(moved)
      BY <3>1, ConcatProperties
    <3>3. ASSUME NEW i \in 1 .. Len(one) + Len(moved)
          PROVE  (one \o moved)[i] = IF i <= Len(one) THEN one[i]
                                     ELSE moved[i - Len(one)]
      BY <3>1, ConcatProperties
    <3> QED
      BY <3>1, <3>2, <3>3 DEF one
  <2> HIDE DEF new
  <2>5. Len(new) <= Len(old) /\ Len(new) \in Nat \ {0}
    BY <2>4, <1>1, <1>2, <1>5
  <2>6. \A i \in 1 .. Len(new) :
           \/ new[i].pblk = q[1]
           \/ \E j \in 1 .. Len(old) : new[i] = old[j]
    <3> TAKE i \in 1 .. Len(new)
    <3>1. CASE i = 1
      BY <3>1, <2>2, <2>3, <2>4, <2>5
    <3>2. CASE i # 1
      <4>1. i - 1 \in 1 .. Len(moved) /\ new[i] = moved[i - 1]
        BY <3>2, <2>4, <1>1, <1>2
      <4> QED
        BY <4>1, <1>3
    <3> QED
      BY <3>1, <3>2
  <2>7. new # <<>>
    BY <2>5
  <2> QED
    BY <1>5, <2>4, <2>5, <2>6, <2>7 DEF new, link, moved
<1> QED
  BY <1>4, <1>5

\* Splitting one level keeps the invariant: the new node is live, not free and not
\* overfull, and what it took from the old node is still linked from somewhere.
LEMMA SplitNodeStep ==
    ASSUME IInv, ext4_ext_split_node
    PROVE  IInv'
<1> DEFINE c == path[level].blk
           old == node[c].ents
           pos == path[level].pos
           kept == SubSeq(old, 1, pos)
           moved == SubSeq(old, pos + 1, Len(old))
           new == IF np = <<>> THEN moved
                  ELSE << [lblk |-> key, pblk |-> np[1], len |-> 0] >> \o moved
           room == ext4_ext_max_entries(depth, Len(np))
           n == [depth |-> Len(np), max |-> room, ents |-> new]
<1>1. PICK b \in free :
         /\ free' = free \ {b}
         /\ node' = WithNode([node EXCEPT ![c].ents = kept], b, n)
         /\ np' = <<b>> \o np
  BY DEF ext4_ext_split_node, ext4_ext_init_header
<1>2. /\ pc = "split" /\ pc' = (IF level = at THEN "link" ELSE "split")
      /\ UNCHANGED <<req, path, newext, at, key, todo, saved, res>>
  BY DEF ext4_ext_split_node, conv
<1>3. /\ level \in at .. Len(path) /\ at >= 2 /\ at \in Nat
      /\ Len(np) \in Nat /\ Len(path) = depth + 1 /\ depth \in Nat
      /\ Len(np) < depth /\ level = Len(path) - Len(np)
      /\ c \in DOMAIN node /\ node[c] \in Node /\ node[c].depth = Len(np)
      /\ pos \in 0 .. Len(old) /\ (np # <<>> => pos >= 1)
  BY <1>2, SplitLevel
<1>4. /\ Root \in DOMAIN node /\ node \in [DOMAIN node -> Node]
      /\ DOMAIN node \subseteq PBlk \cup {Root}
      /\ KidsLive(node) /\ NodesFit(node)
      /\ np \in Seq(PBlk) /\ key \in Nat
  BY DEF IInv, TreeInv, TreeType, LocalInv, LocalType
<1>5. b \in PBlk /\ b \notin DOMAIN node /\ b # Root
  BY <1>4, ConstantsAssumption DEF IInv, TreeInv, TreeType, NodesNotFree
<1>6. /\ old \in Seq(Entry) /\ Len(old) \in Nat /\ node[c].max \in Nat
      /\ DOMAIN old = 1 .. Len(old)
  BY <1>3, NodeFields
<1>7. /\ kept \in Seq(Entry) /\ Len(kept) = pos
      /\ \A i \in 1 .. pos : kept[i] = old[i]
  BY <1>3, <1>6, CutSequence
<1>8. /\ new \in Seq(Entry) /\ Len(new) <= Len(old)
      /\ np # <<>> => new # <<>>
      /\ \A i \in 1 .. Len(new) :
            \/ np # <<>> /\ new[i].pblk = np[1]
            \/ \E j \in 1 .. Len(old) : new[i] = old[j]
  <2> HIDE DEF old, pos
  <2> QED
    BY <1>3, <1>4, <1>6, NewEntries, ZenonT(60)
<1>9. /\ room = IF Len(np) = 0 THEN SpaceBlock ELSE SpaceBlockIdx
      /\ room \in Nat /\ room >= 1
      /\ Len(old) <= node[c].max /\ node[c].max <= room
  <2>1. Len(np) # depth
    BY <1>3
  <2>2. room = IF Len(np) = 0 THEN SpaceBlock ELSE SpaceBlockIdx
    <3> HIDE DEF depth
    <3> QED
      BY <1>3, <2>1, Capacity
  <2>3. node[c].max \in 1 .. room /\ Len(old) <= node[c].max
    BY <1>3, <1>4 DEF NodesFit, depth
  <2> QED
    BY <2>2, <2>3, ConstantsAssumption
<1> HIDE DEF room, new, kept, c, pos, old
<1>10. n \in Node /\ n.depth = Len(np) /\ n.max = room /\ n.ents = new
  BY <1>3, <1>8, <1>9 DEF Node
<1> HIDE DEF n
<1>11. /\ DOMAIN node' = DOMAIN node \cup {b}
       /\ node' = [x \in DOMAIN node' |-> node'[x]]
       /\ node'[b] = n
       /\ \A x \in DOMAIN node : x # c => node'[x] = node[x]
       /\ node'[c] = [node[c] EXCEPT !.ents = kept]
  BY <1>1, <1>3, <1>5 DEF WithNode
<1>12. /\ node'[c].depth = Len(np) /\ node'[c].max = node[c].max
       /\ node'[c].ents = kept /\ node'[c] \in Node
  BY <1>3, <1>7, <1>11 DEF Node
<1>13. node' \in [DOMAIN node' -> Node]
  BY <1>4, <1>10, <1>11, <1>12
<1>14. \A x \in DOMAIN node : /\ node'[x].depth = node[x].depth
                              /\ node'[x].max = node[x].max
  BY <1>3, <1>11, <1>12
<1>15. np # <<>> => np[1] \in DOMAIN node \ {Root} /\ node[np[1]].depth = Len(np) - 1
  <2>1. np # <<>> => 1 \in 1 .. Len(np)
    BY <1>4, EmptySeq
  <2> QED
    BY <2>1, <1>2 DEF IInv, LocalInv, SplitInv
\* Every entry of the new tree is an old one of the same depth or leads to np[1].
<1>16. ASSUME NEW x \in DOMAIN node', NEW i \in DOMAIN node'[x].ents
       PROVE  \/ x = b /\ np # <<>> /\ node'[x].ents[i].pblk = np[1]
              \/ \E y \in DOMAIN node : \E j \in DOMAIN node[y].ents :
                    /\ (x = b /\ y = c) \/ x = y
                    /\ node[y].depth = node'[x].depth
                    /\ node'[x].ents[i].pblk = node[y].ents[j].pblk
  <2>1. CASE x = b
    <3>1. i \in 1 .. Len(new) /\ node'[x].ents = new
      BY <2>1, <1>8, <1>10, <1>11, LenProperties
    <3>2. CASE np # <<>> /\ new[i].pblk = np[1]
      BY <2>1, <3>1, <3>2
    <3>3. CASE \E j \in 1 .. Len(old) : new[i] = old[j]
      <4>1. PICK j \in 1 .. Len(old) : new[i] = old[j]
        BY <3>3
      <4>2. j \in DOMAIN node[c].ents /\ new[i].pblk = node[c].ents[j].pblk
        BY <4>1, <1>6 DEF old
      <4>3. node[c].depth = node'[x].depth
        BY <2>1, <1>3, <1>10, <1>11
      <4> QED
        BY <2>1, <3>1, <4>2, <4>3, <1>3
    <3> QED
      BY <3>1, <3>2, <3>3, <1>8
  <2>2. CASE x = c
    <3>1. i \in 1 .. pos /\ node'[x].ents = kept
      BY <2>2, <1>7, <1>12, LenProperties
    <3>2. i \in DOMAIN node[c].ents /\ kept[i] = node[c].ents[i]
      BY <3>1, <1>3, <1>6, <1>7 DEF old
    <3> QED
      BY <2>2, <3>1, <3>2, <1>3, <1>12
  <2>3. CASE x \in DOMAIN node /\ x # c
    BY <2>3, <1>11
  <2> QED
    BY <2>1, <2>2, <2>3, <1>11
<1>17. KidsLive(node')
  <2> SUFFICES ASSUME NEW x \in DOMAIN node', node'[x].depth > 0,
                      NEW i \in DOMAIN node'[x].ents
               PROVE  /\ node'[x].ents[i].pblk \in DOMAIN node' \ {Root}
                      /\ node'[node'[x].ents[i].pblk].depth = node'[x].depth - 1
    BY DEF KidsLive
  <2>1. CASE x = b /\ np # <<>> /\ node'[x].ents[i].pblk = np[1]
    BY <2>1, <1>10, <1>11, <1>14, <1>15
  <2>2. CASE \E y \in DOMAIN node : \E j \in DOMAIN node[y].ents :
                /\ (x = b /\ y = c) \/ x = y
                /\ node[y].depth = node'[x].depth
                /\ node'[x].ents[i].pblk = node[y].ents[j].pblk
    <3>0. PICK y \in DOMAIN node : \E j \in DOMAIN node[y].ents :
                /\ node[y].depth = node'[x].depth
                /\ node'[x].ents[i].pblk = node[y].ents[j].pblk
      BY <2>2
    <3>1. PICK j \in DOMAIN node[y].ents :
                /\ node[y].depth = node'[x].depth
                /\ node'[x].ents[i].pblk = node[y].ents[j].pblk
      BY <3>0
    <3>2. /\ node[y].ents[j].pblk \in DOMAIN node \ {Root}
          /\ node[node[y].ents[j].pblk].depth = node[y].depth - 1
      BY <3>1, <1>4 DEF KidsLive
    <3> QED
      BY <3>1, <3>2, <1>11, <1>14
  <2> QED
    BY <2>1, <2>2, <1>16
<1>18. NodesFit(node')
  <2>1. node'[Root].depth = depth
    BY <1>4, <1>14 DEF depth
  <2> SUFFICES ASSUME NEW x \in DOMAIN node'
               PROVE  /\ x # Root => node'[x].depth < depth
                      /\ Len(node'[x].ents) <= node'[x].max
                      /\ node'[x].max \in
                            1 .. ext4_ext_max_entries(depth, node'[x].depth)
                      /\ node'[x].depth > 0 => node'[x].ents # <<>>
    BY <2>1 DEF NodesFit
  <2>2. CASE x = b
    <3>1. /\ node'[x].depth = Len(np) /\ node'[x].max = room
          /\ node'[x].ents = new
      BY <2>2, <1>10, <1>11
    <3>2. Len(new) <= room
      BY <1>6, <1>8, <1>9, LenProperties
    <3>3. Len(np) > 0 => new # <<>>
      <4>1. np = <<>> => Len(np) = 0
        OBVIOUS
      <4> QED
        BY <4>1, <1>3, <1>8
    <3>4. room \in 1 .. ext4_ext_max_entries(depth, Len(np))
      BY <1>9 DEF room
    <3> QED
      BY <3>1, <3>2, <3>3, <3>4, <1>3
  <2>3. CASE x = c
    <3>1. /\ node'[x].depth = Len(np) /\ node'[x].max = node[c].max
          /\ node'[x].ents = kept
      BY <2>3, <1>12
    <3>2. node[c].max \in 1 .. ext4_ext_max_entries(depth, Len(np))
      BY <1>3, <1>4 DEF NodesFit, depth
    <3>3. Len(kept) <= node[c].max
      BY <1>3, <1>6, <1>7, <1>9
    <3>4. Len(np) > 0 => kept # <<>>
      <4>1. np = <<>> => Len(np) = 0
        OBVIOUS
      <4>2. Len(np) > 0 => Len(kept) >= 1
        BY <4>1, <1>3, <1>7
      <4> QED
        BY <4>2
    <3> QED
      BY <3>1, <3>2, <3>3, <3>4, <1>3
  <2>4. CASE x \in DOMAIN node /\ x # c
    BY <2>4, <1>4, <1>11 DEF NodesFit, depth
  <2> QED
    BY <2>2, <2>3, <2>4, <1>11
<1>19. TreeInv'
  BY <1>1, <1>4, <1>5, <1>11, <1>13, <1>17, <1>18
     DEF IInv, TreeInv, TreeType, NodesNotFree
<1>20. /\ np' \in Seq(PBlk) /\ Len(np') = Len(np) + 1 /\ np'[1] = b
       /\ \A i \in 2 .. Len(np) + 1 : np'[i] = np[i - 1]
  <2>1. <<b>> \in Seq(PBlk) /\ Len(<<b>>) = 1 /\ <<b>>[1] = b
    BY <1>5
  <2>2. /\ <<b>> \o np \in Seq(PBlk) /\ Len(<<b>> \o np) = 1 + Len(np)
        /\ \A i \in 1 .. 1 + Len(np) :
              (<<b>> \o np)[i] = IF i <= 1 THEN <<b>>[i] ELSE np[i - 1]
    BY <2>1, <1>4, ConcatProperties
  <2>3. np' = <<b>> \o np
    BY <1>1
  <2> QED
    BY <2>1, <2>2, <2>3, <1>3
<1>21. ToSet(np') = {b} \cup ToSet(np)
  <2>1. DOMAIN np' = 1 .. Len(np) + 1 /\ DOMAIN np = 1 .. Len(np)
    BY <1>4, <1>20, LenProperties
  <2>2. \A i \in 1 .. Len(np) : i + 1 \in 2 .. Len(np) + 1 /\ np'[i + 1] = np[i]
    BY <1>3, <1>20
  <2>3. \A i \in 1 .. Len(np) + 1 :
           i = 1 \/ (i \in 2 .. Len(np) + 1 /\ i - 1 \in 1 .. Len(np))
    BY <1>3
  <2>4. 1 \in 1 .. Len(np) + 1 /\ \A i \in 1 .. Len(np) : i + 1 \in 1 .. Len(np) + 1
    BY <1>3
  <2>5. ASSUME NEW x \in ToSet(np') PROVE x \in {b} \cup ToSet(np)
    <3>1. PICK i \in 1 .. Len(np) + 1 : x = np'[i]
      BY <2>1, <2>5 DEF ToSet
    <3>2. i # 1 => i - 1 \in DOMAIN np /\ x = np[i - 1]
      BY <3>1, <2>1, <2>3, <1>20
    <3> QED
      BY <3>1, <3>2, <1>20 DEF ToSet
  <2>6. ASSUME NEW x \in ToSet(np) PROVE x \in ToSet(np')
    <3>1. PICK i \in 1 .. Len(np) : x = np[i]
      BY <2>1, <2>6 DEF ToSet
    <3>2. i + 1 \in DOMAIN np' /\ x = np'[i + 1]
      BY <3>1, <2>1, <2>2, <2>4
    <3> QED
      BY <3>2 DEF ToSet
  <2>7. b \in ToSet(np')
    BY <2>1, <2>4, <1>20 DEF ToSet
  <2> QED
    BY <2>5, <2>6, <2>7
<1>22. LocalType'
  BY <1>2, <1>20 DEF IInv, LocalInv, LocalType, PCs
<1>23. PathInv'
  <2>1. depth' = depth /\ leaf' = path[Len(path)] /\ path' = path
    BY <1>2, <1>4, <1>14 DEF depth, leaf
  <2>2. ASSUME NEW k \in 1 .. Len(path)
        PROVE  /\ path[k].blk \in DOMAIN node'
               /\ node'[path[k].blk].depth = depth - (k - 1)
               /\ k < Len(path) =>
                     path[k].pos \in 1 .. Len(node'[path[k].blk].ents)
    <3>1. /\ path[k].blk \in DOMAIN node
          /\ node[path[k].blk].depth = depth - (k - 1)
          /\ k < Len(path) =>
                path[k].pos \in 1 .. Len(node[path[k].blk].ents)
      BY DEF IInv, LocalInv, PathInv
    <3>2. path[k].blk \in DOMAIN node' /\ node'[path[k].blk].depth = depth - (k - 1)
      BY <3>1, <1>11, <1>14
    <3>3. CASE path[k].blk # c
      BY <3>1, <3>2, <3>3, <1>11
    <3>4. CASE path[k].blk = c
      <4>1. k = level
        BY <3>1, <3>4, <1>3, SMTT(30)
      <4>2. k < Len(path) => pos \in 1 .. Len(node'[c].ents)
        BY <3>1, <3>4, <4>1, <1>3, <1>6, <1>7, <1>12, SMTT(30) DEF pos, old
      <4> QED
        BY <3>2, <3>4, <4>1, <4>2 DEF pos
    <3> QED
      BY <3>3, <3>4
  <2>3. leaf'.pos <= Len(node'[leaf'.blk].ents)
    <3>1. /\ leaf.pos \in 0 .. Len(node[leaf.blk].ents) /\ leaf.blk \in DOMAIN node
          /\ leaf = path[Len(path)] /\ node[leaf.blk].depth = 0
          /\ node[leaf.blk] \in Node /\ path # <<>>
      BY <1>2, LeafOfPath, WorkingPath DEF Working
    <3>2. CASE leaf.blk # c
      BY <3>1, <3>2, <2>1, <1>11, NodeFields
    <3>3. CASE leaf.blk = c
      <4>1. Len(np) = 0
        BY <3>1, <3>3, <1>3
      <4>2. level = Len(path)
        BY <4>1, <1>3
      <4>3. leaf.pos = pos
        BY <3>1, <4>2 DEF pos
      <4> QED
        BY <3>3, <4>3, <2>1, <3>1, <1>3, <1>7, <1>12
    <3> QED
      BY <3>2, <3>3
  <2>4. path[1].blk = Root
    BY <1>2, WorkingPath DEF Working, IInv, LocalInv, PathInv
  <2> QED
    BY <1>2, <1>3, <2>1, <2>2, <2>3, <2>4 DEF PathInv, Searching, Working
<1>24. SplitInv'
  <2>1. at' \in 2 .. Len(path')
    BY <1>2, <1>3
  <2>2. ASSUME NEW i \in 1 .. Len(np')
        PROVE  /\ np'[i] \in DOMAIN node' \ {Root}
               /\ node'[np'[i]].depth = Len(np') - i
               /\ \A k \in 1 .. Len(path') : path'[k].blk # np'[i]
    <3>1. CASE i = 1
      <4>1. \A k \in 1 .. Len(path) : path[k].blk # b
        BY <1>5 DEF IInv, LocalInv, PathInv
      <4> QED
        BY <3>1, <4>1, <1>2, <1>3, <1>5, <1>10, <1>11, <1>20
    <3>2. CASE i # 1
      <4>1. i - 1 \in 1 .. Len(np) /\ np'[i] = np[i - 1]
        BY <3>2, <1>3, <1>20
      <4>2. /\ np[i - 1] \in DOMAIN node \ {Root}
            /\ node[np[i - 1]].depth = Len(np) - (i - 1)
            /\ \A k \in 1 .. Len(path) : path[k].blk # np[i - 1]
        BY <4>1, <1>2 DEF IInv, LocalInv, SplitInv
      <4>3. Len(np) - (i - 1) = Len(np') - i
        BY <4>1, <1>3, <1>20
      <4>4. np'[i] \in DOMAIN node' \ {Root} /\ node'[np'[i]].depth = Len(np') - i
        BY <4>1, <4>2, <4>3, <1>11, <1>14
      <4> QED
        BY <4>1, <4>2, <4>4, <1>2
    <3> QED
      BY <3>1, <3>2
  <2>3. ASSUME NEW x \in DOMAIN node', NEW i \in DOMAIN node'[x].ents,
               node'[x].depth > 0, node'[x].ents[i].pblk \in ToSet(np')
        PROVE  x \in ToSet(np')
    <3>1. CASE x = b
      BY <3>1, <1>21
    <3>2. CASE x # b
      <4>1. PICK j \in DOMAIN node[x].ents :
                /\ x \in DOMAIN node
                /\ node[x].depth = node'[x].depth
                /\ node'[x].ents[i].pblk = node[x].ents[j].pblk
        BY <3>2, <1>16
      <4>2. node[x].ents[j].pblk \in DOMAIN node
        BY <4>1, <2>3, <1>4 DEF KidsLive
      <4>3. node[x].ents[j].pblk \in ToSet(np)
        BY <4>1, <4>2, <2>3, <1>5, <1>21
      <4>4. x \in ToSet(np)
        BY <4>1, <4>3, <2>3, <1>2 DEF IInv, LocalInv, SplitInv
      <4> QED
        BY <4>4, <1>21
    <3> QED
      BY <3>1, <3>2
  <2>4. /\ level = at => Len(np') = Len(path) - at + 1
        /\ level # at => Len(np') <= Len(path) - at
    <3>1. \A a, d, m \in Nat :
             /\ (d + 1) - m = a => m + 1 = (d + 1) - a + 1
             /\ (d + 1) - m # a /\ (d + 1) - m >= a => m + 1 <= (d + 1) - a
      OBVIOUS
    <3>2. level = (depth + 1) - Len(np) /\ level >= at
      BY <1>3
    <3>3. /\ (depth + 1) - Len(np) = at => Len(np) + 1 = (depth + 1) - at + 1
          /\ (depth + 1) - Len(np) # at /\ (depth + 1) - Len(np) >= at
                => Len(np) + 1 <= (depth + 1) - at
      <4>1. at \in Nat /\ depth \in Nat /\ Len(np) \in Nat
        BY <1>3
      <4> QED
        BY <3>1, <4>1, Zenon
    <3>4. Len(np') = Len(np) + 1 /\ Len(path) = depth + 1
      BY <1>3, <1>20
    <3>5. CASE level = at
      <4>1. (depth + 1) - Len(np) = at
        BY <3>2, <3>5
      <4>2. Len(np) + 1 = (depth + 1) - at + 1
        BY <3>3, <4>1, Zenon
      <4> QED
        BY <3>4, <3>5, <4>2
    <3>6. CASE level # at
      <4>1. (depth + 1) - Len(np) # at /\ (depth + 1) - Len(np) >= at
        BY <3>2, <3>6, Zenon
      <4>2. Len(np) + 1 <= (depth + 1) - at
        BY <3>3, <4>1, Zenon
      <4> QED
        BY <3>4, <3>6, <4>2
    <3> QED
      BY <3>5, <3>6
  <2> QED
    BY <1>2, <2>1, <2>2, <2>3, <2>4 DEF SplitInv
<1>25. GrowInv' /\ DataInv'
  BY <1>1, <1>2, <1>11 DEF IInv, LocalInv, GrowInv, DataInv, Inserting
<1> QED
  BY <1>19, <1>22, <1>23, <1>24, <1>25 DEF IInv, LocalInv

\* Freeing the blocks of a split that fails.
LEMMA CleanupStep ==
    ASSUME IInv, pc \in {"split", "link"}, Cleanup
    PROVE  IInv'
<1> DEFINE N == ToSet(np)
<1>1. /\ node' = [b \in DOMAIN node \ N |-> node[b]]
      /\ free' = free \cup N
      /\ at' = 0 /\ key' = 0 /\ np' = <<>> /\ pc' = "fail"
      /\ UNCHANGED <<req, path, newext, todo, saved, res>>
  BY DEF Cleanup, conv
<1>2. /\ Root \in DOMAIN node /\ node \in [DOMAIN node -> Node]
      /\ DOMAIN node \subseteq PBlk \cup {Root} /\ free \subseteq PBlk
      /\ KidsLive(node) /\ NodesFit(node) /\ NodesNotFree
      /\ np \in Seq(PBlk)
  BY DEF IInv, TreeInv, TreeType, LocalInv, LocalType
<1>3. DOMAIN np = 1 .. Len(np)
  BY <1>2, LenProperties
<1>4. \A x \in N : /\ x \in DOMAIN node \ {Root} /\ x \in PBlk
                   /\ \A k \in 1 .. Len(path) : path[k].blk # x
  <2> SUFFICES ASSUME NEW i \in 1 .. Len(np)
               PROVE  /\ np[i] \in DOMAIN node \ {Root} /\ np[i] \in PBlk
                      /\ \A k \in 1 .. Len(path) : path[k].blk # np[i]
    BY <1>3 DEF ToSet
  <2>1. np[i] \in PBlk
    BY <1>2, ElementOfSeq
  <2> QED
    BY <2>1 DEF IInv, LocalInv, SplitInv
<1>5. ASSUME NEW b \in DOMAIN node, NEW j \in DOMAIN node[b].ents,
             node[b].depth > 0, node[b].ents[j].pblk \in N
      PROVE  b \in N
  BY <1>5 DEF IInv, LocalInv, SplitInv
<1> HIDE DEF N
<1>6. /\ DOMAIN node' = DOMAIN node \ N /\ Root \in DOMAIN node'
      /\ \A b \in DOMAIN node' : node'[b] = node[b]
  BY <1>1, <1>2, <1>4
<1>7. node' \in [DOMAIN node' -> Node]
  BY <1>1, <1>2, <1>6
<1>8. KidsLive(node')
  <2> SUFFICES ASSUME NEW b \in DOMAIN node', node'[b].depth > 0,
                      NEW i \in DOMAIN node'[b].ents
               PROVE  /\ node'[b].ents[i].pblk \in DOMAIN node' \ {Root}
                      /\ node'[node'[b].ents[i].pblk].depth = node'[b].depth - 1
    BY DEF KidsLive
  <2>1. node'[b] = node[b] /\ b \in DOMAIN node /\ b \notin N
    BY <1>6
  <2>2. /\ node[b].ents[i].pblk \in DOMAIN node \ {Root}
        /\ node[node[b].ents[i].pblk].depth = node[b].depth - 1
    BY <2>1, <1>2 DEF KidsLive
  <2>3. node[b].ents[i].pblk \notin N
    BY <2>1, <1>5
  <2> QED
    BY <2>1, <2>2, <2>3, <1>6
<1>9. NodesFit(node')
  BY <1>2, <1>6 DEF NodesFit
<1>10. TreeInv'
  BY <1>1, <1>2, <1>4, <1>6, <1>7, <1>8, <1>9 DEF TreeInv, TreeType, NodesNotFree
<1>11. LocalType'
  BY <1>1, EmptySeq DEF IInv, LocalInv, LocalType, PCs
<1>12. PathInv'
  <2>1. Len(path) = depth + 1 /\ path # <<>> /\ depth \in Nat
    BY WorkingPath DEF Working
  <2>2. depth' = depth /\ leaf' = leaf /\ path' = path
    BY <1>1, <1>6 DEF depth, leaf
  <2>3. ASSUME NEW k \in 1 .. Len(path)
        PROVE  path[k].blk \in DOMAIN node' /\ node'[path[k].blk] = node[path[k].blk]
    <3>1. path[k].blk \in DOMAIN node
      BY DEF IInv, LocalInv, PathInv
    <3>2. path[k].blk \notin N
      BY <1>4
    <3> QED
      BY <3>1, <3>2, <1>6
  <2>4. /\ leaf.pos <= Len(node[leaf.blk].ents)
        /\ node'[leaf.blk] = node[leaf.blk]
    <3>1. leaf.pos <= Len(node[leaf.blk].ents)
      BY <2>1 DEF IInv, LocalInv, PathInv, Working
    <3>2. Len(path) \in 1 .. Len(path)
      BY <2>1
    <3> QED
      BY <3>1, <3>2, <2>3 DEF leaf
  <2>5. path[1].blk = Root
    BY <2>1 DEF IInv, LocalInv, PathInv
  <2>6. \A k \in 1 .. Len(path) :
           /\ node[path[k].blk].depth = depth - (k - 1)
           /\ k < Len(path) => path[k].pos \in 1 .. Len(node[path[k].blk].ents)
    BY DEF IInv, LocalInv, PathInv
  <2> QED
    BY <1>1, <2>1, <2>2, <2>3, <2>4, <2>5, <2>6 DEF PathInv, Searching, Working
<1>13. GrowInv' /\ SplitInv'
  BY <1>1 DEF GrowInv, SplitInv
<1>14. DataInv'
  BY <1>1, <1>4, <1>6 DEF IInv, LocalInv, DataInv, Inserting
<1> QED
  BY <1>10, <1>11, <1>12, <1>13, <1>14 DEF IInv, LocalInv

\* Freeing the data block after a failed insertion keeps the invariant: it is no node.
LEMMA FreeDataStep ==
    ASSUME IInv, FreeData
    PROVE  IInv'
<1>1. /\ pc = "fail" /\ todo = <<>> /\ free' = free \cup {newext.pblk}
      /\ Return(EFAIL) /\ node' = node /\ UNCHANGED split
  BY DEF FreeData, Converting
<1>2. newext.pblk \in PBlk /\ newext.pblk \notin DOMAIN node
  BY <1>1 DEF IInv, LocalInv, DataInv, Inserting
<1>3. TreeInv'
  BY <1>1, <1>2 DEF IInv, TreeInv, TreeType, NodesNotFree
<1>4. EFAIL \in Result
  BY DEF EFAIL, Result
<1> QED
  BY <1>1, <1>3, <1>4, ReturnStep DEF IInv

\* Whatever the slot that restore_extent_len writes holds by then, only a
\* length changes.
LEMMA RestoreStep ==
    ASSUME IInv, restore_extent_len
    PROVE  IInv'
<1> DEFINE sb == saved.blk
           sp == saved.pos
<1>1. /\ pc = "fail" /\ todo # <<>> /\ path # <<>> /\ free' = free
      /\ node' = [node EXCEPT ![sb].ents[sp].len = saved.len]
      /\ UNCHANGED split
      /\ \/ Len(todo) = 1 /\ Return(res)
         \/ /\ Len(todo) # 1 /\ todo' = Tail(todo) /\ pc' = "splitat"
            /\ UNCHANGED <<req, path, newext, saved, res>>
  BY DEF restore_extent_len, Converting
<1>2. /\ Root \in DOMAIN node /\ node \in [DOMAIN node -> Node]
      /\ KidsLive(node) /\ NodesFit(node) /\ saved.len \in RawLen
  BY DEF IInv, TreeInv, TreeType, LocalInv, LocalType
<1> HIDE DEF sb, sp
<1>3. ASSUME NEW b \in DOMAIN node
      PROVE  /\ node'[b] \in Node
             /\ node'[b].depth = node[b].depth
             /\ node'[b].max = node[b].max
             /\ Len(node'[b].ents) = Len(node[b].ents)
             /\ DOMAIN node'[b].ents = DOMAIN node[b].ents
             /\ \A i \in DOMAIN node[b].ents :
                   node'[b].ents[i].pblk = node[b].ents[i].pblk
  <2> DEFINE old == node[b].ents
             e == [old[sp] EXCEPT !.len = saved.len]
             es == [old EXCEPT ![sp] = e]
  <2>1. /\ node[b] \in Node /\ old \in Seq(Entry) /\ Len(old) \in Nat
        /\ DOMAIN old = 1 .. Len(old)
    BY <1>2, NodeFields
  <2>2. CASE b # sb
    BY <2>1, <2>2, <1>1
  <2>3. CASE b = sb /\ sp \notin DOMAIN old
    <3>1. es = old
      BY <2>1, <2>3
    <3>2. node'[b] = [node[b] EXCEPT !.ents = es]
      BY <2>3, <1>1, <1>2
    <3> HIDE DEF es
    <3>3. node'[b] = node[b]
      BY <3>1, <3>2, <2>1 DEF Node
    <3> QED
      BY <3>3, <2>1
  <2>4. CASE b = sb /\ sp \in DOMAIN old
    <3>1. old[sp] \in Entry
      BY <2>1, <2>4, ElementOfSeq
    <3>2. e \in Entry /\ e.pblk = old[sp].pblk
      BY <3>1, <1>2 DEF Entry
    <3>3. node'[b] = [node[b] EXCEPT !.ents = es]
      BY <2>4, <1>1, <1>2
    <3> HIDE DEF e
    <3>4. /\ es \in Seq(Entry) /\ Len(es) = Len(old)
          /\ \A j \in 1 .. Len(old) : es[j] = IF j = sp THEN e ELSE old[j]
      BY <2>1, <2>4, <3>2, ExceptSeq
    <3> HIDE DEF es
    <3>5. DOMAIN es = 1 .. Len(old)
      BY <3>4, LenProperties
    <3>6. /\ node'[b] \in Node /\ node'[b].depth = node[b].depth
          /\ node'[b].max = node[b].max /\ node'[b].ents = es
      BY <2>1, <3>3, <3>4 DEF Node
    <3>7. \A i \in DOMAIN old : es[i].pblk = old[i].pblk
      BY <2>1, <3>2, <3>4
    <3> QED
      BY <2>1, <3>4, <3>5, <3>6, <3>7
  <2> QED
    BY <2>2, <2>3, <2>4
<1>4. DOMAIN node' = DOMAIN node /\ node' \in [DOMAIN node -> Node]
  BY <1>1, <1>2, <1>3
<1>5. KidsLive(node') /\ NodesFit(node')
  <2>1. ASSUME NEW b \in DOMAIN node
        PROVE  /\ node'[b].depth = node[b].depth
               /\ node'[b].max = node[b].max
               /\ Len(node'[b].ents) <= node[b].max
               /\ node[b].depth > 0 =>
                     /\ node'[b].ents # <<>>
                     /\ \A i \in DOMAIN node'[b].ents :
                           \E j \in DOMAIN node[b].ents :
                              node'[b].ents[i].pblk = node[b].ents[j].pblk
    <3>1. /\ Len(node[b].ents) <= node[b].max
          /\ node[b].depth > 0 => node[b].ents # <<>>
          /\ node[b].ents \in Seq(Entry)
      BY <1>2, NodeFields DEF NodesFit
    <3>2. node[b].depth > 0 => Len(node'[b].ents) # 0
      BY <3>1, <1>3, EmptySeq
    <3>3. node[b].depth > 0 => node'[b].ents # <<>>
      BY <3>2
    <3> QED
      BY <3>1, <3>3, <1>3
  <2> QED
    BY <2>1, <1>2, <1>4, SameShape
<1>6. TreeInv'
  BY <1>1, <1>4, <1>5 DEF IInv, TreeInv, TreeType, NodesNotFree
<1>7. ShapeKept /\ leaf.pos <= Len(node'[leaf.blk].ents)
  <2>1. \A b \in DOMAIN node : Len(node'[b].ents) >= Len(node[b].ents)
    BY <1>2, <1>3, NodeFields
  <2>2. leaf.blk \in DOMAIN node /\ leaf.pos \in 0 .. Len(node[leaf.blk].ents)
    BY <1>1, LeafOfPath
  <2> QED
    BY <2>1, <2>2, <1>2, <1>3, <1>4, NodeFields DEF ShapeKept
<1>8. CASE Len(todo) = 1 /\ Return(res)
  <2>1. res \in Result
    BY DEF IInv, LocalInv, LocalType
  <2> QED
    BY <1>1, <1>6, <1>8, <2>1, ReturnStep DEF IInv
<1>9. CASE /\ Len(todo) # 1 /\ todo' = Tail(todo) /\ pc' = "splitat"
           /\ UNCHANGED <<req, path, newext, saved, res>>
  <2>1. path' = [path EXCEPT ![Len(path)].pos = leaf.pos] /\ leaf.pos \in Nat
    BY <1>1, <1>9, SamePath
  <2>2. UNCHANGED <<req, newext, at, key, np, saved, res>> /\ TreeType'
    BY <1>1, <1>6, <1>9 DEF split, TreeInv
  <2>3. LocalInv'
    BY <1>1, <1>7, <1>9, <2>1, <2>2, NextSplitStep
  <2> QED
    BY <1>6, <2>3 DEF IInv
<1> QED
  BY <1>1, <1>8, <1>9

\* Stopping on a freed path keeps the invariant.
LEMMA RestoreWithoutPathStep ==
    ASSUME IInv, RestoreWithoutPath
    PROVE  IInv'
<1>1. /\ pc = "fail" /\ pc' = "bugcheck" /\ path = <<>>
      /\ node' = node /\ free' = free
      /\ UNCHANGED <<req, path, newext, at, key, np, todo, saved, res>>
  BY DEF RestoreWithoutPath, tree, split, conv
<1>2. TreeInv'
  BY <1>1 DEF IInv, TreeInv, TreeType, NodesNotFree
<1>3. LocalType'
  BY <1>1 DEF IInv, LocalInv, LocalType, PCs
<1>4. PathInv' /\ GrowInv'
  BY <1>1 DEF PathInv, GrowInv, Searching, Working
<1>5. SplitInv' /\ DataInv'
  BY <1>1 DEF IInv, LocalInv, SplitInv, DataInv, Inserting
<1> QED
  BY <1>2, <1>3, <1>4, <1>5 DEF IInv, LocalInv

\* Linking the topmost new node below its parent.
LEMMA LinkStep ==
    ASSUME IInv, pc = "link", ~ NoPlaceForIndex, LinkIndex
    PROVE  IInv'
<1> DEFINE c == path[at - 1].blk
           old == node[c].ents
           ix == [lblk |-> key, pblk |-> np[1], len |-> 0]
           es == InsertAt(old, LinkSlot, ix)
           q == [k \in DOMAIN path |->
                   IF k < at - 1 THEN path[k]
                   ELSE IF k = at - 1 THEN [path[k] EXCEPT !.pos = LinkSlot]
                   ELSE [blk |-> np[k - at + 1],
                         pos |-> IF node[np[k - at + 1]].ents = <<>>
                                 THEN 0 ELSE 1]]
<1>1. /\ node' = [node EXCEPT ![c].ents = es] /\ free' = free
      /\ path' \in {q, path}
      /\ at' = 0 /\ key' = 0 /\ np' = <<>> /\ pc' = "insert"
      /\ UNCHANGED <<req, newext, todo, saved, res>>
  BY DEF LinkIndex, conv
<1>2. /\ Root \in DOMAIN node /\ node \in [DOMAIN node -> Node]
      /\ DOMAIN node \subseteq PBlk \cup {Root}
      /\ KidsLive(node) /\ NodesFit(node)
      /\ np \in Seq(PBlk) /\ key \in Nat /\ path \in Seq(PathElem)
  BY DEF IInv, TreeInv, TreeType, LocalInv, LocalType
<1>3. /\ Len(path) = depth + 1 /\ depth \in Nat /\ path # <<>>
      /\ at \in 2 .. Len(path) /\ at \in Nat
      /\ Len(np) = (Len(path) - at) + 1 /\ Len(np) \in Nat \ {0}
      /\ DOMAIN path = 1 .. Len(path)
  <2>1. Len(path) = depth + 1 /\ depth \in Nat /\ path # <<>>
    BY WorkingPath DEF Working
  <2>2. at \in 2 .. Len(path) /\ Len(np) = (Len(path) - at) + 1 /\ at \in Nat
    BY DEF IInv, LocalInv, LocalType, SplitInv
  <2>3. Len(np) \in Nat \ {0}
    BY <2>1, <2>2
  <2> QED
    BY <2>1, <2>2, <2>3, <1>2, LenProperties
<1>4. at - 1 \in 1 .. Len(path) /\ at - 1 < Len(path)
  BY <1>3
<1>5. /\ c \in DOMAIN node /\ node[c].depth = depth - (at - 1 - 1)
      /\ path[at - 1].pos \in 1 .. Len(old)
  BY <1>4 DEF IInv, LocalInv, PathInv
<1>6. /\ node[c] \in Node /\ old \in Seq(Entry) /\ Len(old) \in Nat
      /\ node[c].max \in Nat /\ DOMAIN old = 1 .. Len(old)
  BY <1>2, <1>5, NodeFields
<1>7. LinkSlot \in 1 .. Len(old) + 1
  <2>1. LinkSlot \in {path[at - 1].pos, path[at - 1].pos + 1}
    BY DEF LinkSlot
  <2> QED
    BY <2>1, <1>5, <1>6
<1>8. Len(old) < node[c].max
  BY DEF NoPlaceForIndex, HasFree
<1>9. ASSUME NEW i \in 1 .. Len(np)
      PROVE  /\ np[i] \in DOMAIN node \ {Root} /\ np[i] # c
             /\ node[np[i]].depth = Len(np) - i
             /\ \A k \in 1 .. Len(path) : path[k].blk # np[i]
  BY <1>4 DEF IInv, LocalInv, SplitInv
<1>10. ix \in Entry /\ ix.pblk = np[1] /\ 1 \in 1 .. Len(np)
  <2>1. 1 \in 1 .. Len(np)
    BY <1>3
  <2>2. np[1] \in PBlk
    BY <2>1, <1>2, ElementOfSeq
  <2>3. \A b \in PBlk : b \in Int
    BY ConstantsAssumption
  <2>4. np[1] \in Int
    BY <2>2, <2>3
  <2> QED
    BY <2>1, <2>4, <1>2, InitMaxAssumption DEF Entry, RawLen
<1> HIDE DEF ix, old
<1>11. /\ es \in Seq(Entry) /\ Len(es) = Len(old) + 1
       /\ \A k \in 1 .. Len(old) + 1 :
             es[k] = IF k < LinkSlot THEN old[k]
                     ELSE IF k = LinkSlot THEN ix ELSE old[k - 1]
  <2> DEFINE slot == LinkSlot
  <2>1. old \in Seq(Entry) /\ slot \in 1 .. Len(old) + 1 /\ ix \in Entry
    BY <1>6, <1>7, <1>10
  <2> HIDE DEF slot
  <2>2. /\ InsertAt(old, slot, ix) \in Seq(Entry)
        /\ Len(InsertAt(old, slot, ix)) = Len(old) + 1
    BY <2>1, InsertAtProperties
  <2>3. ASSUME NEW k \in 1 .. Len(old) + 1
        PROVE  InsertAt(old, slot, ix)[k] =
                  IF k < slot THEN old[k] ELSE IF k = slot THEN ix ELSE old[k - 1]
    BY <2>1, InsertAtProperties
  <2> QED
    BY <2>2, <2>3 DEF slot, es
<1> HIDE DEF es, c
<1>12. \A k \in DOMAIN es : \/ es[k].pblk = np[1]
                            \/ \E j \in DOMAIN old : es[k].pblk = old[j].pblk
  <2> SUFFICES ASSUME NEW k \in 1 .. Len(old) + 1
               PROVE  \/ es[k].pblk = np[1]
                      \/ \E j \in DOMAIN old : es[k].pblk = old[j].pblk
    BY <1>11, LenProperties
  <2>1. CASE k < LinkSlot
    <3>1. k \in DOMAIN old /\ es[k] = old[k]
      BY <2>1, <1>6, <1>7, <1>11
    <3> QED
      BY <3>1
  <2>2. CASE k = LinkSlot
    BY <2>2, <1>7, <1>10, <1>11
  <2>3. CASE k > LinkSlot
    <3>1. k - 1 \in DOMAIN old /\ es[k] = old[k - 1]
      BY <2>3, <1>6, <1>7, <1>11
    <3> QED
      BY <3>1
  <2> QED
    BY <2>1, <2>2, <2>3, <1>6, <1>7
<1>13. /\ DOMAIN node' = DOMAIN node /\ node' \in [DOMAIN node -> Node]
       /\ \A b \in DOMAIN node : b # c => node'[b] = node[b]
       /\ node'[c].ents = es /\ node'[c].depth = node[c].depth
       /\ node'[c].max = node[c].max
  <2>1. node'[c] = [node[c] EXCEPT !.ents = es]
    BY <1>1, <1>5
  <2>2. /\ node'[c] \in Node /\ node'[c].ents = es
        /\ node'[c].depth = node[c].depth /\ node'[c].max = node[c].max
    BY <2>1, <1>6, <1>11 DEF Node
  <2> QED
    BY <2>2, <1>1, <1>2
<1>14. \A b \in DOMAIN node : /\ node'[b].depth = node[b].depth
                              /\ node'[b].max = node[b].max
  BY <1>13
<1>15. KidsLive(node')
  <2> SUFFICES ASSUME NEW b \in DOMAIN node, node'[b].depth > 0,
                      NEW i \in DOMAIN node'[b].ents
               PROVE  /\ node'[b].ents[i].pblk \in DOMAIN node \ {Root}
                      /\ node[node'[b].ents[i].pblk].depth = node'[b].depth - 1
    BY <1>13, <1>14 DEF KidsLive
  <2>1. CASE b # c
    BY <2>1, <1>2, <1>13 DEF KidsLive
  <2>2. CASE b = c
    <3>1. CASE es[i].pblk = np[1]
      <4>1. /\ np[1] \in DOMAIN node \ {Root}
            /\ node[np[1]].depth = Len(np) - 1
        BY <1>9, <1>10
      <4>2. Len(np) - 1 = node[c].depth - 1
        BY <1>3, <1>5
      <4> QED
        BY <2>2, <3>1, <4>1, <4>2, <1>13
    <3>2. CASE \E j \in DOMAIN old : es[i].pblk = old[j].pblk
      <4>1. PICK j \in DOMAIN old : es[i].pblk = old[j].pblk
        BY <3>2
      <4>2. /\ node[c].ents[j].pblk \in DOMAIN node \ {Root}
            /\ node[node[c].ents[j].pblk].depth = node[c].depth - 1
        BY <2>2, <4>1, <1>2, <1>5, <1>13 DEF KidsLive, old
      <4> QED
        BY <2>2, <4>1, <4>2, <1>13 DEF old
    <3> QED
      BY <2>2, <3>1, <3>2, <1>12, <1>13
  <2> QED
    BY <2>1, <2>2
<1>16. NodesFit(node')
  <2>1. ASSUME NEW b \in DOMAIN node
        PROVE  /\ Len(node'[b].ents) <= node'[b].max
               /\ node'[b].depth > 0 => node'[b].ents # <<>>
    <3>1. CASE b # c
      BY <3>1, <1>2, <1>13 DEF NodesFit
    <3>2. CASE b = c
      <4>1. Len(es) # 0 /\ Len(es) <= node[c].max
        BY <1>6, <1>8, <1>11
      <4>2. es # <<>>
        BY <4>1
      <4> QED
        BY <3>2, <4>1, <4>2, <1>13
    <3> QED
      BY <3>1, <3>2
  <2> QED
    BY <2>1, <1>2, <1>13, <1>14 DEF NodesFit
<1>17. TreeInv'
  BY <1>1, <1>13, <1>15, <1>16 DEF IInv, TreeInv, TreeType, NodesNotFree
<1>18. /\ depth' = depth
       /\ \A b \in DOMAIN node : Len(node'[b].ents) >= Len(node[b].ents)
  <2>1. \A b \in DOMAIN node : Len(node[b].ents) \in Nat
    BY <1>2, NodeFields
  <2>2. Len(node'[c].ents) >= Len(node[c].ents)
    BY <1>6, <1>11, <1>13 DEF old
  <2> QED
    BY <2>1, <2>2, <1>2, <1>13, <1>14 DEF depth
\* The path into the new nodes.
<1>19. ASSUME NEW k \in 1 .. Len(path)
       PROVE  /\ q[k] \in PathElem
              /\ q[k].blk \in DOMAIN node'
              /\ node'[q[k].blk].depth = depth - (k - 1)
              /\ k < Len(path) => q[k].pos \in 1 .. Len(node'[q[k].blk].ents)
              /\ k = Len(path) => q[k].pos <= Len(node'[q[k].blk].ents)
  <2>1. /\ path[k] \in PathElem /\ path[k].blk \in DOMAIN node
        /\ node[path[k].blk].depth = depth - (k - 1)
        /\ k < Len(path) => path[k].pos \in 1 .. Len(node[path[k].blk].ents)
    BY <1>2, ElementOfSeq DEF IInv, LocalInv, PathInv
  <2>2. CASE k < at - 1
    <3>1. q[k] = path[k] /\ k < Len(path)
      BY <2>2, <1>3, <1>4
    <3>2. /\ Len(node[path[k].blk].ents) \in Nat
          /\ Len(node'[path[k].blk].ents) \in Nat
      BY <2>1, <1>2, <1>13, NodeFields
    <3>3. Len(node'[path[k].blk].ents) >= Len(node[path[k].blk].ents)
      BY <2>1, <1>18
    <3>4. path[k].pos \in 1 .. Len(node'[path[k].blk].ents)
      BY <2>1, <3>1, <3>2, <3>3
    <3>5. k # Len(path)
      BY <3>1, <1>3
    <3> HIDE DEF q
    <3> QED
      BY <2>1, <3>1, <3>4, <3>5, <1>13, <1>14
  <2>3. CASE k = at - 1
    <3>1. q[k] = [path[k] EXCEPT !.pos = LinkSlot] /\ k < Len(path)
      BY <2>3, <1>3, <1>4
    <3>2. LinkSlot \in Nat
      BY <1>6, <1>7
    <3>3. q[k] \in PathElem /\ q[k].blk = path[k].blk /\ q[k].pos = LinkSlot
      BY <2>1, <3>1, <3>2 DEF PathElem
    <3>4. path[k].blk = c
      BY <2>3 DEF c
    <3>5. LinkSlot \in 1 .. Len(node'[c].ents)
      BY <1>7, <1>11, <1>13
    <3>6. k # Len(path)
      BY <3>1, <1>3
    <3> HIDE DEF q
    <3> QED
      BY <2>1, <3>3, <3>4, <3>5, <3>6, <1>13, <1>14
  <2>4. CASE k > at - 1
    <3> DEFINE j == (k - at) + 1
    <3>1. j \in 1 .. Len(np) /\ Len(np) - j = depth - (k - 1)
      BY <2>4, <1>3
    <3>2. q[k] = [blk |-> np[k - at + 1],
                  pos |-> IF node[np[k - at + 1]].ents = <<>> THEN 0 ELSE 1]
      BY <2>4, <1>3, <1>4
    <3>3. q[k].blk = np[j] /\ q[k].pos = IF node[np[j]].ents = <<>> THEN 0 ELSE 1
      BY <3>2
    <3> HIDE DEF j
    <3>4. /\ np[j] \in DOMAIN node \ {Root} /\ np[j] # c
          /\ node[np[j]].depth = depth - (k - 1)
      BY <3>1, <1>9
    <3>5. node'[np[j]] = node[np[j]] /\ node[np[j]].ents \in Seq(Entry)
      BY <3>4, <1>2, <1>13, NodeFields
    <3>6. node[np[j]].ents # <<>> => Len(node[np[j]].ents) \in Nat \ {0}
      BY <3>5, EmptySeq
    <3>7. k < Len(path) => node[np[j]].ents # <<>>
      <4>1. k < Len(path) => depth - (k - 1) > 0
        BY <1>3
      <4> QED
        BY <4>1, <3>4, <1>2 DEF NodesFit
    <3>8. /\ k < Len(path) => q[k].pos \in 1 .. Len(node'[np[j]].ents)
          /\ q[k].pos <= Len(node'[np[j]].ents)
      <4>1. CASE node[np[j]].ents = <<>>
        <5>1. Len(node[np[j]].ents) = 0
          BY <4>1
        <5> QED
          BY <4>1, <5>1, <3>3, <3>5, <3>7
      <4>2. CASE node[np[j]].ents # <<>>
        BY <4>2, <3>3, <3>5, <3>6
      <4> QED
        BY <4>1, <4>2
    <3>9. q[k] \in PathElem
      <4>1. np[k - at + 1] = np[j]
        BY DEF j
      <4>2. np[j] \in PBlk \cup {Root}
        BY <3>4, <1>2
      <4> QED
        BY <3>2, <4>1, <4>2 DEF PathElem
    <3> QED
      BY <3>3, <3>4, <3>5, <3>8, <3>9, <1>13
  <2>5. k < at - 1 \/ k = at - 1 \/ k > at - 1
    BY <1>3
  <2> HIDE DEF q
  <2> QED
    BY <2>2, <2>3, <2>4, <2>5
<1>20. q \in Seq(PathElem) /\ Len(q) = Len(path) /\ q[1].blk = Root
  <2>1. q[1].blk = path[1].blk
    <3>1. 1 \in DOMAIN path /\ (1 < at - 1 \/ 1 = at - 1)
      BY <1>3
    <3>2. path[1] \in PathElem
      BY <1>2, <1>3, ElementOfSeq
    <3>3. [path[1] EXCEPT !.pos = LinkSlot].blk = path[1].blk
      BY <3>2 DEF PathElem
    <3> QED
      BY <3>1, <3>3
  <2>2. path[1].blk = Root
    BY <1>3 DEF IInv, LocalInv, PathInv
  <2>3. q = [k \in 1 .. Len(path) |-> q[k]] /\ Len(path) \in Nat
    BY <1>3
  <2> HIDE DEF q
  <2>4. q \in Seq(PathElem) /\ Len(q) = Len(path)
    BY <2>3, <1>19
  <2> QED
    BY <2>1, <2>2, <2>4
<1> HIDE DEF q
<1>21. path' \in Seq(PathElem) /\ PathInv'
  <2>1. CASE path' = q
    <3>1. leaf' = q[Len(path)] /\ path' # <<>> /\ Len(path) \in 1 .. Len(path)
      <4>1. Len(path') # 0
        BY <2>1, <1>3, <1>20
      <4>2. path' # <<>>
        BY <4>1
      <4>3. leaf' = path'[Len(path')] /\ Len(path') = Len(path)
        BY <2>1, <1>20 DEF leaf
      <4>4. Len(path) \in 1 .. Len(path)
        BY <1>3
      <4> QED
        BY <2>1, <4>2, <4>3, <4>4
    <3>2. leaf'.pos <= Len(node'[leaf'.blk].ents)
      BY <3>1, <1>19
    <3>3. Len(path') = Len(path) /\ path'[1].blk = Root
      BY <2>1, <1>20
    <3> QED
      BY <2>1, <3>1, <3>2, <3>3, <1>1, <1>3, <1>18, <1>19, <1>20
         DEF PathInv, Searching, Working
  <2>2. CASE path' = path
    <3>1. path' = [path EXCEPT ![Len(path)].pos = leaf.pos] /\ leaf.pos \in Nat
      BY <2>2, <1>3, SamePath DEF Working
    <3>2. TreeType' /\ ShapeKept
      BY <1>13, <1>14, <1>17, <1>18 DEF TreeInv, ShapeKept
    <3>3. leaf.pos <= Len(node'[leaf.blk].ents)
      <4>1. /\ leaf.blk \in DOMAIN node
            /\ leaf.pos \in 0 .. Len(node[leaf.blk].ents)
        BY <1>3, LeafOfPath DEF Working
      <4>2. /\ Len(node[leaf.blk].ents) \in Nat
            /\ Len(node'[leaf.blk].ents) \in Nat
        BY <4>1, <1>2, <1>13, NodeFields
      <4>3. Len(node'[leaf.blk].ents) >= Len(node[leaf.blk].ents)
        BY <4>1, <1>18
      <4> QED
        BY <4>1, <4>2, <4>3, <3>1
    <3> QED
      BY <1>1, <1>3, <3>1, <3>2, <3>3, PathKept DEF Working
  <2> QED
    BY <2>1, <2>2, <1>1
<1>22. LocalType'
  BY <1>1, <1>21, EmptySeq DEF IInv, LocalInv, LocalType, PCs
<1>23. GrowInv' /\ SplitInv'
  BY <1>1 DEF GrowInv, SplitInv
<1>24. DataInv'
  BY <1>1, <1>13 DEF IInv, LocalInv, DataInv, Inserting
<1> QED
  BY <1>17, <1>21, <1>22, <1>23, <1>24 DEF IInv, LocalInv

-----------------------------------------------------------------------------
(* The theorems.                                                           *)

\* A file that is good on the disk is a good start.
LEMMA InitStep ==
    ASSUME Init
    PROVE  IInv
<1>1. PICK f \in Files : node = f.node /\ free = f.free
  BY DEF Init
<1>2. GoodFile(node, free)
  BY <1>1, FilesAssumption
<1>3. TreeInv
  BY <1>2 DEF GoodFile, TreeInv, TreeType, NodesNotFree
<1>4. LocalType
  <2>1. NoExtent \in Entry /\ NoSlot.len \in RawLen
    BY InitMaxAssumption DEF NoExtent, NoSlot, Entry, RawLen
  <2>2. /\ pc \in PCs
        /\ req \in [lblk : Nat, max : Nat, create : BOOLEAN]
        /\ saved \in [blk : PBlk \cup {Root}, pos : Nat, len : RawLen]
        /\ res \in Result
    BY <2>1 DEF Init, PCs, NoReq, NoSlot, EOK, Result
  <2>3. path \in Seq(PathElem) /\ todo \in Seq(SplitStep) /\ np \in Seq(PBlk)
    BY EmptySeq DEF Init
  <2> QED
    BY <2>1, <2>2, <2>3 DEF Init, LocalType
<1>5. PathInv
  BY DEF Init, PathInv, Searching, Working
<1>6. GrowInv /\ SplitInv /\ DataInv
  BY DEF Init, GrowInv, SplitInv, DataInv, Inserting
<1> QED
  BY <1>3, <1>4, <1>5, <1>6 DEF IInv, LocalInv

\* Every step of every call, and every failure, keeps the invariant.
LEMMA NextStep ==
    ASSUME IInv, [Next]_vars
    PROVE  IInv'
<1>1. CASE UNCHANGED vars
  BY <1>1 DEF vars, IInv, TreeInv, LocalInv, TreeType, LocalType, NodesNotFree,
              PathInv, GrowInv, SplitInv, DataInv, depth, leaf
<1>2. CASE \E l \in LBlk, m \in MaxBlocks, c \in BOOLEAN :
              ext4_extent_get_blocks(l, m, c)
  BY <1>2, CallStep
<1>3. CASE Find
  BY <1>3, WalkStep, FindErrStep, FindLeafStep DEF Find
<1>4. CASE Decide
  BY <1>4, ReturnFoundStep, ConvertStep, AllocateStep DEF Decide
<1>5. CASE Convert
  BY <1>5, CutCases, WholeStep, SplitAtStep, RestoreStep, RestoreWithoutPathStep
     DEF Convert
<1>6. CASE Insert
  <2>1. CASE ext4_ext_insert_leaf \/ ext4_ext_grow_indepth
    BY <2>1, InsertLeafStep, GrowStep
  <2>2. CASE GrowFails
    BY <2>2, FailStep DEF GrowFails
  <2>3. CASE ext4_ext_split_node \/ FreeData
    BY <2>3, SplitNodeStep, FreeDataStep
  <2>4. CASE SplitFails
    BY <2>4, CleanupStep DEF SplitFails
  <2>5. CASE ext4_ext_insert_index
    BY <2>5, CleanupStep, LinkStep DEF ext4_ext_insert_index
  <2> QED
    BY <1>6, <2>1, <2>2, <2>3, <2>4, <2>5 DEF Insert
<1> QED
  BY <1>1, <1>2, <1>3, <1>4, <1>5, <1>6 DEF Next, Step

\* The inductive invariant holds throughout, whichever allocations and reads
\* fail and wherever in a call they do.
THEOREM Invariance == Spec => []IInv
<1>1. Init => IInv
  BY InitStep
<1>2. IInv /\ [Next]_vars => IInv'
  BY NextStep
<1> QED
  BY <1>1, <1>2, PTL DEF Spec

\* The variables keep their types: in particular every length that is stored
\* stays a raw length and every node a node.
THEOREM TypeCorrectness == Spec => []TypeOK
<1>1. IInv => TypeOK
  BY DEF IInv, TreeInv, LocalInv, TreeType, LocalType, TypeOK,
         PathElem, SplitStep, Result
<1> QED
  BY <1>1, Invariance, PTL

\* No dangling index: after any sequence of get_blocks() calls, and after any
\* failure inside one, every index of the tree points to a live tree block of
\* the next lower depth.
THEOREM NoDanglingIndex == Spec => []ChildrenLive
<1>1. IInv => ChildrenLive
  BY DEF IInv, TreeInv, ChildrenLive
<1> QED
  BY <1>1, Invariance, PTL

\* No block of the tree is given to the allocator, by get_blocks() when it frees
\* the data block or by split_node() when it frees what it had made, and the
\* allocator's blocks are none of the tree's.
THEOREM NoNodeFreed == Spec => []NodesNotFree
<1>1. IInv => NodesNotFree
  BY DEF IInv, TreeInv
<1> QED
  BY <1>1, Invariance, PTL

\* Insertions never overrun a node, for every capacity of the nodes.
THEOREM NoOverrun == Spec => []WithinCapacity
<1>1. IInv => WithinCapacity
  BY DEF IInv, TreeInv, NodesFit, WithinCapacity
<1> QED
  BY <1>1, Invariance, PTL

\* The path that insert_extent carries through splits and growth is never
\* stale.
THEOREM PathNeverStale == Spec => []PathLive
<1>1. IInv => PathLive
  <2> SUFFICES ASSUME IInv, NEW k \in 1 .. Len(path)
               PROVE  /\ path[k].blk \in DOMAIN node
                      /\ node[path[k].blk].depth = depth - (k - 1)
                      /\ k < Len(path) =>
                            path[k].pos \in DOMAIN node[path[k].blk].ents
    BY DEF PathLive
  <2>1. /\ path[k].blk \in DOMAIN node
        /\ node[path[k].blk].depth = depth - (k - 1)
        /\ k < Len(path) => path[k].pos \in 1 .. Len(node[path[k].blk].ents)
    BY DEF IInv, LocalInv, PathInv
  <2>2. DOMAIN node[path[k].blk].ents = 1 .. Len(node[path[k].blk].ents)
    BY <2>1, NodeFields DEF IInv, TreeInv, TreeType
  <2> QED
    BY <2>1, <2>2
<1> QED
  BY <1>1, Invariance, PTL

=============================================================================
