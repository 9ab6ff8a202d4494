------------------------- MODULE ExtentSearchProofs -------------------------
(***************************************************************************)
(* The proof that nothing gets lost.  Binary search finds the closest slot *)
(* of every node, and the walk from the root finds every block that an     *)
(* extent of the tree covers; every node of the tree keeps an index, and   *)
(* every block that it refers to is one of the device.                     *)
(*                                                                         *)
(* The searches are recursive functions, over the windows of a binary      *)
(* search and over the levels of a tree, so there is an induction over the *)
(* naturals to begin with.                                                 *)
(***************************************************************************)
EXTENDS ExtentOrderProofs

-----------------------------------------------------------------------------
(* Induction and recursion over the naturals, with sets and functions.     *)

\* A non-empty set of naturals has a least element.
LEMMA LeastOf ==
    ASSUME NEW T, T \subseteq Nat, T # {}
    PROVE  \E t \in T : \A u \in T : t <= u
<1>1. PICK t \in T : \A u \in T : ~ (<<u, t>> \in OpToRel(<, Nat))
  BY WFMin, NatLessThanWellFounded
<1>2. ASSUME NEW u \in T, u < t PROVE FALSE
  <2>1. <<u, t>> \in Nat \X Nat
    OBVIOUS
  <2>2. <<u, t>> \in OpToRel(<, Nat)
    BY <1>2, <2>1 DEF OpToRel
  <2> QED
    BY <2>2, <1>1
<1>3. \A u \in T : t <= u
  BY <1>2
<1> QED
  BY <1>3

\* A set that has 0 and with every natural its successor has them all.
LEMMA Induction ==
    ASSUME NEW T, 0 \in T, \A n \in Nat : n \in T => n + 1 \in T
    PROVE  \A n \in Nat : n \in T
<1> DEFINE W == Nat \ T
<1> SUFFICES ASSUME W # {} PROVE FALSE
  OBVIOUS
<1>1. PICK t \in W : \A u \in W : t <= u
  <2> HIDE DEF W
  <2>1. W \subseteq Nat
    BY DEF W
  <2> QED
    BY <2>1, LeastOf
<1>2. t # 0 /\ t \in Nat
  OBVIOUS
<1>3. t - 1 \in Nat /\ (t - 1) + 1 = t /\ ~ (t <= t - 1)
  BY <1>2
<1>4. t - 1 \in T
  BY <1>1, <1>3
<1> QED
  BY <1>3, <1>4

\* A function of a set into itself can be applied over and over.
LEMMA Iteration ==
    ASSUME NEW S, NEW a \in S, NEW C \in [S -> S]
    PROVE  \E g \in [Nat -> S] : g[0] = a /\ \A n \in Nat : g[n + 1] = C[g[n]]
<1> DEFINE Start(f, n) == /\ f \in [0 .. n -> S] /\ f[0] = a
                          /\ \A i \in 0 .. n - 1 : f[i + 1] = C[f[i]]
           T == {n \in Nat : \E f : Start(f, n)}
           V == {i \in Nat : \A n, m \in Nat : \A f, h :
                    i <= n /\ i <= m /\ Start(f, n) /\ Start(h, m) => f[i] = h[i]}
<1>1. 0 \in T
  <2>1. Start([i \in 0 .. 0 |-> a], 0)
    OBVIOUS
  <2> QED
    BY <2>1
<1>2. ASSUME NEW n \in Nat, n \in T PROVE n + 1 \in T
  <2>1. PICK f : Start(f, n)
    BY <1>2
  <2> DEFINE h == [i \in 0 .. n + 1 |-> IF i = n + 1 THEN C[f[n]] ELSE f[i]]
  <2>2. n \in 0 .. n /\ 0 \in 0 .. n /\ f[n] \in S
    BY <2>1
  <2>3. h \in [0 .. n + 1 -> S]
    BY <2>1, <2>2
  <2>4. h[0] = a
    BY <2>1, <2>2
  <2>5. ASSUME NEW i \in 0 .. (n + 1) - 1 PROVE h[i + 1] = C[h[i]]
    <3>1. i \in 0 .. n /\ i # n + 1 /\ i \in 0 .. n + 1 /\ i + 1 \in 0 .. n + 1
      OBVIOUS
    <3>2. CASE i = n
      BY <3>1, <3>2
    <3>3. CASE i # n
      <4>1. i \in 0 .. n - 1 /\ i + 1 # n + 1
        BY <3>1, <3>3
      <4> QED
        BY <4>1, <3>1, <2>1
    <3> QED
      BY <3>2, <3>3
  <2>6. Start(h, n + 1)
    BY <2>3, <2>4, <2>5
  <2> HIDE DEF h, Start
  <2> QED
    BY <2>6
<1>3. \A n \in Nat : n \in T
  <2> HIDE DEF T
  <2> QED
    BY <1>1, <1>2, Induction
<1>4. 0 \in V
  OBVIOUS
<1>5. ASSUME NEW i \in Nat, i \in V PROVE i + 1 \in V
  <2> SUFFICES ASSUME NEW n \in Nat, NEW m \in Nat, NEW f, NEW h,
                      i + 1 <= n, i + 1 <= m, Start(f, n), Start(h, m)
               PROVE  f[i + 1] = h[i + 1]
    <3> HIDE DEF Start
    <3> QED
      OBVIOUS
  <2>1. i <= n /\ i <= m /\ i \in 0 .. n - 1 /\ i \in 0 .. m - 1
    OBVIOUS
  <2>2. f[i] = h[i]
    <3> HIDE DEF Start
    <3> QED
      BY <1>5, <2>1
  <2> QED
    BY <2>1, <2>2
<1>6. \A i \in Nat : i \in V
  <2> HIDE DEF V
  <2> QED
    BY <1>4, <1>5, Induction
<1> DEFINE F(n) == CHOOSE f : Start(f, n)
           g == [n \in Nat |-> F(n)[n]]
<1>7. \A n \in Nat : Start(F(n), n)
  <2> HIDE DEF Start
  <2> QED
    BY <1>3
<1>8. g \in [Nat -> S]
  <2> SUFFICES ASSUME NEW n \in Nat PROVE F(n)[n] \in S
    OBVIOUS
  <2> HIDE DEF F
  <2>1. n \in 0 .. n /\ F(n) \in [0 .. n -> S]
    BY <1>7
  <2> QED
    BY <2>1
<1>9. g[0] = a
  <2> HIDE DEF F
  <2> QED
    BY <1>7
<1>10. ASSUME NEW n \in Nat PROVE g[n + 1] = C[g[n]]
  <2> HIDE DEF F
  <2>1. Start(F(n), n) /\ Start(F(n + 1), n + 1) /\ n \in 0 .. (n + 1) - 1
    BY <1>7
  <2>2. F(n + 1)[n + 1] = C[F(n + 1)[n]]
    BY <2>1
  <2>3. F(n + 1)[n] = F(n)[n]
    <3> HIDE DEF Start
    <3>1. n <= n /\ n <= n + 1 /\ n + 1 \in Nat
      OBVIOUS
    <3> QED
      BY <2>1, <1>6, <3>1
  <2> QED
    BY <2>2, <2>3
<1> HIDE DEF g
<1> QED
  BY <1>8, <1>9, <1>10

-----------------------------------------------------------------------------
(* The two binary searches.                                                *)

\* In the window <<l, r>> the answer is the last slot that does not start after
\* the block, and the slot before the window if all of them do.
InWindow(es, b, w) == {w[1] - 1} \cup {k \in w[1] .. w[2] : es[k].lblk <= b}

\* The binary search of a sorted node ends at the slot that Closest names.
LEMMA BinSearchSorted ==
    ASSUME NEW es \in Seq(Entry), es # <<>>, NEW b \in Nat,
           \A i, j \in 1 .. Len(es) : i < j => es[i].lblk < es[j].lblk
    PROVE  BinSearch(es, b) = Closest(es, b)
<1> DEFINE n == Len(es)
           W == (2 .. n + 1) \X (1 .. n)
           Mid(w) == w[1] + (w[2] - w[1]) \div 2
           H == [w \in W |-> Max(InWindow(es, b, w))]
<1>1. n \in Nat \ {0} /\ \A i \in 1 .. n : es[i].lblk \in Nat
  <2>1. n \in Nat \ {0}
    BY EmptySeq
  <2>2. \A i \in 1 .. n : es[i] \in Entry
    BY ElementOfSeq
  <2> QED
    BY <2>1, <2>2 DEF Entry
<1>2. ASSUME NEW w \in W
      PROVE  /\ w[1] \in 2 .. n + 1 /\ w[2] \in 1 .. n /\ w = <<w[1], w[2]>>
             /\ w[1] \in Nat /\ w[2] \in Nat
             /\ Max(InWindow(es, b, w)) \in InWindow(es, b, w)
             /\ \A y \in InWindow(es, b, w) : Max(InWindow(es, b, w)) >= y
             /\ InWindow(es, b, w) \subseteq 1 .. n
  <2>1. w[1] \in 2 .. n + 1 /\ w[2] \in 1 .. n /\ w = <<w[1], w[2]>>
    OBVIOUS
  <2>2. InWindow(es, b, w) \subseteq 1 .. n /\ w[1] - 1 \in InWindow(es, b, w)
    BY <1>1, <2>1 DEF InWindow
  <2>3. PICK S : S = InWindow(es, b, w)
    OBVIOUS
  <2>4. Max(S) \in S /\ \A y \in S : Max(S) >= y
    <3>1. S \subseteq 1 .. n /\ S # {} /\ n \in Nat
      BY <1>1, <2>2, <2>3
    <3> HIDE DEF n
    <3> QED
      BY ONLY <3>1, MaxOfSlots
  <2>5. w[1] \in Nat /\ w[2] \in Nat
    BY <2>1, <1>1
  <2> QED
    BY <2>1, <2>2, <2>3, <2>4, <2>5
<1>3. ASSUME NEW w \in W, w[1] <= w[2]
      PROVE  /\ Mid(w) \in w[1] .. w[2] /\ Mid(w) \in Nat
             /\ <<w[1], Mid(w) - 1>> \in W /\ <<Mid(w) + 1, w[2]>> \in W
  <2>1. PICK l \in 2 .. n + 1, r \in 1 .. n : l = w[1] /\ r = w[2]
    BY <1>2
  <2>2. l + (r - l) \div 2 \in l .. r
    BY <1>1, <1>3, <2>1
  <2>3. Mid(w) \in l .. r
    BY <2>1, <2>2
  <2> HIDE DEF Mid
  <2>4. Mid(w) \in Nat /\ Mid(w) - 1 \in 1 .. n /\ Mid(w) + 1 \in 2 .. n + 1
    BY <2>3, <1>1
  <2> QED
    BY <2>1, <2>3, <2>4
<1> HIDE DEF W, n
<1>4. ASSUME NEW w \in W
      PROVE  H[w] = IF w[1] > w[2] THEN w[1] - 1
                    ELSE IF b < es[Mid(w)].lblk THEN H[<<w[1], Mid(w) - 1>>]
                                                ELSE H[<<Mid(w) + 1, w[2]>>]
  <2> DEFINE S(v) == InWindow(es, b, v)
  <2>1. CASE w[1] > w[2]
    <3>1. S(w) = {w[1] - 1}
      <4>1. w[1] .. w[2] = {}
        BY <2>1, <1>2
      <4> QED
        BY <4>1 DEF InWindow
    <3>2. Max(S(w)) = w[1] - 1
      BY <3>1, <1>2
    <3> QED
      BY <3>2, <2>1
  <2>2. CASE w[1] <= w[2]
    <3> DEFINE m == Mid(w)
               v == <<w[1], m - 1>>
               u == <<m + 1, w[2]>>
    <3>1. /\ m \in w[1] .. w[2] /\ m \in Nat /\ v \in W /\ u \in W
          /\ w[1] \in Nat /\ w[2] \in Nat /\ m \in 1 .. n
          /\ w[1] \in 2 .. n + 1 /\ w[2] \in 1 .. n
      <4>1. w[1] \in 2 .. n + 1 /\ w[2] \in 1 .. n
        BY <1>2
      <4>2. m \in w[1] .. w[2] /\ m \in Nat /\ v \in W /\ u \in W
        BY <1>3, <2>2
      <4> HIDE DEF m
      <4>3. n \in Nat
        BY <1>1
      <4> QED
        BY <4>1, <4>2, <4>3
    <3> HIDE DEF m
    <3>2. v[1] = w[1] /\ v[2] = m - 1 /\ u[1] = m + 1 /\ u[2] = w[2]
      OBVIOUS
    <3> HIDE DEF u, v
    <3>3. CASE b < es[m].lblk
      <4>1. ASSUME NEW k \in m .. w[2] PROVE ~ (es[k].lblk <= b)
        <5>1. k \in 1 .. n /\ (k = m \/ m < k)
          BY <3>1, <1>1
        <5>2. es[k].lblk \in Nat /\ es[m].lblk \in Nat /\ es[m].lblk <= es[k].lblk
          BY <5>1, <3>1, <1>1 DEF n
        <5> QED
          BY <5>2, <3>3
      <4>2. S(w) = S(v)
        <5>1. \A k \in w[1] .. w[2] : es[k].lblk <= b => k \in w[1] .. m - 1
          BY <4>1, <3>1
        <5>2. \A k \in w[1] .. m - 1 : k \in w[1] .. w[2]
          BY <3>1
        <5> QED
          BY <5>1, <5>2, <3>2 DEF InWindow
      <4> QED
        BY <4>2, <3>1, <2>2, <3>3 DEF m, v
    <3>4. CASE ~ (b < es[m].lblk)
      <4>1. es[m].lblk <= b /\ es[m].lblk \in Nat
        BY <3>1, <3>4, <1>1
      <4>2. PICK p : p = Max(S(u))
        OBVIOUS
      <4>3. p \in S(u) /\ (\A y \in S(u) : p >= y) /\ p \in 1 .. n
        BY <4>2, <3>1, <1>2
      <4>4. m \in S(u)
        BY <3>1, <3>2 DEF InWindow
      <4>5. p \in S(w)
        BY <4>1, <4>3, <3>1, <3>2 DEF InWindow
      <4>6. ASSUME NEW y \in S(w) PROVE p >= y
        <5>1. y \in S(u) \/ y <= m
          BY <3>1, <3>2 DEF InWindow
        <5>2. y \in 1 .. n
          BY <1>2
        <5> QED
          BY <5>1, <5>2, <4>3, <4>4, <3>1
      <4>7. PICK q : q = Max(S(w))
        OBVIOUS
      <4>8. q \in S(w) /\ q \in 1 .. n /\ q >= p
        BY <4>7, <4>5, <1>2
      <4>9. p >= q
        BY <4>8, <4>6
      <4>10. p = q
        BY <4>8, <4>9, <4>3
      <4>11. H[w] = q /\ H[u] = p
        BY <4>2, <4>7, <3>1
      <4>12. ~ (w[1] > w[2])
        BY <2>2, <3>1
      <4> HIDE DEF H
      <4> QED
        BY <4>10, <4>11, <4>12, <3>4 DEF m, u
    <3> QED
      BY <3>3, <3>4
  <2> QED
    BY <2>1, <2>2, <1>2
<1> DEFINE Loop[w \in W] ==
             IF w[1] > w[2] THEN w[1] - 1
             ELSE IF b < es[Mid(w)].lblk THEN Loop[<<w[1], Mid(w) - 1>>]
                                         ELSE Loop[<<Mid(w) + 1, w[2]>>]
<1>5. BinSearch(es, b) = Loop[<<2, n>>]
  BY DEF BinSearch, W, n
<1>6. H = [w \in W |->
             IF w[1] > w[2] THEN w[1] - 1
             ELSE IF b < es[Mid(w)].lblk THEN H[<<w[1], Mid(w) - 1>>]
                                         ELSE H[<<Mid(w) + 1, w[2]>>]]
  <2> HIDE DEF Mid
  <2>1. H = [w \in W |-> H[w]]
    OBVIOUS
  <2> HIDE DEF H
  <2> QED
    BY <2>1, <1>4
<1>7. Loop = [w \in W |->
                IF w[1] > w[2] THEN w[1] - 1
                ELSE IF b < es[Mid(w)].lblk THEN Loop[<<w[1], Mid(w) - 1>>]
                                            ELSE Loop[<<Mid(w) + 1, w[2]>>]]
  <2> HIDE DEF Mid, H
  <2> QED
    BY <1>6
<1> HIDE DEF Loop
<1>8. ASSUME NEW w \in W
      PROVE  Loop[w] = IF w[1] > w[2] THEN w[1] - 1
                       ELSE IF b < es[Mid(w)].lblk THEN Loop[<<w[1], Mid(w) - 1>>]
                                                   ELSE Loop[<<Mid(w) + 1, w[2]>>]
  BY <1>7
<1> DEFINE T == {k \in Nat : \A w \in W : w[2] - w[1] + 1 <= k => Loop[w] = H[w]}
<1> HIDE DEF H, Mid
<1>9. 0 \in T
  <2> SUFFICES ASSUME NEW w \in W, w[2] - w[1] + 1 <= 0 PROVE Loop[w] = H[w]
    OBVIOUS
  <2>1. w[1] > w[2]
    BY <1>2
  <2> QED
    BY <2>1, <1>4, <1>8
<1>10. ASSUME NEW k \in Nat, k \in T PROVE k + 1 \in T
  <2> SUFFICES ASSUME NEW w \in W, w[2] - w[1] + 1 <= k + 1 PROVE Loop[w] = H[w]
    OBVIOUS
  <2>1. CASE w[1] > w[2]
    BY <2>1, <1>4, <1>8
  <2>2. CASE w[1] <= w[2]
    <3>1. /\ Mid(w) \in w[1] .. w[2] /\ Mid(w) \in Nat
          /\ <<w[1], Mid(w) - 1>> \in W /\ <<Mid(w) + 1, w[2]>> \in W
          /\ w[1] \in Nat /\ w[2] \in Nat
      BY <2>2, <1>2, <1>3
    <3>2. PICK v \in W, u \in W : v = <<w[1], Mid(w) - 1>> /\ u = <<Mid(w) + 1, w[2]>>
      BY <3>1
    <3>3. v[2] - v[1] + 1 <= k /\ u[2] - u[1] + 1 <= k
      <4>1. PICK a, z, m : a = w[1] /\ z = w[2] /\ m = Mid(w)
        OBVIOUS
      <4>2. /\ a \in Nat /\ z \in Nat /\ m \in a .. z /\ z - a + 1 <= k + 1
            /\ v[1] = a /\ v[2] = m - 1 /\ u[1] = m + 1 /\ u[2] = z
        BY <3>1, <3>2, <4>1
      <4> QED
        BY ONLY <4>2, k \in Nat
    <3>4. Loop[v] = H[v] /\ Loop[u] = H[u]
      BY <1>10, <3>3
    <3> QED
      BY <3>2, <3>4, <2>2, <1>4, <1>8
  <2> QED
    BY <2>1, <2>2, <1>2
<1>11. \A k \in Nat : k \in T
  <2> HIDE DEF T
  <2> QED
    BY <1>9, <1>10, Induction
<1>12. PICK w \in W : w = <<2, n>> /\ w[1] = 2 /\ w[2] = n
  <2>1. 2 \in 2 .. n + 1 /\ n \in 1 .. n
    BY <1>1
  <2>2. <<2, n>> \in W
    BY <2>1 DEF W
  <2>3. <<2, n>>[1] = 2 /\ <<2, n>>[2] = n
    OBVIOUS
  <2> QED
    BY <2>2, <2>3
<1>13. Loop[w] = H[w]
  <2>1. n - 2 + 1 <= n /\ n \in Nat
    BY <1>1
  <2> QED
    BY <2>1, <1>11, <1>12
<1>14. H[w] = Closest(es, b)
  <2>1. InWindow(es, b, w) = {1} \cup {k \in 2 .. n : es[k].lblk <= b}
    BY <1>12 DEF InWindow
  <2> QED
    BY <2>1 DEF H, Closest, n
<1> QED
  BY <1>5, <1>12, <1>13, <1>14

-----------------------------------------------------------------------------
(* What is below a node, and where a search ends.                          *)

Kids(X) ==
    UNION { { node[b].ents[i].pblk : i \in DOMAIN node[b].ents } :
            b \in { c \in X : node[c].depth > 0 } }

\* The levels below a set of nodes.
Levels(R, S) ==
    /\ R \in [Nat -> SUBSET DOMAIN node]
    /\ R[0] = S
    /\ \A n \in Nat : R[n + 1] = R[n] \cup Kids(R[n])

\* Below(S) is the last of these levels.
LEMMA BelowLevels ==
    ASSUME IInv, NEW S, S \subseteq DOMAIN node
    PROVE  \E R : Levels(R, S) /\ Below(S) = R[depth]
<1> DEFINE D == SUBSET DOMAIN node
           C == [X \in D |-> X \cup Kids(X)]
<1>1. \A X \in D : X \cup Kids(X) \in D
  <2> SUFFICES ASSUME NEW X \in D, NEW c \in Kids(X) PROVE c \in DOMAIN node
    OBVIOUS
  <2>1. PICK b \in X : node[b].depth > 0 /\ \E i \in DOMAIN node[b].ents :
                          c = node[b].ents[i].pblk
    BY DEF Kids
  <2> QED
    BY <2>1 DEF IInv, TreeInv, KidsLive
<1>2. C \in [D -> D] /\ S \in D
  BY <1>1
<1>3. PICK g \in [Nat -> D] : g[0] = S /\ \A n \in Nat : g[n + 1] = C[g[n]]
  <2> HIDE DEF C, D
  <2> QED
    BY <1>2, Iteration
<1>4. \A k \in Nat : g[k] = IF k = 0 THEN S ELSE g[k - 1] \cup Kids(g[k - 1])
  <2> SUFFICES ASSUME NEW k \in Nat, k # 0 PROVE g[k] = g[k - 1] \cup Kids(g[k - 1])
    BY <1>3
  <2>1. k - 1 \in Nat /\ (k - 1) + 1 = k
    OBVIOUS
  <2>2. g[k - 1] \in D /\ g[k] = C[g[k - 1]]
    BY <2>1, <1>3
  <2> HIDE DEF D
  <2> QED
    BY <2>2
<1> DEFINE Reach[k \in Nat] == IF k = 0 THEN S ELSE Reach[k - 1] \cup Kids(Reach[k - 1])
<1>5. Below(S) = Reach[depth]
  BY DEF Below, Kids
<1>6. g = [k \in Nat |-> IF k = 0 THEN S ELSE g[k - 1] \cup Kids(g[k - 1])]
  <2>1. g = [k \in Nat |-> g[k]]
    OBVIOUS
  <2> QED
    BY <2>1, <1>4
<1>7. Reach = [k \in Nat |-> IF k = 0 THEN S ELSE Reach[k - 1] \cup Kids(Reach[k - 1])]
  BY <1>6
<1> HIDE DEF Reach
<1>8. ASSUME NEW n \in Nat PROVE Reach[n + 1] = Reach[n] \cup Kids(Reach[n])
  <2>1. n + 1 \in Nat /\ n + 1 # 0 /\ (n + 1) - 1 = n
    OBVIOUS
  <2> QED
    BY <2>1, <1>7
<1> DEFINE T == {n \in Nat : Reach[n] \in D}
<1>9. 0 \in T /\ Reach[0] = S
  BY <1>7
<1>10. ASSUME NEW n \in Nat, n \in T PROVE n + 1 \in T
  <2>1. Reach[n] \in D
    BY <1>10
  <2> HIDE DEF D
  <2> QED
    BY <2>1, <1>1, <1>8
<1>11. \A n \in Nat : n \in T
  <2> HIDE DEF T
  <2> QED
    BY <1>9, <1>10, Induction
<1>12. Reach \in [Nat -> D]
  <2> HIDE DEF D
  <2> QED
    BY <1>7, <1>11
<1> QED
  BY <1>5, <1>8, <1>9, <1>12 DEF Levels

\* The nodes that a search for l meets, by their depth.
Walked(w, l) ==
    /\ w \in [0 .. depth -> DOMAIN node]
    /\ w[depth] = Root
    /\ \A d \in 0 .. depth - 1 :
          LET ents == node[w[d + 1]].ents IN w[d] = ents[Closest(ents, l)].pblk

\* The recursive function of LeafFor is such a walk, and there is one for every
\* block.
LEMMA WalkExists ==
    ASSUME IInv, NEW l \in Nat
    PROVE  \E w : Walked(w, l) /\ LeafFor(l) = w[0]
<1> DEFINE ChildFor(b) == node[b].ents[Closest(node[b].ents, l)].pblk
           D == DOMAIN node
           C == [b \in D |-> IF node[b].depth > 0 THEN ChildFor(b) ELSE b]
<1>1. ASSUME NEW b \in D, node[b].depth > 0
      PROVE  ChildFor(b) \in D /\ node[ChildFor(b)].depth = node[b].depth - 1
  <2>1. node[b].ents \in Seq(Entry) /\ DOMAIN node[b].ents = 1 .. Len(node[b].ents)
    BY LiveNode
  <2>2. node[b].ents # <<>>
    BY <1>1 DEF IInv, TreeInv, NodesFit
  <2>3. Closest(node[b].ents, l) \in DOMAIN node[b].ents
    BY <2>1, <2>2, ClosestInRange
  <2> QED
    BY <2>3, <1>1 DEF IInv, TreeInv, KidsLive
<1>2. C \in [D -> D] /\ Root \in D /\ depth \in Nat
  <2>1. Root \in D
    BY DEF IInv, TreeInv, TreeType
  <2>2. depth \in Nat
    BY <2>1, LiveNode DEF depth
  <2> QED
    BY <1>1, <2>1, <2>2
<1>3. PICK g \in [Nat -> D] : g[0] = Root /\ \A n \in Nat : g[n + 1] = C[g[n]]
  <2> HIDE DEF C, D
  <2> QED
    BY <1>2, Iteration
<1> DEFINE T == {n \in Nat : n <= depth => node[g[n]].depth = depth - n}
<1>4. 0 \in T
  BY <1>2, <1>3 DEF depth
<1>5. ASSUME NEW n \in Nat, n \in T PROVE n + 1 \in T
  <2> SUFFICES ASSUME n + 1 <= depth PROVE node[g[n + 1]].depth = depth - (n + 1)
    OBVIOUS
  <2>1. node[g[n]].depth = depth - n /\ depth - n > 0 /\ g[n] \in D
    BY <1>5, <1>2, <1>3
  <2>2. g[n + 1] = ChildFor(g[n])
    BY <2>1, <1>3
  <2> HIDE DEF D, ChildFor
  <2> QED
    BY <2>1, <2>2, <1>1, <1>2
<1>6. \A n \in Nat : n \in T
  <2> HIDE DEF T
  <2> QED
    BY <1>4, <1>5, Induction
<1> DEFINE v == [d \in 0 .. depth |-> g[depth - d]]
<1>7. \A d \in 0 .. depth : v[d] = IF d = depth THEN Root ELSE ChildFor(v[d + 1])
  <2> TAKE d \in 0 .. depth
  <2>1. CASE d = depth
    <3>1. depth - d = 0
      BY <2>1, <1>2
    <3> QED
      BY <2>1, <3>1, <1>3
  <2>2. CASE d # depth
    <3>1. /\ d + 1 \in 0 .. depth /\ depth - (d + 1) \in Nat
          /\ (depth - (d + 1)) + 1 = depth - d /\ depth - (d + 1) <= depth
          /\ depth - (depth - (d + 1)) > 0
      BY <2>2, <1>2
    <3>2. PICK n \in Nat : n = depth - (d + 1)
      BY <3>1
    <3>3. node[g[n]].depth > 0 /\ g[n] \in D
      BY <3>1, <3>2, <1>6, <1>3
    <3>4. g[n + 1] = ChildFor(g[n])
      BY <3>3, <1>3
    <3>5. v[d] = g[n + 1] /\ v[d + 1] = g[n]
      BY <3>1, <3>2
    <3> HIDE DEF v, ChildFor
    <3> QED
      BY <3>4, <3>5, <2>2
  <2> QED
    BY <2>1, <2>2
<1>8. v = [d \in 0 .. depth |-> IF d = depth THEN Root ELSE ChildFor(v[d + 1])]
  <2>1. v = [d \in 0 .. depth |-> v[d]]
    OBVIOUS
  <2> HIDE DEF v, ChildFor
  <2> QED
    BY <2>1, <1>7
<1> DEFINE Walk[d \in 0 .. depth] == IF d = depth THEN Root ELSE ChildFor(Walk[d + 1])
<1>9. LeafFor(l) = Walk[0]
  BY DEF LeafFor
<1>10. Walk = [d \in 0 .. depth |-> IF d = depth THEN Root ELSE ChildFor(Walk[d + 1])]
  <2> HIDE DEF v, ChildFor
  <2> QED
    BY <1>8
<1> HIDE DEF Walk, v
<1> DEFINE V == {n \in Nat : n <= depth => /\ Walk[depth - n] \in D
                                           /\ node[Walk[depth - n]].depth = depth - n}
<1>11. 0 \in V
  <2>1. depth - 0 = depth /\ depth \in 0 .. depth
    BY <1>2
  <2>2. Walk[depth] = Root
    BY <2>1, <1>10
  <2> QED
    BY <2>1, <2>2, <1>2 DEF depth
<1>12. ASSUME NEW n \in Nat, n \in V PROVE n + 1 \in V
  <2> SUFFICES ASSUME n + 1 <= depth
               PROVE  /\ Walk[depth - (n + 1)] \in D
                      /\ node[Walk[depth - (n + 1)]].depth = depth - (n + 1)
    OBVIOUS
  <2>1. /\ depth - (n + 1) \in 0 .. depth /\ depth - (n + 1) # depth
        /\ (depth - (n + 1)) + 1 = depth - n /\ n <= depth /\ depth - n > 0
        /\ (depth - n) - 1 = depth - (n + 1)
    BY <1>2
  <2>2. Walk[depth - (n + 1)] = ChildFor(Walk[depth - n])
    BY <2>1, <1>10
  <2>3. Walk[depth - n] \in D /\ node[Walk[depth - n]].depth = depth - n
    BY <2>1, <1>12
  <2> HIDE DEF D, ChildFor
  <2> QED
    BY <2>1, <2>2, <2>3, <1>1
<1>13. \A n \in Nat : n \in V
  <2> HIDE DEF V
  <2> QED
    BY <1>11, <1>12, Induction
<1>14. \A d \in 0 .. depth : Walk[d] \in D
  <2> TAKE d \in 0 .. depth
  <2>1. PICK n \in Nat : n = depth - d /\ n <= depth /\ depth - n = d
    BY <1>2
  <2> QED
    BY <2>1, <1>13
<1>15. Walk \in [0 .. depth -> D]
  <2> HIDE DEF D
  <2> QED
    BY <1>10, <1>14
<1>16. Walk[depth] = Root /\ \A d \in 0 .. depth - 1 : Walk[d] = ChildFor(Walk[d + 1])
  <2>1. depth \in 0 .. depth /\ \A d \in 0 .. depth - 1 : d \in 0 .. depth /\ d # depth
    BY <1>2
  <2> HIDE DEF ChildFor
  <2> QED
    BY <2>1, <1>10
<1> QED
  BY <1>9, <1>15, <1>16 DEF Walked

-----------------------------------------------------------------------------
(* Searches of a sorted tree.                                              *)

\* The keys of every node are strictly sorted, so its binary search is right.
LEMMA SortedSearches ==
    ASSUME IInv, OrderInv
    PROVE  BinSearchFindsClosest
<1>1. PICK U : U \in Bounds /\ Sorted(node, U)
  BY DEF OrderInv, Bounds
<1> SUFFICES ASSUME NEW b \in DOMAIN node, node[b].ents # <<>>, NEW l \in LBlk
             PROVE  BinSearch(node[b].ents, l) = Closest(node[b].ents, l)
  BY DEF BinSearchFindsClosest
<1>2. PICK es : es = node[b].ents
  OBVIOUS
<1>3. PICK d : d = node[b].depth
  OBVIOUS
<1>4. es \in Seq(Entry) /\ es # <<>>
  BY <1>2, LiveNode
<1>5. /\ Len(es) \in Nat
      /\ \A i \in 1 .. Len(es) : es[i].lblk \in Nat /\ EndOf(es[i], d) \in Nat
                                 /\ es[i].lblk < EndOf(es[i], d)
      /\ \A i, j \in 1 .. Len(es) : i < j => EndOf(es[i], d) <= es[j].lblk
  BY <1>1, <1>2, <1>3, SortedNode
<1>6. ASSUME NEW i \in 1 .. Len(es), NEW j \in 1 .. Len(es), i < j
      PROVE  es[i].lblk < es[j].lblk
  <2>1. /\ es[i].lblk \in Nat /\ es[j].lblk \in Nat /\ EndOf(es[i], d) \in Nat
        /\ es[i].lblk < EndOf(es[i], d) /\ EndOf(es[i], d) <= es[j].lblk
    BY <1>5, <1>6
  <2> QED
    BY ONLY <2>1
<1>7. l \in Nat
  BY ConstantsAssumption
<1>8. BinSearch(es, l) = Closest(es, l)
  BY ONLY <1>4, <1>6, <1>7, BinSearchSorted
<1> QED
  BY <1>2, <1>8

\* The walk for any block between the first of a node's own and its bound comes
\* through that node.
Home(U, c) ==
    /\ node[c].depth \in 0 .. depth
    /\ \A l \in Nat : \A w :
          /\ Walked(w, l) /\ Used(c)
          /\ node[c].ents[1].lblk <= l /\ l < U[c]
          => w[node[c].depth] = c

\* Every node that indexes lead to from the root is where the walk looks for it.
LEMMA AllHome ==
    ASSUME IInv, NEW U \in Bounds, Sorted(node, U), NEW R, Levels(R, {Root})
    PROVE  \A n \in Nat : \A c \in R[n] : Home(U, c)
<1> DEFINE T == {n \in Nat : \A c \in R[n] : Home(U, c)}
<1>1. Root \in DOMAIN node /\ depth \in Nat /\ depth = node[Root].depth
  <2>1. Root \in DOMAIN node
    BY DEF IInv, TreeInv, TreeType
  <2> QED
    BY <2>1, LiveNode DEF depth
<1>2. 0 \in T
  <2>1. R[0] = {Root}
    BY DEF Levels
  <2>2. Home(U, Root)
    BY <1>1 DEF Home, Walked
  <2> QED
    BY <2>1, <2>2
<1>3. ASSUME NEW n \in Nat, n \in T PROVE n + 1 \in T
  <2> SUFFICES ASSUME NEW c \in R[n + 1], c \notin R[n] PROVE Home(U, c)
    BY <1>3
  <2>1. R[n + 1] = R[n] \cup Kids(R[n]) /\ R[n] \subseteq DOMAIN node
    BY DEF Levels
  <2>2. PICK b \in R[n] : node[b].depth > 0 /\ \E i \in DOMAIN node[b].ents :
                             c = node[b].ents[i].pblk
    BY <2>1 DEF Kids
  <2>3. b \in DOMAIN node /\ Home(U, b)
    BY <2>1, <2>2, <1>3
  <2>4. PICK es : es = node[b].ents
    OBVIOUS
  <2>5. PICK i \in 1 .. Len(es) : c = es[i].pblk
    BY <2>2, <2>3, <2>4, LiveNode
  <2>6. /\ es \in Seq(Entry) /\ Len(es) \in Nat /\ es # <<>> /\ Used(b)
        /\ 1 \in 1 .. Len(es)
    <3>1. es \in Seq(Entry) /\ Len(es) \in Nat /\ DOMAIN es = 1 .. Len(es)
      BY <2>3, <2>4, LiveNode
    <3>2. 1 \in DOMAIN es
      BY <3>1
    <3> QED
      BY <3>1, <3>2, <2>4, UsedWhenNonEmpty DEF Used
  <2>7. /\ node[b].depth \in Nat /\ U[b] \in Nat
        /\ \A j \in 1 .. Len(es) : es[j].lblk \in Nat /\ es[j] \in Entry
        /\ \A j, k \in 1 .. Len(es) : j < k => es[j].lblk < es[k].lblk
    <3>1. /\ node[b].depth \in Nat /\ U[b] \in Nat
          /\ \A j \in 1 .. Len(es) : es[j].lblk \in Nat /\ es[j] \in Entry
                 /\ EndOf(es[j], node[b].depth) = es[j].lblk + 1
          /\ \A j, k \in 1 .. Len(es) : j < k => EndOf(es[j], node[b].depth) <= es[k].lblk
      BY <2>2, <2>3, <2>4, SortedNode
    <3> QED
      BY <3>1
  <2>8. /\ c \in DOMAIN node /\ node[c].depth = node[b].depth - 1
        /\ U[c] \in Nat /\ U[c] <= U[b]
        /\ \A j \in 1 .. Len(es) : i < j => U[c] <= es[j].lblk
        /\ Used(c) => es[i].lblk <= node[c].ents[1].lblk
    BY <2>2, <2>3, <2>4, <2>5, SortedNode
  <2>9. node[b].depth \in 0 .. depth
    BY <2>3 DEF Home
  <2>10. ASSUME NEW l \in Nat, NEW w, Walked(w, l), Used(c),
                node[c].ents[1].lblk <= l, l < U[c]
         PROVE  w[node[c].depth] = c
    <3>1. node[c].ents[1].lblk \in Nat
      <4>1. node[c].ents \in Seq(Entry)
        BY <2>8, LiveNode
      <4>2. node[c].ents[1] \in Entry
        BY <2>8, <2>10, LiveNode DEF Used
      <4> QED
        BY <4>2 DEF Entry
    <3>2. es[i].lblk <= l
      BY <2>5, <2>7, <2>8, <2>10, <3>1
    <3>3. \A j \in 1 .. Len(es) : i < j => l < es[j].lblk
      BY <2>7, <2>8, <2>10
    <3>4. Closest(es, l) = i
      <4>1. Placed(es, l, i)
        BY <3>2, <3>3 DEF Placed
      <4> QED
        BY <4>1, <2>6, ClosestIsPlaced
    <3>5. es[1].lblk <= l /\ l < U[b]
      <4>1. es[1].lblk <= es[i].lblk
        BY ONLY <2>5, <2>6, <2>7, i \in 1 .. Len(es)
      <4>2. l < U[c] /\ l \in Nat
        BY <2>10
      <4> QED
        BY ONLY <4>1, <4>2, <3>2, <2>6, <2>7, <2>8, i \in 1 .. Len(es)
    <3>6. w[node[b].depth] = b
      BY <2>3, <2>4, <2>6, <2>10, <3>5 DEF Home
    <3>7. node[c].depth \in 0 .. depth - 1 /\ node[c].depth + 1 = node[b].depth
      BY ONLY <2>2, <2>7, <2>8, <2>9, <1>1
    <3>8. w[node[c].depth] = es[Closest(es, l)].pblk
      BY <2>4, <2>10, <3>6, <3>7 DEF Walked
    <3> QED
      BY <3>4, <3>8, <2>5
  <2>11. node[c].depth \in 0 .. depth
    BY <2>2, <2>7, <2>8, <2>9, <1>1
  <2> QED
    BY <2>10, <2>11 DEF Home
<1>4. \A n \in Nat : n \in T
  <2> HIDE DEF T
  <2> QED
    BY <1>2, <1>3, Induction
<1> QED
  BY <1>4

\* Between two calls nothing is in hand.
AtRest == pc = "idle" => newext = NoExtent

\* The extents of a tree at rest are those of the leaves below the root.
LEMMA RestExtents ==
    ASSUME IInv, AtRest, pc = "idle",
           NEW e \in Extents, NEW l \in FileBlocks(e)
    PROVE  \E c \in Below({Root}) :
              node[c].depth = 0 /\ e \in ToSet(node[c].ents)
<1>1. np = <<>>
  BY DEF IInv, LocalInv, SplitInv
<1>2. {Root} \cup ToSet(np) = {Root}
  BY <1>1 DEF ToSet
<1>3. FileBlocks(NoExtent) = {}
  <2>1. ee_len(NoExtent) = 0 /\ NoExtent.lblk = 0
    <3>1. NoExtent.len = 0 /\ NoExtent.lblk = 0 /\ 0 \in 0 .. InitMax - 1
      BY InitMaxAssumption DEF NoExtent
    <3> QED
      BY <3>1, PlainLength
  <2>2. FileBlocks(NoExtent) = 0 .. 0 + 0 - 1
    BY <2>1 DEF FileBlocks
  <2> QED
    BY <2>2
<1>4. e # newext
  BY <1>3 DEF AtRest
<1>5. e \in ExtentsOf(Below({Root}))
  BY <1>2, <1>4 DEF Extents
<1> QED
  BY <1>5 DEF ExtentsOf

\* A search of a sorted tree at rest for a block of an extent ends there.
LEMMA RestFound ==
    ASSUME IInv, OrderInv, AtRest
    PROVE  EveryBlockFound
<1> SUFFICES ASSUME pc = "idle", NEW e \in Extents, NEW l \in FileBlocks(e)
             PROVE  /\ node[LeafFor(l)].ents # <<>>
                    /\ node[LeafFor(l)].ents[Closest(node[LeafFor(l)].ents, l)] = e
  BY DEF EveryBlockFound, Idle
<1>1. PICK U : U \in Bounds /\ Sorted(node, U)
  BY DEF OrderInv, Bounds
<1>2. Root \in DOMAIN node /\ depth \in Nat
  <2>1. Root \in DOMAIN node
    BY DEF IInv, TreeInv, TreeType
  <2> QED
    BY <2>1, LiveNode DEF depth
<1>3. PICK R : Levels(R, {Root}) /\ Below({Root}) = R[depth]
  BY <1>2, BelowLevels
<1>4. PICK c \in R[depth] : node[c].depth = 0 /\ e \in ToSet(node[c].ents)
  BY <1>3, RestExtents
<1>5. c \in DOMAIN node /\ Home(U, c)
  <2>1. R[depth] \subseteq DOMAIN node
    BY <1>2, <1>3 DEF Levels
  <2>2. Home(U, c)
    BY <1>1, <1>2, <1>3, AllHome
  <2> QED
    BY <2>1, <2>2
<1>6. PICK es : es = node[c].ents
  OBVIOUS
<1>7. /\ es \in Seq(Entry) /\ Len(es) \in Nat /\ DOMAIN es = 1 .. Len(es)
      /\ U[c] \in Nat
      /\ \A j \in 1 .. Len(es) :
            /\ es[j] \in Entry /\ es[j].lblk \in Nat /\ End(es[j]) \in Nat
            /\ es[j].lblk < End(es[j]) /\ End(es[j]) <= U[c]
      /\ \A j, k \in 1 .. Len(es) : j < k => End(es[j]) <= es[k].lblk
  <2>1. es \in Seq(Entry)
    BY <1>5, <1>6, LiveNode
  <2>2. PICK d : d = node[c].depth /\ d = 0
    BY <1>4
  <2>3. /\ Len(es) \in Nat /\ DOMAIN es = 1 .. Len(es) /\ U[c] \in Nat
        /\ \A j \in 1 .. Len(es) :
              /\ es[j] \in Entry /\ es[j].lblk \in Nat /\ EndOf(es[j], d) \in Nat
              /\ EndOf(es[j], d) = End(es[j])
              /\ es[j].lblk < EndOf(es[j], d) /\ EndOf(es[j], d) <= U[c]
        /\ \A j, k \in 1 .. Len(es) : j < k => EndOf(es[j], d) <= es[k].lblk
    BY <1>1, <1>5, <1>6, <2>2, SortedNode
  <2> QED
    BY <2>1, <2>3
<1>8. PICK i \in 1 .. Len(es) : e = es[i]
  BY <1>4, <1>6, <1>7 DEF ToSet
<1>9. l \in Nat /\ e.lblk <= l /\ l < End(e)
  <2>1. e \in Entry /\ e.lblk \in Nat /\ ee_len(e) \in Nat
    BY <1>7, <1>8, RawLengths
  <2> QED
    BY <2>1 DEF FileBlocks, End
<1>10. 1 \in 1 .. Len(es) /\ es # <<>> /\ Used(c)
  <2>1. 1 \in 1 .. Len(es)
    BY <1>7, <1>8
  <2> QED
    BY <2>1, <1>6, <1>7, EmptySeq DEF Used
<1>11. es[1].lblk <= l /\ l < U[c]
  <2>1. es[1].lblk <= es[i].lblk
    BY <1>7, <1>8, <1>10
  <2> QED
    BY <2>1, <1>7, <1>8, <1>9, <1>10
<1>12. PICK w : Walked(w, l) /\ LeafFor(l) = w[0]
  BY <1>9, WalkExists
<1>13. LeafFor(l) = c
  BY <1>4, <1>5, <1>6, <1>9, <1>10, <1>11, <1>12 DEF Home
<1>14. Closest(es, l) = i
  <2>1. ASSUME NEW j \in 1 .. Len(es), i < j PROVE l < es[j].lblk
    <3>1. End(e) <= es[j].lblk /\ es[j].lblk \in Nat /\ End(e) \in Nat
      BY <1>7, <1>8, <2>1
    <3> QED
      BY <3>1, <1>9
  <2>2. Placed(es, l, i)
    BY <2>1, <1>8, <1>9 DEF Placed
  <2> QED
    BY <2>2, <1>7, <1>9, <1>10, ClosestIsPlaced
<1> QED
  BY <1>6, <1>8, <1>10, <1>13, <1>14

\* Whoever returns leaves nothing in hand.
LEMMA RestStep ==
    ASSUME AtRest, [Next]_vars
    PROVE  AtRest'
<1> USE DEF AtRest
<1>1. CASE UNCHANGED vars
  BY <1>1 DEF vars
<1>2. CASE \E l \in LBlk, m \in MaxBlocks, c \in BOOLEAN :
              ext4_extent_get_blocks(l, m, c)
  BY <1>2 DEF ext4_extent_get_blocks
<1>3. CASE Find
  BY <1>3 DEF Find, ext4_find_extent_walk, ext4_find_extent_err, Return,
              ext4_find_extent_leaf, StartSplit
<1>4. CASE Decide
  BY <1>4 DEF Decide, ReturnMapped, ReturnHole, ext4_ext_convert_to_initialized,
              ext4_ext_zero_unwritten_range_err, AllocateData, AllocateDataFails, Return
<1>5. CASE Convert
  BY <1>5 DEF Convert, ext4_ext_split_extent_at, SplitExtentAt_whole, SplitExtentAt_cut,
              restore_extent_len, RestoreWithoutPath, Return
<1>6. CASE Insert
  <2>1. CASE ext4_ext_insert_leaf
    BY <2>1 DEF ext4_ext_insert_leaf, AppendToExtent, PrependToExtent, InsertIntoLeaf,
                NeedSplit, Inserted, Return, StartSplit
  <2>2. CASE ext4_ext_grow_indepth \/ GrowFails \/ FreeData
    BY <2>2 DEF ext4_ext_grow_indepth, GrowFails, FreeData, Return
  <2>3. CASE ext4_ext_split_node \/ SplitFails \/ ext4_ext_insert_index
    BY <2>3 DEF ext4_ext_split_node, SplitFails, ext4_ext_insert_index, Cleanup, LinkIndex
  <2> QED
    BY <1>6, <2>1, <2>2, <2>3 DEF Insert
<1> QED
  BY <1>1, <1>2, <1>3, <1>4, <1>5, <1>6 DEF Next, Step

-----------------------------------------------------------------------------
(* What a tree has besides its shape, its owners and its order.            *)

\* No node is lost: one that is not the root has an index, or is the topmost node
\* of a split.
Adopted ==
    \A c \in DOMAIN node \ {Root} : Child(node, c) \/ (np # <<>> /\ c = np[1])

NewInDevice == pc \in Inserting => NewBlocks \subseteq PBlk

WholeInv == Adopted /\ InDevice(node) /\ NewInDevice /\ RootRoom(node)

\* An index refers to a live node, hence to a block of the device; so only leaves
\* have to be looked at.
LEMMA DeviceKept ==
    ASSUME IInv',
           \A b \in DOMAIN node' : node'[b].depth = 0 =>
              \A i \in DOMAIN node'[b].ents : Refers(node'[b].ents[i], 0) \subseteq PBlk
    PROVE  InDevice(node')
<1> SUFFICES ASSUME NEW b \in DOMAIN node', NEW i \in DOMAIN node'[b].ents
             PROVE  Refers(node'[b].ents[i], node'[b].depth) \subseteq PBlk
  BY DEF InDevice
<1>1. KidsLive(node') /\ DOMAIN node' \subseteq PBlk \cup {Root}
      /\ node' \in [DOMAIN node' -> Node]
  BY DEF IInv, TreeInv, TreeType
<1>2. node'[b].depth \in Nat
  BY <1>1 DEF Node
<1>3. CASE node'[b].depth = 0
  BY <1>3
<1>4. CASE node'[b].depth > 0
  <2>1. node'[b].ents[i].pblk \in DOMAIN node' \ {Root}
    BY <1>1, <1>4 DEF KidsLive
  <2> QED
    BY <2>1, <1>1, <1>4 DEF Refers
<1> QED
  BY <1>2, <1>3, <1>4

\* A step that keeps the tree and, in an insertion, the new extent.
LEMMA WholeQuiet ==
    ASSUME WholeInv, node' = node, np' = np,
           pc' \in Inserting => newext' = newext /\ pc \in Inserting
    PROVE  WholeInv'
<1>1. Adopted' /\ InDevice(node)' /\ RootRoom(node)'
  BY DEF WholeInv, Adopted, Child, InDevice, RootRoom
<1>2. NewInDevice'
  BY DEF WholeInv, NewInDevice, NewBlocks
<1> QED
  BY <1>1, <1>2 DEF WholeInv

\* Searches, returns and failures are such steps.
LEMMA WholeQuietSteps ==
    ASSUME IInv, WholeInv,
           \/ UNCHANGED vars
           \/ \E l \in LBlk, m \in MaxBlocks, c \in BOOLEAN : ext4_extent_get_blocks(l, m, c)
           \/ Find
           \/ ReturnMapped \/ ReturnHole \/ ext4_ext_zero_unwritten_range_err
           \/ AllocateDataFails \/ ext4_ext_convert_to_initialized
           \/ GrowFails \/ FreeData \/ RestoreWithoutPath
           \/ pc = "insert" /\ (NeedSplit \/ (SameStart /\ ext4_ext_insert_leaf))
    PROVE  WholeInv'
<1>0. pc \notin {"split", "link"} => np = <<>>
  BY DEF IInv, LocalInv, SplitInv
<1>1. CASE UNCHANGED vars \/ \E l \in LBlk, m \in MaxBlocks, c \in BOOLEAN :
                                ext4_extent_get_blocks(l, m, c)
  <2>1. node' = node /\ np' = np /\ (pc' \in Inserting => newext' = newext /\ pc \in Inserting)
    BY <1>1 DEF vars, ext4_extent_get_blocks, tree, split, Inserting
  <2> QED
    BY <2>1, WholeQuiet
<1>2. CASE Find
  <2>1. node' = node /\ np' = np /\ (pc' \in Inserting => newext' = newext /\ pc \in Inserting)
    BY <1>0, <1>2 DEF Find, ext4_find_extent_walk, ext4_find_extent_err, ext4_find_extent_leaf,
       StartSplit, Return, tree, split, Inserting
  <2> QED
    BY <2>1, WholeQuiet
<1>3. CASE \/ ReturnMapped \/ ReturnHole \/ ext4_ext_zero_unwritten_range_err
           \/ AllocateDataFails \/ ext4_ext_convert_to_initialized
           \/ GrowFails \/ FreeData \/ RestoreWithoutPath
  <2>1. node' = node /\ np' = np /\ (pc' \in Inserting => newext' = newext /\ pc \in Inserting)
    BY <1>3 DEF ReturnMapped, ReturnHole, ext4_ext_zero_unwritten_range_err,
       AllocateDataFails, ext4_ext_convert_to_initialized, GrowFails, FreeData,
       RestoreWithoutPath, Return, tree, split, Inserting
  <2> QED
    BY <2>1, WholeQuiet
<1>4. CASE pc = "insert" /\ (NeedSplit \/ (SameStart /\ ext4_ext_insert_leaf))
  <2>1. node' = node /\ np' = np /\ (pc' \in Inserting => newext' = newext /\ pc \in Inserting)
    BY <1>0, <1>4 DEF NeedSplit, ext4_ext_insert_leaf, StartSplit, tree, split, Inserting
  <2> QED
    BY <2>1, WholeQuiet
<1> QED
  BY <1>1, <1>2, <1>3, <1>4

\* A new data block is a block of the device.
LEMMA WholeAllocate ==
    ASSUME IInv, WholeInv, AllocateData
    PROVE  WholeInv'
<1>1. PICK b \in free : newext' = [lblk |-> req.lblk, pblk |-> b, len |-> 1]
  BY DEF AllocateData
<1>2. node' = node /\ np' = np /\ b \in PBlk
  BY DEF AllocateData, split, IInv, TreeInv, TreeType
<1>3. b \in Int /\ InitMax \in Nat /\ InitMax > 1
  BY <1>2, ConstantsAssumption, InitMaxAssumption
<1>4. ee_len(newext') = 1 /\ newext'.pblk = b
  <2>1. newext'.len = 1 /\ newext'.pblk = b /\ 1 \in 0 .. InitMax - 1
    BY <1>1, <1>3
  <2> QED
    BY <2>1, PlainLength
<1>5. NewBlocks' = b .. b + 1 - 1
  BY <1>4 DEF NewBlocks, Refers
<1>6. NewInDevice'
  BY <1>5, <1>2, <1>3 DEF NewInDevice
<1>7. Adopted' /\ InDevice(node)' /\ RootRoom(node)'
  BY <1>2 DEF WholeInv, Adopted, Child, InDevice, RootRoom
<1> QED
  BY <1>6, <1>7 DEF WholeInv

\* A step that rewrites one extent of a leaf.
LEMMA WholeRewrite ==
    ASSUME IInv, WholeInv, IInv', path # <<>>, pc \in Working \cup {"fail"}, leaf.pos # 0,
           NEW e \in Entry, Refers(e, 0) \subseteq PBlk,
           node' = [node EXCEPT ![leaf.blk].ents[leaf.pos] = e],
           np' = np, NewInDevice'
    PROVE  WholeInv'
<1>1. /\ DOMAIN node' = DOMAIN node
      /\ \A b \in DOMAIN node : b # leaf.blk => node'[b] = node[b]
      /\ node'[leaf.blk].depth = 0 /\ node[leaf.blk].depth = 0
      /\ node'[leaf.blk].max = node[leaf.blk].max
      /\ leaf.blk \in DOMAIN node
      /\ DOMAIN node'[leaf.blk].ents = DOMAIN node[leaf.blk].ents
      /\ \A i \in DOMAIN node[leaf.blk].ents :
            node'[leaf.blk].ents[i] =
               IF i = leaf.pos THEN e ELSE node[leaf.blk].ents[i]
  BY RewriteEffect
<1>2. Adopted'
  <2>1. \A b \in DOMAIN node : node[b].depth > 0 => node'[b] = node[b]
    BY <1>1
  <2>2. \A c : Child(node, c) => Child(node', c)
    BY <1>1, <2>1 DEF Child
  <2> QED
    BY <1>1, <2>2 DEF WholeInv, Adopted
<1>3. InDevice(node')
  <2>1. ASSUME NEW b \in DOMAIN node', node'[b].depth = 0, NEW i \in DOMAIN node'[b].ents
        PROVE  Refers(node'[b].ents[i], 0) \subseteq PBlk
    <3>1. b \in DOMAIN node /\ i \in DOMAIN node[b].ents /\ node[b].depth = 0
      BY <1>1, <2>1
    <3>2. Refers(node[b].ents[i], 0) \subseteq PBlk
      BY <3>1 DEF WholeInv, InDevice
    <3>3. node'[b].ents[i] = e \/ node'[b].ents[i] = node[b].ents[i]
      BY <1>1, <3>1
    <3> QED
      BY <3>2, <3>3
  <2> QED
    BY <2>1, DeviceKept
<1>4. RootRoom(node')
  BY <1>1 DEF WholeInv, RootRoom, IInv, TreeInv, TreeType
<1> QED
  BY <1>2, <1>3, <1>4 DEF WholeInv


\* What an extent of the leaf in hand refers to.
LEMMA ExInDevice ==
    ASSUME IInv, WholeInv, path # <<>>, pc \in Working \cup {"fail"}, leaf.pos # 0
    PROVE  ex \in Entry /\ Refers(ex, 0) \subseteq PBlk
<1>1. /\ leaf.blk \in DOMAIN node /\ leaf.pos \in DOMAIN node[leaf.blk].ents
      /\ node[leaf.blk].depth = 0 /\ ex \in Entry
  BY LeafOfPath DEF ex
<1> QED
  BY <1>1 DEF WholeInv, InDevice, ex

\* So are the cuts of a conversion, and an extent that grows by the new one.
LEMMA WholeRewriteSteps ==
    ASSUME IInv, IInv', OwnerInv, WholeInv, SoundCuts, SoundMerges,
           \/ CutWhole \/ CutPart
           \/ pc = "insert" /\ AppendToExtent
    PROVE  WholeInv'
<1>1. CASE CutWhole
  <2> DEFINE e == IF "MARK_UNWRIT2" \in Head(todo).flag
                  THEN ext4_ext_mark_unwritten(ex) ELSE ext4_ext_mark_initialized(ex)
  <2>1. /\ pc = "splitat" /\ leaf.pos # 0 /\ np' = np
        /\ node' = [node EXCEPT ![leaf.blk].ents[leaf.pos] = e]
        /\ pc' \in {"idle", "splitat"}
    BY <1>1 DEF CutWhole, CutHere, SplitExtentAt_whole, split, ex, Return
  <2>2. pc \in Working /\ path # <<>>
    BY <2>1, WorkingPath DEF Working
  <2>3. ex \in Entry /\ Refers(ex, 0) \subseteq PBlk
    BY <2>1, <2>2, ExInDevice
  <2>4. e \in Entry
    BY <2>3, RawLengths
  <2>6. Refers(e, 0) \subseteq PBlk
    BY <2>3, MarkedLength DEF Refers
  <2> HIDE DEF e
  <2>7. NewInDevice'
    BY <2>1 DEF NewInDevice, Inserting
  <2> QED
    BY <2>1, <2>2, <2>4, <2>6, <2>7, WholeRewrite
<1>2. CASE CutPart
  <2> DEFINE n == ee_len(ex)
  <2>1. /\ pc = "splitat" /\ pc' = "insert" /\ leaf.pos # 0 /\ pc \in Working
        /\ path # <<>> /\ np' = np /\ n \in 0 .. InitMax - 1
    BY <1>2, CutEffect
  <2>2. ex \in Entry /\ Refers(ex, 0) \subseteq PBlk
    BY <2>1, ExInDevice
  <2>3. PICK g \in Entry : \E d \in 1 .. n - 1 :
           /\ node' = [node EXCEPT ![leaf.blk].ents[leaf.pos] = g]
           /\ ee_len(g) = d
           /\ g.pblk = ex.pblk /\ g.lblk = ex.lblk
           /\ ee_len(newext') = n - d
           /\ newext' \in Entry
           /\ newext'.pblk = d + ex.pblk /\ newext'.lblk = ex.lblk + d
    BY <1>2, CutEffect
  <2>4. PICK d \in 1 .. n - 1 :
           /\ node' = [node EXCEPT ![leaf.blk].ents[leaf.pos] = g]
           /\ ee_len(g) = d /\ g.pblk = ex.pblk
           /\ ee_len(newext') = n - d /\ newext'.pblk = d + ex.pblk
    BY <2>3
  <2> HIDE DEF n
  <2>5. n \in Nat /\ d \in Nat /\ d <= n /\ ex.pblk \in Int
    BY <2>1, <2>2, InitMaxAssumption DEF Entry
  <2>6. Refers(ex, 0) = ex.pblk .. ex.pblk + n - 1
    BY DEF Refers, n
  <2>7. Refers(g, 0) = ex.pblk .. ex.pblk + d - 1
    BY <2>4 DEF Refers
  <2>8. NewBlocks' = ex.pblk + d .. ex.pblk + n - 1
    <3>1. NewBlocks' = d + ex.pblk .. d + ex.pblk + (n - d) - 1
      BY <2>4 DEF NewBlocks, Refers
    <3>2. PICK a : a = ex.pblk
      OBVIOUS
    <3> QED
      BY <3>1, <3>2, <2>5
  <2>9. Refers(g, 0) \subseteq PBlk /\ NewBlocks' \subseteq PBlk
    BY <2>2, <2>5, <2>6, <2>7, <2>8, CutRun
  <2>10. NewInDevice'
    BY <2>9 DEF NewInDevice
  <2> QED
    BY <2>1, <2>4, <2>9, <2>10, WholeRewrite
<1>3. CASE pc = "insert" /\ AppendToExtent
  <2>1. /\ leaf.pos # 0 /\ ext4_ext_can_append(ex, newext)
        /\ node' = [node EXCEPT ![leaf.blk].ents[leaf.pos] = Appended(ex, newext)]
        /\ np' = np /\ pc' \in {"idle", "splitat"}
    BY <1>3 DEF AppendToExtent, CanAppend, split, ex, Inserted, Return
  <2>2. pc \in Working /\ path # <<>> /\ newext \in Entry
    BY <1>3, WorkingPath DEF Working, IInv, LocalInv, LocalType
  <2>3. ex \in Entry /\ Refers(ex, 0) \subseteq PBlk
    BY <2>1, <2>2, ExInDevice
  <2>4. /\ Appended(ex, newext) \in Entry
        /\ Refers(Appended(ex, newext), 0) \subseteq Refers(ex, 0) \cup NewBlocks
    <3>1. ee_len(ex) + ee_len(newext) < InitMax
      BY <1>3 DEF SoundMerges, AppendToExtent
    <3> QED
      BY <2>1, <2>2, <2>3, <3>1, MergedExtents, AppendedBlocks DEF NewBlocks
  <2>5. NewBlocks \subseteq PBlk
    BY <1>3 DEF WholeInv, NewInDevice, Inserting
  <2>6. NewInDevice'
    BY <2>1 DEF NewInDevice, Inserting
  <2> QED
    BY <2>1, <2>2, <2>3, <2>4, <2>5, <2>6, WholeRewrite
<1> QED
  BY <1>1, <1>2, <1>3

\* A length that is put back is that of an extent and its cut-off part together.
LEMMA WholeRestore ==
    ASSUME IInv, IInv', OwnerInv, WholeInv, restore_extent_len
    PROVE  WholeInv'
<1> DEFINE sb == saved.blk
           sp == saved.pos
<1>1. /\ pc = "fail" /\ todo # <<>> /\ np' = np
      /\ node' = [node EXCEPT ![sb].ents[sp].len = saved.len]
      /\ pc' \in {"idle", "splitat"}
  BY DEF restore_extent_len, Converting, split, Return
<1>2. /\ saved.len < InitMax /\ saved.len \in RawLen
      /\ node[sb].depth = 0 /\ sp \in DOMAIN node[sb].ents =>
            node[sb].ents[sp].pblk .. node[sb].ents[sp].pblk + saved.len - 1
               \subseteq Refers(node[sb].ents[sp], 0) \cup NewBlocks
  BY <1>1 DEF OwnerInv, SavedInv, Inserting, IInv, LocalInv, LocalType
<1>3. NewBlocks \subseteq PBlk
  BY <1>1 DEF WholeInv, NewInDevice, Inserting
<1> HIDE DEF sb, sp
<1>4. /\ DOMAIN node' = DOMAIN node
      /\ \A b \in DOMAIN node :
            /\ node'[b].depth = node[b].depth /\ node'[b].max = node[b].max
            /\ DOMAIN node'[b].ents = DOMAIN node[b].ents
            /\ \A i \in DOMAIN node[b].ents :
                  node'[b].ents[i] =
                     IF b = sb /\ i = sp
                     THEN [node[b].ents[i] EXCEPT !.len = saved.len]
                     ELSE node[b].ents[i]
  BY <1>1, RestoreEffect
<1>5. \A b \in DOMAIN node : \A i \in DOMAIN node[b].ents :
         node[b].ents[i] \in Entry
  BY LiveNode
<1>6. \A b \in DOMAIN node : \A i \in DOMAIN node[b].ents :
         node'[b].ents[i].pblk = node[b].ents[i].pblk
  BY <1>4, <1>5, ZenonT(40) DEF Entry
<1>7. Adopted'
  <2>1. \A c : Child(node, c) => Child(node', c)
    BY <1>4, <1>6 DEF Child
  <2> QED
    BY <1>1, <1>4, <2>1 DEF WholeInv, Adopted
<1>8. InDevice(node')
  <2>1. ASSUME NEW b \in DOMAIN node', node'[b].depth = 0, NEW i \in DOMAIN node'[b].ents
        PROVE  Refers(node'[b].ents[i], 0) \subseteq PBlk
    <3>1. b \in DOMAIN node /\ i \in DOMAIN node[b].ents /\ node[b].depth = 0
      BY <1>4, <2>1
    <3>2. Refers(node[b].ents[i], 0) \subseteq PBlk
      BY <3>1 DEF WholeInv, InDevice
    <3>3. CASE b = sb /\ i = sp
      <4> DEFINE o == node[b].ents[i]
                 e == [o EXCEPT !.len = saved.len]
      <4>1. e.pblk = o.pblk /\ e.len = saved.len /\ node'[b].ents[i] = e
        BY <3>1, <3>3, <1>4, <1>5, SMTT(30) DEF Entry
      <4> HIDE DEF e
      <4>2. ee_len(e) = saved.len
        <5>1. e.len \in 0 .. InitMax - 1
          BY <4>1, <1>2, InitMaxAssumption DEF RawLen
        <5> QED
          BY <4>1, <5>1, PlainLength
      <4>3. Refers(e, 0) = o.pblk .. o.pblk + saved.len - 1
        BY <4>1, <4>2 DEF Refers
      <4>4. o.pblk .. o.pblk + saved.len - 1 \subseteq Refers(o, 0) \cup NewBlocks
        BY <3>1, <3>3, <1>2
      <4> QED
        BY <4>1, <4>3, <4>4, <3>2, <1>3
    <3>4. CASE ~ (b = sb /\ i = sp)
      BY <3>1, <3>2, <3>4, <1>4
    <3> QED
      BY <3>3, <3>4
  <2> QED
    BY <2>1, DeviceKept
<1>9. NewInDevice' /\ RootRoom(node')
  BY <1>1, <1>4 DEF NewInDevice, Inserting, WholeInv, RootRoom, IInv, TreeInv, TreeType
<1> QED
  BY <1>7, <1>8, <1>9 DEF WholeInv

\* The new extent gets its slot.
LEMMA WholeInsert ==
    ASSUME IInv, IInv', WholeInv, pc = "insert", InsertIntoLeaf
    PROVE  WholeInv'
<1> DEFINE lb == leaf.blk
           n == Len(node[lb].ents)
<1>1. /\ DOMAIN node' = DOMAIN node /\ lb \in DOMAIN node
      /\ node[lb].depth = 0 /\ n \in Nat
      /\ InsertSlot \in 1 .. n + 1
      /\ \A b \in DOMAIN node : node'[b].depth = node[b].depth /\ node'[b].max = node[b].max
      /\ DOMAIN node'[lb].ents = 1 .. n + 1
      /\ \A i \in 1 .. n + 1 :
            node'[lb].ents[i] = IF i < InsertSlot THEN node[lb].ents[i]
                                ELSE IF i = InsertSlot THEN newext
                                ELSE node[lb].ents[i - 1]
      /\ \A b \in DOMAIN node : b # lb =>
            node'[b].ents = ext4_ext_correct_indexes(b, node'[lb].ents[1].lblk)
  BY InsertEffect
<1>2. np' = np /\ pc' \in {"idle", "splitat"}
  BY DEF InsertIntoLeaf, split, Inserted, Return
<1> HIDE DEF lb
<1>3. DOMAIN node[lb].ents = 1 .. n
  BY <1>1, LiveNode
<1>4. ASSUME NEW b \in DOMAIN node, b # lb
      PROVE  /\ DOMAIN node'[b].ents = DOMAIN node[b].ents
             /\ \A i \in DOMAIN node[b].ents :
                   /\ node'[b].ents[i].pblk = node[b].ents[i].pblk
                   /\ Refers(node'[b].ents[i], 0) = Refers(node[b].ents[i], 0)
  <2> DEFINE border == node'[lb].ents[1].lblk
  <2>0. node'[b].ents = ext4_ext_correct_indexes(b, border)
    BY <1>1, <1>4
  <2> HIDE DEF border
  <2>1. /\ DOMAIN node'[b].ents = DOMAIN node[b].ents
        /\ \A i \in DOMAIN node[b].ents :
              node'[b].ents[i] \in {node[b].ents[i],
                                    [node[b].ents[i] EXCEPT !.lblk = border]}
    BY <2>0 DEF ext4_ext_correct_indexes
  <2>2. \A i \in DOMAIN node[b].ents : node[b].ents[i] \in Entry
    BY LiveNode
  <2>3. \A i \in DOMAIN node[b].ents :
           /\ node'[b].ents[i].pblk = node[b].ents[i].pblk
           /\ node'[b].ents[i].len = node[b].ents[i].len
    BY <2>1, <2>2 DEF Entry
  <2>4. \A i \in DOMAIN node[b].ents :
           ee_len(node'[b].ents[i]) = ee_len(node[b].ents[i])
    BY <2>3, SameLength
  <2> QED
    BY <2>1, <2>3, <2>4 DEF Refers
<1>5. Adopted'
  <2>1. \A c : Child(node, c) => Child(node', c)
    BY <1>1, <1>4 DEF Child
  <2> QED
    BY <1>1, <1>2, <2>1 DEF WholeInv, Adopted
<1>6. InDevice(node')
  <2>1. ASSUME NEW b \in DOMAIN node', node'[b].depth = 0, NEW i \in DOMAIN node'[b].ents
        PROVE  Refers(node'[b].ents[i], 0) \subseteq PBlk
    <3>1. b \in DOMAIN node /\ node[b].depth = 0
      BY <1>1, <2>1
    <3>2. \A j \in DOMAIN node[b].ents : Refers(node[b].ents[j], 0) \subseteq PBlk
      BY <3>1 DEF WholeInv, InDevice
    <3>3. NewBlocks \subseteq PBlk
      BY DEF WholeInv, NewInDevice, Inserting
    <3>4. CASE b = lb
      <4>1. /\ i \in 1 .. n + 1 /\ (i < InsertSlot => i \in 1 .. n)
            /\ (i # InsertSlot /\ ~ (i < InsertSlot) => i - 1 \in 1 .. n)
        BY <1>1, <3>4
      <4>2. node'[lb].ents[i] = newext \/ \E j \in 1 .. n : node'[lb].ents[i] = node[lb].ents[j]
        BY <4>1, <1>1
      <4> QED
        BY <4>2, <3>2, <3>3, <3>4, <1>3 DEF NewBlocks
    <3>5. CASE b # lb
      BY <3>1, <3>2, <3>5, <1>4
    <3> QED
      BY <3>4, <3>5
  <2> QED
    BY <2>1, DeviceKept
<1>7. NewInDevice' /\ RootRoom(node')
  BY <1>1, <1>2 DEF NewInDevice, Inserting, WholeInv, RootRoom, IInv, TreeInv, TreeType
<1> QED
  BY <1>5, <1>6, <1>7 DEF WholeInv

\* The old root is the new one's child and takes its children with it.
LEMMA WholeGrow ==
    ASSUME IInv, IInv', WholeInv, ext4_ext_grow_indepth
    PROVE  WholeInv'
<1>1. PICK b \in free :
         /\ b \notin DOMAIN node /\ b # Root /\ b \in PBlk
         /\ DOMAIN node' = DOMAIN node \cup {b}
         /\ node'[b].depth = depth /\ node'[b].ents = node[Root].ents
         /\ node'[Root].depth = depth + 1
         /\ node'[Root].ents = << [lblk |-> node[Root].ents[1].lblk,
                                   pblk |-> b, len |-> 0] >>
         /\ \A c \in DOMAIN node : c # Root => node'[c] = node[c]
  BY GrowEffect
<1>2. pc = "grow" /\ pc' = "refind" /\ UNCHANGED <<newext, np>>
  BY DEF ext4_ext_grow_indepth, split
<1>3. np = <<>> /\ Root \in DOMAIN node /\ depth \in Nat
  <2>1. Root \in DOMAIN node
    BY DEF IInv, TreeInv, TreeType
  <2>2. depth \in Nat
    BY <2>1, LiveNode DEF depth
  <2> QED
    BY <1>2, <2>1, <2>2, NoChain
<1>4. Adopted'
  <2>1. Child(node', b)
    <3>1. Root \in DOMAIN node' /\ node'[Root].depth > 0
      BY <1>1, <1>3
    <3>2. 1 \in DOMAIN node'[Root].ents /\ node'[Root].ents[1].pblk = b
      BY <1>1
    <3> QED
      BY <3>1, <3>2 DEF Child
  <2>2. ASSUME NEW c, Child(node, c)
        PROVE  Child(node', c)
    <3>1. PICK x \in DOMAIN node :
             node[x].depth > 0 /\ \E i \in DOMAIN node[x].ents : node[x].ents[i].pblk = c
      BY <2>2 DEF Child
    <3>2. CASE x = Root
      BY <3>1, <3>2, <1>1 DEF Child, depth
    <3>3. CASE x # Root
      BY <3>1, <3>3, <1>1 DEF Child
    <3> QED
      BY <3>2, <3>3
  <2> QED
    BY <2>1, <2>2, <1>1, <1>3 DEF WholeInv, Adopted
<1>5. InDevice(node')
  <2>1. ASSUME NEW c \in DOMAIN node', node'[c].depth = 0, NEW i \in DOMAIN node'[c].ents
        PROVE  Refers(node'[c].ents[i], 0) \subseteq PBlk
    <3>1. c # Root
      BY <2>1, <1>1, <1>3
    <3>2. CASE c = b
      <4>1. node[Root].depth = 0 /\ i \in DOMAIN node[Root].ents
            /\ node'[c].ents[i] = node[Root].ents[i]
        BY <3>2, <2>1, <1>1 DEF depth
      <4> QED
        BY <4>1, <1>3 DEF WholeInv, InDevice
    <3>3. CASE c # b
      <4>1. c \in DOMAIN node /\ node'[c] = node[c]
        BY <3>1, <3>3, <2>1, <1>1
      <4> QED
        BY <4>1, <2>1 DEF WholeInv, InDevice
    <3> QED
      BY <3>2, <3>3
  <2> QED
    BY <2>1, DeviceKept
<1>6. NewInDevice' /\ RootRoom(node')
  BY <1>1, <1>2, <1>3 DEF NewInDevice, NewBlocks, Inserting, WholeInv, RootRoom
<1> QED
  BY <1>4, <1>5, <1>6 DEF WholeInv

\* The new node of a split takes the indexes that are moved to it, and that of the
\* node that was made before.
LEMMA WholeSplit ==
    ASSUME IInv, IInv', WholeInv, ext4_ext_split_node
    PROVE  WholeInv'
<1> DEFINE c == path[level].blk
           old == node[c].ents
           n == Len(old)
           pos == path[level].pos
           m == IF np = <<>> THEN 0 ELSE 1
<1>1. PICK b \in free :
         /\ np' = <<b>> \o np
         /\ b \notin DOMAIN node /\ b # Root /\ b \in PBlk
         /\ DOMAIN node' = DOMAIN node \cup {b}
         /\ \A x \in DOMAIN node : x # c => node'[x] = node[x]
         /\ node'[c].depth = node[c].depth /\ node'[c].max = node[c].max
         /\ DOMAIN node'[c].ents = 1 .. pos
         /\ \A i \in 1 .. pos : node'[c].ents[i] = old[i]
         /\ node'[b].depth = node[c].depth
         /\ DOMAIN node'[b].ents = 1 .. n - pos + m
         /\ np # <<>> => node'[b].ents[1] = [lblk |-> key, pblk |-> np[1],
                                             len |-> 0]
         /\ \A i \in 1 + m .. n - pos + m : node'[b].ents[i] = old[pos + i - m]
  BY SplitEffect
<1>2. pc = "split" /\ pc' \in {"link", "split"} /\ newext' = newext
  BY DEF ext4_ext_split_node
<1>3. /\ c \in DOMAIN node /\ pos \in 0 .. n /\ np \in Seq(PBlk)
      /\ node[c].depth = Len(np) /\ Len(np) \in Nat
  BY <1>2, SplitLevel DEF IInv, LocalInv, LocalType
<1>4. /\ DOMAIN old = 1 .. n /\ n \in Nat /\ m \in {0, 1} /\ pos \in Nat
      /\ (np = <<>> => Len(np) = 0 /\ m = 0) /\ (np # <<>> => Len(np) > 0 /\ m = 1)
  <2>1. DOMAIN old = 1 .. n /\ n \in Nat
    BY <1>3, LiveNode
  <2>2. (np = <<>> => Len(np) = 0 /\ m = 0) /\ (np # <<>> => Len(np) > 0 /\ m = 1)
    BY <1>3, EmptySeq
  <2> QED
    BY <2>1, <2>2, <1>3
<1>5. np' # <<>> /\ np'[1] = b
  <2>1. <<b>> \in Seq(PBlk)
    BY <1>1
  <2>2. /\ Len(<<b>> \o np) = 1 + Len(np) /\ (<<b>> \o np)[1] = b
    BY <1>3, <2>1, ConcatProperties
  <2>3. np' \in Seq(PBlk)
    BY DEF IInv, LocalInv, LocalType
  <2> QED
    BY <2>2, <2>3, <1>1, <1>3, EmptySeq
<1> HIDE DEF c, pos, m, n
<1>6. Adopted'
  <2>1. np # <<>> => Child(node', np[1])
    <3> SUFFICES ASSUME np # <<>> PROVE Child(node', np[1])
      OBVIOUS
    <3>1. b \in DOMAIN node' /\ node'[b].depth > 0 /\ 1 \in DOMAIN node'[b].ents
      BY <1>1, <1>3, <1>4
    <3>2. node'[b].ents[1].pblk = np[1]
      BY <1>1
    <3> QED
      BY <3>1, <3>2 DEF Child
  <2>2. ASSUME NEW x, Child(node, x)
        PROVE  Child(node', x)
    <3>1. PICK y \in DOMAIN node :
             node[y].depth > 0 /\ \E i \in DOMAIN node[y].ents : node[y].ents[i].pblk = x
      BY <2>2 DEF Child
    <3>2. CASE y # c
      BY <3>1, <3>2, <1>1 DEF Child
    <3>3. CASE y = c
      <4>1. PICK i \in 1 .. n : old[i].pblk = x
        BY <3>1, <3>3, <1>4
      <4>2. CASE i <= pos
        <5>1. i \in 1 .. pos /\ c \in DOMAIN node' /\ node'[c].depth > 0
          BY <4>2, <3>1, <3>3, <1>1, <1>3, <1>4
        <5>2. i \in DOMAIN node'[c].ents /\ node'[c].ents[i].pblk = x
          BY <4>1, <5>1, <1>1
        <5> QED
          BY <5>1, <5>2 DEF Child
      <4>3. CASE ~ (i <= pos)
        <5>1. PICK j : j = i - pos + m
          OBVIOUS
        <5>2. j \in 1 + m .. n - pos + m /\ j \in 1 .. n - pos + m /\ pos + j - m = i
          BY <5>1, <4>1, <4>3, <1>4
        <5>3. j \in DOMAIN node'[b].ents /\ node'[b].ents[j].pblk = x
          BY <5>2, <4>1, <1>1
        <5>4. b \in DOMAIN node' /\ node'[b].depth > 0
          BY <1>1, <3>1, <3>3
        <5> QED
          BY <5>3, <5>4 DEF Child
      <4> QED
        BY <4>2, <4>3
    <3> QED
      BY <3>2, <3>3
  <2> QED
    BY <2>1, <2>2, <1>1, <1>5 DEF WholeInv, Adopted
<1>7. InDevice(node')
  <2>1. ASSUME NEW x \in DOMAIN node', node'[x].depth = 0, NEW i \in DOMAIN node'[x].ents
        PROVE  Refers(node'[x].ents[i], 0) \subseteq PBlk
    <3>1. CASE x # b /\ x # c
      <4>1. x \in DOMAIN node /\ node'[x] = node[x]
        BY <3>1, <2>1, <1>1
      <4> QED
        BY <4>1, <2>1 DEF WholeInv, InDevice
    <3>2. CASE x = b \/ x = c
      <4>1. node[c].depth = 0
        BY <3>2, <2>1, <1>1
      <4>2. m = 0
        BY <4>1, <1>3, <1>4
      <4>3. \A j \in 1 .. n : Refers(old[j], 0) \subseteq PBlk
        BY <4>1, <1>3, <1>4 DEF WholeInv, InDevice
      <4>4. CASE x = c
        <5>1. i \in 1 .. pos /\ i \in 1 .. n
          BY <4>4, <2>1, <1>1, <1>3, <1>4
        <5> QED
          BY <5>1, <4>3, <4>4, <1>1
      <4>5. CASE x = b
        <5>1. i \in 1 + m .. n - pos + m /\ pos + i - m \in 1 .. n
          BY <4>2, <4>5, <2>1, <1>1, <1>3, <1>4
        <5>2. node'[b].ents[i] = old[pos + i - m]
          BY <5>1, <1>1
        <5> QED
          BY <5>1, <5>2, <4>3, <4>5
      <4> QED
        BY <3>2, <4>4, <4>5
    <3> QED
      BY <3>1, <3>2
  <2> QED
    BY <2>1, DeviceKept
<1>8. NewInDevice'
  BY <1>2 DEF NewInDevice, NewBlocks, Inserting, WholeInv
<1>9. RootRoom(node')
  BY <1>1, <1>3 DEF WholeInv, RootRoom, IInv, TreeInv, TreeType
<1> QED
  BY <1>6, <1>7, <1>8, <1>9 DEF WholeInv

\* The topmost node of a split gets its index.
LEMMA WholeLink ==
    ASSUME IInv, IInv', WholeInv, pc = "link", LinkIndex
    PROVE  WholeInv'
<1> DEFINE c == path[at - 1].blk
           n == Len(node[c].ents)
           ix == [lblk |-> key, pblk |-> np[1], len |-> 0]
<1>1. /\ DOMAIN node' = DOMAIN node
      /\ \A x \in DOMAIN node : x # c => node'[x] = node[x]
      /\ node'[c].depth = node[c].depth /\ node'[c].max = node[c].max
      /\ DOMAIN node'[c].ents = 1 .. n + 1
      /\ \A i \in 1 .. n + 1 :
            node'[c].ents[i] = IF i < LinkSlot THEN node[c].ents[i]
                               ELSE IF i = LinkSlot THEN ix
                               ELSE node[c].ents[i - 1]
  BY LinkEffect
<1>2. /\ c \in DOMAIN node /\ node[c].depth > 0 /\ LinkSlot \in 1 .. n + 1
  BY LinkPlace
<1>3. DOMAIN node[c].ents = 1 .. n /\ n \in Nat
  BY <1>2, LiveNode
<1>4. pc' = "insert" /\ np' = <<>> /\ newext' = newext
  BY DEF LinkIndex
<1>5. ix.pblk = np[1]
  OBVIOUS
<1> HIDE DEF c, ix, n
<1>6. Adopted'
  <2>1. Child(node', np[1])
    <3>1. LinkSlot \in DOMAIN node'[c].ents /\ node'[c].ents[LinkSlot].pblk = np[1]
      BY <1>1, <1>2, <1>3, <1>5
    <3> QED
      BY <3>1, <1>1, <1>2 DEF Child
  <2>2. ASSUME NEW x, Child(node, x)
        PROVE  Child(node', x)
    <3>1. PICK y \in DOMAIN node :
             node[y].depth > 0 /\ \E i \in DOMAIN node[y].ents : node[y].ents[i].pblk = x
      BY <2>2 DEF Child
    <3>2. CASE y # c
      BY <3>1, <3>2, <1>1 DEF Child
    <3>3. CASE y = c
      <4>1. PICK i \in 1 .. n : node[c].ents[i].pblk = x
        BY <3>1, <3>3, <1>3
      <4>2. \E j \in 1 .. n + 1 : node'[c].ents[j] = node[c].ents[i]
        <5>1. CASE i < LinkSlot
          <6>1. i \in 1 .. n + 1
            BY <1>3
          <6> QED
            BY <5>1, <6>1, <1>1
        <5>2. CASE ~ (i < LinkSlot)
          <6>1. i + 1 \in 1 .. n + 1 /\ ~ (i + 1 < LinkSlot) /\ i + 1 # LinkSlot
                /\ (i + 1) - 1 = i
            BY <5>2, <1>2, <1>3
          <6> QED
            BY <6>1, <1>1
        <5> QED
          BY <5>1, <5>2
      <4> QED
        BY <4>1, <4>2, <1>1, <1>2 DEF Child
    <3> QED
      BY <3>2, <3>3
  <2> QED
    BY <2>1, <2>2, <1>1 DEF WholeInv, Adopted
<1>7. InDevice(node')
  <2>1. ASSUME NEW x \in DOMAIN node', node'[x].depth = 0, NEW i \in DOMAIN node'[x].ents
        PROVE  Refers(node'[x].ents[i], 0) \subseteq PBlk
    <3>1. x \in DOMAIN node /\ x # c
      BY <2>1, <1>1, <1>2
    <3> QED
      BY <3>1, <2>1, <1>1 DEF WholeInv, InDevice
  <2> QED
    BY <2>1, DeviceKept
<1>8. NewInDevice'
  BY <1>4 DEF NewInDevice, NewBlocks, Inserting, WholeInv
<1>9. RootRoom(node')
  BY <1>1, <1>2 DEF WholeInv, RootRoom, IInv, TreeInv, TreeType
<1> QED
  BY <1>6, <1>7, <1>8, <1>9 DEF WholeInv

\* A split that is given up before it has moved indexes loses no node.
LEMMA WholeCleanup ==
    ASSUME IInv, IInv', WholeInv, pc \in {"split", "link"}, Cleanup, Len(np) <= 1
    PROVE  WholeInv'
<1>1. /\ DOMAIN node' = DOMAIN node \ ToSet(np)
      /\ \A b \in DOMAIN node' : node'[b] = node[b]
      /\ ToSet(np) = {np[i] : i \in 1 .. Len(np)}
  BY CleanupEffect
<1>2. np' = <<>> /\ pc' = "fail" /\ newext' = newext /\ np \in Seq(PBlk)
  BY DEF Cleanup, IInv, LocalInv, LocalType
<1>3. Len(np) \in Nat /\ (np = <<>> => Len(np) = 0) /\ (np # <<>> => Len(np) = 1)
  <2>1. Len(np) \in Nat
    BY <1>2
  <2>2. np # <<>> => Len(np) # 0
    BY <1>2
  <2>3. np = <<>> => Len(np) = 0
    OBVIOUS
  <2>4. Len(np) <= 1
    OBVIOUS
  <2>5. PICK n : n = Len(np)
    OBVIOUS
  <2>6. (np # <<>> => n # 0) /\ n \in Nat /\ n <= 1
    BY ONLY <2>1, <2>2, <2>4, <2>5
  <2>7. np # <<>> => n = 1
    BY ONLY <2>6
  <2> QED
    BY ONLY <2>1, <2>3, <2>5, <2>7
<1>4. \A b \in ToSet(np) : b = np[1] /\ node[b].depth = 0 /\ np # <<>>
  <2> SUFFICES ASSUME NEW i \in 1 .. Len(np)
               PROVE  np[i] = np[1] /\ node[np[i]].depth = 0 /\ np # <<>>
    BY <1>1
  <2>1. i = 1 /\ Len(np) = 1 /\ np # <<>>
    BY <1>3
  <2>2. node[np[1]].depth = Len(np) - 1
    BY <2>1 DEF IInv, LocalInv, SplitInv
  <2> QED
    BY <2>1, <2>2
<1>5. np # <<>> => np[1] \in ToSet(np)
  BY <1>1, <1>3
<1>6. Adopted'
  <2>1. ASSUME NEW x, Child(node, x)
        PROVE  Child(node', x)
    <3>1. PICK y \in DOMAIN node :
             node[y].depth > 0 /\ \E i \in DOMAIN node[y].ents : node[y].ents[i].pblk = x
      BY <2>1 DEF Child
    <3>2. y \notin ToSet(np)
      BY <3>1, <1>4
    <3> QED
      BY <3>1, <3>2, <1>1 DEF Child
  <2> QED
    BY <2>1, <1>1, <1>5 DEF WholeInv, Adopted
<1>7. InDevice(node') /\ NewInDevice' /\ Root \in DOMAIN node'
  BY <1>1, <1>2 DEF WholeInv, InDevice, NewInDevice, NewBlocks, Inserting, IInv, TreeInv, TreeType
<1>8. RootRoom(node')
  BY <1>1, <1>7 DEF WholeInv, RootRoom
<1> QED
  BY <1>6, <1>7, <1>8 DEF WholeInv

\* No step of get_blocks() loses a node, but a split that fails after it has moved
\* indexes.
LEMMA TreeStaysWhole ==
    ASSUME IInv, IInv', SortInv, WholeInv, SoundCuts, SoundMerges, [Next]_vars,
           SplitFails => Len(np) <= 1
    PROVE  WholeInv'
<1>1. CASE UNCHANGED vars \/ \E l \in LBlk, m \in MaxBlocks, c \in BOOLEAN :
                                ext4_extent_get_blocks(l, m, c)
  BY <1>1, WholeQuietSteps
<1>2. CASE Find
  BY <1>2, WholeQuietSteps
<1>3. CASE Decide
  BY <1>3, WholeQuietSteps, WholeAllocate DEF Decide
<1>4. CASE Convert
  BY <1>4, CutCases, WholeQuietSteps, WholeRewriteSteps, WholeRestore DEF Convert, SortInv
<1>5. CASE Insert
  <2>1. CASE ext4_ext_insert_leaf
    <3>1. pc = "insert"
      BY <2>1 DEF ext4_ext_insert_leaf
    <3>2. CASE SameStart
      BY <2>1, <3>1, <3>2, WholeQuietSteps
    <3>3. CASE ~ SameStart
      <4>1. AppendToExtent \/ PrependToExtent \/ InsertIntoLeaf \/ NeedSplit
        BY <2>1, <3>3 DEF ext4_ext_insert_leaf
      <4>2. ~ PrependToExtent
        BY <3>1 DEF SoundMerges, PrependToExtent
      <4>3. CASE AppendToExtent
        BY <3>1, <4>3, WholeRewriteSteps DEF SortInv
      <4>4. CASE InsertIntoLeaf
        BY <3>1, <4>4, WholeInsert
      <4>5. CASE NeedSplit
        BY <3>1, <4>5, WholeQuietSteps
      <4> QED
        BY <4>1, <4>2, <4>3, <4>4, <4>5
    <3> QED
      BY <3>2, <3>3
  <2>2. CASE ext4_ext_grow_indepth \/ GrowFails \/ FreeData
    BY <2>2, WholeGrow, WholeQuietSteps
  <2>3. CASE ext4_ext_split_node
    BY <2>3, WholeSplit DEF SortInv
  <2>4. CASE SplitFails
    BY <2>4, WholeCleanup DEF SplitFails
  <2>5. CASE ext4_ext_insert_index
    <3>1. pc = "link"
      BY <2>5 DEF ext4_ext_insert_index
    <3>2. ~ NoPlaceForIndex
      BY <3>1, LinkRoom DEF SortInv
    <3>3. LinkIndex
      BY <2>5, <3>2 DEF ext4_ext_insert_index
    <3> QED
      BY <3>1, <3>3, WholeLink
  <2> QED
    BY <1>5, <2>1, <2>2, <2>3, <2>4, <2>5 DEF Insert
<1> QED
  BY <1>1, <1>2, <1>3, <1>4, <1>5 DEF Next, Step

-----------------------------------------------------------------------------
(* The theorems.                                                           *)

\* A split that fails has made one new block at most, so it has moved entries of the
\* leaf or none.
NoHalfSplit == SplitFails => Len(np) <= 1

\* The binary searches of the code find the slot that the other theorems speak of,
\* in every node and for every block, after any sequence of get_blocks() calls and
\* in the middle of one.
THEOREM SearchesAreRight == Spec /\ []SoundCuts /\ []SoundMerges => []BinSearchFindsClosest
<1>1. IInv /\ SortInv => BinSearchFindsClosest
  BY SortedSearches DEF SortInv
<1> QED
  BY <1>1, OrderInvariance, Invariance, PTL

\* No extent is ever lost from sight: after any sequence of get_blocks() calls, failed
\* ones included, whose cuts and merges are sound, ext4_find_extent finds every block
\* that the code sees in an extent below the root, in a tree of any depth.
THEOREM NothingIsLost == Spec /\ []SoundCuts /\ []SoundMerges => []EveryBlockFound
<1>1. Init => AtRest
  BY DEF Init, AtRest
<1>2. AtRest /\ [Next]_vars => AtRest'
  BY RestStep
<1>3. IInv /\ SortInv /\ AtRest => EveryBlockFound
  BY RestFound DEF SortInv
<1> QED
  BY <1>1, <1>2, <1>3, OrderInvariance, Invariance, PTL DEF Spec

\* No tree block is lost: after any sequence of get_blocks() calls, and in the middle
\* of one, every node but the root is the child of an index or in the hand of a split,
\* no slot refers to a block outside the device, and a root that is a leaf has the
\* room of the inode.  A split of several levels that fails half way is the exception.
THEOREM NoNodeIsLost ==
    Spec /\ []SoundCuts /\ []SoundMerges /\ [][NoHalfSplit]_vars => []WholeInv
<1>1. Init => WholeInv
  <2> SUFFICES ASSUME Init PROVE WholeInv
    OBVIOUS
  <2>1. pc = "idle" /\ \E f \in Files : node = f.node
    BY DEF Init
  <2>2. Family(node) /\ InDevice(node) /\ RootRoom(node)
    BY <2>1, FilesWhole
  <2> QED
    BY <2>1, <2>2 DEF WholeInv, Adopted, Family, NewInDevice, Inserting
<1>2. /\ IInv /\ SortInv /\ WholeInv /\ SoundCuts /\ SoundMerges
      /\ [Next]_vars /\ [NoHalfSplit]_vars
      => WholeInv'
  <2> SUFFICES ASSUME IInv, SortInv, WholeInv, SoundCuts, SoundMerges,
                      [Next]_vars, [NoHalfSplit]_vars
               PROVE  WholeInv'
    OBVIOUS
  <2>1. UNCHANGED vars => ~ SplitFails
    BY DEF vars, SplitFails, Cleanup
  <2>2. SplitFails => Len(np) <= 1
    BY <2>1 DEF NoHalfSplit
  <2> QED
    BY <2>2, NextStep, TreeStaysWhole
<1> QED
  BY <1>1, <1>2, OrderInvariance, Invariance, PTL DEF Spec

=============================================================================
