--------------------------- MODULE Jbd2RecoveryMC ---------------------------
(***************************************************************************)
(* Journals for TLC: a few transactions written around the log, the blocks *)
(* of an earlier lap behind them, and the superblock in front.             *)
(***************************************************************************)
EXTENDS Jbd2Recovery, SequencesExt

Area == jh_end - jh_start + 1

Block(type, t) ==
    [type |-> type, seq |-> t, sum |-> TRUE, tags |-> << >>, r_count |-> "fits",
     data |-> Old]
Commit(t) == Block("commit", t)
Revoke(t, count) == [Block("revoke", t) EXCEPT !.r_count = count]
\* A logged copy of block b; the writer replaces the magic number of the copy.
Copy(t, b) ==
    [Block("none", t) EXCEPT !.data = [tid |-> t, blk |-> b, magic |-> FALSE]]
\* Client blocks.  The number of Far needs the high word, that of Upper has the
\* highest bit of the low word.
Near == {0}
Next1 == {1}
Upper == {WordBits - 1}
Far == {0, WordBits}
AllFsBlk == {Near, Next1, Upper, Far}

\* The tag that a writer makes for block b.
TagOf(b, esc, last, sum) ==
    [lo |-> b \cap (0 .. WordBits - 1),
     hi |-> {i \in 0 .. WordBits - 1 : WordBits + i \in b},
     escape |-> esc, last |-> last, sum |-> sum]
\* A descriptor of the blocks bs; those in esc began with the magic number.
Descriptor(t, bs, esc, sums) ==
    [Block("descriptor", t) EXCEPT !.tags =
        [i \in DOMAIN bs |-> TagOf(bs[i], bs[i] \in esc, i = Len(bs), sums)]]

\* Transactions: their blocks in the log and what they log and revoke.
Logs(t, bs, esc, sums) ==
    [blocks |-> <<Descriptor(t, bs, esc, sums)>> \o [i \in DOMAIN bs |-> Copy(t, bs[i])],
     logged |-> {[tid |-> t, blk |-> b, magic |-> b \in esc] : b \in ToSet(bs)},
     revoked |-> {}]
Revokes(t, count, bs) ==
    [blocks |-> <<Revoke(t, count)>>, logged |-> {},
     revoked |-> {<<t, b>> : b \in bs}]

\* A descriptor block that is full need not have a LAST_TAG.
Unended(t) ==
    LET full == Logs(t, <<Near>>, {}, TRUE)
        tags == <<TagOf(Near, FALSE, FALSE, TRUE)>>
    IN  [full EXCEPT !.blocks[1].tags = tags]

Txns(t) ==
    {Logs(t, <<Near, Next1>>, {Next1}, TRUE), Logs(t, <<Next1>>, {}, FALSE),
     Logs(t, <<Far>>, {}, TRUE), Logs(t, <<Next1, Upper>>, {}, TRUE), Unended(t),
     Revokes(t, "fits", {Near}), Revokes(t, "too large", {Near}),
     Revokes(t, "too small", {})}

\* A descriptor block that the writer did not write: n tags without a LAST_TAG,
\* which are more than the log has blocks.
Corrupt(t, n) ==
    [blocks |-> <<[Block("descriptor", t) EXCEPT !.tags =
                      [i \in 1 .. n |-> TagOf(Near, FALSE, FALSE, TRUE)]]>>,
     logged |-> {}, revoked |-> {}]
SecondTxns(t) ==
    {Logs(t, <<Near, Next1>>, {Next1}, TRUE), Logs(t, <<Far>>, {}, FALSE),
     Revokes(t, "fits", {Near}), Unended(t), Corrupt(t, 2 * Area)}

\* Blocks in the log from s_start on; the others are as the lap before left
\* them: overwritten data, or commit blocks of older transactions.
Layout(start, blocks, old) ==
    [i \in LogBlk |->
        IF i < jh_start THEN Block("superblock", 0)
        ELSE LET k == (i - start) % Area
             IN  IF k < Len(blocks) THEN blocks[k + 1] ELSE old]

\* Two transactions, the second one committed, cut off by a crash, or torn: its
\* commit block is there and has a wrong checksum.
Ends == {"committed", "cut off", "torn"}
Journal(start, seq, a, b, end, csum, old) ==
    LET done == end # "cut off"
        torn == end = "torn"
        next == (seq + 1) % TidMod
        cut == a.blocks \o <<Commit(seq)>> \o b.blocks
        all == IF done THEN cut \o <<[Commit(next) EXCEPT !.sum = ~torn]>> ELSE cut
    IN  [s_start |-> start, s_sequence |-> seq, csum |-> csum,
         log |-> Layout(start, all, old),
         committed |-> {seq} \cup (IF done /\ ~(csum /\ torn) THEN {next} ELSE {}),
         logged |-> a.logged \cup b.logged,
         revoked |-> a.revoked \cup b.revoked]

Clean(seq) ==
    [s_start |-> 0, s_sequence |-> seq, csum |-> FALSE,
     log |-> Layout(jh_start, << >>, Block("none", 0)),
     committed |-> {}, logged |-> {}, revoked |-> {}]

\* A journal whose first transaction was being written when the system crashed;
\* s_start may be wrong.
CutOff(start, seq, a, csum, old) ==
    [s_start |-> start, s_sequence |-> seq, csum |-> csum,
     log |-> Layout(start, a.blocks, old),
     committed |-> {}, logged |-> a.logged, revoked |-> a.revoked]

\* The oldest transaction has number 0 or the last one before the wrap-around.
Sequences0 == {0, TidMod - 1}
Leftovers(seq) == {Block("none", 0), Commit((seq - 2) % TidMod)}

TwoTransactions ==
    UNION { { Journal(start, seq, a, b, end, csum, old) :
                  start \in {jh_start} \cup jh_end - 4 .. jh_end, a \in Txns(seq),
                  b \in SecondTxns((seq + 1) % TidMod),
                  end \in Ends, csum \in BOOLEAN,
                  old \in Leftovers(seq) } : seq \in Sequences0 }
OneTransaction ==
    UNION { { CutOff(start, seq, a, csum, old) :
                  start \in jh_start .. jh_end + 1, a \in Txns(seq),
                  csum \in BOOLEAN, old \in Leftovers(seq) } : seq \in Sequences0 }
AllJournals == TwoTransactions \cup OneTransaction \cup {Clean(s) : s \in Sequences0}

=============================================================================
