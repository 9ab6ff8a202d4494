---------------------------- MODULE Jbd2Recovery ----------------------------
(***************************************************************************)
(* jbd2_replay_journal(): the recovery of a file system from its journal.  *)
(*                                                                         *)
(* Recovery reads the log three times: SCAN finds the last committed       *)
(* transaction, SCAN_REVOKE collects the revoked blocks and REPLAY copies  *)
(* the logged blocks to the client file.  An action is what the code does  *)
(* with one block of the log, or, in REPLAY, with one tag of a descriptor  *)
(* block, since every read of the log and every write of the client may    *)
(* fail.                                                                   *)
(*                                                                         *)
(* A log block is reduced to what recovery tells apart.  Its type is that  *)
(* of its header, or "none" when it has no valid one, as a logged data     *)
(* block has; sum says whether its stored checksum is the one computed     *)
(* with jh_csum_seed (which jbd2_open_handle() leaves at 0).               *)
(***************************************************************************)
EXTENDS Integers, Sequences, FiniteSets, Functions

CONSTANTS
    jh_start,   \* first block of the logging area (s_first)
    jh_end,     \* last block of the logging area (s_maxlen - 1)
    TidMod,     \* number of transaction ids: 2^32 in the code
    WordBits,   \* bits of a word of the log: 32 in the code
    FsBlk,      \* blocks of the client file
    Journals,   \* the journals a behaviour may start from
    Faults      \* the calls that may fail

Tid == 0 .. TidMod - 1
LogBlk == 0 .. jh_end

\* A number of the log is the set of its bits that are 1.  The number of a
\* client block has two words (jbd2_fsblk_t).
Word == SUBSET (0 .. WordBits - 1)
HighWord == WordBits .. 2 * WordBits - 1

\* What a client block holds: the file system's own contents, or those of a
\* logged copy of a block.  magic says whether its first word is the journal's
\* magic number, which the writer of the log replaces with 0.
Old == [tid |-> -1, blk |-> {}, magic |-> FALSE]
Content == [tid : Tid, blk : FsBlk, magic : BOOLEAN]

\* The tag of a logged block: t_blocknr and t_blocknr_high (0 without the
\* feature 64bit), the flags ESCAPE and LAST_TAG, and whether t_checksum is the
\* checksum of the block.
Tag == [lo : Word, hi : Word, escape : BOOLEAN, last : BOOLEAN, sum : BOOLEAN]

\* The block that the writer of a tag means.
BlockNr(t) == t.lo \cup {WordBits + i : i \in t.hi}

\* jbd2_tag_blocknr: the high word is not shifted to its place, and a word is a
\* signed number (drv_types.h), so its highest bit fills the high word.
jbd2_tag_blocknr(t) ==
    LET low == t.lo \cup t.hi
    IN  IF WordBits - 1 \in low THEN low \cup HighWord ELSE low

\* r_count of a revoke block, in bytes: does it leave room for an entry, and
\* does it fit in the block?
RCounts == {"too small", "fits", "too large"}

\* "superblock" stands for every number of a type that the switch has no case
\* for: those of both superblocks and, h_blocktype being signed, negative ones.
BlockTypes == {"none", "descriptor", "commit", "superblock", "revoke"}
\* A descriptor block has room for a tag, whatever its block size is.
IsBlock(b) ==
    /\ b.type \in BlockTypes
    /\ b.type = "descriptor" => b.tags # << >>
    /\ b.seq \in Tid
    /\ b.sum \in BOOLEAN
    /\ b.tags \in Seq(Tag)
    /\ b.r_count \in RCounts
    /\ b.data \in Content \cup {Old}

\* A journal: the fields of its superblock that recovery uses, its blocks, and
\* what whoever wrote it knows: the transactions it committed, the copies of
\* blocks it logged and the blocks its transactions revoked.  Its superblock is
\* in front of the logging area.  Nothing checks s_start, or how many tags a
\* descriptor block has for the length of the log.
IsJournal(j) ==
    /\ j.s_start \in Int
    /\ j.s_sequence \in Tid
    /\ j.csum \in BOOLEAN
    /\ DOMAIN j.log = LogBlk
    /\ \A i \in LogBlk : IsBlock(j.log[i])
    /\ j.log[0].type = "superblock"
    /\ j.committed \subseteq Tid
    /\ j.logged \subseteq Content
    /\ j.revoked \subseteq Tid \X FsBlk

ASSUME ConstantsAssumption ==
    /\ jh_start \in Nat \ {0}
    /\ jh_end \in Nat
    /\ jh_end > jh_start
    /\ TidMod \in Nat
    /\ TidMod > jh_end + 1
    /\ WordBits \in Nat \ {0}
    /\ FsBlk \subseteq SUBSET (0 .. 2 * WordBits - 1)
    /\ Faults \subseteq {"read", "write", "alloc"}
    /\ \A j \in Journals : IsJournal(j)

\* The writer of the log, which is not this driver, numbers its transactions
\* one after the other: a complete commit block whose number is s_sequence or
\* one of those the log has blocks for after it belongs to a transaction that
\* was committed.  What an earlier lap has left has older numbers.
NumberedInOrder(j) ==
    \A i \in LogBlk :
        LET b   == j.log[i]
            new == (b.seq - j.s_sequence) % TidMod <= jh_end
        IN  b.type = "commit" /\ (j.csum => b.sum) /\ new => b.seq \in j.committed

\* The tags of a descriptor that a reader looks at: those up to its LAST_TAG.
TagsInUse(d) == {n \in DOMAIN d.tags : \A k \in 1 .. n - 1 : ~ d.tags[k].last}

\* Behind a complete descriptor block of the oldest transaction, up to the end
\* of the log, are the copies of the blocks that its tags name.
CopiesFollowTags(j) ==
    \A i \in LogBlk :
        LET d == j.log[i]
        IN  d.type = "descriptor" /\ d.seq = j.s_sequence /\ (j.csum => d.sum) =>
                \A n \in TagsInUse(d) : i + n \in LogBlk =>
                    LET c == j.log[i + n].data
                        t == d.tags[n]
                    IN  /\ c.tid = d.seq
                        /\ c.blk = BlockNr(t)
                        /\ (IF t.escape THEN [c EXCEPT !.magic = TRUE] ELSE c)
                               \in j.logged

ASSUME WriterAssumption ==
    \A j \in Journals : NumberedInOrder(j) /\ CopiesFollowTags(j)

VARIABLES
    journal,    \* the journal being recovered
    pc,         \* where jbd2_replay_journal() is
    phase,      \* the argument phase of jbd2_replay_one_pass()
    curr,       \* curr_blocknr
    tid,        \* curr_tid
    info,       \* recovery_info
    nr,         \* nr in jbd2_replay_descr_block(): the tag being replayed
    table,      \* jh_revoke_table: revoke entries by block
    client,     \* the client file
    status      \* what jbd2_replay_journal() returned

vars == <<journal, pc, phase, curr, tid, info, nr, table, client, status>>

Statuses == {"success", "io_error", "corrupt", "unsuccessful"}
Phases == <<"SCAN", "SCAN_REVOKE", "REPLAY">>
RevokeEntry == [re_tid : Tid, refs : Int]
NoInfo == [ri_end_txn |-> 0, ri_has_txn |-> FALSE]

-----------------------------------------------------------------------------
(* Helpers of jbd2.c.                                                      *)

\* Mutant: block 0 is counted as part of the logging area.
jbd2_wrap_fromZero(b) == IF b > jh_end THEN b - (jh_end + 1) ELSE b

jbd2_wrap(b) == IF b > jh_end THEN b - (jh_end - jh_start + 1) ELSE b

\* jbd2_tid_cmp: __s32 is an unsigned type (drv_types.h), so the difference is
\* never negative after the cast.
jbd2_tid_cmp(a, b) ==
    LET d == (a - b) % TidMod
    IN  IF d < 0 THEN -1 ELSE IF d > 0 THEN 1 ELSE 0

\* Mutant: h_sequence is not compared.
OfThisTxn_any(b) == TRUE

\* jbd2_verify_metadata_block, and the test of h_sequence that follows it.
jbd2_verify_metadata_block(b) == b.type # "none"
OfThisTxn(b) == b.seq = tid

\* jbd2_verify_descr_block, jbd2_verify_commit_block, jbd2_verify_revoke_block.
jbd2_verify_block_csum(b) ==
    (journal.csum /\ b.type \in {"descriptor", "commit", "revoke"}) => b.sum

\* jbd2_count_tags: the loop leaves at LAST_TAG before it counts that tag.
jbd2_count_tags(b) ==
    LET lasts == {i \in DOMAIN b.tags : b.tags[i].last}
    IN  IF lasts = {} THEN Len(b.tags)
        ELSE CHOOSE i \in 0 .. Len(b.tags) :
                 i + 1 \in lasts /\ \A k \in lasts : i + 1 <= k

\* A read outside the log file does not succeed.  Positions get there: behind a
\* descriptor block the copies are read without a jbd2_wrap(), and jbd2_wrap()
\* goes back by one length of the log only.
CanRead(b) == b \in LogBlk

\* Without a LAST_TAG the loop of jbd2_blocks_csum_verify, which leaves no room
\* for the tail of the block, may take a tag more, made of bytes of the tail.
PastLastTag(d) ==
    IF \E n \in DOMAIN d.tags : d.tags[n].last THEN {"success"}
    ELSE {"success",
          IF CanRead(curr + Len(d.tags) + 1) THEN "unsuccessful" ELSE "io_error"}

\* jbd2_blocks_csum_verify: the statuses it may return for the descriptor d.
jbd2_blocks_csum_verify(d) ==
    LET n == TagsInUse(d)
        Fails(i) == ~CanRead(curr + i) \/ ~d.tags[i].sum
        first == {i \in n : Fails(i) /\ \A k \in n : Fails(k) => i <= k}
    IN  IF ~journal.csum THEN {"success"}
        ELSE (IF "read" \in Faults THEN {"io_error"} ELSE {}) \cup
             (IF first = {} THEN PastLastTag(d)
              ELSE {IF CanRead(curr + i) THEN "unsuccessful" ELSE "io_error" :
                        i \in first})

\* jbd2_revoke_entry_find, and jbd2_revoke_entry_put, which removes the entry
\* unless its reference count becomes 0.
Find(t, b) == IF b \in DOMAIN t THEN [t EXCEPT ![b].refs = @ + 1] ELSE t
jbd2_revoke_entry_put(t, b) ==
    IF t[b].refs - 1 # 0
    THEN Restrict(t, DOMAIN t \ {b})
    ELSE [t EXCEPT ![b].refs = @ - 1]

\* jbd2_revoke_table_clear puts every entry once.
jbd2_revoke_table_clear(t) ==
    LET kept == {b \in DOMAIN t : t[b].refs - 1 = 0}
    IN  [b \in kept |-> [t[b] EXCEPT !.refs = 0]]

\* jbd2_replay_descr_block passes over a tag whose block is revoked.
Revoked(t, b) == b \in DOMAIN t /\ jbd2_tid_cmp(tid, t[b].re_tid) <= 0

-----------------------------------------------------------------------------
(* Passes.                                                                 *)

Init ==
    /\ journal \in Journals
    /\ pc = "pass"
    /\ phase = 1
    /\ curr = journal.s_start
    /\ tid = journal.s_sequence
    /\ info = NoInfo
    /\ nr = 1
    /\ table = << >>
    /\ client = [b \in FsBlk |-> Old]
    /\ status = "success"

\* jbd2_replay_one_pass returns st.  jbd2_replay_journal leaves at the first
\* pass whose status is 0, which is STATUS_SUCCESS; otherwise it starts the
\* next pass, which forgets the recovery_info of this one.
EndPass(st) ==
    /\ IF st = "success" \/ phase = Len(Phases)
       THEN /\ pc' = "returned"
            /\ status' = st
            /\ table' = jbd2_revoke_table_clear(table)
            /\ UNCHANGED <<phase, curr, tid, info>>
       ELSE /\ phase' = phase + 1
            /\ curr' = journal.s_start
            /\ tid' = journal.s_sequence
            /\ info' = NoInfo
            /\ pc' = "pass"
            /\ UNCHANGED <<status, table>>
    /\ UNCHANGED <<journal, nr>>

Scanning == Phases[phase] = "SCAN"
PastEnd == ~Scanning /\ jbd2_tid_cmp(tid, info.ri_end_txn) > 0
blk == journal.log[curr]

\* What every block that recovery accepts has passed.
Accepted ==
    /\ jbd2_verify_metadata_block(blk)
    /\ OfThisTxn(blk)
    /\ jbd2_verify_block_csum(blk)
AtBlock(t) ==
    /\ pc = "pass"
    /\ ~PastEnd
    /\ CanRead(curr)
    /\ Accepted
    /\ blk.type = t

\* A pass other than SCAN ends after the last transaction of recovery_info.
LastTransactionDone ==
    /\ pc = "pass"
    /\ PastEnd
    /\ EndPass("success")
    /\ UNCHANGED client

\* CcPinRead of the next block of the log fails.
ReadFails ==
    /\ pc = "pass"
    /\ ~PastEnd
    /\ "read" \in Faults \/ ~CanRead(curr)
    /\ EndPass("io_error")
    /\ UNCHANGED client

\* A block that is not part of the log ends SCAN, and is an error later.
NotALogBlock ==
    /\ pc = "pass"
    /\ ~PastEnd
    /\ CanRead(curr)
    /\ ~Accepted
    /\ EndPass(IF Scanning THEN "success" ELSE "corrupt")
    /\ UNCHANGED client

\* Mutant: the block itself is not counted.
Advance_short(n) ==
    /\ curr' = jbd2_wrap(curr + n - 1)
    /\ UNCHANGED <<journal, phase, info, status>>

\* The next block is n blocks further.
Advance(n) ==
    /\ curr' = jbd2_wrap(curr + n)
    /\ UNCHANGED <<journal, phase, info, status>>

\* SCAN and SCAN_REVOKE pass over a descriptor block and the blocks it
\* describes; SCAN verifies their checksums first.
DescriptorPassedOver ==
    /\ AtBlock("descriptor")
    /\ Phases[phase] # "REPLAY"
    /\ Scanning => "success" \in jbd2_blocks_csum_verify(blk)
    /\ Advance(jbd2_count_tags(blk) + 1)
    /\ UNCHANGED <<pc, tid, nr, table, client>>

BlocksCsumFails ==
    /\ AtBlock("descriptor")
    /\ Scanning
    /\ \E st \in jbd2_blocks_csum_verify(blk) \ {"success"} : EndPass(st)
    /\ UNCHANGED client

\* REPLAY copies the blocks of a descriptor, one tag at a time.
jbd2_replay_descr_block ==
    /\ AtBlock("descriptor")
    /\ Phases[phase] = "REPLAY"
    /\ nr' = 1
    /\ pc' = "tag"
    /\ UNCHANGED <<journal, phase, curr, tid, info, table, client, status>>

tag == blk.tags[nr]

\* Mutant: the first word is not given back.
Unescaped_not(copy) == copy

\* The writer put 0 in place of the first word of an escaped block.
Unescaped(copy) == IF tag.escape THEN [copy EXCEPT !.magic = TRUE] ELSE copy

\* Mutant: the end of the block does not end the loop over its tags.
DescriptorDone_lastTag(skip) == tag.last /\ ~skip

\* The loop over the tags of the block is left at LAST_TAG, which a tag that is
\* skipped does not get to, or at the end of the block.
DescriptorDone(skip) == (tag.last /\ ~skip) \/ nr = Len(blk.tags)

\* Copy the block of one tag.  A revoked tag is passed over, and its LAST_TAG
\* flag with it.
ReplayTag ==
    LET b == jbd2_tag_blocknr(tag)
        skip == Revoked(table, b)
        looked == Find(table, b)
    IN  /\ pc = "tag"
        /\ skip \/ (CanRead(curr + nr) /\ b \in FsBlk)
        /\ table' = IF b \in DOMAIN table
                    THEN jbd2_revoke_entry_put(looked, b) ELSE table
        /\ client' = IF skip THEN client
                     ELSE [client EXCEPT
                              ![b] = Unescaped(journal.log[curr + nr].data)]
        /\ IF DescriptorDone(skip)
           THEN /\ Advance(jbd2_count_tags(blk) + 1)
                /\ pc' = "pass"
                /\ UNCHANGED nr
           ELSE /\ nr' = nr + 1
                /\ UNCHANGED <<journal, pc, phase, curr, info, status>>
        /\ UNCHANGED tid

\* The log block of a tag cannot be read, or its client block not written, which
\* a block that is not in the client file never is.
ReplayTagFails ==
    LET b == jbd2_tag_blocknr(tag)
    IN  /\ pc = "tag"
        /\ ~Revoked(table, b)
        /\ \/ ~CanRead(curr + nr)
           \/ b \notin FsBlk
           \/ Faults \cap {"read", "write"} # {}
        /\ EndPass("io_error")
        /\ UNCHANGED client

\* A commit block completes its transaction.
CommitBlock ==
    /\ AtBlock("commit")
    /\ info' = IF Scanning THEN [ri_end_txn |-> tid, ri_has_txn |-> TRUE] ELSE info
    /\ tid' = (tid + 1) % TidMod
    /\ curr' = jbd2_wrap(curr + 1)
    /\ UNCHANGED <<journal, pc, phase, nr, table, client, status>>

\* jbd2_scan_revoke_entries finds r_count too large, or so small that its loop
\* ends at once, or cannot allocate the first entry; what it returns is ignored.
InsertsNothing == blk.r_count # "fits" \/ "alloc" \in Faults

RevokeBlock ==
    /\ AtBlock("revoke")
    /\ Phases[phase] = "SCAN_REVOKE" => InsertsNothing
    /\ Advance(1)
    /\ UNCHANGED <<pc, tid, nr, table, client>>

\* The first entry is read from behind the common header, where r_count is, so
\* it may name any block.  jbd2_revoke_entry_get inserts it; RB_INSERT returns
\* NULL for a new entry, and the code frees the entry and writes through the
\* NULL pointer: the system stops.
jbd2_revoke_entry_get ==
    /\ AtBlock("revoke")
    /\ Phases[phase] = "SCAN_REVOKE"
    /\ blk.r_count = "fits"
    /\ \E b \in FsBlk : table' = [x \in {b} |-> [re_tid |-> tid, refs |-> 0]]
    /\ pc' = "bugcheck"
    /\ UNCHANGED <<journal, phase, curr, tid, info, nr, client, status>>

\* The switch has no case for a superblock: the loop reads it again.
SuperblockAgain ==
    /\ AtBlock("superblock")
    /\ UNCHANGED vars

Next ==
    \/ LastTransactionDone
    \/ ReadFails
    \/ NotALogBlock
    \/ DescriptorPassedOver
    \/ BlocksCsumFails
    \/ jbd2_replay_descr_block
    \/ ReplayTag
    \/ ReplayTagFails
    \/ CommitBlock
    \/ RevokeBlock
    \/ jbd2_revoke_entry_get
    \/ SuperblockAgain

Spec == Init /\ [][Next]_vars

\* Recovery is a loop in one thread: it goes on while it can.
FairSpec == Spec /\ WF_vars(Next)

-----------------------------------------------------------------------------
(* Properties.                                                             *)

\* Every variable of recovery has its type; a tag is replayed only while
\* recovery is at a descriptor block of its last pass.
TypeOK ==
    /\ journal \in Journals
    /\ pc \in {"pass", "tag", "returned", "bugcheck"}
    /\ phase \in DOMAIN Phases
    /\ curr \in Int
    /\ tid \in Tid
    /\ info \in [ri_end_txn : Tid, ri_has_txn : BOOLEAN]
    /\ nr \in Nat \ {0}
    /\ pc = "tag" => /\ Phases[phase] = "REPLAY"
                     /\ CanRead(curr)
                     /\ blk.type = "descriptor"
                     /\ nr \in DOMAIN blk.tags
    /\ DOMAIN table \subseteq FsBlk
    /\ \A b \in DOMAIN table : table[b] \in RevokeEntry
    /\ client \in [FsBlk -> Content \cup {Old}]
    /\ status \in Statuses

\* A log as its writer leaves it: it starts in the logging area, or is clean
\* (s_start is 0), and no descriptor block counts more tags than the area has
\* blocks besides it.
LogFits(j) ==
    /\ j.s_start \in {0} \cup jh_start .. jh_end
    /\ \A i \in LogBlk : j.log[i].type = "descriptor" =>
           jbd2_count_tags(j.log[i]) <= jh_end - jh_start

\* jbd2_wrap keeps recovery of such a log in the logging area: the superblock in
\* front of it is read only when the journal says it is clean.
InsideLog == LogFits(journal) => curr \in jh_start .. jh_end \/ curr = journal.s_start

\* The transactions from tid a up to tid b, with wrap-around.
TidsBetween(a, b) == {(a + k) % TidMod : k \in 0 .. (b - a) % TidMod}

\* SCAN stops before the first transaction that was not committed: a commit
\* block left from an earlier lap of the log, or one that is torn, is never
\* taken for the end of the log, and no transaction before the end is missing.
EndIsCommitted ==
    info.ri_has_txn =>
        TidsBetween(journal.s_sequence, info.ri_end_txn) \subseteq journal.committed

\* The numbers that jbd2_tag_blocknr reads as they were written: those whose
\* high word is 0 and whose low word has no sign bit.
Plain(n) == n \subseteq 0 .. WordBits - 2

\* What recovery has written to a client block is a copy of a block, complete
\* with its first word, logged by the oldest transaction in the log; when the
\* number of that block is plain, it is a copy of the very block it is in.
ClientBlocksFromTheirTags ==
    \A b \in FsBlk :
        client[b] # Old => /\ client[b] \in journal.logged
                           /\ client[b].tid = journal.s_sequence
                           /\ Plain(client[b].blk) => client[b].blk = b

\* Recovery of a journal comes to an end, by a return or by a write through a
\* NULL pointer (jbd2_revoke_entry_get), except for a clean one (s_start is 0)
\* whose next transaction has the same number as its superblock's header, 0.
RecoveryEnds ==
    (journal.s_start # 0 \/ journal.s_sequence # 0) ~> (pc \in {"returned", "bugcheck"})

\* jbd2.c:1036-1038: jbd2_replay_journal is to "Replay a journal file".  When it
\* has returned STATUS_SUCCESS, the newest committed copy of every block that no
\* later transaction revoked is in the client file.
SuccessMeansReplayed ==
    LET Age(t) == (t - journal.s_sequence) % TidMod
        Newest(c) ==
            /\ c.tid \in journal.committed
            /\ \A d \in journal.logged :
                   d.blk = c.blk /\ d.tid \in journal.committed => Age(d.tid) <= Age(c.tid)
            /\ \A r \in journal.revoked :
                   r[2] = c.blk /\ r[1] \in journal.committed => Age(r[1]) < Age(c.tid)
    IN  pc = "returned" /\ status = "success" =>
            \A c \in journal.logged : Newest(c) => client[c.blk] = c

=============================================================================
