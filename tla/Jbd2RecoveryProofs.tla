------------------------- MODULE Jbd2RecoveryProofs -------------------------
(***************************************************************************)
(* Recovery stays inside a log that fits, takes only a committed           *)
(* transaction for the end of the log and writes only logged copies to the *)
(* client file, those with plain numbers to the blocks they are copies of: *)
(* for a log of any length, any number of transaction ids, words of any    *)
(* number of bits and every journal that its writer can have left.         *)
(***************************************************************************)
EXTENDS Jbd2Recovery, FiniteSetTheorems, WellFoundedInduction, TLAPS

-----------------------------------------------------------------------------
(* Transaction numbers and log blocks.                                     *)

LEMMA ModType ==
    ASSUME NEW x \in Int
    PROVE  x % TidMod \in Tid
  BY ConstantsAssumption DEF Tid

\* The sum of two transaction numbers wraps at most once, and the distance of
\* the sum from the first one is the second.
LEMMA Distance ==
    ASSUME NEW s \in Tid, NEW k \in Tid
    PROVE  /\ (s + k) % TidMod = IF s + k < TidMod THEN s + k ELSE s + k - TidMod
           /\ (((s + k) % TidMod) - s) % TidMod = k
<1> USE ConstantsAssumption DEF Tid
<1>1. CASE s + k < TidMod
  <2>1. (s + k) % TidMod = s + k
    BY <1>1
  <2> QED
    BY <1>1, <2>1
<1>2. CASE s + k >= TidMod
  <2>1. (s + k) % TidMod = s + k - TidMod
    BY <1>2
  <2>2. (k - TidMod) % TidMod = k
    OBVIOUS
  <2> QED
    BY <1>2, <2>1, <2>2
<1> QED
  BY <1>1, <1>2

LEMMA NextTid ==
    ASSUME NEW s \in Tid, NEW k \in Tid, k + 1 \in Tid
    PROVE  (((s + k) % TidMod) + 1) % TidMod = (s + (k + 1)) % TidMod
<1> USE ConstantsAssumption DEF Tid
<1>1. (s + k) % TidMod = IF s + k < TidMod THEN s + k ELSE s + k - TidMod
  BY Distance
<1>2. (s + (k + 1)) % TidMod = IF s + (k + 1) < TidMod THEN s + (k + 1)
                                ELSE s + (k + 1) - TidMod
  <2>1. \A n \in Tid : (s + n) % TidMod = IF s + n < TidMod THEN s + n
                                          ELSE s + n - TidMod
    BY Distance
  <2> HIDE DEF Tid
  <2> QED
    BY ONLY <2>1, k + 1 \in Tid
<1>3. CASE s + k + 1 < TidMod
  <2>1. (s + k + 1) % TidMod = s + k + 1
    BY <1>3
  <2> QED
    BY <1>1, <1>3, <2>1
<1>4. CASE s + k + 1 = TidMod
  <2>1. TidMod % TidMod = 0
    OBVIOUS
  <2> QED
    BY <1>1, <1>2, <1>4, <2>1
<1>5. CASE s + k + 1 > TidMod
  <2>1. (s + k - TidMod + 1) % TidMod = s + k - TidMod + 1
    BY <1>5
  <2> QED
    BY <1>1, <1>2, <1>5, <2>1
<1> QED
  BY <1>3, <1>4, <1>5

\* A plain number of a block is read as it was written.
LEMMA PlainNumber ==
    ASSUME NEW t \in Tag, Plain(BlockNr(t))
    PROVE  jbd2_tag_blocknr(t) = BlockNr(t)
<1>1. WordBits \in Nat \ {0} /\ t.lo \subseteq 0 .. WordBits - 1
      /\ t.hi \subseteq 0 .. WordBits - 1
  BY ConstantsAssumption DEF Tag, Word
<1>2. \A i \in t.hi : WordBits + i \in 0 .. WordBits - 2
  BY DEF Plain, BlockNr
<1>3. t.hi = {}
  BY <1>1, <1>2
<1>4. BlockNr(t) = t.lo
  BY <1>3 DEF BlockNr
<1>5. WordBits - 1 \notin t.lo
  BY <1>1, <1>4 DEF Plain
<1> QED
  BY <1>3, <1>4, <1>5 DEF jbd2_tag_blocknr

\* jbd2_count_tags never counts more tags than there are.
LEMMA CountType ==
    ASSUME NEW b, IsBlock(b)
    PROVE  jbd2_count_tags(b) \in 0 .. Len(b.tags)
<1> DEFINE lasts == {i \in DOMAIN b.tags : b.tags[i].last}
           n     == Len(b.tags)
           Is(i) == i + 1 \in lasts /\ \A k \in lasts : i + 1 <= k
<1>1. n \in Nat /\ DOMAIN b.tags = 1 .. n
  BY DEF IsBlock
<1>2. CASE lasts = {}
  BY <1>1, <1>2, ConstantsAssumption DEF jbd2_count_tags
<1>3. CASE lasts # {}
  <2>1. \E m \in lasts : \A k \in lasts : m <= k
    <3>1. lasts \subseteq Nat
      BY <1>1
    <3>2. PICK m \in lasts : \A k \in lasts : ~ (<<k, m>> \in OpToRel(<, Nat))
      <4> HIDE DEF lasts
      <4> QED
        BY <1>3, <3>1, WFMin, NatLessThanWellFounded
    <3>3. \A k \in lasts : ~ (k < m)
      BY <3>1, <3>2 DEF OpToRel
    <3> QED
      BY <3>1, <3>3
  <2>2. PICK m \in lasts : \A k \in lasts : m <= k
    BY <2>1
  <2>3. m - 1 \in 0 .. n /\ Is(m - 1)
    BY <1>1, <2>2
  <2>4. jbd2_count_tags(b) = CHOOSE i \in 0 .. n : Is(i)
    BY <1>3 DEF jbd2_count_tags
  <2> HIDE DEF Is
  <2> QED
    BY <2>3, <2>4
<1> QED
  BY <1>2, <1>3

\* From a block of the logging area, jbd2_wrap leads to one of it.
LEMMA WrapInside ==
    ASSUME NEW b \in jh_start .. jh_end, NEW n \in 1 .. jh_end - jh_start + 1
    PROVE  jbd2_wrap(b + n) \in jh_start .. jh_end
  BY ConstantsAssumption DEF jbd2_wrap

-----------------------------------------------------------------------------
(* The inductive invariant.                                                *)

LogArea == jh_start .. jh_end

\* The revoke table is empty as long as the system runs: the first entry that
\* is put into it stops the system.
NothingRevoked == pc # "bugcheck" => DOMAIN table = {}

\* The passes after SCAN know nothing of what SCAN has found.
Forgotten == phase > 1 => info = NoInfo

\* So they look at a block only while the number of the transaction is 0, which
\* it is only if it was 0 from the start.
OnlyNumberZero == phase > 1 /\ tid = 0 => journal.s_sequence = 0

\* While the tags of a descriptor block are replayed, it is a block that was
\* accepted, and LAST_TAG is not among the tags that were replayed.
AtTag ==
    pc = "tag" =>
        /\ phase = 3
        /\ tid = 0
        /\ CanRead(curr)
        /\ Accepted
        /\ blk.type = "descriptor"
        /\ nr \in TagsInUse(blk)

\* Block i of the log is an accepted commit block of transaction t.
CommitOf(i, t) ==
    LET b == journal.log[i]
    IN  b.type = "commit" /\ b.seq = t /\ jbd2_verify_block_csum(b)

\* SCAN has passed k commit blocks, which have the numbers from s_sequence on,
\* so they are different blocks, no more than the log has.
Scanned(k) ==
    /\ tid = (journal.s_sequence + k) % TidMod
    /\ \A d \in 0 .. k - 1 :
           \E i \in LogBlk : CommitOf(i, (journal.s_sequence + d) % TidMod)
    /\ info.ri_has_txn =>
           k > 0 /\ info.ri_end_txn = (journal.s_sequence + (k - 1)) % TidMod
ScanInv == phase = 1 => \E k \in 0 .. jh_end + 1 : Scanned(k)

RecoveryInv ==
    /\ TypeOK
    /\ InsideLog
    /\ NothingRevoked
    /\ Forgotten
    /\ OnlyNumberZero
    /\ AtTag
    /\ ScanInv
    /\ ClientBlocksFromTheirTags

-----------------------------------------------------------------------------
(* What the invariant says of the block that recovery is at.               *)

LEMMA PhaseNames ==
    ASSUME TypeOK
    PROVE  /\ phase \in 1 .. 3
           /\ Scanning <=> phase = 1
           /\ Phases[phase] = "SCAN_REVOKE" <=> phase = 2
           /\ Phases[phase] = "REPLAY" <=> phase = 3
           /\ Len(Phases) = 3
  BY DEF TypeOK, Phases, Scanning

LEMMA JournalFacts ==
    ASSUME TypeOK
    PROVE  /\ journal \in Journals
           /\ journal.s_start \in Int
           /\ journal.s_sequence \in Tid
           /\ \A i \in LogBlk : IsBlock(journal.log[i])
           /\ journal.log[0].type = "superblock"
           /\ journal.logged \subseteq Content
           /\ LogArea \subseteq LogBlk
           /\ 0 \in Tid /\ 1 \in Tid
<1>1. journal \in Journals /\ IsJournal(journal)
  BY ConstantsAssumption DEF TypeOK
<1>2. LogArea \subseteq LogBlk /\ 0 \in LogBlk /\ 0 \in Tid /\ 1 \in Tid
  BY ConstantsAssumption DEF LogArea, LogBlk, Tid
<1> QED
  BY <1>1, <1>2 DEF IsJournal, LogArea

\* The next block is an integer further, whatever the descriptor counts.
LEMMA NextPosition ==
    ASSUME TypeOK, NEW n \in Nat
    PROVE  jbd2_wrap(curr + (n + 1)) \in Int
  BY ConstantsAssumption DEF TypeOK, jbd2_wrap

\* A block of a log that fits, other than the superblock, is in the logging area.
LEMMA AtLogArea ==
    ASSUME TypeOK, InsideLog, CanRead(curr), LogFits(journal), blk.type # "superblock"
    PROVE  curr \in LogArea
  BY JournalFacts DEF InsideLog, LogFits, blk, LogArea

\* A step over n tags stays in the area, if the log fits.
LEMMA StepInside ==
    ASSUME TypeOK, InsideLog, CanRead(curr), blk.type # "superblock", NEW n \in Nat,
           LogFits(journal) => n <= jh_end - jh_start
    PROVE  LogFits(journal) => jbd2_wrap(curr + (n + 1)) \in LogArea
<1> SUFFICES ASSUME LogFits(journal) PROVE jbd2_wrap(curr + (n + 1)) \in LogArea
  OBVIOUS
<1>1. n + 1 \in 1 .. jh_end - jh_start + 1
  BY ConstantsAssumption
<1> QED
  BY <1>1, AtLogArea, WrapInside DEF LogArea

\* What jbd2_count_tags counts at a descriptor block is such a number of tags.
LEMMA CountHere ==
    ASSUME TypeOK, CanRead(curr), blk.type = "descriptor"
    PROVE  /\ jbd2_count_tags(blk) \in Nat
           /\ LogFits(journal) => jbd2_count_tags(blk) <= jh_end - jh_start
<1>1. curr \in LogBlk /\ IsBlock(blk) /\ Len(blk.tags) \in Nat
  BY JournalFacts DEF CanRead, blk, IsBlock
<1>2. jbd2_count_tags(blk) \in 0 .. Len(blk.tags)
  BY <1>1, CountType
<1> QED
  BY <1>1, <1>2 DEF LogFits, blk

\* After SCAN a pass goes on only while the number of its transaction is 0.
LEMMA OnlyZeroGoesOn ==
    ASSUME TypeOK, Forgotten, phase > 1, ~ PastEnd
    PROVE  tid = 0
<1>1. info.ri_end_txn = 0 /\ ~ Scanning
  BY PhaseNames DEF Forgotten, NoInfo
<1>2. tid \in 0 .. TidMod - 1 /\ TidMod \in Nat
  BY ConstantsAssumption DEF TypeOK, Tid
<1>3. (tid - 0) % TidMod = tid
  BY <1>2
<1> QED
  BY <1>1, <1>2, <1>3 DEF PastEnd, jbd2_tid_cmp

-----------------------------------------------------------------------------
(* One lemma per action, or kind of action.                                *)

LEMMA InitStep == Init => RecoveryInv
<1> SUFFICES ASSUME Init PROVE RecoveryInv
  OBVIOUS
<1>1. /\ journal \in Journals
      /\ IsJournal(journal)
  BY ConstantsAssumption DEF Init
<1>2. journal.s_start \in Int /\ journal.s_sequence \in Tid
  BY <1>1 DEF IsJournal
<1>3. 0 \in Tid
  BY ConstantsAssumption DEF Tid
<1>4. TypeOK
  <2>1. info \in [ri_end_txn : Tid, ri_has_txn : BOOLEAN]
    BY <1>3 DEF Init, NoInfo
  <2>2. DOMAIN table \subseteq FsBlk /\ \A b \in DOMAIN table : table[b] \in RevokeEntry
    BY DEF Init
  <2> QED
    BY <1>1, <1>2, <2>1, <2>2 DEF Init, TypeOK, Phases, Statuses
<1>5. ScanInv
  <2>1. (journal.s_sequence + 0) % TidMod = journal.s_sequence
    BY <1>2, ConstantsAssumption DEF Tid
  <2>2. Scanned(0)
    BY <2>1 DEF Scanned, Init, NoInfo
  <2>3. 0 \in 0 .. jh_end + 1
    BY ConstantsAssumption
  <2> QED
    BY <2>2, <2>3 DEF ScanInv
<1>6. NothingRevoked
  BY DEF Init, NothingRevoked
<1>7. ClientBlocksFromTheirTags
  BY DEF Init, ClientBlocksFromTheirTags
<1> QED
  BY <1>4, <1>5, <1>6, <1>7
  DEF Init, RecoveryInv, InsideLog, Forgotten, OnlyNumberZero, AtTag

\* A pass ends: the next one starts from the superblock, or recovery returns.
LEMMA EndPassStep ==
    ASSUME RecoveryInv, NEW st \in Statuses, pc \in {"pass", "tag"},
           EndPass(st), client' = client
    PROVE  RecoveryInv'
<1> USE DEF RecoveryInv
<1>1. journal' = journal /\ nr' = nr
  BY DEF EndPass
<1>2. DOMAIN table = {}
  BY DEF NothingRevoked
<1>3. ClientBlocksFromTheirTags'
  BY <1>1 DEF ClientBlocksFromTheirTags
<1>4. CASE st = "success" \/ phase = Len(Phases)
  <2>1. /\ pc' = "returned" /\ status' = st
        /\ table' = jbd2_revoke_table_clear(table)
        /\ phase' = phase /\ curr' = curr /\ tid' = tid /\ info' = info
    BY <1>4 DEF EndPass
  <2>2. DOMAIN table' = {}
    BY <1>2, <2>1 DEF jbd2_revoke_table_clear
  <2>3. TypeOK'
    BY <1>1, <2>1, <2>2 DEF TypeOK
  <2>4. InsideLog' /\ NothingRevoked' /\ Forgotten' /\ OnlyNumberZero' /\ AtTag'
    BY <1>1, <2>1, <2>2
    DEF InsideLog, NothingRevoked, Forgotten, OnlyNumberZero, AtTag
  <2>5. ScanInv'
    BY <1>1, <2>1 DEF ScanInv, Scanned, CommitOf, jbd2_verify_block_csum
  <2> QED
    BY <1>3, <2>3, <2>4, <2>5
<1>5. CASE ~ (st = "success" \/ phase = Len(Phases))
  <2>1. /\ pc' = "pass" /\ status' = status /\ table' = table
        /\ phase' = phase + 1 /\ curr' = journal.s_start
        /\ tid' = journal.s_sequence /\ info' = NoInfo
    BY <1>5 DEF EndPass
  <2>2. phase \in 1 .. 2
    BY <1>5, PhaseNames
  <2>3. TypeOK'
    <3>1. info' \in [ri_end_txn : Tid, ri_has_txn : BOOLEAN]
      BY <2>1, JournalFacts DEF NoInfo
    <3>2. phase' \in DOMAIN Phases
      BY <2>1, <2>2 DEF Phases
    <3> QED
      BY <1>1, <2>1, <3>1, <3>2, JournalFacts DEF TypeOK
  <2>4. InsideLog' /\ NothingRevoked' /\ Forgotten' /\ OnlyNumberZero' /\ AtTag'
    BY <1>1, <1>2, <2>1
    DEF InsideLog, NothingRevoked, Forgotten, OnlyNumberZero, AtTag
  <2>5. ScanInv'
    BY <2>1, <2>2 DEF ScanInv
  <2> QED
    BY <1>3, <2>3, <2>4, <2>5
<1> QED
  BY <1>4, <1>5

\* A descriptor or revoke block is passed over.
LEMMA AdvanceStep ==
    ASSUME RecoveryInv, pc = "pass", CanRead(curr), blk.type # "superblock",
           NEW n \in Nat, LogFits(journal) => n <= jh_end - jh_start, Advance(n + 1),
           UNCHANGED <<pc, tid, nr, table, client>>
    PROVE  RecoveryInv'
<1> USE DEF RecoveryInv
<1>1. curr' \in Int /\ (LogFits(journal) => curr' \in LogArea)
  BY StepInside, NextPosition DEF Advance
<1>2. UNCHANGED <<journal, phase, info, status, pc, tid, nr, table, client>>
  BY DEF Advance
<1>3. TypeOK'
  BY <1>1, <1>2, JournalFacts DEF TypeOK
<1>4. /\ InsideLog' /\ NothingRevoked' /\ Forgotten' /\ OnlyNumberZero' /\ AtTag'
      /\ ClientBlocksFromTheirTags'
  BY <1>1, <1>2 DEF InsideLog, LogArea, NothingRevoked, Forgotten, OnlyNumberZero,
                    AtTag, ClientBlocksFromTheirTags
<1>5. ScanInv'
  BY <1>2 DEF ScanInv, Scanned, CommitOf, jbd2_verify_block_csum
<1> QED
  BY <1>3, <1>4, <1>5

\* REPLAY comes to a descriptor block, which has a first tag.
LEMMA ReplayStartStep ==
    ASSUME RecoveryInv, jbd2_replay_descr_block
    PROVE  RecoveryInv'
<1> USE DEF RecoveryInv
<1>1. /\ pc = "pass" /\ ~ PastEnd /\ Accepted /\ blk.type = "descriptor"
      /\ CanRead(curr) /\ phase = 3 /\ nr' = 1 /\ pc' = "tag"
      /\ UNCHANGED <<journal, phase, curr, tid, info, table, client, status>>
  BY PhaseNames DEF jbd2_replay_descr_block, AtBlock
<1>2. tid = 0
  BY <1>1, OnlyZeroGoesOn
<1>3. 1 \in DOMAIN blk.tags /\ 1 \in TagsInUse(blk)
  <2>1. blk.tags \in Seq(Tag) /\ blk.tags # << >>
    BY <1>1, JournalFacts DEF CanRead, blk, IsBlock
  <2>2. 1 \in DOMAIN blk.tags
    BY <2>1
  <2> QED
    BY <2>2 DEF TagsInUse
<1>4. blk' = blk /\ (Accepted <=> Accepted')
  BY <1>1 DEF blk, Accepted, OfThisTxn, jbd2_verify_metadata_block,
              jbd2_verify_block_csum
<1>5. TypeOK'
  <2>1. (Phases[phase] = "REPLAY")'
    BY <1>1, PhaseNames
  <2> QED
    BY <1>1, <1>3, <1>4, <2>1 DEF TypeOK
<1>6. /\ InsideLog' /\ NothingRevoked' /\ Forgotten' /\ OnlyNumberZero'
      /\ ClientBlocksFromTheirTags'
  BY <1>1 DEF InsideLog, NothingRevoked, Forgotten, OnlyNumberZero,
              ClientBlocksFromTheirTags
<1>7. AtTag'
  BY <1>1, <1>2, <1>3, <1>4 DEF AtTag
<1>8. ScanInv'
  BY <1>1 DEF ScanInv
<1> QED
  BY <1>5, <1>6, <1>7, <1>8

\* The copy behind tag nr goes to the block that the tag names.
LEMMA ReplayTagStep ==
    ASSUME RecoveryInv, ReplayTag
    PROVE  RecoveryInv'
<1> USE DEF RecoveryInv
<1> DEFINE copy == journal.log[curr + nr].data
           b == jbd2_tag_blocknr(tag)
           goesOn == ~ (tag.last \/ nr = Len(blk.tags))
<1>1. /\ pc = "tag" /\ phase = 3 /\ tid = 0 /\ CanRead(curr) /\ Accepted
      /\ blk.type = "descriptor" /\ nr \in TagsInUse(blk)
      /\ DOMAIN table = {} /\ tid' = tid
  BY DEF ReplayTag, AtTag, NothingRevoked
<1>2. ~ Revoked(table, b) /\ b \notin DOMAIN table
  BY <1>1 DEF Revoked
<1>3. /\ CanRead(curr + nr)
      /\ b \in FsBlk
      /\ table' = table
      /\ client' = [client EXCEPT ![b] = Unescaped(copy)]
  BY <1>2 DEF ReplayTag
<1>4. /\ journal' = journal /\ phase' = phase /\ info' = info
      /\ status' = status
  BY DEF ReplayTag, Advance
<1>5. curr \in LogBlk /\ blk.tags \in Seq(Tag) /\ nr \in DOMAIN blk.tags
  BY <1>1, JournalFacts DEF CanRead, blk, IsBlock, TagsInUse
<1>6. tag \in Tag
  BY <1>5 DEF tag
<1>7. /\ Unescaped(copy) \in journal.logged
      /\ Unescaped(copy).blk = BlockNr(tag)
      /\ Unescaped(copy).tid = journal.s_sequence
  <2>1. CopiesFollowTags(journal)
    BY JournalFacts, WriterAssumption
  <2>2. blk.seq = journal.s_sequence
    BY <1>1 DEF OnlyNumberZero, Accepted, OfThisTxn
  <2>3. journal.csum => blk.sum
    BY <1>1 DEF Accepted, jbd2_verify_block_csum
  <2>4. curr + nr \in LogBlk
    BY <1>3 DEF CanRead
  <2>5. /\ copy.tid = blk.seq
        /\ copy.blk = BlockNr(tag)
        /\ (IF tag.escape THEN [copy EXCEPT !.magic = TRUE] ELSE copy)
              \in journal.logged
    BY <1>1, <1>5, <2>1, <2>2, <2>3, <2>4 DEF CopiesFollowTags, blk, tag
  <2>6. copy \in Content \cup {Old}
    BY <2>4, JournalFacts DEF IsBlock
  <2>7. /\ [copy EXCEPT !.magic = TRUE].tid = copy.tid
        /\ [copy EXCEPT !.magic = TRUE].blk = copy.blk
    BY <2>6 DEF Content, Old
  <2> QED
    BY <2>2, <2>5, <2>7 DEF Unescaped
<1>8. client' \in [FsBlk -> Content \cup {Old}]
  BY <1>3, <1>7, JournalFacts DEF TypeOK
<1>9. ClientBlocksFromTheirTags'
  <2>1. Plain(BlockNr(tag)) => BlockNr(tag) = b
    BY <1>6, PlainNumber
  <2> HIDE DEF b, copy
  <2>2. \A x \in FsBlk : client'[x] = IF x = b THEN Unescaped(copy) ELSE client[x]
    BY <1>3 DEF TypeOK
  <2> QED
    BY <1>4, <1>7, <2>1, <2>2 DEF ClientBlocksFromTheirTags
<1>10. CASE ~ goesOn
  <2>1. Advance(jbd2_count_tags(blk) + 1) /\ pc' = "pass" /\ nr' = nr
    BY <1>2, <1>10 DEF ReplayTag, DescriptorDone
  <2>2. /\ jbd2_count_tags(blk) \in Nat
        /\ LogFits(journal) => jbd2_count_tags(blk) <= jh_end - jh_start
    BY <1>1, CountHere
  <2>3. curr' \in Int /\ (LogFits(journal) => curr' \in LogArea)
    BY <1>1, <2>1, <2>2, StepInside, NextPosition DEF Advance
  <2>4. TypeOK'
    BY <1>1, <1>3, <1>4, <1>8, <2>1, <2>3, JournalFacts DEF TypeOK
  <2>5. /\ InsideLog' /\ NothingRevoked' /\ Forgotten' /\ OnlyNumberZero' /\ AtTag'
        /\ ScanInv'
    BY <1>1, <1>3, <1>4, <2>1, <2>3
    DEF InsideLog, LogArea, NothingRevoked, Forgotten, OnlyNumberZero, AtTag, ScanInv
  <2> QED
    BY <1>9, <2>4, <2>5
<1>11. CASE goesOn
  <2>1. nr' = nr + 1 /\ pc' = pc /\ curr' = curr
    BY <1>2, <1>11 DEF ReplayTag, DescriptorDone
  <2>2. blk' = blk /\ (Accepted <=> Accepted')
    BY <1>1, <1>4, <2>1 DEF blk, Accepted, OfThisTxn, jbd2_verify_metadata_block,
                            jbd2_verify_block_csum
  <2>3. nr + 1 \in DOMAIN blk.tags /\ nr + 1 \in Nat \ {0}
    BY <1>5, <1>11
  <2>4. nr + 1 \in TagsInUse(blk)
    BY <1>1, <1>5, <1>11, <2>3 DEF TagsInUse, tag
  <2>5. TypeOK'
    BY <1>1, <1>3, <1>4, <1>8, <2>1, <2>2, <2>3 DEF TypeOK
  <2>6. AtTag'
    BY <1>1, <1>4, <2>1, <2>2, <2>4 DEF AtTag
  <2>7. InsideLog' /\ NothingRevoked' /\ Forgotten' /\ OnlyNumberZero' /\ ScanInv'
    BY <1>1, <1>3, <1>4, <2>1
    DEF InsideLog, NothingRevoked, Forgotten, OnlyNumberZero, ScanInv
  <2> QED
    BY <1>9, <2>5, <2>6, <2>7
<1> QED
  BY <1>10, <1>11

\* A commit block: SCAN has never passed more of them than the log has blocks,
\* since their numbers are different.
LEMMA ScanCommitStep ==
    ASSUME RecoveryInv, CommitBlock, phase = 1
    PROVE  ScanInv'
<1> USE DEF RecoveryInv
<1>1. /\ blk.type = "commit" /\ Accepted /\ CanRead(curr)
      /\ info' = [ri_end_txn |-> tid, ri_has_txn |-> TRUE]
      /\ tid' = (tid + 1) % TidMod /\ journal' = journal
  BY PhaseNames DEF CommitBlock, AtBlock
<1>2. PICK k \in 0 .. jh_end + 1 : Scanned(k)
  BY DEF ScanInv
<1> DEFINE s == journal.s_sequence
           N == jh_end + 1
           Num(d) == (s + d) % TidMod
<1>3. s \in Tid /\ curr \in LogBlk
  BY <1>1, JournalFacts DEF CanRead
<1>4. N \in Nat /\ N < TidMod /\ k \in Nat /\ k <= N /\ TidMod \in Nat
  BY ConstantsAssumption
<1>5. tid = Num(k)
  BY <1>2 DEF Scanned
<1>6. CommitOf(curr, Num(k))
  BY <1>1, <1>5 DEF CommitOf, Accepted, OfThisTxn, blk
<1>7. \A d \in 0 .. k : \E i \in LogBlk : CommitOf(i, Num(d))
  <2> SUFFICES ASSUME NEW d \in 0 .. k
               PROVE  \E i \in LogBlk : CommitOf(i, Num(d))
    OBVIOUS
  <2>1. CASE d = k
    BY <1>3, <1>6, <2>1
  <2>2. CASE d # k
    <3>1. d \in 0 .. k - 1
      BY <1>4, <2>2
    <3> QED
      BY <1>2, <3>1 DEF Scanned
  <2> QED
    BY <2>1, <2>2
<1>8. \A d, e \in 0 .. k : Num(d) = Num(e) => d = e
  <2> SUFFICES ASSUME NEW d \in 0 .. k, NEW e \in 0 .. k, Num(d) = Num(e)
               PROVE  d = e
    OBVIOUS
  <2>1. d \in Tid /\ e \in Tid
    BY <1>4 DEF Tid
  <2>2. (Num(d) - s) % TidMod = d /\ (Num(e) - s) % TidMod = e
    BY <1>3, <2>1, Distance
  <2> QED
    BY <2>2
<1>9. k + 1 <= N
  <2> DEFINE f == [d \in 0 .. k |-> CHOOSE i \in LogBlk : CommitOf(i, Num(d))]
  <2>1. \A d \in 0 .. k : f[d] \in LogBlk /\ CommitOf(f[d], Num(d))
    <3> HIDE DEF CommitOf, Num
    <3> QED
      BY <1>7
  <2>2. \A d, e \in 0 .. k : f[d] = f[e] => d = e
    <3> SUFFICES ASSUME NEW d \in 0 .. k, NEW e \in 0 .. k, f[d] = f[e]
                 PROVE  d = e
      OBVIOUS
    <3>1. Num(d) = Num(e)
      BY <2>1 DEF CommitOf
    <3> QED
      BY <1>8, <3>1
  <2>3. f \in Injection(0 .. k, LogBlk)
    <3> HIDE DEF Num
    <3>1. f \in [0 .. k -> LogBlk]
      BY <2>1
    <3> HIDE DEF f
    <3> QED
      BY <2>2, <3>1 DEF Injection, IsInjective
  <2>4. IsFiniteSet(LogBlk) /\ Cardinality(LogBlk) = N
    BY ConstantsAssumption, FS_Interval DEF LogBlk
  <2>5. Cardinality(0 .. k) = k + 1
    BY <1>4, FS_Interval
  <2>6. Cardinality(0 .. k) <= Cardinality(LogBlk)
    <3> HIDE DEF f
    <3> QED
      BY <2>3, <2>4, FS_Injection
  <2> QED
    BY <2>4, <2>5, <2>6
<1>10. tid' = Num(k + 1)
  <2>1. k \in Tid /\ k + 1 \in Tid
    BY <1>4, <1>9 DEF Tid
  <2> QED
    BY <1>1, <1>3, <1>5, <2>1, NextTid
<1>11. Scanned(k + 1)'
  <2>1. \A i, t : CommitOf(i, t)' <=> CommitOf(i, t)
    BY <1>1 DEF CommitOf, jbd2_verify_block_csum
  <2>2. \A d \in 0 .. (k + 1) - 1 : \E i \in LogBlk : CommitOf(i, Num(d))'
    <3> SUFFICES ASSUME NEW d \in 0 .. (k + 1) - 1
                 PROVE  \E i \in LogBlk : CommitOf(i, Num(d))'
      OBVIOUS
    <3>1. d \in 0 .. k
      BY <1>4
    <3>2. PICK i \in LogBlk : CommitOf(i, Num(d))
      BY <1>7, <3>1
    <3>3. CommitOf(i, Num(d))'
      BY <1>1, <2>1, <3>2
    <3> QED
      BY <3>3
  <2>3. k + 1 > 0 /\ (k + 1) - 1 = k
    BY <1>4
  <2>4. info'.ri_end_txn = Num((k + 1) - 1)
    BY <1>1, <1>5, <2>3
  <2> QED
    BY <1>1, <1>10, <2>2, <2>3, <2>4 DEF Scanned
<1> QED
  BY <1>4, <1>9, <1>11 DEF ScanInv

LEMMA CommitStep ==
    ASSUME RecoveryInv, CommitBlock
    PROVE  RecoveryInv'
<1> USE DEF RecoveryInv
<1>1. /\ pc = "pass" /\ ~ PastEnd /\ CanRead(curr) /\ blk.type = "commit"
      /\ tid' = (tid + 1) % TidMod /\ curr' = jbd2_wrap(curr + 1)
      /\ UNCHANGED <<journal, pc, phase, nr, table, client, status>>
  BY DEF CommitBlock, AtBlock
<1>2. curr' \in Int /\ (LogFits(journal) => curr' \in LogArea)
  <2>1. curr' = jbd2_wrap(curr + (0 + 1))
    BY <1>1
  <2>2. 0 \in Nat /\ 0 <= jh_end - jh_start
    BY ConstantsAssumption
  <2> QED
    BY <1>1, <2>1, <2>2, StepInside, NextPosition
<1>3. tid' \in Tid
  <2>1. tid + 1 \in Int
    BY ConstantsAssumption DEF TypeOK, Tid
  <2> QED
    BY <1>1, <2>1, ModType
<1>4. TypeOK'
  <2>1. info' \in [ri_end_txn : Tid, ri_has_txn : BOOLEAN]
    BY DEF CommitBlock, TypeOK
  <2> QED
    BY <1>1, <1>2, <1>3, <2>1, JournalFacts DEF TypeOK, CommitBlock
<1>5. Forgotten'
  BY <1>1, PhaseNames DEF Forgotten, CommitBlock
<1>6. OnlyNumberZero'
  <2> SUFFICES ASSUME phase > 1 PROVE tid' # 0
    BY <1>1 DEF OnlyNumberZero
  <2>1. tid = 0
    BY <1>1, OnlyZeroGoesOn
  <2>2. (0 + 1) % TidMod = 1
    BY ConstantsAssumption
  <2> QED
    BY <1>1, <2>1, <2>2
<1>7. ScanInv'
  BY <1>1, ScanCommitStep DEF ScanInv
<1>8. InsideLog' /\ NothingRevoked' /\ AtTag' /\ ClientBlocksFromTheirTags'
  BY <1>1, <1>2 DEF InsideLog, LogArea, NothingRevoked, AtTag, ClientBlocksFromTheirTags
<1> QED
  BY <1>4, <1>5, <1>6, <1>7, <1>8

\* The first revoke entry stops the system.
LEMMA RevokeEntryStep ==
    ASSUME RecoveryInv, jbd2_revoke_entry_get
    PROVE  RecoveryInv'
<1> USE DEF RecoveryInv
<1>1. /\ pc' = "bugcheck"
      /\ UNCHANGED <<journal, phase, curr, tid, info, nr, client, status>>
  BY DEF jbd2_revoke_entry_get
<1>2. PICK b \in FsBlk : table' = [x \in {b} |-> [re_tid |-> tid, refs |-> 0]]
  BY DEF jbd2_revoke_entry_get
<1>3. DOMAIN table' \subseteq FsBlk /\ \A x \in DOMAIN table' : table'[x] \in RevokeEntry
  BY <1>2 DEF RevokeEntry, TypeOK
<1>4. TypeOK'
  BY <1>1, <1>3 DEF TypeOK
<1>5. /\ InsideLog' /\ NothingRevoked' /\ Forgotten' /\ OnlyNumberZero' /\ AtTag'
      /\ ClientBlocksFromTheirTags'
  BY <1>1 DEF InsideLog, NothingRevoked, Forgotten, OnlyNumberZero, AtTag,
              ClientBlocksFromTheirTags
<1>6. ScanInv'
  BY <1>1 DEF ScanInv, Scanned, CommitOf, jbd2_verify_block_csum
<1> QED
  BY <1>4, <1>5, <1>6

LEMMA NextStep ==
    ASSUME RecoveryInv, [Next]_vars
    PROVE  RecoveryInv'
<1> USE DEF RecoveryInv
<1>1. ASSUME NEW st \in Statuses, pc \in {"pass", "tag"}, EndPass(st), client' = client
      PROVE  RecoveryInv'
  BY <1>1, EndPassStep
<1>2. CASE LastTransactionDone
  BY <1>1, <1>2 DEF LastTransactionDone, Statuses
<1>3. CASE ReadFails
  BY <1>1, <1>3 DEF ReadFails, Statuses
<1>4. CASE NotALogBlock
  <2>1. (IF Scanning THEN "success" ELSE "corrupt") \in Statuses
    BY DEF Statuses
  <2> QED
    BY <1>1, <1>4, <2>1 DEF NotALogBlock
<1>5. CASE DescriptorPassedOver
  <2>1. /\ jbd2_count_tags(blk) \in Nat
        /\ LogFits(journal) => jbd2_count_tags(blk) <= jh_end - jh_start
    BY <1>5, CountHere DEF DescriptorPassedOver, AtBlock
  <2> QED
    BY <1>5, <2>1, AdvanceStep DEF DescriptorPassedOver, AtBlock
<1>6. CASE BlocksCsumFails
  <2>1. PICK st \in jbd2_blocks_csum_verify(blk) \ {"success"} : EndPass(st)
    BY <1>6 DEF BlocksCsumFails
  <2>2. st \in Statuses
    BY <2>1 DEF jbd2_blocks_csum_verify, PastLastTag, Statuses
  <2> QED
    BY <1>1, <1>6, <2>1, <2>2 DEF BlocksCsumFails, AtBlock
<1>7. CASE jbd2_replay_descr_block
  BY <1>7, ReplayStartStep
<1>8. CASE ReplayTag
  BY <1>8, ReplayTagStep
<1>9. CASE ReplayTagFails
  BY <1>1, <1>9 DEF ReplayTagFails, Statuses
<1>10. CASE CommitBlock
  BY <1>10, CommitStep
<1>11. CASE RevokeBlock
  <2>1. 0 \in Nat /\ 0 <= jh_end - jh_start /\ Advance(0 + 1)
    BY <1>11, ConstantsAssumption DEF RevokeBlock
  <2> QED
    BY <1>11, <2>1, AdvanceStep DEF RevokeBlock, AtBlock
<1>12. CASE jbd2_revoke_entry_get
  BY <1>12, RevokeEntryStep
<1>13. CASE UNCHANGED vars
  <2>1. TypeOK'
    BY <1>13 DEF vars, TypeOK, blk
  <2>2. AtTag' /\ ScanInv'
    BY <1>13 DEF vars, AtTag, ScanInv, Scanned, CommitOf, jbd2_verify_block_csum,
                 blk, Accepted, OfThisTxn, jbd2_verify_metadata_block, TagsInUse
  <2> QED
    BY <1>13, <2>1, <2>2
    DEF vars, InsideLog, NothingRevoked, Forgotten, OnlyNumberZero,
        ClientBlocksFromTheirTags
<1> QED
  BY <1>2, <1>3, <1>4, <1>5, <1>6, <1>7, <1>8, <1>9, <1>10, <1>11, <1>12, <1>13
  DEF Next, SuperblockAgain

\* The invariant holds in every state of every recovery.
THEOREM RecoveryInvariance == Spec => []RecoveryInv
  BY InitStep, NextStep, PTL DEF Spec

-----------------------------------------------------------------------------
(* What recovery guarantees.                                               *)

\* The locals of jbd2_replay_one_pass and of jbd2_replay_descr_block keep their
\* types, and a tag is replayed only at a descriptor block of the last pass.
THEOREM RecoveryTypes == Spec => []TypeOK
<1>1. RecoveryInv => TypeOK
  BY DEF RecoveryInv
<1> QED
  BY <1>1, RecoveryInvariance, PTL

\* jbd2_wrap keeps curr_blocknr inside the logging area, when the log starts in
\* it and no descriptor block on the way counts more tags than it has room for:
\* the code goes back by one length of the log only and checks neither.
THEOREM RecoveryStaysInside == Spec => []InsideLog
<1>1. RecoveryInv => InsideLog
  BY DEF RecoveryInv
<1> QED
  BY <1>1, RecoveryInvariance, PTL

\* SCAN takes for the end of the log a committed transaction only, and none
\* before it is missing.  A commit block of an earlier lap is never reached
\* with its own number: the numbers of the commit blocks that SCAN passes are
\* different, so there are no more of them than the log has blocks, and fewer
\* than it takes for a number to come round again.
THEOREM ScanEndsAtCommitted == Spec => []EndIsCommitted
<1>1. RecoveryInv => EndIsCommitted
  <2> SUFFICES ASSUME RecoveryInv, info.ri_has_txn,
                      NEW t \in TidsBetween(journal.s_sequence, info.ri_end_txn)
               PROVE  t \in journal.committed
    BY DEF EndIsCommitted
  <2> DEFINE s == journal.s_sequence
             N == jh_end + 1
  <2>1. TypeOK /\ phase = 1
    BY PhaseNames DEF RecoveryInv, Forgotten, NoInfo
  <2>2. PICK k \in 0 .. N : Scanned(k)
    BY <2>1 DEF RecoveryInv, ScanInv
  <2>3. k > 0 /\ info.ri_end_txn = (s + (k - 1)) % TidMod
    BY <2>2 DEF Scanned
  <2>4. s \in Tid /\ NumberedInOrder(journal)
    BY <2>1, JournalFacts, WriterAssumption
  <2>5. k \in Nat /\ N \in Nat /\ N < TidMod /\ TidMod \in Nat
    BY ConstantsAssumption
  <2>6. \A d \in 0 .. k - 1 : d \in Tid /\ d <= jh_end
    BY <2>5, ConstantsAssumption DEF Tid
  <2>7. \A d \in 0 .. k - 1 : (((s + d) % TidMod) - s) % TidMod = d
    BY <2>4, <2>6, Distance
  <2>8. (info.ri_end_txn - s) % TidMod = k - 1
    BY <2>3, <2>5, <2>7
  <2>9. PICK d \in 0 .. k - 1 : t = (s + d) % TidMod
    BY <2>8 DEF TidsBetween
  <2>10. PICK i \in LogBlk : CommitOf(i, t)
    BY <2>2, <2>9 DEF Scanned
  <2>11. (t - s) % TidMod <= jh_end
    BY <2>6, <2>7, <2>9
  <2> QED
    BY <2>4, <2>10, <2>11
    DEF NumberedInOrder, CommitOf, jbd2_verify_block_csum
<1> QED
  BY <1>1, RecoveryInvariance, PTL

\* What jbd2_replay_descr_block has written to a client block is a copy that the
\* oldest transaction logged, with its first word given back.  It is a copy of
\* that very block when its number fits in a word without the sign bit: others
\* are not what jbd2_tag_blocknr makes of them.
THEOREM ReplayWritesLoggedCopies == Spec => []ClientBlocksFromTheirTags
<1>1. RecoveryInv => ClientBlocksFromTheirTags
  BY DEF RecoveryInv
<1> QED
  BY <1>1, RecoveryInvariance, PTL

=============================================================================
