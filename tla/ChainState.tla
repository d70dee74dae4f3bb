----------------------------- MODULE ChainState -----------------------------
(***************************************************************************)
(* The node's chain state: the candidate (header) chain, the confirmed     *)
(* (block) chain, the block database, the header MMR, the TxHashSet and    *)
(* the orphan pool, with the operations of BlockChain that change them.    *)
(*                                                                         *)
(* Every operation takes the ChainState lock for one or more sections; a   *)
(* section is one action here, and threads interleave between sections.    *)
(* A section that throws is rolled back by its batch, so that only the     *)
(* orphan pool (memory, no batch) can differ afterwards.                   *)
(*                                                                         *)
(* A block is identified with its header's hash.  Path[h] lists the chain  *)
(* of previous hashes that ends in h, and PrevRoot[h] the leaves that the  *)
(* previous root of h commits to.  A header is free to name one parent and *)
(* commit to other ancestors; only its height is taken to be the one after *)
(* the parent it names, and no root to commit to genesis twice.            *)
(***************************************************************************)
EXTENDS Naturals, Sequences, FiniteSets

CONSTANTS Hash,              \* the headers and blocks that exist anywhere
          Genesis,
          Path,              \* Path[h]: from Genesis to h, both included
          PrevRoot,          \* PrevRoot[h]: what its previous root is the root of
          TotalDifficulty,   \* claimed total difficulty of a header
          BadBlocks,         \* BAD_BLOCKS, the hard-coded list
          GoodHeader,        \* time, version and proof of work are valid
          SelfConsistent,    \* blocks VerifySelfConsistent accepts
          GoodBlock,         \* blocks that apply to their parent's state
          Horizon,           \* CUT_THROUGH_HORIZON
          MaxOrphanHeaders,  \* size of the orphan header cache
          MaxSync,           \* bound: headers in one sync chunk
          MaxRestarts,       \* bound: copies of genesis restarts may add
          Worker,            \* threads that call AddBlock
          NULL

Prev(h) == Path[h][Len(Path[h]) - 1]

Height(h) == Len(Path[h]) - 1

ASSUME TreeAssumption ==
    /\ Genesis \in Hash
    /\ NULL \notin Hash
    /\ Path \in [Hash -> Seq(Hash)]
    /\ Path[Genesis] = <<Genesis>>
    /\ \A h \in Hash \ {Genesis} :
          /\ Len(Path[h]) > 1
          /\ Path[h] = Append(Path[Prev(h)], h)
    /\ PrevRoot \in [Hash -> Seq(Hash)]
    /\ \A h \in Hash : \A i \in 2..Len(PrevRoot[h]) : PrevRoot[h][i] /= Genesis
    /\ TotalDifficulty \in [Hash -> Nat]
    /\ GoodHeader \subseteq Hash
    /\ Genesis \notin BadBlocks

ASSUME BoundAssumption ==
    /\ Horizon \in Nat
    /\ MaxOrphanHeaders \in Nat \ {0}
    /\ MaxSync \in Nat
    /\ MaxRestarts \in Nat

Orphaner == "orphaner"      \* the thread BLOCK_POSTPROCESS_PIPE

Thread == Worker \cup {Orphaner}

VARIABLES candidate,      \* hashes of the candidate chain, by height + 1
          confirmed,      \* hashes of the confirmed chain, by height + 1
          headers,        \* BlockDB: headers
          blocks,         \* BlockDB: full blocks
          sums,           \* BlockDB: blocks with block sums
          mmr,            \* leaves of the header MMR
          txHashSet,      \* header of the open TxHashSet, or NULL
          txFiles,        \* block whose state the TxHashSet files hold
          compacted,      \* history: the highest horizon of a compaction
          orphanBlocks,   \* OrphanPool: m_orphansByHeight
          orphanHeaders,  \* OrphanPool: m_orphanHeadersByHash
          cachedTip,      \* m_pCachedConfirmedTip
          pc,             \* where each thread is in AddBlock
          block,          \* the block it is adding
          readTip         \* the confirmed tip it has read

chainVars == <<candidate, confirmed, headers, blocks, sums, mmr, txHashSet, txFiles,
               compacted>>
orphanVars == <<orphanBlocks, orphanHeaders>>
threadVars == <<pc, block, readTip>>
vars == <<chainVars, orphanVars, cachedTip, threadVars>>

-----------------------------------------------------------------------------
(* Chains *)

Tip(c) == c[Len(c)]

Elements(s) == {s[i] : i \in DOMAIN s}

FirstOf(s, n) == SubSeq(s, 1, IF n <= Len(s) THEN n ELSE Len(s))

IsOnChain(c, h) == Len(Path[h]) <= Len(c) /\ c[Len(Path[h])] = h

\* How many entries of chain c are ancestors of h: the walk from h towards
\* genesis stops at the first ancestor that is on the chain.
ForkLength(c, h) ==
    CHOOSE n \in 1..Len(Path[h]) :
        /\ IsOnChain(c, Path[h][n])
        /\ \A m \in (n + 1)..Len(Path[h]) : ~IsOnChain(c, Path[h][m])

\* The ancestors of h, h included, from entry n + 1 on.
PathFrom(h, n) == SubSeq(Path[h], n + 1, Len(Path[h]))

\* ChainStore::FindCommonIndex, from the height both chains reach downwards.
CommonLength(c, d) ==
    CHOOSE n \in DOMAIN c \cap DOMAIN d :
        /\ c[n] = d[n]
        /\ \A m \in DOMAIN c \cap DOMAIN d : m > n => c[m] /= d[m]

GetTotalDifficulty(c) ==
    IF Tip(c) \in headers THEN TotalDifficulty[Tip(c)] ELSE 0

GetHorizonHeight(height) ==
    (IF height >= Horizon THEN height ELSE Horizon) - Horizon

-----------------------------------------------------------------------------
(* Headers *)

\* Mutant: the previous root is not compared with that of the MMR.
HeadersValidAnyRoot(base, hs) ==
    /\ Prev(hs[1]) \in headers
    /\ \A k \in DOMAIN hs :
          LET before == SubSeq(hs, 1, k - 1)
              previous == IF k = 1 THEN Prev(hs[1]) ELSE hs[k - 1]
          IN  /\ hs[k] \in GoodHeader
              /\ TotalDifficulty[hs[k]] > TotalDifficulty[previous]
              /\ Prev(hs[k]) \in headers \cup Elements(before)

\* ValidateHeaders calls BlockHeaderValidator for each of hs in turn, with the
\* header before it as the previous one and the MMR holding base and the headers
\* before it.  The parent of the first header must be known; the parents the others
\* name are looked up for the target difficulty, but not compared with the header
\* before them.
HeadersValid(base, hs) ==
    /\ Prev(hs[1]) \in headers
    /\ \A k \in DOMAIN hs :
          LET before == SubSeq(hs, 1, k - 1)
              previous == IF k = 1 THEN Prev(hs[1]) ELSE hs[k - 1]
          IN  /\ hs[k] \in GoodHeader
              /\ TotalDifficulty[hs[k]] > TotalDifficulty[previous]
              /\ Prev(hs[k]) \in headers \cup Elements(before)
              /\ FirstOf(base \o before, Height(hs[k])) = PrevRoot[hs[k]]

IsNextHeader(h) == Tip(candidate) = Prev(h)

\* ProcessOrphan finds every header between h and the candidate chain.
IsLinkedHeader(h) ==
    \A n \in ForkLength(candidate, h)..(Len(Path[h]) - 1) :
        Path[h][n] \in orphanHeaders \cup headers

\* The fork choice.  Mutant: by height, ties included.
IsAsLong(c, h) == Len(Path[h]) >= Len(c)

IsHeavier(c, h) == TotalDifficulty[h] > GetTotalDifficulty(c)

\* Mutant: only the candidate chain is rolled back.
AdoptHeadersKeepMMR(n, hs) ==
    /\ headers' = headers \cup Elements(hs)
    /\ candidate' = IF IsHeavier(candidate, Tip(hs)) THEN FirstOf(candidate, n) \o hs
                                                     ELSE candidate
    /\ mmr' = FirstOf(mmr, n) \o hs
    /\ UNCHANGED <<confirmed, blocks, sums, txHashSet, txFiles, compacted>>

\* ValidateHeaders, and the choice to keep the new chain or roll it back:
\* entries of the chains after the first n are replaced by hs.
AdoptHeaders(n, hs) ==
    /\ headers' = headers \cup Elements(hs)
    /\ IF IsHeavier(candidate, Tip(hs))
         THEN /\ candidate' = FirstOf(candidate, n) \o hs
              /\ mmr' = FirstOf(mmr, n) \o hs
         ELSE UNCHANGED <<candidate, mmr>>
    /\ UNCHANGED <<confirmed, blocks, sums, txHashSet, txFiles, compacted>>

\* Putting into the full cache evicts the least recently used header; which
\* one that is is left open.
CacheHeader(h) ==
    \E keep \in SUBSET (orphanHeaders \ {h}) :
        /\ \/ keep = orphanHeaders \ {h}
           \/ /\ Cardinality(orphanHeaders \cup {h}) > MaxOrphanHeaders
              /\ Cardinality(keep) = MaxOrphanHeaders - 1
        /\ Cardinality(keep) < MaxOrphanHeaders
        /\ orphanHeaders' = keep \cup {h}

\* ProcessSingleHeader and ProcessOrphan throw.
HeaderThrows(h) ==
    /\ h \notin BadBlocks \cup headers
    /\ IF IsNextHeader(h)
         THEN ~HeadersValid(mmr, <<h>>)
         ELSE LET n == ForkLength(candidate, h)
              IN  /\ IsLinkedHeader(h)
                  /\ ~HeadersValid(FirstOf(mmr, n), PathFrom(h, n))

\* ProcessSingleHeader: the header is known or hard-coded as bad, extends the
\* candidate chain, becomes an orphan, or completes a fork.
ProcessSingleHeader(h) ==
    \/ /\ h \in BadBlocks \cup headers
       /\ UNCHANGED <<chainVars, orphanVars>>
    \/ /\ h \notin BadBlocks \cup headers
       /\ IsNextHeader(h)
       /\ HeadersValid(mmr, <<h>>)
       /\ headers' = headers \cup {h}
       /\ mmr' = Append(mmr, h)
       /\ candidate' = Append(candidate, h)
       /\ UNCHANGED <<confirmed, blocks, sums, txHashSet, txFiles, compacted, orphanVars>>
    \/ /\ h \notin BadBlocks \cup headers
       /\ ~IsNextHeader(h)
       /\ ~IsLinkedHeader(h)
       /\ CacheHeader(h)
       /\ UNCHANGED <<chainVars, orphanBlocks>>
    \/ /\ h \notin BadBlocks \cup headers
       /\ ~IsNextHeader(h)
       /\ IsLinkedHeader(h)
       /\ LET n == ForkLength(candidate, h)
          IN  /\ HeadersValid(FirstOf(mmr, n), PathFrom(h, n))
              /\ AdoptHeaders(n, PathFrom(h, n))
       /\ UNCHANGED orphanVars

\* A header broadcast by a peer.
AddBlockHeader(h) ==
    /\ ProcessSingleHeader(h)
    /\ UNCHANGED <<cachedTip, threadVars>>

\* ProcessSyncHeaders checks the message: no bad block, and consecutive heights.
IsSyncMessage(hs) ==
    \A i \in DOMAIN hs : hs[i] \notin BadBlocks /\ Height(hs[i]) = Height(hs[1]) + i - 1

\* The messages of n headers that pass this check.
SyncMessages == [n \in 1..MaxSync |-> {hs \in [1..n -> Hash \ {Genesis}] : IsSyncMessage(hs)}]

\* ProcessChunkedSyncHeaders takes the lock once per chunk: the headers from the
\* first one that is not yet on the candidate chain replace what the chain has from
\* that height on.
AddBlockHeaders(hs) ==
    /\ Height(hs[1]) > 0
    /\ IsOnChain(candidate, Prev(hs[1]))
    /\ \E first \in DOMAIN hs :
          LET new == SubSeq(hs, first, Len(hs))
              n == Height(hs[first])
          IN  /\ ~IsOnChain(candidate, hs[first])
              /\ \A i \in 1..(first - 1) : IsOnChain(candidate, hs[i])
              /\ HeadersValid(FirstOf(mmr, n), new)
              /\ AdoptHeaders(n, new)
    /\ UNCHANGED <<orphanVars, cachedTip, threadVars>>

-----------------------------------------------------------------------------
(* Blocks *)

IsNextBlock(h) == Tip(confirmed) = Prev(h)

\* DetermineBlockStatus finds every block between h and the confirmed chain.
IsLinkedBlock(h) ==
    \A n \in (ForkLength(confirmed, h) + 1)..(Len(Path[h]) - 1) :
        Path[h][n] \in orphanBlocks \cup blocks

\* The blocks ProcessBlockInternal applies: the next one, or a whole fork.
BlocksToApply(h) ==
    IF IsNextBlock(h) THEN <<h>> ELSE PathFrom(h, ForkLength(confirmed, h))

\* TxHashSet::Rewind needs every block from its header back to the fork.
CanRewind(common) ==
    /\ IsOnChain(Path[txHashSet], common)
    /\ \A n \in (Len(Path[common]) + 1)..Len(Path[txHashSet]) :
          Path[txHashSet][n] \in blocks

\* ValidateAndAddBlock succeeds for the first k of bs.
CanApply(bs, k) ==
    /\ txHashSet = txFiles
    /\ Prev(bs[1]) \in sums
    /\ \A i \in 1..k : bs[i] \in GoodBlock \cap SelfConsistent /\ Prev(bs[i]) \in headers

\* NEXT_BLOCK: the TxHashSet must be at the confirmed tip.
\* REORG: HandleReorg rewinds it to the fork first.
IsReady(h) ==
    /\ txHashSet /= NULL
    /\ IF IsNextBlock(h) THEN txHashSet = Prev(h)
                         ELSE CanRewind(Prev(BlocksToApply(h)[1]))

\* The blocks that are requested from peers, a window of them at a time.
GetBlocksNeeded ==
    {candidate[n] : n \in (CommonLength(candidate, confirmed) + 1)..Len(candidate)}
        \ orphanBlocks

IsKnownBlock(h) == IsOnChain(confirmed, h) \/ h \in blocks

IsOrphanBlock(h) == h \notin headers \/ (~IsNextBlock(h) /\ ~IsLinkedBlock(h))

\* ProcessBlockInternal of thread t.  The five outcomes are: already known,
\* orphan, new confirmed tip, valid fork that is not heavier, exception.
BlockExists(h) ==
    /\ h \in SelfConsistent
    /\ IsKnownBlock(h)
    /\ UNCHANGED <<chainVars, orphanVars>>

BlockOrphaned(h) ==
    /\ h \in SelfConsistent
    /\ ~IsKnownBlock(h)
    /\ IsOrphanBlock(h)
    /\ orphanBlocks' = orphanBlocks \cup {h}
    /\ IF h \in orphanBlocks \cup orphanHeaders
         THEN UNCHANGED orphanHeaders
         ELSE CacheHeader(h)
    /\ UNCHANGED chainVars

\* Validation succeeds, of the next block or of every block of the fork.
IsValidBlock(h) ==
    /\ h \in SelfConsistent
    /\ ~IsKnownBlock(h)
    /\ ~IsOrphanBlock(h)
    /\ IsReady(h)
    /\ CanApply(BlocksToApply(h), Len(BlocksToApply(h)))

\* HandleReorg keeps a fork.  Mutant: when it is not shorter.
WinsByHeight(h) == IsNextBlock(h) \/ Len(Path[h]) >= Len(confirmed)

Wins(h) == IsNextBlock(h) \/ IsHeavier(confirmed, h)

\* The confirmed chain, rewound to the fork point and extended.
Reorganized(bs) == FirstOf(confirmed, Height(bs[1])) \o bs

\* All of BlocksToApply(h) is validated, and extends the tip or wins.
BlockConfirmed(h) ==
    LET bs == BlocksToApply(h)
    IN  /\ IsValidBlock(h)
        /\ Wins(h)
        /\ confirmed' = Reorganized(bs)
        /\ blocks' = blocks \cup Elements(bs)
        /\ sums' = sums \cup Elements(bs)
        /\ orphanBlocks' = orphanBlocks \ Elements(bs)
        /\ txHashSet' = h
        /\ txFiles' = h
        /\ UNCHANGED <<candidate, headers, mmr, compacted, orphanHeaders>>

\* All of BlocksToApply(h) is validated, but the fork is not heavier: the batch
\* is rolled back and the blocks alone are stored.  The orphan pool, which has
\* no batch, keeps the removals.
BlockStored(h) ==
    LET bs == BlocksToApply(h)
    IN  /\ IsValidBlock(h)
        /\ ~Wins(h)
        /\ blocks' = blocks \cup Elements(bs)
        /\ orphanBlocks' = orphanBlocks \ Elements(bs)
        /\ UNCHANGED <<candidate, confirmed, headers, sums, mmr, txHashSet,
                       txFiles, compacted, orphanHeaders>>

\* Mutant: the blocks of a fork are stored although one of them is bad.
BlockRejectedButStored(h) ==
    /\ h \in SelfConsistent
    /\ ~IsKnownBlock(h)
    /\ ~IsOrphanBlock(h)
    /\ ~CanApply(BlocksToApply(h), Len(BlocksToApply(h)))
    /\ blocks' = blocks \cup Elements(BlocksToApply(h))
    /\ orphanBlocks' = orphanBlocks \ Elements(BlocksToApply(h))
    /\ UNCHANGED <<candidate, confirmed, headers, sums, mmr, txHashSet, txFiles,
                   compacted, orphanHeaders>>

\* An exception: everything is rolled back, except that blocks of a fork that
\* were applied before the bad one have left the orphan pool.
BlockRejected(h) ==
    LET bs == BlocksToApply(h)
        applied == {k \in 1..Len(bs) : IsReady(h) /\ CanApply(bs, k)}
    IN  /\ \/ h \notin SelfConsistent /\ UNCHANGED orphanBlocks
           \/ /\ h \in SelfConsistent
              /\ ~IsKnownBlock(h)
              /\ ~IsOrphanBlock(h)
              /\ Len(bs) \notin applied
              /\ orphanBlocks' = orphanBlocks \ {bs[k] : k \in applied}
        /\ UNCHANGED <<chainVars, orphanHeaders>>

Goto(t, label) == pc' = [pc EXCEPT ![t] = label]

\* AddBlock is called with a block from a peer.
AddBlock(t, h) ==
    /\ pc[t] = "idle"
    /\ Goto(t, "horizon")
    /\ block' = [block EXCEPT ![t] = h]
    /\ UNCHANGED <<chainVars, orphanVars, cachedTip, readTip>>

\* Mutant: the orphan at the confirmed height, not the one after it.
ProcessOrphanAtTip ==
    /\ pc[Orphaner] = "idle"
    /\ Len(confirmed) <= Len(candidate)
    /\ candidate[Len(confirmed)] \in headers \cap orphanBlocks
    /\ Goto(Orphaner, "horizon")
    /\ block' = [block EXCEPT ![Orphaner] = candidate[Len(confirmed)]]
    /\ UNCHANGED <<chainVars, orphanVars, cachedTip, readTip>>

\* ProcessNextOrphanBlock: the orphan that the candidate chain has next.
ProcessNextOrphanBlock ==
    LET next == Len(confirmed) + 1
    IN  /\ pc[Orphaner] = "idle"
        /\ next <= Len(candidate)
        /\ candidate[next] \in headers \cap orphanBlocks
        /\ Goto(Orphaner, "horizon")
        /\ block' = [block EXCEPT ![Orphaner] = candidate[next]]
        /\ UNCHANGED <<chainVars, orphanVars, cachedTip, readTip>>

\* Where an exception takes a thread: AddBlock's caller only logs and bans,
\* ProcessNextOrphanBlock removes the orphan.
AfterThrow(t) == IF t = Orphaner THEN "remove" ELSE "idle"

\* ProcessBlock reads the candidate height under a lock of its own.
CheckHorizon(t) ==
    /\ pc[t] = "horizon"
    /\ Goto(t, IF Height(block[t]) <= GetHorizonHeight(Len(candidate) - 1)
                 THEN AfterThrow(t) ELSE "header")
    /\ UNCHANGED <<chainVars, orphanVars, cachedTip, block, readTip>>

\* ProcessBlock ignores what ProcessSingleHeader returns.
AddHeaderOfBlock(t) ==
    /\ pc[t] = "header"
    /\ \/ /\ HeaderThrows(block[t])
          /\ Goto(t, AfterThrow(t))
          /\ UNCHANGED <<chainVars, orphanVars>>
       \/ /\ ProcessSingleHeader(block[t])
          /\ Goto(t, "block")
    /\ UNCHANGED <<cachedTip, block, readTip>>

ProcessBlockInternal(t) ==
    /\ pc[t] = "block"
    /\ \/ BlockExists(block[t]) /\ Goto(t, "idle")
       \/ BlockOrphaned(block[t]) /\ Goto(t, "idle")
       \/ BlockConfirmed(block[t]) /\ Goto(t, "readTip")
       \/ BlockStored(block[t]) /\ Goto(t, "readTip")
       \/ BlockRejected(block[t]) /\ Goto(t, AfterThrow(t))
    /\ UNCHANGED <<cachedTip, block, readTip>>

\* RefreshCachedConfirmedTipBlockHeader reads the tip under the chain lock
\* and stores it under the lock of the cache.
ReadConfirmedTip(t) ==
    /\ pc[t] = "readTip"
    /\ readTip' = [readTip EXCEPT ![t] = Tip(confirmed)]
    /\ Goto(t, "setTip")
    /\ UNCHANGED <<chainVars, orphanVars, cachedTip, block>>

SetCachedTip(t) ==
    /\ pc[t] = "setTip"
    /\ cachedTip' = readTip[t]
    /\ Goto(t, "idle")
    /\ UNCHANGED <<chainVars, orphanVars, block, readTip>>

RemoveOrphan ==
    /\ pc[Orphaner] = "remove"
    /\ orphanBlocks' = orphanBlocks \ {block[Orphaner]}
    /\ Goto(Orphaner, "idle")
    /\ UNCHANGED <<chainVars, orphanHeaders, cachedTip, block, readTip>>

-----------------------------------------------------------------------------
(* Start *)

\* The first start: ChainState::Create stores the genesis header and sums.
Init ==
    /\ candidate = <<Genesis>>
    /\ confirmed = <<Genesis>>
    /\ headers = {Genesis}
    /\ blocks = {}
    /\ sums = {Genesis}
    /\ mmr = <<Genesis>>
    /\ txHashSet = Genesis
    /\ txFiles = Genesis
    /\ compacted = 0
    /\ orphanBlocks = {}
    /\ orphanHeaders = {}
    /\ cachedTip = Genesis
    /\ pc = [t \in Thread |-> "idle"]
    /\ block = [t \in Thread |-> Genesis]
    /\ readTip = [t \in Thread |-> Genesis]

\* What is left of the block database when it is compacted at startup.  Mutant: the
\* block at the horizon is removed as well.
CompactAtHorizon ==
    {h \in blocks : Height(h) > GetHorizonHeight(Len(confirmed) - 1)}

Compact ==
    {h \in blocks : Height(h) >= GetHorizonHeight(Len(confirmed) - 1)}

\* The process ends between two locked sections and is started again.  Create
\* adds genesis to the header MMR whenever the candidate chain is at height 0,
\* opens the TxHashSet at the confirmed tip, and compacts the block database.
Restart ==
    /\ IF Len(candidate) = 1
         THEN /\ Len(mmr) <= MaxRestarts
              /\ mmr' = Append(mmr, Genesis)
              /\ headers' = headers \cup {Genesis}
              /\ sums' = sums \cup {Genesis}
         ELSE UNCHANGED <<mmr, headers, sums>>
    /\ txHashSet' = Tip(confirmed)
    /\ blocks' = Compact
    /\ compacted' = LET horizon == GetHorizonHeight(Len(confirmed) - 1)
                    IN  IF horizon > compacted THEN horizon ELSE compacted
    /\ orphanBlocks' = {}
    /\ orphanHeaders' = {}
    /\ cachedTip' = Tip(confirmed)
    /\ pc' = [t \in Thread |-> "idle"]
    /\ block' = [t \in Thread |-> Genesis]
    /\ readTip' = [t \in Thread |-> Genesis]
    /\ UNCHANGED <<candidate, confirmed, txFiles>>

-----------------------------------------------------------------------------

HeaderStep ==
    \/ \E h \in Hash \ {Genesis} : AddBlockHeader(h)
    \/ \E n \in 1..MaxSync : \E hs \in SyncMessages[n] : AddBlockHeaders(hs)

ThreadStep(t) ==
    \/ CheckHorizon(t)
    \/ AddHeaderOfBlock(t)
    \/ ProcessBlockInternal(t)
    \/ ReadConfirmedTip(t)
    \/ SetCachedTip(t)

BlockStep ==
    \/ \E t \in Worker, h \in Hash \ {Genesis} : AddBlock(t, h)
    \/ ProcessNextOrphanBlock
    \/ RemoveOrphan
    \/ \E t \in Thread : ThreadStep(t)

Next == HeaderStep \/ BlockStep \/ Restart

Spec == Init /\ [][Next]_vars

\* The block syncer requests a needed block again until it arrives.
RequestedBlockArrives(h) ==
    /\ h \in GetBlocksNeeded \ blocks
    /\ \E t \in Worker : AddBlock(t, h)

\* The process is restarted finitely often.  Threads that are in a call finish
\* it, the orphan thread polls forever, and a good block that is needed again
\* and again arrives again and again.
FairSpec ==
    /\ Spec
    /\ <>[][~Restart]_vars
    /\ \A t \in Thread : WF_vars(ThreadStep(t))
    /\ WF_vars(ProcessNextOrphanBlock)
    /\ WF_vars(RemoveOrphan)
    /\ \A h \in GoodBlock \ {Genesis} : SF_vars(RequestedBlockArrives(h))

-----------------------------------------------------------------------------
(* Properties *)

Label == {"idle", "horizon", "header", "block", "readTip", "setTip", "remove"}

\* Every variable of the chain state has its type, and the orphan header cache
\* keeps within its size.
TypeOK ==
    /\ candidate \in Seq(Hash) /\ candidate /= << >>
    /\ confirmed \in Seq(Hash) /\ confirmed /= << >>
    /\ headers \subseteq Hash
    /\ blocks \subseteq Hash
    /\ sums \subseteq Hash
    /\ mmr \in Seq(Hash)
    /\ txHashSet \in Hash \cup {NULL}
    /\ txFiles \in Hash
    /\ compacted \in Nat
    /\ orphanBlocks \subseteq Hash
    /\ orphanHeaders \subseteq Hash
    /\ IsFiniteSet(orphanHeaders) /\ Cardinality(orphanHeaders) <= MaxOrphanHeaders
    /\ cachedTip \in Hash
    /\ pc \in [Thread -> Label]
    /\ block \in [Thread -> Hash]
    /\ readTip \in [Thread -> Hash]

\* The previous hash and the previous root of h name the same ancestors.
IsConsistent(h) == PrevRoot[h] = Path[Prev(h)]

\* The confirmed chain lists the ancestors of its tip, without gaps, whatever forks
\* were tried.  So does the candidate chain up to every header in it that is
\* consistent: it stands behind its own ancestors, also when the chunk it came in was
\* put together from different forks (ChainResyncer cuts the chain where it is not so).
\* The block database has every ancestor of every header in it, and only valid ones.
ChainsAreLinked ==
    /\ \A n \in 2..Len(candidate) :
          IsConsistent(candidate[n]) => FirstOf(candidate, n) = Path[candidate[n]]
    /\ candidate[1] = Genesis
    /\ confirmed = Path[Tip(confirmed)]
    /\ {Tip(candidate), Tip(confirmed)} \subseteq headers
    /\ \A h \in headers : Elements(Path[h]) \subseteq headers
    /\ headers \ {Genesis} \subseteq GoodHeader

\* No header that was ever stored has more work than the candidate tip: a fork
\* that was validated and rolled back is never the heavier one.  Hence the
\* confirmed chain has at most the work of the candidate chain.
CandidateIsHeaviest ==
    \A h \in headers : TotalDifficulty[h] <= TotalDifficulty[Tip(candidate)]

\* The header MMR has the leaves of the candidate chain, behind the copies of
\* genesis that restarts at height 0 have put in front of them.
MMRHoldsCandidate ==
    \E k \in 0..MaxRestarts : mmr = [i \in 1..k |-> Genesis] \o candidate

\* BlockHeaderProcessor: "The header MMR should always match the candidate
\* chain."
MMRMatchesCandidate == mmr = candidate

\* The TxHashSet is at the confirmed tip, in memory and on disk, and the sums
\* that validating a next block or a fork needs are there.
TxHashSetAtConfirmedTip ==
    /\ txHashSet = Tip(confirmed)
    /\ txFiles = Tip(confirmed)
    /\ Elements(confirmed) \subseteq sums

\* Every locked section leaves the header MMR at the candidate chain and the
\* TxHashSet at the confirmed one, also when its fork loses or fails halfway.
MMRsFollowChains == MMRHoldsCandidate /\ TxHashSetAtConfirmedTip

\* TxHashSet::Rewind finds every block it needs to go back to a fork at or above the
\* highest horizon at which a start has compacted the database, whatever reorgs, also
\* to shorter and heavier forks, came before or after it; and always those of the tip.
\* After a reorg to a shorter chain the horizon itself is lower than that, and forks in
\* between, which CheckHorizon lets through, are refused for want of blocks.
RewindFindsBlocks ==
    \A n \in DOMAIN confirmed :
        n >= compacted \/ n >= Len(confirmed) - 1 => CanRewind(confirmed[n])

\* What is stored as a block was validated as one, with all of its ancestors
\* down to the confirmed chain; no block is both stored and an orphan.
StoredBlocksAreValid ==
    /\ Elements(confirmed) \ {Genesis} \subseteq GoodBlock
    /\ blocks \subseteq GoodBlock \cap SelfConsistent \cap headers
    /\ blocks \cap orphanBlocks = {}

\* A chain is only ever replaced by one with more work.  The next block of the
\* confirmed chain has more work than the tip when its header is consistent: the
\* work that another one claims was compared with that of a header of another fork.
WorkIncreases ==
    [][/\ candidate' /= candidate =>
            TotalDifficulty[Tip(candidate')] > TotalDifficulty[Tip(candidate)]
       /\ confirmed' /= confirmed =>
            \/ TotalDifficulty[Tip(confirmed')] > TotalDifficulty[Tip(confirmed)]
            \/ Prev(Tip(confirmed')) = Tip(confirmed) /\ ~IsConsistent(Tip(confirmed'))]_vars

\* IBlockChain on GetBlocksNeeded: "blocks [...] that are part of the candidate
\* (header) chain, but whose bodies haven't been downloaded yet."
BlocksNeededAreMissing == GetBlocksNeeded \cap blocks = {}

\* While the confirmed chain is behind on a candidate chain of good blocks by less
\* than the horizon, in whatever order blocks arrive, good or bad ones, it reaches
\* the tip unless the candidate chain moves on or a block of another fork is
\* confirmed meanwhile.
CatchesUp ==
    LET Behind(h) == /\ candidate = Path[h]
                     /\ FirstOf(candidate, Len(confirmed)) = confirmed
                     /\ Len(confirmed) > GetHorizonHeight(Len(candidate) - 1)
        Good == {h \in Hash \ {Genesis} : Elements(Tail(Path[h])) \subseteq GoodBlock \cap SelfConsistent}
    IN  \A h \in Good : Behind(h) ~> (Tip(confirmed) = h \/ ~Behind(h))
=============================================================================
