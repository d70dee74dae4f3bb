------------------------------ MODULE BlockSync ------------------------------
(***************************************************************************)
(* Downloading block bodies: BlockSyncer asks the peers with most work for *)
(* a window of blocks, repeats what is late and gives up on slow peers;    *)
(* BlockPipe queues the blocks, which come in any order, and adds them by  *)
(* height.                                                                 *)
(***************************************************************************)
EXTENDS Naturals, FiniteSets, Sequences, Functions

CONSTANTS BPeers,            \* sequence of the peers with most work
          BadBlockPeers,     \* those that send invalid blocks, or nothing
          BLeavers,          \* peers whose connection may end
          BNetHeight, BLag,
          Window,            \* BLOCK_SYNC_WINDOW_PER_PEER
          RefillPerPeer      \* BLOCK_SYNC_REFILL_THRESHOLD_PER_PEER

VARIABLES bheight,     \* height of the confirmed chain
          lastHeight,  \* m_lastHeight
          requested,   \* m_requestedBlocks: height to peer, whether late, whether retried
          slow,        \* m_slowPeers
          bbanned,
          online,      \* peers with a connection
          bwire,       \* GetBlock requests on their way: height and peer
          bqueue       \* m_blocksToProcess

blockVars == <<bheight, lastHeight, requested, slow, bbanned, online, bwire, bqueue>>

BlockInit ==
    /\ bheight = 0 /\ lastHeight = 0 /\ requested = <<>> /\ slow = {} /\ bbanned = {}
    /\ online = Range(BPeers) /\ bwire = {} /\ bqueue = {}

Fewer(a, b) == IF a < b THEN a ELSE b
MostWorkPeers == SelectSeq(BPeers, LAMBDA p : p \in online \ bbanned)

\* GetBlocksNeeded
BlocksNeeded(n) == bheight + 1 .. Fewer(bheight + n, BNetHeight)
IsProcessing(h) == \E b \in bqueue : b.h = h

-----------------------------------------------------------------------------
(* IsBlockSyncDue, with the requests that are left after blocks were received *)

\* Mutant: one height too many is taken as received.
IsAwaitedAbove(h) == h \in DOMAIN requested /\ (h > bheight + 1 \/ h < lastHeight)

IsAwaited(h) == h \in DOMAIN requested /\ (h > bheight \/ h < lastHeight)

Awaited == {h \in DOMAIN requested : IsAwaited(h)}

RefillThreshold ==
    LET n == RefillPerPeer * (IF MostWorkPeers = <<>> THEN 1 ELSE Len(MostWorkPeers))
    IN  IF n = 0 THEN 1 ELSE n

\* The code's uint64 difference is positive as soon as the heights differ.
BlocksDownloaded == bheight # lastHeight

IsBlockSyncDue ==
    \/ Cardinality(Awaited) < RefillThreshold
    \/ \E h \in BlocksNeeded(RefillThreshold) :
           \/ ~IsAwaited(h)
           \/ requested[h].peer \in slow
           \/ requested[h].late /\ ~IsProcessing(h) /\ ~BlocksDownloaded

-----------------------------------------------------------------------------
(* RequestBlocks *)

IsOverdue(h, allowRetries) ==
    /\ IsAwaited(h)
    /\ requested[h].peer \in slow \/ (requested[h].late /\ allowRetries)

\* Mutant: late requests are repeated for ever.
RetriesAgain(h) == requested[h].peer \notin bbanned /\ requested[h].peer \in online

\* A late request is repeated once, if the peer is still connected.
Retries(h) ==
    requested[h].peer \notin bbanned /\ ~requested[h].retried /\ requested[h].peer \in online

\* The peer of a request that is late again, or that it can no longer be sent to.
GivesUp(h, allowRetries) == ~IsProcessing(h) /\ IsOverdue(h, allowRetries) /\ ~Retries(h)

\* Giving a peer up counts for all later heights of the same round.
IsGivenUp(h, allowRetries) ==
    /\ IsAwaited(h)
    /\ \E k \in bheight + 1 .. h :
           GivesUp(k, allowRetries) /\ requested[k].peer = requested[h].peer

\* Wanted from a new peer: never asked, or asked from a peer that is given up.
Wanted(h, allowRetries) ==
    ~IsProcessing(h) /\ (~IsAwaited(h) \/ IsGivenUp(h, allowRetries))

\* The heights in order until the request is full; later heights are not looked at.
Considered(allowRetries) ==
    LET needed == BlocksNeeded(2 * Window * Len(MostWorkPeers))
        wanted == {h \in needed : Wanted(h, allowRetries)}
    IN  {h \in needed : Cardinality({k \in wanted : k < h}) < Window * Len(MostWorkPeers)}

RequestBlocks(allowRetries) ==
    LET seen == Considered(allowRetries)
        again == {h \in seen : /\ ~IsProcessing(h) /\ IsOverdue(h, allowRetries)
                            /\ Retries(h) /\ ~IsGivenUp(h, allowRetries)}
        new == {h \in seen : Wanted(h, allowRetries)}
        given == {requested[h].peer : h \in {k \in new : IsAwaited(k)}}
        Rank(h) == Cardinality({k \in new : k < h})
    IN  \E start \in DOMAIN MostWorkPeers :
        LET PeerFor(h) == MostWorkPeers[((start - 1 + (Rank(h) \div Window)) % Len(MostWorkPeers)) + 1]
            sent == {h \in new : PeerFor(h) \notin given}
        IN  /\ requested' = [h \in Awaited \cup sent |->
                    IF h \in sent THEN [peer |-> PeerFor(h), late |-> FALSE, retried |-> FALSE]
                    ELSE IF h \in again THEN [requested[h] EXCEPT !.late = FALSE, !.retried = TRUE]
                    ELSE requested[h]]
            /\ bwire' = bwire \cup {<<h, PeerFor(h)>> : h \in sent}
                              \cup {<<h, requested[h].peer>> : h \in again}
            /\ slow' = slow \cup given
            /\ bbanned' = bbanned \cup given

\* SyncBlocks: one round of the sync thread.
SyncBlocks ==
    /\ BNetHeight >= bheight + BLag
    /\ IF IsBlockSyncDue /\ MostWorkPeers # <<>>
         THEN RequestBlocks(bheight = lastHeight)
         ELSE requested' = Restrict(requested, Awaited) /\ UNCHANGED <<bwire, slow, bbanned>>
    /\ lastHeight' = bheight
    /\ UNCHANGED <<bheight, online, bqueue>>

-----------------------------------------------------------------------------
(* Peers, time and BlockPipe *)

\* Five or ten seconds pass.
BlockTime ==
    /\ \E h \in DOMAIN requested : ~requested[h].late
    /\ requested' = [h \in DOMAIN requested |-> [requested[h] EXCEPT !.late = TRUE]]
    /\ UNCHANGED <<bheight, lastHeight, slow, bbanned, online, bwire, bqueue>>

\* A block arrives; AddBlockToProcess ignores one that is known or queued.
ReceiveBlock(h, p) ==
    /\ p \in online
    /\ bwire' = bwire \ {<<h, p>>}
    /\ bqueue' = IF h <= bheight \/ IsProcessing(h) THEN bqueue
                 ELSE bqueue \cup {[h |-> h, peer |-> p]}
    /\ UNCHANGED <<bheight, lastHeight, requested, slow, bbanned, online>>

\* A connection ends, with what was on its way.
GoOffline(p) ==
    /\ p \in online
    /\ online' = online \ {p}
    /\ bwire' = {r \in bwire : r[2] # p}
    /\ UNCHANGED <<bheight, lastHeight, requested, slow, bbanned, bqueue>>

\* Thread_ProcessNewBlocks: the lowest block that the chain can take.
ProcessNewBlock(b) ==
    /\ b.h <= bheight + 1 /\ \A c \in bqueue : b.h <= c.h
    /\ bqueue' = bqueue \ {b}
    /\ IF b.peer \in BadBlockPeers
         THEN bbanned' = bbanned \cup {b.peer} /\ UNCHANGED bheight
         ELSE bheight' = (IF b.h = bheight + 1 THEN b.h ELSE bheight) /\ UNCHANGED bbanned
    /\ UNCHANGED <<lastHeight, requested, slow, online, bwire>>

BlockNext ==
    \/ SyncBlocks \/ BlockTime
    \/ \E r \in bwire : ReceiveBlock(r[1], r[2])
    \/ \E p \in BLeavers : GoOffline(p)
    \/ \E b \in bqueue : ProcessNewBlock(b)

\* The threads run, time passes, and a connected peer that works answers.
BlockFairness ==
    /\ WF_blockVars(SyncBlocks) /\ WF_blockVars(BlockTime)
    /\ WF_blockVars(\E r \in bwire : r[2] \notin BadBlockPeers /\ ReceiveBlock(r[1], r[2]))
    /\ WF_blockVars(\E b \in bqueue : ProcessNewBlock(b))

BlockSpec == BlockInit /\ [][BlockNext]_blockVars /\ BlockFairness

-----------------------------------------------------------------------------
(* Properties *)

\* A block that is awaited from one peer is asked from another one only if the first was
\* late or slow with this block or a lower one, and that one was repeated or could not be.
NoDoubleRequest ==
    [][\A h \in DOMAIN requested \cap DOMAIN requested' :
           requested'[h].peer # requested[h].peer =>
               \E k \in DOMAIN requested :
                   /\ k <= h /\ requested[k].peer = requested[h].peer
                   /\ requested[k].late \/ requested[k].peer \in slow
                   /\ requested[k].retried \/ requested[k].peer \notin online \ bbanned]_blockVars

\* The confirmed chain comes within reach of the network as long as one peer with valid
\* blocks is connected and was not given up.
BlocksCatchUp ==
    <>(BNetHeight < bheight + BLag \/ online \ (bbanned \cup BadBlockPeers) = {})
=============================================================================
