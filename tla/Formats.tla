------------------------------- MODULE Formats -------------------------------
(***************************************************************************)
(* The binary formats of the node and the wallet: what every serialisable  *)
(* class writes and what it reads.  A class is a record of three parts:    *)
(*   members  the member variables and the values they range over,         *)
(*   write    the sequence of items its Serialize appends,                 *)
(*   read     the sequence of items its Deserialize takes from the buffer. *)
(* Both sequences are written down from the two functions separately, so   *)
(* that nothing makes them agree but the code.  An item may depend on the  *)
(* protocol version v and on the fields of the object o: the whole object  *)
(* for a writer, the fields read so far for a reader.                      *)
(***************************************************************************)
EXTENDS Integers, Sequences, FiniteSets, TLC

CONSTANTS
    ProofSize,      \* nonces of a proof of work (Consensus::PROOFSIZE)
    MaxProofSize    \* bytes of a range proof (MAX_PROOF_SIZE)

ASSUME FormatsAssumption == ProofSize \in Nat \ {0} /\ MaxProofSize \in Nat \ {0}

(***************************************************************************)
(* Kinds of value.                                                         *)
(***************************************************************************)
\* An unsigned integer of w bytes, big-endian.
U(w) == [k |-> "uint", w |-> w]

\* w raw bytes (CBigInteger<w>, hashes, commitments, keys, signatures).
B(w) == [k |-> "bytes", w |-> w]

\* A run of bytes preceded by its length in w bytes.
Bytes(w) == [k |-> "var", w |-> w]

\* AppendVarStr and ReadVarStr: the length has eight bytes.
VarStr == Bytes(8)

\* A VarStr that is present, so not the empty string.
Text == [k |-> "text"]

\* Whatever is left in the buffer.
Rest == [k |-> "rest"]

\* n values of kind f, with no count of their own.
Many(f, n) == [k |-> "many", f |-> f, n |-> n]

\* Up to two values of kind f preceded by their number in w bytes.
Vec(w, f) == [k |-> "vec", w |-> w, f |-> f]

\* An object of class c.
Obj(c) == [k |-> "obj", c |-> c]

\* A signature held in compact form and written in the library's raw form.
RawSignature == [k |-> "rawsig"]

\* A member that may be absent; an absent member is not in the object's domain.
Opt(f) == [k |-> "opt", f |-> f]

\* One of a set of numbers.
One(S) == [k |-> "one", s |-> S]

\* A positive number of w bytes.
Positive(w) == [k |-> "positive", w |-> w]

\* Raw bytes, as many as one of the lengths in S.
Sized(S) == [k |-> "sized", s |-> S]

\* The nonces of a proof of work, each of edgeBits bits.
Nonces(edgeBits) == [k |-> "nonces", e |-> edgeBits]

\* A key written as one byte of length and the text of its Bech32 form.
Address == [k |-> "address"]

\* Nothing can be read here: the reader throws.
Throw == [k |-> "throw"]

(***************************************************************************)
(* Items of a writer or a reader.                                          *)
(***************************************************************************)
\* The member n, in the form f.
F(n, f) == [k |-> "field", n |-> n, f |-> f]

\* The value x, in the form f, which is no member.
V(f, x) == [k |-> "value", f |-> f, x |-> x]

\* A buffer of its own, preceded by its length in w bytes, holding items.
Boxed(w, items) == [k |-> "box", w |-> w, items |-> items]

\* The same, encrypted.
Sealed(w, items) == [k |-> "seal", w |-> w, items |-> items]

\* items when the condition holds, else nothing.
When(cond, items) == IF cond THEN items ELSE <<>>

\* Field n of o, or d while it has none.
Get(o, n, d) == IF n \in DOMAIN o THEN o[n] ELSE d

Has(o, n) == n \in DOMAIN o

\* 1 for a member that is present.
Flag(o, n) == IF Has(o, n) THEN 1 ELSE 0

Class(members, write, read) == [members |-> members, write |-> write, read |-> read]

\* LeafIndex::GetPosition: where leaf n lies in an MMR, twice n less n's set bits.
LeafPosition(n) == 2 * n - Cardinality({i \in 0 .. 9 : (n \div 2^i) % 2 = 1})

Hash32 == B(32)
Commit == B(33)

(***************************************************************************)
(* Network addresses and peers.                                            *)
(***************************************************************************)
IsV4(o) == Len(Get(o, "address", <<>>)) = 4

IPAddress(v, o) ==
    Class(<<F("address", Sized({4, 16}))>>,
          IF IsV4(o) THEN <<V(U(1), 0), F("address", B(4))>>
                     ELSE <<V(U(1), 1), F("address", B(16))>>,
          <<F("family", U(1)),
            F("address", CASE Get(o, "family", 0) = 0 -> B(4)
                           [] Get(o, "family", 0) = 1 -> B(16)
                           [] OTHER -> Throw)>>)

SocketAddress(v, o) ==
    Class(<<F("ip", Obj("IPAddress")), F("port", U(2))>>,
          <<F("ip", Obj("IPAddress")), F("port", U(2))>>,
          <<F("ip", Obj("IPAddress")), F("port", U(2))>>)

\* A peer is stored with port 0 in its address and its port at the end.
Peer(v, o) ==
    Class(<<F("ip", Obj("IPAddress")), F("port", U(2)), F("version", U(4)),
            F("capabilities", U(4)), F("userAgent", VarStr), F("lastContactTime", U(8)),
            F("lastBanTime", U(8)), F("banReason", U(4))>>,
          <<F("ip", Obj("IPAddress")), V(U(2), 0), F("version", U(4)),
            F("capabilities", U(4)), F("userAgent", VarStr), F("lastContactTime", U(8)),
            F("lastBanTime", U(8)), F("banReason", U(4)), F("port", U(2))>>,
          <<F("ip", Obj("IPAddress")), F("addressPort", U(2)), F("version", U(4)),
            F("capabilities", U(4)), F("userAgent", VarStr), F("lastContactTime", U(8)),
            F("lastBanTime", U(8)), F("banReason", U(4))>>
              \o When(Get(o, "remaining", 0) >= 2 \/ Has(o, "port"), <<F("port", U(2))>>))

(***************************************************************************)
(* Headers, transactions and blocks.                                       *)
(***************************************************************************)
ProofOfWorkMembers == <<F("edgeBits", One({29, 31})), F("proofNonces", Nonces(0))>>

ProofOfWork(v, o) ==
    Class(ProofOfWorkMembers,
          <<F("edgeBits", U(1)), F("proofNonces", Nonces(Get(o, "edgeBits", 0)))>>,
          <<F("edgeBits", U(1)),
            F("proofNonces", IF Get(o, "edgeBits", 1) \in 1 .. 63
                               THEN Nonces(Get(o, "edgeBits", 1)) ELSE Throw)>>)

BlockHeaderMembers ==
    <<F("version", U(2)), F("height", U(8)), F("timestamp", U(8)),
      F("previousBlockHash", Hash32), F("previousRoot", Hash32), F("outputRoot", Hash32),
      F("rangeProofRoot", Hash32), F("kernelRoot", Hash32), F("totalKernelOffset", B(32)),
      F("outputMMRSize", U(8)), F("kernelMMRSize", U(8)), F("totalDifficulty", U(8)),
      F("scalingDifficulty", U(4)), F("nonce", U(8)), F("proofOfWork", Obj("ProofOfWork"))>>

BlockHeader(v, o) ==
    Class(BlockHeaderMembers,
          <<F("version", U(2)), F("height", U(8)), F("timestamp", U(8)),
            F("previousBlockHash", Hash32), F("previousRoot", Hash32), F("outputRoot", Hash32),
            F("rangeProofRoot", Hash32), F("kernelRoot", Hash32), F("totalKernelOffset", B(32)),
            F("outputMMRSize", U(8)), F("kernelMMRSize", U(8)), F("totalDifficulty", U(8)),
            F("scalingDifficulty", U(4)), F("nonce", U(8)), F("proofOfWork", Obj("ProofOfWork"))>>,
          <<F("version", U(2)), F("height", U(8)), F("timestamp", U(8)),
            F("previousBlockHash", Hash32), F("previousRoot", Hash32), F("outputRoot", Hash32),
            F("rangeProofRoot", Hash32), F("kernelRoot", Hash32), F("totalKernelOffset", B(32)),
            F("outputMMRSize", U(8)), F("kernelMMRSize", U(8)), F("totalDifficulty", U(8)),
            F("scalingDifficulty", U(4)), F("nonce", U(8)), F("proofOfWork", Obj("ProofOfWork"))>>)

\* The proof's bytes are padded to the maximum when the object is made.
RangeProof(v, o) ==
    Class(<<F("proofBytes", B(MaxProofSize))>>,
          <<V(U(8), Len(Get(o, "proofBytes", <<>>))), F("proofBytes", B(MaxProofSize))>>,
          <<F("proofSize", U(8)),
            F("proofBytes", IF Get(o, "proofSize", 0) > MaxProofSize
                              THEN Throw ELSE B(Get(o, "proofSize", 0)))>>)

\* A fee of forty bits, its low four bytes and the byte above them apart.
Fee(v, o) ==
    Class(<<F("shift", One(0 .. 15)), F("high", U(1)), F("low", U(4))>>,
          <<V(U(2), 0), F("shift", U(1)), F("high", U(1)), F("low", U(4))>>,
          <<F("zero", U(2)), F("shift", U(1)), F("high", U(1)), F("low", U(4))>>)

NoFee == [shift |-> 0, high |-> 0, low |-> 0]

DEFAULT_KERNEL == 0
COINBASE_KERNEL == 1
HEIGHT_LOCKED == 2
NO_RECENT_DUPLICATE == 3
WEEK_HEIGHT == 7 * 24 * 60

TransactionKernelMembers ==
    <<F("features", One(0 .. 3)), F("fee", Obj("Fee")), F("lockHeight", U(8)),
      F("excessCommitment", Commit), F("excessSignature", B(64))>>

TransactionKernelFixed ==
    <<F("features", U(1)), F("fee", Obj("Fee")), F("lockHeight", U(8)),
      F("excessCommitment", Commit), F("excessSignature", B(64))>>

\* Fixed width under V1; under later versions only the fields the features use.
TransactionKernel(v, o) ==
    LET features == Get(o, "features", DEFAULT_KERNEL)
        locked == features = HEIGHT_LOCKED
        nrd == features = NO_RECENT_DUPLICATE
        tail == <<F("excessCommitment", Commit), F("excessSignature", B(64))>>
    IN Class(TransactionKernelMembers,
             IF v >= 2
               THEN <<F("features", U(1))>>
                      \o (CASE features = DEFAULT_KERNEL -> <<F("fee", Obj("Fee"))>>
                            [] features = COINBASE_KERNEL -> <<>>
                            [] locked -> <<F("fee", Obj("Fee")), F("lockHeight", U(8))>>
                            [] nrd -> <<F("fee", Obj("Fee")), F("lockHeight", U(2))>>)
                      \o tail
               ELSE TransactionKernelFixed,
             IF v >= 2
               THEN <<F("features", U(1))>>
                      \o When(features # COINBASE_KERNEL, <<F("fee", Obj("Fee"))>>)
                      \o When(locked, <<F("lockHeight", U(8))>>)
                      \o When(nrd, <<F("lockHeight", U(2))>>)
                      \o tail
               ELSE TransactionKernelFixed)

TransactionInputMembers == <<F("features", One({0, 1})), F("commitment", Commit)>>

\* From V3 on the features are left out; the reader takes them from the coin view.
TransactionInput(v, o) ==
    Class(TransactionInputMembers,
          When(v < 3, <<F("features", U(1))>>) \o <<F("commitment", Commit)>>,
          When(v < 3, <<F("features", U(1))>>) \o <<F("commitment", Commit)>>)

TransactionOutputMembers ==
    <<F("features", One({0, 1})), F("commitment", Commit), F("rangeProof", Obj("RangeProof"))>>

TransactionOutput(v, o) ==
    Class(TransactionOutputMembers,
          <<F("features", U(1)), F("commitment", Commit), F("rangeProof", Obj("RangeProof"))>>,
          <<F("features", U(1)), F("commitment", Commit), F("rangeProof", Obj("RangeProof"))>>)

TransactionBodyMembers ==
    <<F("inputs", Vec(8, Obj("TransactionInput"))), F("outputs", Vec(8, Obj("TransactionOutput"))),
      F("kernels", Vec(8, Obj("TransactionKernel")))>>

\* The three counts come first, then the three lists.
TransactionBody(v, o) ==
    Class(TransactionBodyMembers,
          LET size(n) == Len(Get(o, n, <<>>))
          IN <<V(U(8), size("inputs")), V(U(8), size("outputs")), V(U(8), size("kernels")),
               F("inputs", Many(Obj("TransactionInput"), size("inputs"))),
               F("outputs", Many(Obj("TransactionOutput"), size("outputs"))),
               F("kernels", Many(Obj("TransactionKernel"), size("kernels")))>>,
          <<F("numInputs", U(8)), F("numOutputs", U(8)), F("numKernels", U(8)),
            F("inputs", Many(Obj("TransactionInput"), Get(o, "numInputs", 0))),
            F("outputs", Many(Obj("TransactionOutput"), Get(o, "numOutputs", 0))),
            F("kernels", Many(Obj("TransactionKernel"), Get(o, "numKernels", 0)))>>)

TransactionMembers == <<F("offset", B(32)), F("body", Obj("TransactionBody"))>>

Transaction(v, o) ==
    Class(TransactionMembers,
          <<F("offset", B(32)), F("body", Obj("TransactionBody"))>>,
          <<F("offset", B(32)), F("body", Obj("TransactionBody"))>>)

FullBlockMembers == <<F("header", Obj("BlockHeader")), F("body", Obj("TransactionBody"))>>

FullBlock(v, o) ==
    Class(FullBlockMembers,
          <<F("header", Obj("BlockHeader")), F("body", Obj("TransactionBody"))>>,
          <<F("header", Obj("BlockHeader")), F("body", Obj("TransactionBody"))>>)

ShortId(v, o) == Class(<<F("id", B(6))>>, <<F("id", B(6))>>, <<F("id", B(6))>>)

CompactBlockMembers ==
    <<F("header", Obj("BlockHeader")), F("nonce", U(8)),
      F("outputs", Vec(8, Obj("TransactionOutput"))), F("kernels", Vec(8, Obj("TransactionKernel"))),
      F("shortIds", Vec(8, Obj("ShortId")))>>

CompactBlock(v, o) ==
    Class(CompactBlockMembers,
          LET size(n) == Len(Get(o, n, <<>>))
          IN <<F("header", Obj("BlockHeader")), F("nonce", U(8)),
               V(U(8), size("outputs")), V(U(8), size("kernels")), V(U(8), size("shortIds")),
               F("outputs", Many(Obj("TransactionOutput"), size("outputs"))),
               F("kernels", Many(Obj("TransactionKernel"), size("kernels"))),
               F("shortIds", Many(Obj("ShortId"), size("shortIds")))>>,
          <<F("header", Obj("BlockHeader")), F("nonce", U(8)),
            F("numOutputs", U(8)), F("numKernels", U(8)), F("numShortIds", U(8)),
            F("outputs", Many(Obj("TransactionOutput"), Get(o, "numOutputs", 0))),
            F("kernels", Many(Obj("TransactionKernel"), Get(o, "numKernels", 0))),
            F("shortIds", Many(Obj("ShortId"), Get(o, "numShortIds", 0)))>>)

\* An output without its proof, as the output MMR holds it.
OutputIdentifier(v, o) ==
    Class(<<F("features", One({0, 1})), F("commitment", Commit)>>,
          <<F("features", U(1)), F("commitment", Commit)>>,
          <<F("features", U(1)), F("commitment", Commit)>>)

(***************************************************************************)
(* Records of the block database.                                          *)
(***************************************************************************)
\* An output's place is stored as its MMR position and held as its leaf index.
OutputLocation(v, o) ==
    Class(<<F("leafIndex", One(0 .. 9)), F("blockHeight", U(8))>>,
          <<V(U(8), LeafPosition(Get(o, "leafIndex", 0))), F("blockHeight", U(8))>>,
          <<F("position", U(8)), F("blockHeight", U(8))>>)

SpentOutput(v, o) ==
    Class(<<F("commitment", Commit), F("location", Obj("OutputLocation"))>>,
          <<F("commitment", Commit), F("location", Obj("OutputLocation"))>>,
          <<F("commitment", Commit), F("location", Obj("OutputLocation"))>>)

SpentOutputs(v, o) ==
    Class(<<F("spentOutputs", Vec(2, Obj("SpentOutput")))>>,
          <<V(U(1), 0), F("spentOutputs", Vec(2, Obj("SpentOutput")))>>,
          <<F("format", U(1)), F("spentOutputs", Vec(2, Obj("SpentOutput")))>>)

BlockSums(v, o) ==
    Class(<<F("outputSum", Commit), F("kernelSum", Commit)>>,
          <<F("outputSum", Commit), F("kernelSum", Commit)>>,
          <<F("outputSum", Commit), F("kernelSum", Commit)>>)

(***************************************************************************)
(* Segments of the transaction hash set.                                   *)
(***************************************************************************)
SegmentIdentifier(v, o) ==
    Class(<<F("height", U(1)), F("index", U(8))>>,
          <<F("height", U(1)), F("index", U(8))>>,
          <<F("height", U(1)), F("index", U(8))>>)

SegmentProof(v, o) ==
    Class(<<F("hashes", Vec(8, Hash32))>>, <<F("hashes", Vec(8, Hash32))>>, <<F("hashes", Vec(8, Hash32))>>)

\* Positions count from zero in memory and from one on the wire.
Segment(leaf, v, o) ==
    Class(<<F("id", Obj("SegmentIdentifier")), F("hashPos", Vec(8, U(8))), F("hashes", Vec(8, Hash32)),
            F("leafPos", Vec(8, U(8))), F("leaves", Vec(8, Obj(leaf))), F("proof", Obj("SegmentProof"))>>,
          LET oneBased(n) == [i \in 1 .. Len(Get(o, n, <<>>)) |-> o[n][i] + 1]
          IN <<F("id", Obj("SegmentIdentifier")),
               V(Vec(8, U(8)), oneBased("hashPos")),
               F("hashes", Many(Hash32, Len(Get(o, "hashes", <<>>)))),
               V(Vec(8, U(8)), oneBased("leafPos")),
               F("leaves", Many(Obj(leaf), Len(Get(o, "leaves", <<>>)))),
               F("proof", Obj("SegmentProof"))>>,
          <<F("id", Obj("SegmentIdentifier")),
            F("wireHashPos", Vec(8, U(8))),
            F("hashes", Many(Hash32, Len(Get(o, "wireHashPos", <<>>)))),
            F("wireLeafPos", Vec(8, U(8))),
            F("leaves", Many(Obj(leaf), Len(Get(o, "wireLeafPos", <<>>)))),
            F("proof", Obj("SegmentProof"))>>)

\* Raw bits, or the positions of the bits that are set or not set.
BitmapSegmentBlock(v, o) ==
    LET raw == Get(o, "mode", 0) = 0
        chunks == Get(o, "chunkCount", 0)
    IN Class(<<F("chunkCount", One({0, 1, 2})), F("mode", One(0 .. 2)),
               F("positions", Vec(2, U(2))), F("bitmapBytes", Sized({0, 128, 256}))>>,
             <<F("chunkCount", U(1)), F("mode", U(1))>>
               \o IF raw THEN <<F("bitmapBytes", B(Len(Get(o, "bitmapBytes", <<>>))))>>
                         ELSE <<F("positions", Vec(2, U(2)))>>,
             <<F("chunkCount", U(1)), F("mode", U(1))>>
               \o CASE Get(o, "mode", 0) > 2 -> <<F("positions", Throw)>>
                    [] raw -> <<F("bitmapBytes", B(chunks * 128))>>
                    [] OTHER -> <<F("positions", Vec(2, U(2)))>>)

BitmapSegment(v, o) ==
    Class(<<F("id", Obj("SegmentIdentifier")), F("blocks", Vec(2, Obj("BitmapSegmentBlock"))),
            F("proof", Obj("SegmentProof"))>>,
          <<F("id", Obj("SegmentIdentifier")), F("blocks", Vec(2, Obj("BitmapSegmentBlock"))),
            F("proof", Obj("SegmentProof"))>>,
          <<F("id", Obj("SegmentIdentifier")), F("blocks", Vec(2, Obj("BitmapSegmentBlock"))),
            F("proof", Obj("SegmentProof"))>>)

(***************************************************************************)
(* Messages between peers.                                                 *)
(***************************************************************************)
ErrorMessage(v, o) ==
    Class(<<F("errorCode", U(4)), F("errorMessage", VarStr)>>,
          <<F("errorCode", U(4)), F("errorMessage", VarStr)>>,
          <<F("errorCode", U(4)), F("errorMessage", VarStr)>>)

HandMessage(v, o) ==
    Class(<<F("version", U(4)), F("capabilities", U(4)), F("nonce", U(8)), F("totalDifficulty", U(8)),
            F("senderAddress", Obj("SocketAddress")), F("receiverAddress", Obj("SocketAddress")),
            F("userAgent", VarStr), F("hash", Hash32)>>,
          <<F("version", U(4)), F("capabilities", U(4)), F("nonce", U(8)), F("totalDifficulty", U(8)),
            F("senderAddress", Obj("SocketAddress")), F("receiverAddress", Obj("SocketAddress")),
            F("userAgent", VarStr), F("hash", Hash32)>>,
          <<F("version", U(4)), F("capabilities", U(4)), F("nonce", U(8)), F("totalDifficulty", U(8)),
            F("senderAddress", Obj("SocketAddress")), F("receiverAddress", Obj("SocketAddress")),
            F("userAgent", VarStr), F("hash", Hash32)>>)

ShakeMessage(v, o) ==
    Class(<<F("version", U(4)), F("capabilities", U(4)), F("totalDifficulty", U(8)),
            F("userAgent", VarStr), F("hash", Hash32)>>,
          <<F("version", U(4)), F("capabilities", U(4)), F("totalDifficulty", U(8)),
            F("userAgent", VarStr), F("hash", Hash32)>>,
          <<F("version", U(4)), F("capabilities", U(4)), F("totalDifficulty", U(8)),
            F("userAgent", VarStr), F("hash", Hash32)>>)

PingMessage(v, o) ==
    Class(<<F("totalDifficulty", U(8)), F("height", U(8))>>,
          <<F("totalDifficulty", U(8)), F("height", U(8))>>,
          <<F("totalDifficulty", U(8)), F("height", U(8))>>)

PongMessage(v, o) ==
    Class(<<F("totalDifficulty", U(8)), F("height", U(8))>>,
          <<F("totalDifficulty", U(8)), F("height", U(8))>>,
          <<F("totalDifficulty", U(8)), F("height", U(8))>>)

GetPeerAddressesMessage(v, o) ==
    Class(<<F("capabilities", U(4))>>, <<F("capabilities", U(4))>>, <<F("capabilities", U(4))>>)

PeerAddressesMessage(v, o) ==
    Class(<<F("peerAddresses", Vec(4, Obj("SocketAddress")))>>,
          <<F("peerAddresses", Vec(4, Obj("SocketAddress")))>>,
          <<F("peerAddresses", Vec(4, Obj("SocketAddress")))>>)

GetHeadersMessage(v, o) ==
    Class(<<F("hashes", Vec(1, Hash32))>>, <<F("hashes", Vec(1, Hash32))>>, <<F("hashes", Vec(1, Hash32))>>)

HeaderMessage(v, o) ==
    Class(<<F("header", Obj("BlockHeader"))>>, <<F("header", Obj("BlockHeader"))>>,
          <<F("header", Obj("BlockHeader"))>>)

HeadersMessage(v, o) ==
    Class(<<F("headers", Vec(2, Obj("BlockHeader")))>>,
          <<F("headers", Vec(2, Obj("BlockHeader")))>>,
          <<F("headers", Vec(2, Obj("BlockHeader")))>>)

GetBlockMessage(v, o) == Class(<<F("hash", Hash32)>>, <<F("hash", Hash32)>>, <<F("hash", Hash32)>>)

BlockMessage(v, o) ==
    Class(<<F("block", Obj("FullBlock"))>>, <<F("block", Obj("FullBlock"))>>, <<F("block", Obj("FullBlock"))>>)

GetCompactBlockMessage(v, o) == Class(<<F("hash", Hash32)>>, <<F("hash", Hash32)>>, <<F("hash", Hash32)>>)

CompactBlockMessage(v, o) ==
    Class(<<F("block", Obj("CompactBlock"))>>, <<F("block", Obj("CompactBlock"))>>,
          <<F("block", Obj("CompactBlock"))>>)

StemTransactionMessage(v, o) ==
    Class(<<F("tx", Obj("Transaction"))>>, <<F("tx", Obj("Transaction"))>>, <<F("tx", Obj("Transaction"))>>)

TransactionMessage(v, o) ==
    Class(<<F("tx", Obj("Transaction"))>>, <<F("tx", Obj("Transaction"))>>, <<F("tx", Obj("Transaction"))>>)

TxHashSetRequestMessage(v, o) ==
    Class(<<F("blockHash", Hash32), F("blockHeight", U(8))>>,
          <<F("blockHash", Hash32), F("blockHeight", U(8))>>,
          <<F("blockHash", Hash32), F("blockHeight", U(8))>>)

TxHashSetArchiveMessage(v, o) ==
    Class(<<F("blockHash", Hash32), F("blockHeight", U(8)), F("zippedSize", U(8))>>,
          <<F("blockHash", Hash32), F("blockHeight", U(8)), F("zippedSize", U(8))>>,
          <<F("blockHash", Hash32), F("blockHeight", U(8)), F("zippedSize", U(8))>>)

BanReasonMessage(v, o) ==
    Class(<<F("banReason", U(4))>>, <<F("banReason", U(4))>>, <<F("banReason", U(4))>>)

GetTransactionMessage(v, o) ==
    Class(<<F("kernelHash", Hash32)>>, <<F("kernelHash", Hash32)>>, <<F("kernelHash", Hash32)>>)

TransactionKernelMessage(v, o) ==
    Class(<<F("kernelHash", Hash32)>>, <<F("kernelHash", Hash32)>>, <<F("kernelHash", Hash32)>>)

SegmentRequestMessage(v, o) ==
    Class(<<F("blockHash", Hash32), F("id", Obj("SegmentIdentifier"))>>,
          <<F("blockHash", Hash32), F("id", Obj("SegmentIdentifier"))>>,
          <<F("blockHash", Hash32), F("id", Obj("SegmentIdentifier"))>>)

SegmentResponseMessage(seg, v, o) ==
    Class(<<F("blockHash", Hash32), F("segment", Obj(seg))>>,
          <<F("blockHash", Hash32), F("segment", Obj(seg))>>,
          <<F("blockHash", Hash32), F("segment", Obj(seg))>>)

OutputSegmentMessage(v, o) ==
    Class(<<F("blockHash", Hash32), F("segment", Obj("OutputSegment")), F("outputBitmapRoot", Hash32)>>,
          <<F("blockHash", Hash32), F("segment", Obj("OutputSegment")), F("outputBitmapRoot", Hash32)>>,
          <<F("blockHash", Hash32), F("segment", Obj("OutputSegment")), F("outputBitmapRoot", Hash32)>>)

OutputBitmapSegmentMessage(v, o) ==
    Class(<<F("blockHash", Hash32), F("segment", Obj("BitmapSegment")), F("outputRoot", Hash32)>>,
          <<F("blockHash", Hash32), F("segment", Obj("BitmapSegment")), F("outputRoot", Hash32)>>,
          <<F("blockHash", Hash32), F("segment", Obj("BitmapSegment")), F("outputRoot", Hash32)>>)

GetHeaderSegmentMessage(v, o) ==
    Class(<<F("id", Obj("SegmentIdentifier"))>>, <<F("id", Obj("SegmentIdentifier"))>>,
          <<F("id", Obj("SegmentIdentifier"))>>)

HeaderSegmentMessage(v, o) ==
    Class(<<F("id", Obj("SegmentIdentifier")), F("headers", Vec(2, Obj("BlockHeader")))>>,
          <<F("id", Obj("SegmentIdentifier")), F("headers", Vec(2, Obj("BlockHeader")))>>,
          <<F("id", Obj("SegmentIdentifier")), F("headers", Vec(2, Obj("BlockHeader")))>>)

(***************************************************************************)
(* Slates and the records of the wallet.                                   *)
(***************************************************************************)
SlateSignature(v, o) ==
    Class(<<F("excess", B(33)), F("nonce", B(33)), F("partial", Opt(B(64)))>>,
          <<V(U(1), Flag(o, "partial")), F("excess", B(33)), F("nonce", B(33))>>
            \o When(Has(o, "partial"), <<F("partial", RawSignature)>>),
          <<F("hasSig", U(1)), F("excess", B(33)), F("nonce", B(33))>>
            \o When(Get(o, "hasSig", 0) > 0, <<F("partial", RawSignature)>>))

SlateCommitment(v, o) ==
    Class(<<F("features", One({0, 1})), F("commitment", Commit), F("proof", Opt(Obj("RangeProof")))>>,
          <<V(U(1), Flag(o, "proof")), F("features", U(1)), F("commitment", Commit)>>
            \o When(Has(o, "proof"), <<F("proof", Obj("RangeProof"))>>),
          <<F("hasProof", U(1)), F("features", U(1)), F("commitment", Commit)>>
            \o When(Get(o, "hasProof", 0) > 0, <<F("proof", Obj("RangeProof"))>>))

SlatePaymentProof(v, o) ==
    Class(<<F("senderAddress", B(32)), F("receiverAddress", B(32)), F("receiverSignature", Opt(B(64)))>>,
          <<F("senderAddress", B(32)), F("receiverAddress", B(32))>>
            \o IF Has(o, "receiverSignature") THEN <<V(U(1), 1), F("receiverSignature", B(64))>>
                                              ELSE <<V(U(1), 0)>>,
          <<F("senderAddress", B(32)), F("receiverAddress", B(32)), F("hasSignature", U(1))>>
            \o When(Get(o, "hasSignature", 0) = 1, <<F("receiverSignature", B(64))>>))

\* Bit i of a status byte.
Bit(byte, i) == (byte \div 2^i) % 2 = 1

\* The status bytes that say which optional fields and structures follow.
FieldStatus(o) ==
    (IF Get(o, "numParticipants", 2) # 2 THEN 1 ELSE 0) + (IF Get(o, "amount", 0) # 0 THEN 2 ELSE 0)
      + (IF Get(o, "fee", NoFee) # NoFee THEN 4 ELSE 0)
      + (IF Get(o, "kernelFeatures", 0) # DEFAULT_KERNEL THEN 8 ELSE 0)
      + (IF Get(o, "ttl", 0) # 0 THEN 16 ELSE 0)

StructStatus(o) ==
    (IF Get(o, "commitments", <<>>) # <<>> THEN 1 ELSE 0) + (IF Has(o, "proof") THEN 2 ELSE 0)

SlateMembers ==
    <<F("version", U(2)), F("blockVersion", U(2)), F("slateId", B(16)), F("stage", One(1 .. 6)),
      F("offset", B(32)), F("numParticipants", One({2, 3})), F("amount", U(8)), F("fee", Obj("Fee")),
      F("kernelFeatures", One({0, 2})), F("ttl", U(8)), F("sigs", Vec(1, Obj("SlateSignature"))),
      F("commitments", Vec(2, Obj("SlateCommitment"))), F("proof", Opt(Obj("SlatePaymentProof"))),
      F("lockHeight", U(8))>>

SlateWrite(o) ==
    <<F("version", U(2)), F("blockVersion", U(2)), F("slateId", B(16)), F("stage", U(1)),
      F("offset", B(32)), V(U(1), FieldStatus(o))>>
      \o When(Bit(FieldStatus(o), 0), <<F("numParticipants", U(1))>>)
      \o When(Bit(FieldStatus(o), 1), <<F("amount", U(8))>>)
      \o When(Bit(FieldStatus(o), 2), <<F("fee", Obj("Fee"))>>)
      \o When(Bit(FieldStatus(o), 3), <<F("kernelFeatures", U(1))>>)
      \o When(Bit(FieldStatus(o), 4), <<F("ttl", U(8))>>)
      \o <<F("sigs", Vec(1, Obj("SlateSignature"))), V(U(1), StructStatus(o))>>
      \o When(Bit(StructStatus(o), 0), <<F("commitments", Vec(2, Obj("SlateCommitment")))>>)
      \o When(Bit(StructStatus(o), 1), <<F("proof", Obj("SlatePaymentProof"))>>)
      \o When(Get(o, "kernelFeatures", 0) = HEIGHT_LOCKED, <<F("lockHeight", U(8))>>)

SlateRead(o) ==
    LET fields == Get(o, "fieldStatus", 0)
        structs == Get(o, "structStatus", 0)
    IN <<F("version", U(2)), F("blockVersion", U(2)), F("slateId", B(16)),
         F("stage", U(1)), F("offset", B(32)), F("fieldStatus", U(1))>>
         \o When(Bit(fields, 0), <<F("numParticipants", U(1))>>)
         \o When(Bit(fields, 1), <<F("amount", U(8))>>)
         \o When(Bit(fields, 2), <<F("fee", Obj("Fee"))>>)
         \o When(Bit(fields, 3), <<F("kernelFeatures", U(1))>>)
         \o When(Bit(fields, 4), <<F("ttl", U(8))>>)
         \o <<F("sigs", Vec(1, Obj("SlateSignature"))), F("structStatus", U(1))>>
         \o When(Bit(structs, 0), <<F("commitments", Vec(2, Obj("SlateCommitment")))>>)
         \o When(Bit(structs, 1), <<F("proof", Obj("SlatePaymentProof"))>>)
         \o When(Get(o, "kernelFeatures", 0) = HEIGHT_LOCKED, <<F("lockHeight", U(8))>>)

Slate(v, o) == Class(SlateMembers, SlateWrite(o), SlateRead(o))

SlatepackAddress(v, o) ==
    Class(<<F("pubkey", B(32))>>, <<F("pubkey", Address)>>, <<F("pubkey", Address)>>)

PLAINTEXT == 0
ENCRYPTED == 1

\* The sender is in the clear only in a plaintext pack; an encrypted pack
\* seals its metadata together with the payload.
SlatepackMessage(v, o) ==
    LET mode == Get(o, "mode", PLAINTEXT)
        recipients == Get(o, "recipients", <<>>)
        clear == mode = PLAINTEXT
        flags == Get(o, "metaFlags", 0)
    IN Class(<<F("major", U(1)), F("minor", U(1)), F("mode", One({PLAINTEXT, ENCRYPTED})),
               F("sender", Obj("SlatepackAddress")), F("recipients", Vec(2, Obj("SlatepackAddress"))),
               F("payload", Bytes(8))>>,
             <<F("major", U(1)), F("minor", U(1)), F("mode", U(1)), V(U(2), IF clear THEN 1 ELSE 0),
               Boxed(4, When(clear, <<F("sender", Obj("SlatepackAddress"))>>))>>
               \o IF clear
                    THEN <<F("payload", Bytes(8))>>
                    ELSE <<Sealed(8, <<Boxed(4, <<V(U(2), IF recipients = <<>> THEN 1 ELSE 3),
                                                  F("sender", Obj("SlatepackAddress"))>>
                                                  \o When(recipients # <<>>,
                                                       <<F("recipients", Vec(2, Obj("SlatepackAddress")))>>)),
                                       F("payload", Rest)>>)>>,
             <<F("major", U(1)), F("minor", U(1)), F("mode", U(1)), F("optFlags", U(2)),
               Boxed(4, When(Bit(Get(o, "optFlags", 0), 0), <<F("sender", Obj("SlatepackAddress"))>>))>>
               \o IF clear
                    THEN <<F("payload", Bytes(8))>>
                    ELSE <<Sealed(8, <<Boxed(4, <<F("metaFlags", U(2))>>
                                                  \o When(Bit(flags, 0), <<F("sender", Obj("SlatepackAddress"))>>)
                                                  \o When(Bit(flags, 1),
                                                       <<F("recipients", Vec(2, Obj("SlatepackAddress")))>>)),
                                       F("payload", Rest)>>)>>)

OUTPUT_DATA_FORMAT == 1

\* An output of the wallet; its transaction id is the last field and optional.
OutputDataEntity(v, o) ==
    LET more == Get(o, "remaining", 0) # 0
    IN Class(<<F("keyChainPath", VarStr), F("blindingFactor", B(32)), F("output", Obj("TransactionOutput")),
               F("amount", U(8)), F("status", One(0 .. 5)), F("mmrIndex", Opt(Positive(8))),
               F("blockHeight", Opt(Positive(8))), F("label", Opt(Text)), F("walletTxId", Opt(U(4)))>>,
             <<V(U(1), OUTPUT_DATA_FORMAT), F("keyChainPath", VarStr), F("blindingFactor", B(32)),
               F("output", Obj("TransactionOutput")), F("amount", U(8)), F("status", U(1)),
               V(U(8), Get(o, "mmrIndex", 0)), V(U(8), Get(o, "blockHeight", 0)),
               V(VarStr, Get(o, "label", <<>>))>>
               \o When(Has(o, "walletTxId"), <<F("walletTxId", U(4))>>),
             <<F("format", U(1)),
               F("keyChainPath", IF Get(o, "format", 0) > OUTPUT_DATA_FORMAT THEN Throw ELSE VarStr),
               F("blindingFactor", B(32)),
               F("output", Obj("TransactionOutput")), F("amount", U(8)), F("status", U(1)),
               F("mmrIndex", U(8))>>
               \o When(more \/ Has(o, "blockHeight"), <<F("blockHeight", U(8))>>)
               \o When(Get(o, "format", 1) >= 1, <<F("label", VarStr)>>)
               \o When(more \/ Has(o, "walletTxId"), <<F("walletTxId", U(4))>>))

WALLET_TX_DATA_FORMAT == 3

\* A transaction of the wallet; the Grin transaction is the last field and optional.
WalletTx(v, o) ==
    LET format == Get(o, "format", WALLET_TX_DATA_FORMAT)
    IN Class(<<F("walletTxId", U(4)), F("type", One(0 .. 7)), F("slateId", Opt(Text)), F("address", Opt(Text)),
               F("slateMessage", Opt(Text)), F("creationTime", U(8)), F("confirmationTime", Opt(Positive(8))),
               F("confirmedHeight", Opt(Positive(8))), F("amountCredited", U(8)), F("amountDebited", U(8)),
               F("fee", Opt(Obj("Fee"))), F("paymentProof", Opt(Obj("SlatePaymentProof"))),
               F("transaction", Opt(Obj("Transaction")))>>,
             <<V(U(1), WALLET_TX_DATA_FORMAT), F("walletTxId", U(4)), F("type", U(1)),
               V(VarStr, Get(o, "slateId", <<>>)), V(VarStr, Get(o, "address", <<>>)),
               V(VarStr, Get(o, "slateMessage", <<>>)), F("creationTime", U(8)),
               V(U(8), Get(o, "confirmationTime", 0)), V(U(8), Get(o, "confirmedHeight", 0)),
               F("amountCredited", U(8)), F("amountDebited", U(8)), V(U(1), Flag(o, "fee"))>>
               \o When(Has(o, "fee"), <<F("fee", Obj("Fee"))>>)
               \o <<V(U(1), Flag(o, "paymentProof"))>>
               \o When(Has(o, "paymentProof"), <<F("paymentProof", Obj("SlatePaymentProof"))>>)
               \o When(Has(o, "transaction"), <<F("transaction", Obj("Transaction"))>>),
             <<F("format", U(1)), F("walletTxId", IF format > WALLET_TX_DATA_FORMAT THEN Throw ELSE U(4)),
               F("type", U(1)), F("slateId", VarStr)>>
               \o When(format >= 2, <<F("address", VarStr)>>)
               \o When(format >= 1, <<F("slateMessage", VarStr)>>)
               \o <<F("creationTime", U(8)), F("confirmationTime", U(8)), F("confirmedHeight", U(8)),
                    F("amountCredited", U(8)), F("amountDebited", U(8)), F("hasFee", U(1))>>
               \o When(Get(o, "hasFee", 0) = 1, <<F("fee", Obj("Fee"))>>)
               \o When(format >= 3, <<F("hasProof", U(1))>>)
               \o When(Get(o, "hasProof", 0) = 1, <<F("paymentProof", Obj("SlatePaymentProof"))>>)
               \o When(Get(o, "remaining", 0) > 0 \/ Has(o, "transaction"),
                       <<F("transaction", Obj("Transaction"))>>))

\* The wallet's side of a slate in progress, with the outputs it locked and made.
SlateContextEntity(v, o) ==
    Class(<<F("secretKey", B(32)), F("secretNonce", B(32)), F("inputs", Vec(8, Obj("OutputDataEntity"))),
            F("outputs", Vec(8, Obj("OutputDataEntity")))>>,
          <<F("secretKey", B(32)), F("secretNonce", B(32)), F("inputs", Vec(8, Obj("OutputDataEntity"))),
            F("outputs", Vec(8, Obj("OutputDataEntity")))>>,
          <<F("secretKey", B(32)), F("secretNonce", B(32)), F("inputs", Vec(8, Obj("OutputDataEntity"))),
            F("outputs", Vec(8, Obj("OutputDataEntity")))>>)

USER_METADATA_FORMAT == 0

UserMetadata(v, o) ==
    Class(<<F("nextTxId", U(4)), F("refreshBlockHeight", U(8)), F("restoreLeafIndex", U(8))>>,
          <<V(U(1), USER_METADATA_FORMAT), F("nextTxId", U(4)), F("refreshBlockHeight", U(8)),
            F("restoreLeafIndex", U(8))>>,
          <<F("format", U(1)),
            F("nextTxId", IF Get(o, "format", 0) # USER_METADATA_FORMAT THEN Throw ELSE U(4)),
            F("refreshBlockHeight", U(8)), F("restoreLeafIndex", U(8))>>)

ENCRYPTED_SEED_FORMAT == 1

EncryptedSeed(v, o) ==
    Class(<<F("iv", B(16)), F("salt", B(8)), F("N", U(4)), F("r", U(4)), F("p", U(4)),
            F("encryptedSeed", Bytes(8))>>,
          <<V(U(1), ENCRYPTED_SEED_FORMAT), F("iv", B(16)), F("salt", B(8)), F("N", U(4)), F("r", U(4)),
            F("p", U(4)), F("encryptedSeed", Rest)>>,
          <<F("format", U(1)), F("iv", B(16)), F("salt", B(8))>>
            \o When(Get(o, "format", 1) >= 1, <<F("N", U(4)), F("r", U(4)), F("p", U(4))>>)
            \o <<F("encryptedSeed", Rest)>>)

==============================================================================
