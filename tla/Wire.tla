--------------------------------- MODULE Wire ---------------------------------
(***************************************************************************)
(* Bytes on the wire and on disk: the serializer and the byte buffer that  *)
(* interpret the formats of module Formats, the framing of a message, the  *)
(* version two peers agree on, and what the other end holds in the end.    *)
(*                                                                         *)
(* Two peers of this code, of different releases, shake hands; then each   *)
(* message of the protocol is sent with the sender's version, may be cut   *)
(* short, and is read with the receiver's.  A record is written to disk    *)
(* and loaded again.                                                       *)
(***************************************************************************)
EXTENDS Formats, FiniteSetsExt, SequencesExt

CONSTANTS
    Seeds,          \* numbers from which sample objects are made
    Cuts            \* how many bytes the end of a message may lose

VARIABLES
    versions,       \* the version each end settled on, or None
    transit,        \* the class, the seed and the bytes in transit
    got             \* what the receiver made of them

wireVars == <<versions, transit, got>>

None == [none |-> TRUE]

(***************************************************************************)
(* The byte buffer: a read takes bytes from the front or throws.           *)
(***************************************************************************)
Failed == [ok |-> FALSE, x |-> 0, rest |-> <<>>]

Done(x, rest) == [ok |-> TRUE, x |-> x, rest |-> rest]

\* Go on with what was read, unless reading threw.
Then(r, Next2(_, _)) == IF r.ok THEN Next2(r.x, r.rest) ELSE Failed

Take(buf, n) ==
    IF n > Len(buf) THEN Failed ELSE Done(SubSeq(buf, 1, n), SubSeq(buf, n + 1, Len(buf)))

\* A number too large to be modelled; every larger one is this one.
Huge == 2^30

\* Serializer::Append of an integer and ByteBuffer::ReadBigEndian.
BigEndian(w, n) == [i \in 1 .. w |-> IF w - i > 3 THEN 0 ELSE (n \div 256^(w - i)) % 256]

FromBigEndian(bytes) ==
    LET w == Len(bytes)
        digit(i) == IF i < w THEN bytes[w - i] * 256^i ELSE 0
    IN IF \E i \in 1 .. w - 3 : bytes[i] # 0 THEN Huge ELSE digit(0) + digit(1) + digit(2)

ReadNumber(w, buf) == Then(Take(buf, w), LAMBDA b, rest : Done(FromBigEndian(b), rest))

\* ProofOfWork::SerializeCycle and DeserializeProofNonces: bit b of nonce n
\* (from zero) is bit n * e + b of the string, low bits of a byte first.
CycleBytes(e) == (e * ProofSize + 7) \div 8

PackNonces(e, nonces) ==
    LET set(p) == p < e * ProofSize /\ (nonces[(p \div e) + 1] \div 2^(p % e)) % 2 = 1
    IN [j \in 1 .. CycleBytes(e) |->
          MapThenSumSet(LAMBDA b : 2^b, {b \in 0 .. 7 : set(8 * (j - 1) + b)})]

UnpackNonces(e, bytes) ==
    LET set(p) == (bytes[(p \div 8) + 1] \div 2^(p % 8)) % 2 = 1
    IN [n \in 1 .. ProofSize |->
          MapThenSumSet(LAMBDA b : 2^b, {b \in 0 .. e - 1 : set((n - 1) * e + b)})]

\* Bech32 (external): a prefix, the key's bits in smaller groups, a checksum.
HRC == <<103, 114, 105, 110, 49>>

Checksum(key) == (key[1] + 3 * key[2] + 5 * key[Len(key)]) % 32

Bech32(key) ==
    HRC \o [i \in 1 .. 2 * Len(key) |->
              IF i % 2 = 1 THEN key[(i + 1) \div 2] \div 16 ELSE key[i \div 2] % 16]
        \o <<Checksum(key)>>

Bech32Parse(text) ==
    LET n == (Len(text) - Len(HRC) - 1) \div 2
        key == [i \in 1 .. n |-> text[Len(HRC) + 2 * i - 1] * 16 + text[Len(HRC) + 2 * i]]
    IN IF n = 32 /\ SubSeq(text, 1, Len(HRC)) = HRC /\ Last(text) = Checksum(key)
         THEN Done(key, <<>>) ELSE Failed

\* Age encryption (external): a header and bytes that are not the clear ones.
Encrypt(bytes) == <<255>> \o Reverse(bytes)

Decrypt(bytes) == IF bytes # <<>> /\ bytes[1] = 255 THEN Done(Reverse(Tail(bytes)), <<>>) ELSE Failed

\* Hashes (external): what counts is the order they put byte strings in.
HashBefore(a, b) ==
    LET mixed(s) == LET k == Len(s) \div 4 IN SubSeq(s, k + 1, Len(s)) \o SubSeq(s, 1, k)
        x == mixed(a)
        y == mixed(b)
        common == Min({Len(x), Len(y)})
    IN \/ \E i \in 1 .. common : x[i] < y[i] /\ \A j \in 1 .. i - 1 : x[j] = y[j]
       \/ Len(x) < Len(y) /\ \A j \in 1 .. common : x[j] = y[j]

\* One sequence of bytes from several.
RECURSIVE Concat(_)
Concat(parts) ==
    CASE Len(parts) = 0 -> <<>>
      [] Len(parts) = 1 -> parts[1]
      [] OTHER -> LET h == Len(parts) \div 2
                  IN Concat(SubSeq(parts, 1, h)) \o Concat(SubSeq(parts, h + 1, Len(parts)))

(***************************************************************************)
(* Writing and reading an object of a class.                               *)
(***************************************************************************)
ClassOf(c, v, o) ==
    CASE c = "IPAddress" -> IPAddress(v, o)
      [] c = "SocketAddress" -> SocketAddress(v, o)
      [] c = "Peer" -> Peer(v, o)
      [] c = "ProofOfWork" -> ProofOfWork(v, o)
      [] c = "BlockHeader" -> BlockHeader(v, o)
      [] c = "RangeProof" -> RangeProof(v, o)
      [] c = "Fee" -> Fee(v, o)
      [] c = "TransactionKernel" -> TransactionKernel(v, o)
      [] c = "TransactionInput" -> TransactionInput(v, o)
      [] c = "TransactionOutput" -> TransactionOutput(v, o)
      [] c = "TransactionBody" -> TransactionBody(v, o)
      [] c = "Transaction" -> Transaction(v, o)
      [] c = "FullBlock" -> FullBlock(v, o)
      [] c = "ShortId" -> ShortId(v, o)
      [] c = "CompactBlock" -> CompactBlock(v, o)
      [] c = "OutputIdentifier" -> OutputIdentifier(v, o)
      [] c = "OutputLocation" -> OutputLocation(v, o)
      [] c = "SpentOutput" -> SpentOutput(v, o)
      [] c = "SpentOutputs" -> SpentOutputs(v, o)
      [] c = "BlockSums" -> BlockSums(v, o)
      [] c = "SegmentIdentifier" -> SegmentIdentifier(v, o)
      [] c = "SegmentProof" -> SegmentProof(v, o)
      [] c = "BitmapSegmentBlock" -> BitmapSegmentBlock(v, o)
      [] c = "BitmapSegment" -> BitmapSegment(v, o)
      [] c = "ErrorMessage" -> ErrorMessage(v, o)
      [] c = "HandMessage" -> HandMessage(v, o)
      [] c = "ShakeMessage" -> ShakeMessage(v, o)
      [] c = "PingMessage" -> PingMessage(v, o)
      [] c = "PongMessage" -> PongMessage(v, o)
      [] c = "GetPeerAddressesMessage" -> GetPeerAddressesMessage(v, o)
      [] c = "PeerAddressesMessage" -> PeerAddressesMessage(v, o)
      [] c = "GetHeadersMessage" -> GetHeadersMessage(v, o)
      [] c = "HeaderMessage" -> HeaderMessage(v, o)
      [] c = "HeadersMessage" -> HeadersMessage(v, o)
      [] c = "GetBlockMessage" -> GetBlockMessage(v, o)
      [] c = "BlockMessage" -> BlockMessage(v, o)
      [] c = "GetCompactBlockMessage" -> GetCompactBlockMessage(v, o)
      [] c = "CompactBlockMessage" -> CompactBlockMessage(v, o)
      [] c = "StemTransactionMessage" -> StemTransactionMessage(v, o)
      [] c = "TransactionMessage" -> TransactionMessage(v, o)
      [] c = "TxHashSetRequestMessage" -> TxHashSetRequestMessage(v, o)
      [] c = "TxHashSetArchiveMessage" -> TxHashSetArchiveMessage(v, o)
      [] c = "BanReasonMessage" -> BanReasonMessage(v, o)
      [] c = "GetTransactionMessage" -> GetTransactionMessage(v, o)
      [] c = "TransactionKernelMessage" -> TransactionKernelMessage(v, o)
      [] c = "SegmentRequestMessage" -> SegmentRequestMessage(v, o)
      [] c = "OutputSegmentMessage" -> OutputSegmentMessage(v, o)
      [] c = "OutputBitmapSegmentMessage" -> OutputBitmapSegmentMessage(v, o)
      [] c = "GetHeaderSegmentMessage" -> GetHeaderSegmentMessage(v, o)
      [] c = "HeaderSegmentMessage" -> HeaderSegmentMessage(v, o)
      [] c = "SlateSignature" -> SlateSignature(v, o)
      [] c = "SlateCommitment" -> SlateCommitment(v, o)
      [] c = "SlatePaymentProof" -> SlatePaymentProof(v, o)
      [] c = "Slate" -> Slate(v, o)
      [] c = "SlatepackAddress" -> SlatepackAddress(v, o)
      [] c = "SlatepackMessage" -> SlatepackMessage(v, o)
      [] c = "OutputDataEntity" -> OutputDataEntity(v, o)
      [] c = "WalletTx" -> WalletTx(v, o)
      [] c = "SlateContextEntity" -> SlateContextEntity(v, o)
      [] c = "UserMetadata" -> UserMetadata(v, o)
      [] c = "EncryptedSeed" -> EncryptedSeed(v, o)
      [] c = "OutputSegment" -> Segment("OutputIdentifier", v, o)
      [] c = "RangeProofSegment" -> Segment("RangeProof", v, o)
      [] c = "KernelSegment" -> Segment("TransactionKernel", v, o)
      [] c = "RangeProofSegmentMessage" -> SegmentResponseMessage("RangeProofSegment", v, o)
      [] c = "KernelSegmentMessage" -> SegmentResponseMessage("KernelSegment", v, o)

RECURSIVE Write(_, _, _), WriteItems(_, _, _)

\* The bytes of the value x in the form f, under protocol version v.
Write(f, v, x) ==
    CASE f.k = "uint"    -> BigEndian(f.w, x)
      [] f.k \in {"bytes", "rest"} -> x
      [] f.k = "var"     -> BigEndian(f.w, Len(x)) \o x
      [] f.k = "many"    -> Concat([i \in 1 .. Len(x) |-> Write(f.f, v, x[i])])
      [] f.k = "vec"     -> BigEndian(f.w, Len(x)) \o Concat([i \in 1 .. Len(x) |-> Write(f.f, v, x[i])])
      [] f.k = "obj"     -> WriteItems(ClassOf(f.c, v, x).write, v, x)
      [] f.k = "rawsig"  -> Reverse(x)
      [] f.k = "address" -> LET text == Bech32(x) IN BigEndian(1, Len(text)) \o text
      [] f.k = "nonces"  -> PackNonces(f.e, x)

WriteItems(items, v, o) ==
    Concat([i \in 1 .. Len(items) |->
        LET it == items[i]
        IN CASE it.k = "field" -> Write(it.f, v, o[it.n])
             [] it.k = "value" -> Write(it.f, v, it.x)
             [] it.k = "box"   -> LET b == WriteItems(it.items, v, o) IN BigEndian(it.w, Len(b)) \o b
             [] it.k = "seal"  -> LET b == Encrypt(WriteItems(it.items, v, o))
                                  IN BigEndian(it.w, Len(b)) \o b])

Serialized(c, v, o) == Write(Obj(c), v, o)

\* The hash an object is ordered by, over the bytes of a version of its own
\* whatever version it travels in.
KernelHashVersionOfBuffer(v) == v

KernelHashVersion(v) == 1

HashedAs(list, v) ==
    CASE list = "inputs" -> [c |-> "TransactionInput", v |-> 1000]
      [] list = "outputs" -> [c |-> "OutputIdentifier", v |-> 1]
      [] list = "kernels" -> [c |-> "TransactionKernel", v |-> KernelHashVersion(v)]

HashedBytes(as, o) == Serialized(as.c, as.v, o)

SortedBy(hashed, seq) ==
    LET order == SortSeq([i \in 1 .. Len(seq) |-> i], LAMBDA i, j : HashBefore(hashed[i], hashed[j]))
    IN [i \in 1 .. Len(seq) |-> seq[order[i]]]

SortedByHash(as, seq) == SortedBy([i \in 1 .. Len(seq) |-> HashedBytes(as, seq[i])], seq)

\* TransactionBody's constructor and Deserialize.
SortedBody(v, o) ==
    [list \in {"inputs", "outputs", "kernels"} |-> SortedByHash(HashedAs(list, v), o[list])]

\* ICoinView::GetOutputType: the features of the output an input spends.
CoinView(commitment) == commitment[Len(commitment)] % 2

Increasing(seq) == \A i \in 1 .. Len(seq) : seq[i] > (IF i = 1 THEN 0 ELSE seq[i - 1])

Lowered(seq) == [i \in 1 .. Len(seq) |-> seq[i] - 1]

\* o without the numbers that are zero and the texts that are empty.
DropEmpty(o, numbers, texts) ==
    [n \in DOMAIN o \ ({m \in numbers : o[m] = 0} \cup {m \in texts : o[m] = <<>>}) |-> o[n]]

\* Defaults of the members that were not on the wire.
Defaults(o, d) == o @@ d

\* What the fields read become in the object; Failed when the reader throws
\* after reading them.
Make(c, v, o, rest) ==
    CASE c = "TransactionKernel" ->
           LET k == Defaults(o, [fee |-> NoFee, lockHeight |-> 0])
           IN IF k.features = NO_RECENT_DUPLICATE /\ (k.lockHeight = 0 \/ k.lockHeight > WEEK_HEIGHT)
                THEN Failed ELSE Done(k, rest)
      [] c = "Fee" -> Done([o EXCEPT !.shift = @ % 16], rest)
      [] c = "TransactionInput" -> Done(Defaults(o, [features |-> CoinView(o.commitment)]), rest)
      [] c = "RangeProof" ->
           Done([o EXCEPT !.proofBytes = [i \in 1 .. MaxProofSize |-> IF i <= Len(@) THEN @[i] ELSE 0]], rest)
      [] c = "TransactionBody" -> Done(SortedBody(v, o), rest)
      [] c = "OutputLocation" ->
           IF \E n \in 0 .. 9 : LeafPosition(n) = o.position
             THEN Done(Defaults(o, [leafIndex |-> CHOOSE n \in 0 .. 9 : LeafPosition(n) = o.position]), rest)
             ELSE Failed
      [] c \in {"OutputSegment", "RangeProofSegment", "KernelSegment"} ->
           IF Increasing(o.wireHashPos) /\ Increasing(o.wireLeafPos)
             THEN Done(Defaults(o, [hashPos |-> Lowered(o.wireHashPos), leafPos |-> Lowered(o.wireLeafPos)]), rest)
             ELSE Failed
      [] c = "BitmapSegmentBlock" -> Done(Defaults(o, [positions |-> <<>>, bitmapBytes |-> <<>>]), rest)
      [] c = "Slate" ->
           Done(Defaults(o, [numParticipants |-> 2, amount |-> 0, fee |-> NoFee, kernelFeatures |-> DEFAULT_KERNEL,
                             ttl |-> 0, commitments |-> <<>>, lockHeight |-> 0]), rest)
      [] c = "SlatepackMessage" -> Done(Defaults(o, [recipients |-> <<>>]), rest)
      [] c = "OutputDataEntity" -> Done(DropEmpty(o, {"mmrIndex", "blockHeight"}, {"label"}), rest)
      [] c = "WalletTx" ->
           Done(DropEmpty(o, {"confirmationTime", "confirmedHeight"}, {"slateId", "address", "slateMessage"}), rest)
      [] OTHER -> Done(o, rest)

\* Only members stay; counts and flags that were read along the way do not.
OnlyMembers(items, o) == [n \in DOMAIN o \cap {items[i].n : i \in 1 .. Len(items)} |-> o[n]]

Members(c, o) == OnlyMembers(ClassOf(c, 1, o).members, o)

\* The items of the box that path leads to.
RECURSIVE ItemsAt(_, _)
ItemsAt(items, path) == IF path = <<>> THEN items ELSE ItemsAt(items[Head(path)].items, Tail(path))

RECURSIVE Read(_, _, _), ReadMany(_, _, _, _, _)
RECURSIVE ReadItems(_, _, _, _, _, _), ReadItem(_, _, _, _, _, _, _)

\* The value in the form f at the front of buf.
Read(f, v, buf) ==
    CASE f.k = "uint"    -> ReadNumber(f.w, buf)
      [] f.k = "bytes"   -> Take(buf, f.w)
      [] f.k = "rest"    -> Done(buf, <<>>)
      [] f.k = "var"     -> Then(ReadNumber(f.w, buf), LAMBDA n, rest : Take(rest, n))
      [] f.k = "many"    -> ReadMany(f.f, v, f.n, buf, <<>>)
      [] f.k = "vec"     -> Then(ReadNumber(f.w, buf), LAMBDA n, rest : ReadMany(f.f, v, n, rest, <<>>))
      [] f.k = "obj"     -> Then(ReadItems(f.c, v, <<>>, 1, [n \in {} |-> 0], buf), LAMBDA o, rest :
                              Then(Make(f.c, v, o, rest), LAMBDA x, r : Done(Members(f.c, x), r)))
      [] f.k = "rawsig"  -> Then(Take(buf, 64), LAMBDA b, rest : Done(Reverse(b), rest))
      [] f.k = "address" -> Then(Read(Bytes(1), v, buf), LAMBDA text, rest :
                              Then(Bech32Parse(text), LAMBDA key, r : Done(key, rest)))
      [] f.k = "nonces"  -> Then(Take(buf, CycleBytes(f.e)), LAMBDA b, rest : Done(UnpackNonces(f.e, b), rest))
      [] f.k = "throw"   -> Failed

ReadMany(f, v, n, buf, sofar) ==
    IF n = 0 THEN Done(sofar, buf)
    ELSE IF buf = <<>> THEN Failed
    ELSE Then(Read(f, v, buf), LAMBDA x, rest : ReadMany(f, v, n - 1, rest, Append(sofar, x)))

\* Item i and the ones after it, in the box at path, with o read so far.
ReadItems(c, v, path, i, o, buf) ==
    ReadItem(c, v, path, i, o, buf, ItemsAt(ClassOf(c, v, o @@ [remaining |-> Len(buf)]).read, path))

ReadItem(c, v, path, i, o, buf, items) ==
    LET go(x, rest) == ReadItems(c, v, path, i + 1, x, rest)
        inside(b, rest) == Then(ReadItems(c, v, Append(path, i), 1, o, b), LAMBDA x, r : go(x, rest))
    IN IF i > Len(items) THEN Done(o, buf)
       ELSE CASE items[i].k = "field" ->
                   Then(Read(items[i].f, v, buf), LAMBDA x, rest : go((items[i].n :> x) @@ o, rest))
              [] items[i].k = "box" ->
                   Then(Read(Bytes(items[i].w), v, buf), LAMBDA b, rest : inside(b, rest))
              [] items[i].k = "seal" ->
                   Then(Read(Bytes(items[i].w), v, buf), LAMBDA b, rest :
                     Then(Decrypt(b), LAMBDA clear, r : inside(clear, rest)))

Deserialized(c, v, buf) == Read(Obj(c), v, buf)

(***************************************************************************)
(* Objects to send: one for each class and seed, as the program makes them.*)
(***************************************************************************)
Blob(n, s) == [i \in 1 .. n |-> (s * 37 + i * 11 + 3) % 256]

Pick(S, s) == CHOOSE x \in S : Cardinality({y \in S : y < x}) = s % Cardinality(S)

\* What a constructor or a builder guarantees of an object's members.
Canon(c, o) ==
    CASE c = "TransactionKernel" ->
           [o EXCEPT !.fee = IF o.features = COINBASE_KERNEL THEN NoFee ELSE @,
                     !.lockHeight = CASE o.features = HEIGHT_LOCKED -> @
                                      [] o.features = NO_RECENT_DUPLICATE -> 1 + (@ % WEEK_HEIGHT)
                                      [] OTHER -> 0]
      [] c = "TransactionInput" -> [o EXCEPT !.features = CoinView(o.commitment)]
      [] c = "TransactionBody" -> SortedBody(1, o)
      [] c \in {"OutputSegment", "RangeProofSegment", "KernelSegment"} ->
           [o EXCEPT !.hashPos = [i \in 1 .. Len(o.hashes) |-> 3 * i], !.leafPos = [i \in 1 .. Len(o.leaves) |-> 4 * i - 4]]
      [] c = "BitmapSegmentBlock" ->
           IF o.mode = 0 THEN [o EXCEPT !.positions = <<>>, !.bitmapBytes = Blob(128 * o.chunkCount, 5)]
                         ELSE [o EXCEPT !.bitmapBytes = <<>>]
      [] c = "Slate" -> [o EXCEPT !.lockHeight = IF o.kernelFeatures = HEIGHT_LOCKED THEN @ ELSE 0]
      [] c = "SlatepackMessage" -> [o EXCEPT !.recipients = IF o.mode = PLAINTEXT THEN <<>> ELSE @]
      [] c = "SlateContextEntity" ->
           LET owned(outs) == [i \in 1 .. Len(outs) |-> outs[i] @@ [walletTxId |-> i]]
           IN [o EXCEPT !.inputs = owned(@), !.outputs = owned(@)]
      [] OTHER -> o

RECURSIVE Sample(_, _), SampleMembers(_, _)
Sample(f, s) ==
    CASE f.k = "uint"     -> (<<0, 1, 258, 70000>>)[(s % 4) + 1] % 256^(IF f.w > 3 THEN 3 ELSE f.w)
      [] f.k = "positive" -> 1 + s
      [] f.k = "bytes"    -> Blob(f.w, s)
      [] f.k = "sized"    -> Blob(Pick(f.s, s), s)
      [] f.k = "var"      -> Blob(s % 3, s)
      [] f.k = "text"     -> Blob(1 + (s % 3), s)
      [] f.k = "one"      -> Pick(f.s, s)
      [] f.k = "vec"      -> [i \in 1 .. s % 3 |-> Sample(f.f, 3 * s + i)]
      [] f.k = "nonces"   -> [i \in 1 .. ProofSize |-> (s * 7919 + i * 104729 * (s + 3)) % 2^29]
      [] f.k = "opt"      -> Sample(f.f, s)
      [] f.k = "obj"      -> Canon(f.c, SampleMembers(ClassOf(f.c, 1, [n \in {} |-> 0]).members, s))

SampleMembers(items, s) ==
    LET index(n) == CHOOSE i \in 1 .. Len(items) : items[i].n = n
        present == {i \in 1 .. Len(items) : items[i].f.k = "opt" => (s + i) % 2 = 0}
    IN [n \in {items[i].n : i \in present} |-> Sample(items[index(n)].f, s + index(n))]

Object(c, s) == Sample(Obj(c), s)

(***************************************************************************)
(* Messages.                                                               *)
(***************************************************************************)
MessageTypes ==
    <<"HandMessage", "ShakeMessage", "PingMessage", "PongMessage", "GetPeerAddressesMessage",
      "PeerAddressesMessage", "GetHeadersMessage", "HeaderMessage", "HeadersMessage", "GetBlockMessage",
      "BlockMessage", "GetCompactBlockMessage", "CompactBlockMessage", "StemTransactionMessage",
      "TransactionMessage", "TxHashSetRequestMessage", "TxHashSetArchiveMessage", "BanReasonMessage",
      "GetTransactionMessage", "TransactionKernelMessage", "SegmentRequestMessage",
      "OutputBitmapSegmentMessage", "SegmentRequestMessage", "OutputSegmentMessage",
      "SegmentRequestMessage", "RangeProofSegmentMessage", "SegmentRequestMessage", "KernelSegmentMessage",
      "GetHeaderSegmentMessage", "HeaderSegmentMessage">>

ClassOfType(t) == IF t = 0 THEN "ErrorMessage" ELSE MessageTypes[t]

\* The sizes of P2P/Common.h.
MAX_PEER_ADDRS == 256
MAX_LOCATORS == 20
MAX_BLOCK_HEADERS == 512
MAX_BLOCK_SIZE == (40000 \div 21) * 708     \* MAX_BLOCK_WEIGHT, OUTPUT_WEIGHT

GetMaximumSize(t) ==
    CASE t = 1 -> 128
      [] t = 2 -> 88
      [] t \in {3, 4} -> 16
      [] t = 5 -> 4
      [] t = 6 -> 4 + 19 * MAX_PEER_ADDRS
      [] t = 7 -> 1 + 32 * MAX_LOCATORS
      [] t = 8 -> 365
      [] t = 9 -> 2 + 365 * MAX_BLOCK_HEADERS
      [] t \in {10, 12, 19, 20} -> 32
      [] t \in {11, 14, 15} -> MAX_BLOCK_SIZE
      [] t = 13 -> MAX_BLOCK_SIZE \div 10
      [] t = 16 -> 40
      [] t \in {17, 18} -> 64
      [] t \in {21, 23, 25, 27} -> 41
      [] t = 29 -> 9
      [] t \in {22, 24, 26, 28} -> 2 * MAX_BLOCK_SIZE
      [] t = 30 -> 11 + 365 * MAX_BLOCK_HEADERS
      [] OTHER -> 0

Magic == <<97, 61>>

\* IMessage::Serialize.
Framed(t, v, o) ==
    LET body == Serialized(ClassOfType(t), v, o)
    IN Magic \o BigEndian(1, t) \o BigEndian(8, Len(body)) \o body

\* MessageHeader::Deserialize: the type and the length of the body.
ReadHeader(buf) ==
    Then(Take(buf, 2), LAMBDA magic, r1 :
      IF magic # Magic THEN Failed
      ELSE Then(ReadNumber(1, r1), LAMBDA t, r2 :
             Then(ReadNumber(8, r2), LAMBDA n, r3 :
               IF n > 4 * GetMaximumSize(t) THEN Failed ELSE Done([t |-> t, n |-> n], r3))))

\* The body is read in full before it is looked at (Connection, HandShake).
Unframed(v, buf) ==
    Then(ReadHeader(buf), LAMBDA h, rest :
      Then(Take(rest, h.n), LAMBDA body, r : Deserialized(ClassOfType(h.t), v, body)))

(***************************************************************************)
(* Two ends of a connection.                                               *)
(***************************************************************************)
Releases == {1, 2, 3, 5, 1000}

\* ProtocolVersion::ToEnum.
ToEnum(version) ==
    CASE version >= 1000 -> 1000
      [] version >= 3 /\ version < 1000 -> 3
      [] version = 2 -> 2
      [] version < 2 -> 1

Minimum(a, b) == IF a < b THEN a ELSE b

\* The version an end settles on, from its own and the one it is told.
Settled(local, told) == Minimum(local, told)

WireInit ==
    /\ versions = None
    /\ transit = None
    /\ got = None

\* PerformOutboundHandshake and PerformInboundHandshake: the hand carries the
\* caller's version, the shake the version the callee settled on.
Told(t, v, version) ==
    Unframed(1, Framed(t, v, [Object(ClassOfType(t), 0) EXCEPT !.version = version]))

PerformHandshake(outbound, inbound) ==
    /\ versions = None
    /\ \E hand \in {Told(1, outbound, outbound)} :
         \E settled \in {Settled(inbound, hand.x.version)} :
           \E shake \in {Told(2, ToEnum(settled), settled)} :
             /\ hand.ok /\ shake.ok
             /\ versions' = [outbound |-> ToEnum(Settled(outbound, shake.x.version)), inbound |-> ToEnum(settled)]
    /\ UNCHANGED <<transit, got>>

\* Connection::SendMsg: the bytes of a message in the sender's version.
SendMsg(t, s) ==
    /\ versions # None /\ transit = None
    /\ transit' = [t |-> t, s |-> s, cut |-> 0, class |-> ClassOfType(t),
                   bytes |-> Framed(t, versions.outbound, Object(ClassOfType(t), s))]
    /\ UNCHANGED <<versions, got>>

\* The connection ends, and the rest of the message is lost.
ConnectionLost(n) ==
    /\ transit # None /\ got = None /\ transit.t >= 0 /\ transit.cut = 0
    /\ n < Len(transit.bytes)
    /\ transit' = [transit EXCEPT !.cut = n, !.bytes = SubSeq(@, 1, Len(@) - n)]
    /\ UNCHANGED <<versions, got>>

\* Connection::HandleReceivedBody and MessageProcessor::ProcessMessageInternal.
ReceiveMsg ==
    /\ transit # None /\ got = None /\ transit.t >= 0
    /\ got' = Unframed(versions.inbound, transit.bytes)
    /\ UNCHANGED <<versions, transit>>

\* Records of the databases, the wallet's included; they use version 1.
Stored ==
    {"Peer", "BlockHeader", "FullBlock", "SpentOutputs", "BlockSums", "OutputLocation", "Slate",
     "SlatepackMessage", "OutputDataEntity", "WalletTx", "SlateContextEntity", "UserMetadata", "EncryptedSeed"}

Store(c, s) ==
    /\ versions # None /\ transit = None
    /\ transit' = [t |-> -1, s |-> s, cut |-> 0, class |-> c, bytes |-> Serialized(c, 1, Object(c, s))]
    /\ UNCHANGED <<versions, got>>

Load ==
    /\ transit # None /\ got = None /\ transit.t = -1
    /\ got' = Deserialized(transit.class, 1, transit.bytes)
    /\ UNCHANGED <<versions, transit>>

WireNext ==
    \/ \E a, b \in Releases : PerformHandshake(a, b)
    \/ \E t \in 0 .. 30, s \in Seeds : SendMsg(t, s)
    \/ \E n \in Cuts : ConnectionLost(n)
    \/ ReceiveMsg
    \/ \E c \in Stored, s \in Seeds : Store(c, s)
    \/ Load

WireSpec == WireInit /\ [][WireNext]_wireVars

(***************************************************************************)
(* Properties.                                                             *)
(***************************************************************************)
\* A message or record that arrives whole is read back to an object equal to
\* the one written, with nothing left over, because both ends settled on one
\* version; one that lost its end is never taken for another message.  Error
\* messages, which this code never sends, are refused by the limit their own
\* header sets.
RoundTrip ==
    got # None =>
      IF transit.cut > 0 \/ transit.t = 0 THEN ~got.ok
      ELSE got.ok /\ got.x = Object(transit.class, transit.s) /\ got.rest = <<>>

==============================================================================
