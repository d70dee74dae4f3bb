---------------------------- MODULE StoreProofs -----------------------------
(***************************************************************************)
(* AppendOnlyFile keeps its type invariant, implements AppendLog and reads *)
(* what was appended, for every set of byte values, file size and append   *)
(* size.  The locks keep readers apart from what is not committed, for any *)
(* number of threads and any calls that keep to the rules of Locks.        *)
(***************************************************************************)
EXTENDS AppendOnlyFile, Locks, SequenceTheorems, TLAPS

\* What FileUtil::TruncateFile returns: a sequence of the size asked for.
LEMMA TruncateFileType ==
    ASSUME NEW s \in Seq(Byte), NEW n \in Nat
    PROVE  /\ TruncateFile(s, n) \in Seq(Byte)
           /\ Len(TruncateFile(s, n)) = n
  BY FileAssumption DEF TruncateFile

\* Cutting a file that is long enough keeps its first bytes and adds none.
LEMMA TruncateFileIsPrefix ==
    ASSUME NEW s \in Seq(Byte), NEW n \in 0..Len(s)
    PROVE  TruncateFile(s, n) = SubSeq(s, 1, n)
  BY DEF TruncateFile

\* The first bytes of a concatenation are those of its left part.
LEMMA PrefixOfConcat ==
    ASSUME NEW s \in Seq(Byte), NEW t \in Seq(Byte), NEW k \in 0..Len(t)
    PROVE  SubSeq(s \o t, 1, Len(s) + k) = s \o SubSeq(t, 1, k)
  OBVIOUS

\* The fields of AppendOnlyFile keep their types, the buffer starts inside the
\* file, and the file reaches up to it until something is lost, whatever the order
\* of the operations, failures and crashes.
THEOREM FileTypeCorrect == Spec => []TypeOK
<1>1. Init => TypeOK
  <2> SUFFICES ASSUME Init PROVE TypeOK
    OBVIOUS
  <2>1. lost \in BOOLEAN
    BY Zenon DEF Init
  <2> QED BY <2>1 DEF Init, TypeOK
<1>2. TypeOK /\ [Next]_fileVars => TypeOK'
  <2> SUFFICES ASSUME TypeOK, [Next]_fileVars PROVE TypeOK'
    OBVIOUS
  <2> USE DEF TypeOK
  <2>1. ASSUME NEW n \in 0..MaxAppend, NEW data \in [1..n -> Byte], Append_(data)
        PROVE  TypeOK'
    <3>1. data \in Seq(Byte)
      BY FileAssumption
    <3> QED BY <2>1, <3>1 DEF Append_
  <2>2. ASSUME NEW n \in 0..MaxSize, Rewind(n) PROVE TypeOK'
    <3>1. n \in Nat
      BY FileAssumption
    <3>2. CASE n <= bufferIndex
      BY <2>2, <3>1, <3>2 DEF Rewind
    <3>3. CASE ~(n <= bufferIndex)
      <4>1. n - bufferIndex \in 0..Len(buffer)
        BY <2>2, <3>1, <3>3 DEF Rewind, GetSize
      <4>2. SubSeq(buffer, 1, n - bufferIndex) \in Seq(Byte)
        BY <4>1
      <4> QED BY <2>2, <3>3, <4>2 DEF Rewind
    <3> QED BY <3>2, <3>3
  <2>3. /\ TruncateFile(disk, bufferIndex) \in Seq(Byte)
        /\ Len(TruncateFile(disk, bufferIndex)) = bufferIndex
    BY TruncateFileType
  <2>4. CASE Flush
    <3>1. disk' = TruncateFile(disk, bufferIndex) \o buffer
      BY <2>4 DEF Flush, View
    <3> QED BY <2>3, <2>4, <3>1 DEF Flush, GetSize
  <2>5. CASE FlushFails
    BY <2>3, <2>5 DEF FlushFails, Truncated
  <2>6. CASE FlushShort
    <3>1. PICK kept \in Truncated, k \in 0..Len(buffer) : disk' = kept \o SubSeq(buffer, 1, k)
      BY <2>6 DEF FlushShort
    <3>2. kept \in Seq(Byte)
      BY <2>3 DEF Truncated
    <3>3. disk' \in Seq(Byte)
      BY <3>1, <3>2
    <3> QED BY <2>6, <3>3 DEF FlushShort, GetSize
  <2>7. CASE Discard
    <3>1. lost' \in BOOLEAN
      BY <2>7, Zenon DEF Discard
    <3>2. ~lost' => ~lost /\ Intact
      BY <2>7, Zenon DEF Discard
    <3> QED BY <2>7, <3>1, <3>2 DEF Discard, Intact
  <2>a. ASSUME NEW d \in Seq(Byte), Load(d) PROVE TypeOK'
    <3>1. lost' \in BOOLEAN
      BY <2>a, Zenon DEF Load
    <3> QED BY <2>a, <3>1 DEF Load
  <2>8. CASE Restart
    BY <2>8, <2>a DEF Restart
  <2>9. CASE CrashInFlush
    <3>1. PICK k \in 0..Len(buffer) :
             Load(TruncateFile(disk, bufferIndex) \o SubSeq(buffer, 1, k))
      BY <2>9 DEF CrashInFlush
    <3>2. TruncateFile(disk, bufferIndex) \o SubSeq(buffer, 1, k) \in Seq(Byte)
      BY <2>3
    <3> QED BY <2>a, <3>1, <3>2
  <2>10. CASE UNCHANGED fileVars
    BY <2>10 DEF fileVars
  <2> QED
    BY <2>1, <2>2, <2>4, <2>5, <2>6, <2>7, <2>8, <2>9, <2>10 DEF Next
<1> QED BY <1>1, <1>2, PTL DEF Spec

\* Every step of AppendOnlyFile is a step of AppendLog or changes nothing that
\* AppendLog sees: commits, rollbacks, rewinds, failed, short and unnoticed writes
\* and crashes.
LEMMA FileStepImplementsLogStep ==
    TypeOK /\ [Next]_fileVars => [Log!LogNext]_(Log!logVars)
<1> SUFFICES ASSUME TypeOK, [Next]_fileVars
             PROVE  [Log!LogNext]_(Log!logVars)
  OBVIOUS
<1> USE DEF TypeOK, Intact
<1> DEFINE cut == TruncateFile(disk, bufferIndex)
<1>a. cut \in Seq(Byte) /\ Len(cut) = bufferIndex
  BY TruncateFileType
<1>b. View \in Seq(Byte) /\ Len(View) = GetSize
  BY <1>a DEF View, GetSize
<1>f. ASSUME NEW k \in 0..Len(buffer)
      PROVE  cut \o SubSeq(buffer, 1, k) = SubSeq(View, 1, bufferIndex + k)
  <2>1. View = cut \o buffer
    BY DEF View
  <2> HIDE DEF cut
  <2>2. SubSeq(cut \o buffer, 1, Len(cut) + k) = cut \o SubSeq(buffer, 1, k)
    BY <1>a, PrefixOfConcat
  <2> QED BY <1>a, <2>1, <2>2
<1>6. ASSUME NEW d \in Seq(Byte), Load(d)
      PROVE  disk' = d /\ View' = d /\ Intact' /\ ~lost'
  <2>1. View' = TruncateFile(d, Len(d))
    <3>1. TruncateFile(d, Len(d)) \in Seq(Byte)
      BY TruncateFileType
    <3> QED BY <1>6, <3>1 DEF Load, View, TruncateFile
  <2>2. TruncateFile(d, Len(d)) = d
    BY TruncateFileIsPrefix
  <2> QED BY <1>6, <2>1, <2>2 DEF Load
<1>c. CASE lost
  <2>1. ASSUME NEW d \in Seq(Byte), Load(d) PROVE Log!LogLost
    BY <1>c, <1>6, <2>1 DEF Log!LogLost
  <2>2. CASE Restart
    BY <2>1, <2>2 DEF Restart, Log!LogNext
  <2>3. CASE CrashInFlush
    <3>1. PICK k \in 0..Len(buffer) : Load(cut \o SubSeq(buffer, 1, k))
      BY <2>3 DEF CrashInFlush
    <3>2. cut \o SubSeq(buffer, 1, k) \in Seq(Byte)
      BY <1>a
    <3> QED BY <2>1, <3>1, <3>2 DEF Log!LogNext
  <2>4. CASE lost'
    BY <1>c, <2>4 DEF Log!LogNext, Log!LogLost
  <2>5. ~Restart /\ ~CrashInFlush => lost'
    BY <1>c DEF Next, fileVars, Append_, Rewind, Flush, FlushFails, FlushShort, Discard
  <2> QED BY <2>2, <2>3, <2>4, <2>5
<1>d. CASE UNCHANGED fileVars
  BY <1>d DEF fileVars, Log!logVars, View, TruncateFile
<1>e. ~lost => cut = SubSeq(disk, 1, bufferIndex)
  BY TruncateFileIsPrefix
<1>1. ASSUME ~lost, NEW n \in 0..MaxAppend, NEW data \in [1..n -> Byte], Append_(data)
      PROVE  Log!LogAppend
  <2>1. data \in Seq(Byte) /\ buffer' = buffer \o data
    BY <1>1, FileAssumption DEF Append_
  <2>2. View' = View \o data
    BY <1>1, <1>a, <2>1 DEF Append_, View, TruncateFile
  <2>3. /\ View' \in Seq(Byte)
        /\ Len(View) <= Len(View')
        /\ SubSeq(View', 1, Len(View)) = View
    BY <1>b, <2>1, <2>2
  <2> QED
    BY <1>1, <2>3 DEF Append_, Log!LogAppend, Log!Prefix
<1>2. ASSUME ~lost, NEW n \in 0..MaxSize, Rewind(n)
      PROVE  Log!LogRewind
  <2>1. n \in 0..Len(View)
    BY <1>2, <1>b, FileAssumption DEF Rewind
  <2>2. View' = SubSeq(View, 1, n)
    <3>1. CASE n <= bufferIndex
      <4>1. View' = TruncateFile(disk, n)
        <5>1. TruncateFile(disk, n) \in Seq(Byte)
          BY <2>1, TruncateFileType
        <5> QED BY <1>2, <3>1, <5>1 DEF Rewind, View, TruncateFile
      <4>2. TruncateFile(disk, n) = SubSeq(disk, 1, n)
        BY <1>2, <2>1, <3>1, TruncateFileIsPrefix
      <4>3. SubSeq(View, 1, n) = SubSeq(disk, 1, n)
        BY <1>2, <1>a, <1>e, <2>1, <3>1 DEF View
      <4> QED BY <4>1, <4>2, <4>3
    <3>2. CASE ~(n <= bufferIndex)
      <4>1. n - bufferIndex \in 0..Len(buffer)
        BY <1>2, <2>1, <3>2 DEF Rewind, GetSize
      <4>2. View' = cut \o SubSeq(buffer, 1, n - bufferIndex)
        BY <1>2, <3>2 DEF Rewind, View, TruncateFile
      <4>3. SubSeq(View, 1, bufferIndex + (n - bufferIndex))
               = cut \o SubSeq(buffer, 1, n - bufferIndex)
        BY <1>f, <4>1
      <4> QED BY <2>1, <4>2, <4>3
    <3> QED BY <3>1, <3>2
  <2>3. disk' = disk /\ lost' = lost /\ Intact' = Intact
    BY <1>2 DEF Rewind
  <2> QED
    BY <1>2, <2>1, <2>2, <2>3 DEF Log!LogRewind, Log!Prefix
<1>3. ASSUME ~lost, Flush
      PROVE  Log!LogCommit
  <2>1. disk' = View /\ Intact' /\ ~lost'
    BY <1>3, <1>b DEF Flush
  <2>2. View' = TruncateFile(View, Len(View))
    <3>1. bufferIndex' = Len(View) /\ buffer' = << >>
      BY <1>3, <1>b DEF Flush
    <3>2. TruncateFile(View, Len(View)) \in Seq(Byte)
      BY <1>b, TruncateFileType
    <3> QED BY <2>1, <3>1, <3>2 DEF View, TruncateFile
  <2>3. View' = View
    <3>1. TruncateFile(View, Len(View)) = SubSeq(View, 1, Len(View))
      BY <1>b, TruncateFileIsPrefix
    <3>2. SubSeq(View, 1, Len(View)) = View
      BY <1>b
    <3> QED BY <2>2, <3>1, <3>2
  <2> QED
    BY <1>3, <2>1, <2>3 DEF Log!LogCommit
<1>4. ASSUME ~lost, FlushFails
      PROVE  [Log!LogNext]_(Log!logVars)
  <2>1. CASE disk' = disk
    <3>1. View' = View
      BY <1>4, <2>1 DEF FlushFails, View, TruncateFile
    <3> QED BY <1>4, <2>1, <3>1 DEF FlushFails, Log!logVars
  <2>2. CASE disk' /= disk
    <3>1. disk' = cut /\ disk' = SubSeq(disk, 1, bufferIndex)
      BY <1>4, <1>e, <2>2 DEF FlushFails, Truncated
    <3>2. bufferIndex \in 0..Len(disk) /\ bufferIndex /= Len(disk)
      BY <1>4, <2>2, <3>1
    <3>3. ~Intact' /\ ~lost'
      BY <1>4, <1>a, <3>1, <3>2 DEF FlushFails
    <3>4. View' = View
      <4>1. TruncateFile(cut, bufferIndex) = cut
        BY <1>a, TruncateFileIsPrefix
      <4>2. View' = TruncateFile(cut, bufferIndex) \o buffer
        BY <1>4, <3>1 DEF FlushFails, View, TruncateFile
      <4> QED BY <4>1, <4>2 DEF View
    <3> QED BY <1>4, <3>1, <3>2, <3>3, <3>4 DEF Log!LogNext, Log!LogFail, Log!Prefix
  <2> QED BY <2>1, <2>2
<1>5. ASSUME ~lost, FlushShort
      PROVE  Log!LogLose
  <2>1. PICK kept \in Truncated, k \in 0..Len(buffer) : disk' = kept \o SubSeq(buffer, 1, k)
    BY <1>5 DEF FlushShort
  <2>2. bufferIndex + k \in 0..Len(View) /\ bufferIndex + 1 \in 1..(Len(View) + 1)
    BY <1>b DEF GetSize
  <2>3. CASE kept = cut
    <3>1. disk' = SubSeq(View, 1, bufferIndex + k)
      BY <1>f, <2>1, <2>3
    <3> QED BY <1>5, <2>2, <3>1 DEF FlushShort, Log!LogLose, Log!Prefix
  <2>4. CASE kept = disk
    <3>1. SubSeq(buffer, 1, k) = SubSeq(View, bufferIndex + 1, bufferIndex + k)
      BY <1>a DEF View
    <3> QED BY <1>5, <2>1, <2>2, <2>4, <3>1 DEF FlushShort, Log!LogLose
  <2> QED BY <2>1, <2>3, <2>4 DEF Truncated
<1>7. ASSUME ~lost, Discard
      PROVE  Log!LogRollback \/ Log!LogLose
  <2>1. CASE Intact
    <3>1. disk' = disk /\ Intact' /\ bufferIndex' = Len(disk) /\ buffer' = << >>
      BY <1>7, <2>1 DEF Discard
    <3>2. Load(disk)
      BY <1>7, <2>1, <3>1 DEF Load, Discard
    <3> QED BY <1>6, <1>7, <2>1, <3>1, <3>2 DEF Log!LogRollback
  <2>2. CASE ~Intact
    BY <1>7, <2>2 DEF Discard, Log!LogLose
  <2> QED BY <2>1, <2>2
<1>8. ASSUME ~lost, Restart
      PROVE  Log!LogRestart
  BY <1>6, <1>8 DEF Restart, Log!LogRestart
<1>9. ASSUME ~lost, CrashInFlush
      PROVE  Log!LogRestart
  <2>1. PICK k \in 0..Len(buffer) : Load(cut \o SubSeq(buffer, 1, k))
    BY <1>9 DEF CrashInFlush
  <2> DEFINE d == cut \o SubSeq(buffer, 1, k)
  <2>2. d \in Seq(Byte)
    BY <1>a
  <2>3. disk' = d /\ View' = d /\ Intact' /\ ~lost'
    BY <1>6, <2>1, <2>2
  <2>4. d = SubSeq(View, 1, bufferIndex + k)
    BY <1>f
  <2>5. bufferIndex + k \in 0..Len(View)
    BY <1>b DEF GetSize
  <2> QED BY <1>9, <2>3, <2>4, <2>5 DEF Log!LogRestart, Log!Prefix
<1> QED
  BY <1>c, <1>d, <1>1, <1>2, <1>3, <1>4, <1>5, <1>7, <1>8, <1>9
  DEF Next, Log!LogNext

\* AppendOnlyFile keeps the promises of AppendLog.
THEOREM FileImplementsLog == Spec => ImplementsLog
<1>1. Init => Log!LogInit
  BY DEF Init, Log!LogInit, View, TruncateFile, Intact
<1> QED
  BY <1>1, FileTypeCorrect, FileStepImplementsLogStep, PTL
  DEF Spec, ImplementsLog, Log!LogSpec

\* Read across the end of the mapped file: the bytes before bufferIndex come from
\* the file, which a rewind leaves longer, and the rest from the buffer.
LEMMA ReadAcross ==
    ASSUME TypeOK, ~lost, NEW p \in Nat, NEW n \in Nat, n # 0,
           p < bufferIndex, p + n <= GetSize
    PROVE  Read(p, n) = SubSeq(View, p + 1, p + n)
<1>0. /\ disk \in Seq(Byte) /\ buffer \in Seq(Byte)
      /\ bufferIndex \in Nat /\ bufferIndex <= Len(disk)
  BY DEF TypeOK
<1> USE <1>0
<1> DEFINE mapped == Min({n, bufferIndex - p})
           left == SubSeq(disk, p + 1, p + mapped)
           right == SubSeq(buffer, 1, n - mapped)
           cut == TruncateFile(disk, bufferIndex)
<1>1. /\ mapped \in Nat /\ mapped <= n /\ p + mapped <= bufferIndex
      /\ mapped = n \/ p + mapped = bufferIndex
  <2>1. bufferIndex - p \in Nat /\ p + (bufferIndex - p) = bufferIndex
    OBVIOUS
  <2>2. /\ mapped \in {n, bufferIndex - p}
        /\ mapped <= n /\ mapped <= bufferIndex - p
    <3> HIDE <1>0
    <3>1. \E x \in {n, bufferIndex - p} : \A y \in {n, bufferIndex - p} : x <= y
      BY <2>1
    <3> QED BY <2>1, <3>1 DEF Min
  <2> HIDE DEF mapped
  <2> QED BY <2>1, <2>2
<1> HIDE DEF mapped
<1>2. GetSize = bufferIndex + Len(buffer) /\ Len(buffer) \in Nat /\ Len(disk) \in Nat
  BY DEF GetSize
<1>3. n - mapped \in 0..Len(buffer)
  BY <1>1, <1>2
<1>4. Read(p, n) = left \o right
  <2>1. ~(p > GetSize \/ n > GetSize - p) /\ ~(n - mapped > Len(buffer))
    BY <1>2, <1>3
  <2> QED BY <2>1 DEF Read, mapped
<1>5. cut \in Seq(Byte) /\ Len(cut) = bufferIndex /\ cut = SubSeq(disk, 1, bufferIndex)
  <2>1. bufferIndex \in 0..Len(disk)
    BY <1>2
  <2>2. cut \in Seq(Byte) /\ Len(cut) = bufferIndex
    BY TruncateFileType
  <2>3. cut = SubSeq(disk, 1, bufferIndex)
    BY <2>1, TruncateFileIsPrefix
  <2> QED BY <2>2, <2>3
<1>6. View = cut \o buffer
  BY DEF View
<1> HIDE DEF cut
<1>7. /\ left \in Seq(Byte) /\ Len(left) = mapped
      /\ \A i \in 1..mapped : left[i] = disk[p + i]
  <2>1. p + 1 \in Int /\ p + mapped \in Int /\ p + mapped <= Len(disk)
    BY <1>1, <1>2
  <2>2. \A i \in (p + 1)..(p + mapped) : disk[i] \in Byte
    BY <2>1
  <2>3. /\ left \in Seq(Byte)
        /\ Len(left) = IF p + 1 <= p + mapped THEN (p + mapped) - (p + 1) + 1 ELSE 0
        /\ \A i \in 1..((p + mapped) - (p + 1) + 1) : left[i] = disk[(p + 1) + i - 1]
    BY <2>1, <2>2, SubSeqProperties
  <2> HIDE DEF left
  <2>4. Len(left) = mapped
    BY <1>1, <2>3
  <2>5. ASSUME NEW i \in 1..mapped PROVE left[i] = disk[p + i]
    <3>1. i \in 1..((p + mapped) - (p + 1) + 1) /\ (p + 1) + i - 1 = p + i
      BY <1>1
    <3> QED BY <2>3, <3>1
  <2> QED BY <2>3, <2>4, <2>5
<1>8. /\ right \in Seq(Byte) /\ Len(right) = n - mapped
      /\ \A i \in 1..(n - mapped) : right[i] = buffer[i]
  BY <1>1, <1>3
<1>9. /\ View \in Seq(Byte) /\ Len(View) = bufferIndex + Len(buffer)
      /\ \A i \in 1..bufferIndex : View[i] = disk[i]
      /\ \A i \in 1..Len(buffer) : View[bufferIndex + i] = buffer[i]
  BY <1>2, <1>5, <1>6
<1> DEFINE seen == SubSeq(View, p + 1, p + n)
<1>10. /\ seen \in Seq(Byte) /\ Len(seen) = n
       /\ \A i \in 1..n : seen[i] = View[p + i]
  BY <1>2, <1>9
<1> HIDE DEF left, right, seen
<1>11. left \o right \in Seq(Byte) /\ Len(left \o right) = n
  <2>1. left \o right \in Seq(Byte) /\ Len(left \o right) = Len(left) + Len(right)
    <3>1. left \in Seq(Byte) /\ right \in Seq(Byte)
      BY <1>7, <1>8
    <3> HIDE <1>0
    <3> QED BY <3>1, ConcatProperties
  <2>2. Len(left) + Len(right) = n
    BY <1>1, <1>7, <1>8
  <2> QED BY <2>1, <2>2
<1>12. ASSUME NEW i \in 1..n PROVE (left \o right)[i] = seen[i]
  <2>1. CASE i <= mapped
    <3>1. i \in 1..mapped /\ p + i \in 1..bufferIndex
      BY <1>1, <2>1
    <3>2. (left \o right)[i] = left[i]
      BY <1>7, <1>8, <3>1
    <3>3. left[i] = disk[p + i]
      BY <1>7, <3>1
    <3>4. View[p + i] = disk[p + i]
      BY <1>9, <3>1
    <3>5. seen[i] = View[p + i]
      BY <1>10
    <3> QED BY <3>2, <3>3, <3>4, <3>5
  <2>2. CASE ~(i <= mapped)
    <3>1. p + mapped = bufferIndex /\ i - mapped \in 1..(n - mapped) /\ i - mapped \in 1..Len(buffer)
      BY <1>1, <1>3, <2>2
    <3>2. (left \o right)[i] = right[i - mapped]
      BY <1>1, <1>7, <1>8, <2>2
    <3>3. right[i - mapped] = buffer[i - mapped]
      BY <1>8, <3>1
    <3>4. View[bufferIndex + (i - mapped)] = buffer[i - mapped]
      BY <1>9, <3>1
    <3>5. bufferIndex + (i - mapped) = p + i
      BY <1>1, <3>1
    <3>6. seen[i] = View[p + i]
      BY <1>10
    <3> QED BY <3>2, <3>3, <3>4, <3>5, <3>6
  <2> QED BY <2>1, <2>2
<1>13. left \o right = seen
  BY <1>10, <1>11, <1>12, SeqEqual
<1> QED BY <1>4, <1>13 DEF seen

\* Read of bytes that are all in the buffer.
LEMMA ReadBuffer ==
    ASSUME TypeOK, NEW p \in Nat, NEW n \in Nat, n # 0,
           bufferIndex <= p, p + n <= GetSize
    PROVE  Read(p, n) = SubSeq(View, p + 1, p + n)
<1> USE DEF TypeOK
<1> DEFINE first == p - bufferIndex
           got == SubSeq(buffer, first + 1, first + n)
           seen == SubSeq(View, p + 1, p + n)
           cut == TruncateFile(disk, bufferIndex)
<1>1. GetSize = bufferIndex + Len(buffer) /\ Len(buffer) \in Nat
  BY DEF GetSize
<1>2. first \in Nat /\ first + n <= Len(buffer)
  BY <1>1
<1>3. Read(p, n) = got
  <2>1. ~(p > GetSize \/ n > GetSize - p) /\ ~(p < bufferIndex)
    BY <1>1
  <2> QED BY <2>1 DEF Read
<1>4. cut \in Seq(Byte) /\ Len(cut) = bufferIndex
  BY TruncateFileType
<1>5. View = cut \o buffer
  BY DEF View
<1> HIDE DEF cut
<1>6. /\ View \in Seq(Byte) /\ Len(View) = bufferIndex + Len(buffer)
      /\ \A i \in 1..Len(buffer) : View[bufferIndex + i] = buffer[i]
  <2>1. cut \o buffer \in Seq(Byte) /\ Len(cut \o buffer) = bufferIndex + Len(buffer)
    BY <1>1, <1>4
  <2>2. ASSUME NEW i \in 1..Len(buffer) PROVE (cut \o buffer)[bufferIndex + i] = buffer[i]
    BY <1>1, <1>4
  <2> QED BY <1>5, <2>1, <2>2
<1>7. seen \in Seq(Byte) /\ Len(seen) = n /\ \A i \in 1..n : seen[i] = View[p + i]
  BY <1>1, <1>6
<1>8. got \in Seq(Byte) /\ Len(got) = n /\ \A i \in 1..n : got[i] = buffer[first + i]
  BY <1>1, <1>2
<1> HIDE DEF seen, got
<1>9. ASSUME NEW i \in 1..n PROVE got[i] = seen[i]
  <2>1. first + i \in 1..Len(buffer) /\ bufferIndex + (first + i) = p + i
    BY <1>1, <1>2
  <2>2. View[bufferIndex + (first + i)] = buffer[first + i]
    BY <1>6, <2>1
  <2> QED BY <1>7, <1>8, <2>1, <2>2
<1>10. got = seen
  BY <1>7, <1>8, <1>9, SeqEqual
<1> QED BY <1>3, <1>10 DEF seen

\* AppendOnlyFile::Read returns the bytes of the view wherever the range lies: in
\* the file, in the buffer or across the two, after whatever rewinds.
THEOREM ReadsSeeView == Spec => []ReadSeesView
<1>1. TypeOK => ReadSeesView
  <2> SUFFICES ASSUME TypeOK, ~lost, NEW p \in 0..GetSize, NEW n \in 0..(GetSize - p)
               PROVE  Read(p, n) = SubSeq(View, p + 1, p + n)
    BY DEF ReadSeesView
  <2>1. GetSize \in Nat /\ p \in Nat /\ n \in Nat /\ p + n <= GetSize /\ bufferIndex \in Nat
    BY DEF TypeOK, GetSize
  <2>2. CASE n = 0
    <3>1. Read(p, n) = << >>
      BY <2>2 DEF Read
    <3>2. SubSeq(View, p + 1, p + n) = << >>
      BY <2>1, <2>2, SubSeqEmpty
    <3> QED BY <3>1, <3>2
  <2>3. CASE n # 0 /\ p < bufferIndex
    BY <2>1, <2>3, ReadAcross
  <2>4. CASE n # 0 /\ ~(p < bufferIndex)
    <3>1. bufferIndex <= p
      BY <2>1, <2>4
    <3> QED BY <2>1, <2>4, <3>1, ReadBuffer
  <2> QED BY <2>2, <2>3, <2>4
<1> QED BY <1>1, FileTypeCorrect, PTL
-----------------------------------------------------------------------------
\* The values that the locks and the parts of the chain state take.
LockTypes ==
    /\ held \in [Threads -> [Mutex -> {"S", "X", "-"}]]
    /\ todo \in [Threads -> Seq(Step)]
    /\ shown \in [Parts -> {0, 1}] /\ stored \in [Parts -> {0, 1}]
    /\ torn \in BOOLEAN

Dirty(p) == p \in loose \/ shown[p] # stored[p]

\* What is not committed belongs to a thread that does not lock it again.
DirtyIsOwned ==
    \A p \in Parts : Dirty(p) => \E t \in Threads : held[t][p] = "X"
DirtyStaysLocked ==
    \A t \in Threads, p \in Parts : held[t][p] = "X" /\ Dirty(p) =>
      \A i \in 1..Len(todo[t]) : todo[t][i].op = "lock" => p \notin todo[t][i].on

\* The rest of each call.
RestReleases(s, h) ==
    /\ Releases(s)
    /\ \A p \in Parts : h[p] # "-" => \E k \in 1..Len(s) : Frees(s[k], p)

RestOwns(s, h) ==
    \A i \in 1..Len(s) : s[i].op = "change" /\ s[i].by = "batch" =>
      /\ s[i].on = Parts
      /\ \/ /\ \A p \in Parts : h[p] = "X"
            /\ \A k \in 1..(i - 1) : ~OnParts(s[k])
         \/ /\ \A p \in Parts : h[p] \in {"-", "X"}
            /\ \E j \in 1..(i - 1) :
                 /\ TakesParts(s[j])
                 /\ \A k \in 1..(i - 1) : OnParts(s[k]) => k = j

Rest(s, h) == ChangesLast(s) /\ RollsBack(s) /\ RestReleases(s, h) /\ RestOwns(s, h)
RestDisciplined == \A t \in Threads : Rest(todo[t], held[t])

\* A batch shows its changes in all parts or in none, until it is rolled back.
Unfinished(s) ==
    \A k \in 1..Len(s) : s[k].op = "end" /\ OnParts(s[k]) => \E j \in 1..(k - 1) : s[j].op = "rollback"
BatchIsWhole ==
    \A t \in Threads, p \in Parts : held[t][p] = "X" /\ shown[p] # stored[p] =>
      /\ \A q \in Parts : held[t][q] = "X" /\ shown[q] # stored[q]
      /\ Unfinished(todo[t])
StoredAgree == \A p, q \in Parts : stored[p] = stored[q]

LocksInv ==
    /\ LockTypes /\ Exclusive /\ DirtyIsOwned /\ DirtyStaysLocked /\ RestDisciplined
    /\ ~torn => BatchIsWhole /\ StoredAgree

\* What is left of a call after its first step is the call, one step later.
LEMMA TailFacts ==
    ASSUME NEW s \in Seq(Step), s # <<>>
    PROVE  /\ Tail(s) \in Seq(Step) /\ Len(Tail(s)) = Len(s) - 1 /\ Len(s) \in Nat /\ Len(s) >= 1
           /\ Head(s) = s[1] /\ s[1] \in Step
           /\ \A i \in 1..Len(Tail(s)) : Tail(s)[i] = s[i + 1]
  OBVIOUS

\* What a call changes it locks no more in what is left of it.
LEMMA TailChangesLast ==
    ASSUME NEW s \in Seq(Step), s # <<>>, ChangesLast(s)
    PROVE  ChangesLast(Tail(s))
<1> SUFFICES ASSUME NEW i \in 1..Len(Tail(s)), NEW j \in 1..Len(Tail(s)), i < j,
                    Tail(s)[i].op = "change", Tail(s)[j].op = "lock"
             PROVE  Tail(s)[i].on \cap Tail(s)[j].on = {}
  BY DEF ChangesLast
<1>1. /\ i + 1 \in 1..Len(s) /\ j + 1 \in 1..Len(s) /\ i + 1 < j + 1
      /\ Tail(s)[i] = s[i + 1] /\ Tail(s)[j] = s[j + 1]
  BY TailFacts
<1> QED BY <1>1 DEF ChangesLast

\* What is left of a call rolls back what it changes.
LEMMA TailRollsBack ==
    ASSUME NEW s \in Seq(Step), s # <<>>, RollsBack(s)
    PROVE  RollsBack(Tail(s))
<1> SUFFICES ASSUME NEW i \in 1..Len(Tail(s)), NEW k \in 1..Len(Tail(s)), i < k,
                    Tail(s)[i].op = "change", Tail(s)[i].by = "batch", Tail(s)[k].op = "end", OnParts(Tail(s)[k])
             PROVE  \E j \in (i + 1)..(k - 1) : Tail(s)[j].op = "rollback"
  BY DEF RollsBack
<1>1. /\ i + 1 \in 1..Len(s) /\ k + 1 \in 1..Len(s) /\ i + 1 < k + 1
      /\ Tail(s)[i] = s[i + 1] /\ Tail(s)[k] = s[k + 1]
  BY TailFacts
<1>2. PICK j \in (i + 2)..k : s[j].op = "rollback"
  BY <1>1 DEF RollsBack
<1>3. j - 1 \in (i + 1)..(k - 1) /\ Tail(s)[j - 1] = s[j]
  BY <1>2, TailFacts
<1> QED BY <1>2, <1>3

\* What is left of a call releases what it locks.
LEMMA TailReleases ==
    ASSUME NEW s \in Seq(Step), s # <<>>, Releases(s)
    PROVE  Releases(Tail(s))
<1> SUFFICES ASSUME NEW i \in 1..Len(Tail(s)), Tail(s)[i].op = "lock", NEW p \in Tail(s)[i].on \cap Parts
             PROVE  \E k \in (i + 1)..Len(Tail(s)) : Frees(Tail(s)[k], p)
  BY DEF Releases
<1>1. i + 1 \in 1..Len(s) /\ Tail(s)[i] = s[i + 1]
  BY TailFacts
<1>2. PICK k \in (i + 2)..Len(s) : Frees(s[k], p)
  BY <1>1 DEF Releases
<1>3. k - 1 \in (i + 1)..Len(Tail(s)) /\ Tail(s)[k - 1] = s[k]
  BY <1>2, TailFacts
<1> QED BY <1>2, <1>3

\* The release of a part that is still held comes after the first step, unless that
\* step is it.
LEMMA TailRestReleases ==
    ASSUME NEW s \in Seq(Step), s # <<>>, NEW h, NEW g, RestReleases(s, h),
           \A p \in Parts : g[p] # "-" =>
             \/ h[p] # "-" /\ ~Frees(s[1], p)
             \/ s[1].op = "lock" /\ p \in s[1].on
    PROVE  RestReleases(Tail(s), g)
<1>1. Releases(Tail(s))
  BY TailReleases DEF RestReleases
<1>2. ASSUME NEW p \in Parts, g[p] # "-"
      PROVE  \E k \in 1..Len(Tail(s)) : Frees(Tail(s)[k], p)
  <2>1. Len(s) \in Nat /\ Len(s) >= 1
    BY TailFacts
  <2>2. \E k \in 2..Len(s) : Frees(s[k], p)
    <3>1. CASE h[p] # "-" /\ ~Frees(s[1], p)
      <4>1. PICK k \in 1..Len(s) : Frees(s[k], p)
        BY <3>1 DEF RestReleases
      <4>2. k # 1
        BY <3>1, <4>1
      <4> QED BY <2>1, <4>1, <4>2
    <3>2. CASE s[1].op = "lock" /\ p \in s[1].on
      BY <2>1, <3>2 DEF RestReleases, Releases
    <3> QED BY <1>2, <3>1, <3>2
  <2>3. PICK k \in 2..Len(s) : Frees(s[k], p)
    BY <2>2
  <2>4. k - 1 \in 1..Len(Tail(s)) /\ Tail(s)[k - 1] = s[k]
    BY <2>3, TailFacts
  <2> QED BY <2>3, <2>4
<1> QED BY <1>1, <1>2 DEF RestReleases

\* A batch that was to take the parts has taken them when its first step did that.
LEMMA TailRestOwns ==
    ASSUME NEW s \in Seq(Step), s # <<>>, NEW h, NEW g, RestOwns(s, h),
           ~OnParts(s[1]) => \A p \in Parts : g[p] = h[p],
           TakesParts(s[1]) /\ (\A p \in Parts : h[p] \in {"-", "X"})
             => \A p \in Parts : g[p] = "X"
    PROVE  RestOwns(Tail(s), g)
<1> SUFFICES ASSUME NEW i \in 1..Len(Tail(s)), Tail(s)[i].op = "change", Tail(s)[i].by = "batch"
             PROVE  /\ Tail(s)[i].on = Parts
                    /\ \/ /\ \A p \in Parts : g[p] = "X"
                          /\ \A k \in 1..(i - 1) : ~OnParts(Tail(s)[k])
                       \/ /\ \A p \in Parts : g[p] \in {"-", "X"}
                          /\ \E j \in 1..(i - 1) :
                               /\ TakesParts(Tail(s)[j])
                               /\ \A k \in 1..(i - 1) : OnParts(Tail(s)[k]) => k = j
  BY DEF RestOwns
<1>1. i \in Nat /\ i + 1 \in 1..Len(s) /\ Tail(s)[i] = s[i + 1]
  BY TailFacts
<1>2. \A k \in 1..(i - 1) : k + 1 \in 1..i /\ Tail(s)[k] = s[k + 1]
  BY TailFacts
<1>3. CASE /\ \A p \in Parts : h[p] = "X"
           /\ \A k \in 1..i : ~OnParts(s[k])
  <2>1. ~OnParts(s[1])
    BY <1>1, <1>3
  <2>2. \A p \in Parts : g[p] = "X"
    BY <1>3, <2>1
  <2>3. \A k \in 1..(i - 1) : ~OnParts(Tail(s)[k])
    BY <1>2, <1>3
  <2>4. Tail(s)[i].on = Parts
    BY <1>1 DEF RestOwns
  <2> QED BY <2>2, <2>3, <2>4
<1>4. ASSUME \A p \in Parts : h[p] \in {"-", "X"},
             NEW j \in 1..i, TakesParts(s[j]),
             \A k \in 1..i : OnParts(s[k]) => k = j
      PROVE  \/ /\ \A p \in Parts : g[p] = "X"
                /\ \A k \in 1..(i - 1) : ~OnParts(Tail(s)[k])
             \/ /\ \A p \in Parts : g[p] \in {"-", "X"}
                /\ \E m \in 1..(i - 1) :
                     /\ TakesParts(Tail(s)[m])
                     /\ \A k \in 1..(i - 1) : OnParts(Tail(s)[k]) => k = m
  <2>1. CASE j = 1
    <3>1. \A p \in Parts : g[p] = "X"
      BY <1>4, <2>1
    <3>2. ASSUME NEW k \in 1..(i - 1) PROVE ~OnParts(Tail(s)[k])
      <4>1. k + 1 \in 1..i /\ k + 1 # 1 /\ Tail(s)[k] = s[k + 1]
        BY <1>2
      <4> QED BY <1>4, <2>1, <4>1
    <3> QED BY <3>1, <3>2
  <2>2. CASE j # 1
    <3>1. 1 \in 1..i /\ j - 1 \in 1..(i - 1) /\ Tail(s)[j - 1] = s[j]
      BY <1>1, <1>2, <2>2
    <3>2. ~OnParts(s[1])
      BY <1>4, <2>2, <3>1
    <3>3. ASSUME NEW k \in 1..(i - 1), OnParts(Tail(s)[k]) PROVE k = j - 1
      <4>1. k + 1 \in 1..i /\ OnParts(s[k + 1])
        BY <1>2, <3>3
      <4>2. k + 1 = j
        BY <1>4, <4>1
      <4> QED BY <4>2
    <3> QED BY <1>4, <3>1, <3>2, <3>3
  <2> QED BY <2>1, <2>2
<1>5. /\ s[i + 1].on = Parts
      /\ \/ /\ \A p \in Parts : h[p] = "X"
            /\ \A k \in 1..((i + 1) - 1) : ~OnParts(s[k])
         \/ /\ \A p \in Parts : h[p] \in {"-", "X"}
            /\ \E j \in 1..((i + 1) - 1) :
                 /\ TakesParts(s[j])
                 /\ \A k \in 1..((i + 1) - 1) : OnParts(s[k]) => k = j
  BY <1>1 DEF RestOwns
<1>6. (i + 1) - 1 = i
  BY <1>1
<1> QED BY <1>1, <1>3, <1>4, <1>5, <1>6

\* What is left of a call after a step other than a rollback still has its rollback to do.
LEMMA TailUnfinished ==
    ASSUME NEW s \in Seq(Step), s # <<>>, Unfinished(s), s[1].op # "rollback"
    PROVE  Unfinished(Tail(s))
<1> SUFFICES ASSUME NEW k \in 1..Len(Tail(s)), Tail(s)[k].op = "end", OnParts(Tail(s)[k])
             PROVE  \E j \in 1..(k - 1) : Tail(s)[j].op = "rollback"
  BY DEF Unfinished
<1>1. k + 1 \in 1..Len(s) /\ Tail(s)[k] = s[k + 1] /\ (k + 1) - 1 = k
  BY TailFacts
<1>2. PICK j \in 1..k : s[j].op = "rollback"
  BY <1>1 DEF Unfinished
<1>3. j # 1
  BY <1>2
<1>4. j - 1 \in 1..(k - 1) /\ Tail(s)[j - 1] = s[j]
  BY <1>2, <1>3, TailFacts
<1> QED BY <1>2, <1>4

\* One more step at the end of a call leaves the others in place.
LEMMA JoinOne ==
    ASSUME NEW s \in Seq(Step), NEW x \in Step, NEW e, e = s \o <<x>>
    PROVE  /\ e \in Seq(Step) /\ Len(e) = Len(s) + 1 /\ e[Len(s) + 1] = x
           /\ \A i \in 1..Len(s) : e[i] = s[i]
  OBVIOUS

\* One more step in front of a call moves the others by one place.
LEMMA JoinRest ==
    ASSUME NEW s \in Seq(Step), NEW x \in Step, NEW e, e = <<x>> \o s
    PROVE  /\ e \in Seq(Step) /\ Len(e) = Len(s) + 1 /\ e[1] = x
           /\ \A i \in 1..Len(s) : e[i + 1] = s[i]
  OBVIOUS

\* ~InnerWriter of the chain state: it rolls back, then it releases each part.
LEMMA EndStateFacts ==
    /\ EndState \in Seq(Step) /\ Len(EndState) = 6
    /\ EndState[1].op = "rollback" /\ \A i \in 2..6 : EndState[i].op = "end"
    /\ \A p \in Parts : \E k \in 1..6 : Frees(EndState[k], p)
<1> DEFINE x(m) == [op |-> "end", on |-> {m}, by |-> "batch"]
           r == [op |-> "rollback", on |-> Parts, by |-> "batch"]
           z == [op |-> "end", on |-> {"state"}, by |-> "plain"]
<1>1. /\ \A m \in Parts : x(m) \in Step /\ x(m).op = "end" /\ Frees(x(m), m)
      /\ r \in Step /\ r.op = "rollback" /\ z \in Step /\ z.op = "end"
  BY DEF Step, Mutex, Parts, Frees
<1>2. EndState = (<<r>> \o (((<<x("store")>> \o <<x("db")>>) \o <<x("mmr")>>) \o <<x("set")>>)) \o <<z>>
  BY DEF EndState, EndParts, EndBatch, End, Do
<1>3. "store" \in Parts /\ "db" \in Parts /\ "mmr" \in Parts /\ "set" \in Parts
  BY DEF Parts
<1> HIDE DEF x, r, z
<1> DEFINE e1 == <<x("store")>>
           e2 == e1 \o <<x("db")>>
           e3 == e2 \o <<x("mmr")>>
           e4 == e3 \o <<x("set")>>
           e5 == <<r>> \o e4
<1>4. e1 \in Seq(Step) /\ Len(e1) = 1 /\ e1[1] = x("store")
  BY <1>1, <1>3
<1> HIDE DEF e1
<1>5. e2 \in Seq(Step) /\ Len(e2) = 2 /\ e2[1] = x("store") /\ e2[2] = x("db")
  <2>1. e1 \in Seq(Step) /\ x("db") \in Step /\ e2 = e1 \o <<x("db")>>
    BY <1>1, <1>3, <1>4
  <2> HIDE DEF e2
  <2>2. /\ e2 \in Seq(Step) /\ Len(e2) = Len(e1) + 1 /\ e2[Len(e1) + 1] = x("db")
        /\ \A i \in 1..Len(e1) : e2[i] = e1[i]
    BY <2>1, JoinOne
  <2> QED BY <1>4, <2>2
<1> HIDE DEF e2
<1>6. e3 \in Seq(Step) /\ Len(e3) = 3 /\ e3[1] = x("store") /\ e3[2] = x("db") /\ e3[3] = x("mmr")
  <2>1. e2 \in Seq(Step) /\ x("mmr") \in Step /\ e3 = e2 \o <<x("mmr")>>
    BY <1>1, <1>3, <1>5
  <2> HIDE DEF e3
  <2>2. /\ e3 \in Seq(Step) /\ Len(e3) = Len(e2) + 1 /\ e3[Len(e2) + 1] = x("mmr")
        /\ \A i \in 1..Len(e2) : e3[i] = e2[i]
    BY <2>1, JoinOne
  <2> QED BY <1>5, <2>2
<1> HIDE DEF e3
<1>7. e4 \in Seq(Step) /\ Len(e4) = 4 /\ e4[1] = x("store") /\ e4[2] = x("db") /\ e4[3] = x("mmr") /\ e4[4] = x("set")
  <2>1. e3 \in Seq(Step) /\ x("set") \in Step /\ e4 = e3 \o <<x("set")>>
    BY <1>1, <1>3, <1>6
  <2> HIDE DEF e4
  <2>2. /\ e4 \in Seq(Step) /\ Len(e4) = Len(e3) + 1 /\ e4[Len(e3) + 1] = x("set")
        /\ \A i \in 1..Len(e3) : e4[i] = e3[i]
    BY <2>1, JoinOne
  <2> QED BY <1>6, <2>2
<1> HIDE DEF e4
<1>8. /\ e5 \in Seq(Step) /\ Len(e5) = 5 /\ e5[1] = r /\ e5[2] = x("store") /\ e5[3] = x("db")
      /\ e5[4] = x("mmr") /\ e5[5] = x("set")
  <2>0. e4 \in Seq(Step) /\ r \in Step /\ e5 = <<r>> \o e4
    BY <1>1, <1>7
  <2> HIDE DEF e5
  <2>1. /\ e5 \in Seq(Step) /\ Len(e5) = Len(e4) + 1 /\ e5[1] = r
        /\ \A i \in 1..Len(e4) : e5[i + 1] = e4[i]
    BY <2>0, JoinRest
  <2>2. e5[1 + 1] = e4[1] /\ e5[2 + 1] = e4[2] /\ e5[3 + 1] = e4[3] /\ e5[4 + 1] = e4[4]
    BY <1>7, <2>1
  <2> QED BY <1>7, <2>1, <2>2
<1>9. EndState = e5 \o <<z>>
  BY <1>2 DEF e1, e2, e3, e4
<1> HIDE DEF e5
<1>10. /\ EndState \in Seq(Step) /\ Len(EndState) = 6 /\ EndState[1] = r /\ EndState[2] = x("store")
       /\ EndState[3] = x("db") /\ EndState[4] = x("mmr") /\ EndState[5] = x("set") /\ EndState[6] = z
  <2>1. e5 \in Seq(Step) /\ z \in Step
    BY <1>1, <1>8
  <2>2. /\ EndState \in Seq(Step) /\ Len(EndState) = Len(e5) + 1 /\ EndState[Len(e5) + 1] = z
        /\ \A i \in 1..Len(e5) : EndState[i] = e5[i]
    BY <1>9, <2>1, JoinOne
  <2> QED BY <1>8, <2>2
<1>11. \A i \in 2..6 : EndState[i].op = "end"
  BY <1>1, <1>3, <1>10
<1>12. \A p \in Parts : \E k \in 1..6 : Frees(EndState[k], p)
  <2>1. Frees(EndState[2], "store") /\ Frees(EndState[3], "db") /\ Frees(EndState[4], "mmr") /\ Frees(EndState[5], "set")
    BY <1>1, <1>3, <1>10
  <2> QED BY <2>1 DEF Parts
<1> QED BY <1>1, <1>10, <1>11, <1>12

\* What ends a batch keeps to the rules, whatever the thread holds.
LEMMA EndStateRest ==
    ASSUME NEW h PROVE Rest(EndState, h) /\ Unfinished(EndState)
<1>1. \A i \in 1..Len(EndState) : EndState[i].op # "lock" /\ EndState[i].op # "change"
  BY EndStateFacts
<1>2. ChangesLast(EndState) /\ RollsBack(EndState) /\ Releases(EndState) /\ RestOwns(EndState, h)
  BY <1>1 DEF ChangesLast, RollsBack, Releases, RestOwns
<1>3. \A p \in Parts : \E k \in 1..Len(EndState) : Frees(EndState[k], p)
  BY EndStateFacts
<1>4. ASSUME NEW k \in 1..Len(EndState), EndState[k].op = "end"
      PROVE  \E j \in 1..(k - 1) : EndState[j].op = "rollback"
  <2>1. k # 1
    BY <1>4, EndStateFacts
  <2>2. 1 \in 1..(k - 1)
    BY <2>1, EndStateFacts
  <2> QED BY <2>2, EndStateFacts
<1> QED BY <1>2, <1>3, <1>4 DEF Rest, RestReleases, Unfinished

\* What is next in a call.
LEMMA NextStep ==
    ASSUME LockTypes, NEW t \in Threads, NEW op, At(t, op)
    PROVE  /\ todo[t] \in Seq(Step) /\ todo[t] # <<>> /\ Head(todo[t]) = todo[t][1]
           /\ todo[t][1] \in Step /\ todo[t][1].op = op /\ 1 \in 1..Len(todo[t])
<1>1. todo[t] \in Seq(Step) /\ todo[t] # <<>> /\ Head(todo[t]).op = op
  BY DEF LockTypes, At
<1> QED BY <1>1, TailFacts

\* The rest of a call after its first step.
LEMMA RestAfter ==
    ASSUME NEW s \in Seq(Step), s # <<>>, NEW h, NEW g, Rest(s, h),
           \A p \in Parts : g[p] # "-" =>
             \/ h[p] # "-" /\ ~Frees(s[1], p)
             \/ s[1].op = "lock" /\ p \in s[1].on,
           ~OnParts(s[1]) => \A p \in Parts : g[p] = h[p],
           TakesParts(s[1]) /\ (\A p \in Parts : h[p] \in {"-", "X"})
             => \A p \in Parts : g[p] = "X"
    PROVE  Rest(Tail(s), g)
<1>1. ChangesLast(Tail(s)) /\ RollsBack(Tail(s))
  BY TailChangesLast, TailRollsBack DEF Rest
<1>2. RestReleases(Tail(s), g)
  BY TailRestReleases DEF Rest
<1>3. RestOwns(Tail(s), g)
  BY TailRestOwns DEF Rest
<1> QED BY <1>1, <1>2, <1>3 DEF Rest

\* A step that locks and releases nothing.
LEMMA RestAfterOther ==
    ASSUME NEW s \in Seq(Step), s # <<>>, NEW h, Rest(s, h), s[1].op \notin {"lock", "end"}
    PROVE  Rest(Tail(s), h)
<1>1. ~OnParts(s[1]) /\ (\A p \in Parts : ~Frees(s[1], p)) /\ s[1].op # "lock"
  BY DEF OnParts, Frees
<1>2. ~TakesParts(s[1])
  BY <1>1 DEF TakesParts
<1> QED BY <1>1, <1>2, RestAfter
-----------------------------------------------------------------------------
\* A thread that holds no part begins a call.
LEMMA BeginStep ==
    ASSUME LocksInv, NEW t \in Threads, Begin(t)
    PROVE  LocksInv'
<1>1. PICK c \in CallsOf[t] : todo' = [todo EXCEPT ![t] = c]
  BY DEF Begin
<1>2. UNCHANGED <<held, shown, stored, loose, torn>> /\ todo[t] = <<>>
  BY DEF Begin
<1>3. c \in Seq(Step) /\ IsDisciplined(c)
  BY <1>1, CallsAssumption
<1>4. todo \in [Threads -> Seq(Step)]
  BY DEF LocksInv, LockTypes
<1>5. todo' \in [Threads -> Seq(Step)] /\ todo'[t] = c /\ \A u \in Threads : u # t => todo'[u] = todo[u]
  BY <1>1, <1>3, <1>4
<1>6. \A p \in Parts : held[t][p] = "-"
  <2>1. RestReleases(todo[t], held[t]) /\ Len(todo[t]) = 0
    BY <1>2 DEF LocksInv, RestDisciplined, Rest
  <2> QED BY <2>1 DEF RestReleases
<1>7. Rest(c, held[t])
  <2>1. ChangesLast(c) /\ RollsBack(c) /\ Releases(c) /\ OwnsBatch(c)
    BY <1>3 DEF IsDisciplined
  <2>2. RestReleases(c, held[t])
    BY <1>6, <2>1 DEF RestReleases
  <2>3. RestOwns(c, held[t])
    BY <1>6, <2>1 DEF RestOwns, OwnsBatch
  <2> QED BY <2>1, <2>2, <2>3 DEF Rest
<1>8. LockTypes' /\ Exclusive' /\ DirtyIsOwned'
  BY <1>2, <1>5 DEF LocksInv, LockTypes, Exclusive, DirtyIsOwned, Dirty
<1>9. DirtyStaysLocked'
  BY <1>2, <1>5, <1>6 DEF LocksInv, DirtyStaysLocked, Dirty
<1>10. RestDisciplined'
  BY <1>2, <1>5, <1>7 DEF LocksInv, RestDisciplined
<1>11. ~torn' => BatchIsWhole' /\ StoredAgree'
  BY <1>2, <1>5, <1>6 DEF LocksInv, BatchIsWhole, StoredAgree
<1> QED BY <1>8, <1>9, <1>10, <1>11 DEF LocksInv

\* The body of a batch is left, by a return or by an exception.
LEMMA LeaveStep ==
    ASSUME LocksInv, NEW t \in Threads, todo' = [todo EXCEPT ![t] = EndState],
           UNCHANGED <<held, shown, stored, loose, torn>>
    PROVE  LocksInv'
<1>1. todo' \in [Threads -> Seq(Step)] /\ todo'[t] = EndState /\ \A u \in Threads : u # t => todo'[u] = todo[u]
  BY EndStateFacts DEF LocksInv, LockTypes
<1>2. Rest(EndState, held[t]) /\ Unfinished(EndState)
  BY EndStateRest
<1>3. \A i \in 1..Len(EndState) : EndState[i].op # "lock"
  BY EndStateFacts
<1>4. LockTypes' /\ Exclusive' /\ DirtyIsOwned'
  BY <1>1 DEF LocksInv, LockTypes, Exclusive, DirtyIsOwned, Dirty
<1>5. DirtyStaysLocked'
  BY <1>1, <1>3 DEF LocksInv, DirtyStaysLocked, Dirty
<1>6. RestDisciplined'
  BY <1>1, <1>2 DEF LocksInv, RestDisciplined
<1>7. ~torn' => BatchIsWhole' /\ StoredAgree'
  BY <1>1, <1>2 DEF LocksInv, BatchIsWhole, StoredAgree
<1> QED BY <1>4, <1>5, <1>6, <1>7 DEF LocksInv

\* lock() of a mutex, or one step of std::lock that takes one.
LEMMA TakeStep ==
    ASSUME LocksInv, NEW t \in Threads, At(t, "lock"), NEW m \in todo[t][1].on, held[t][m] = "-",
           IsFree(t, m, todo[t][1].by), todo[t][1].by \in {"S", "X"},
           held' = [held EXCEPT ![t][m] = todo[t][1].by],
           \/ todo' = todo
           \/ /\ todo' = [todo EXCEPT ![t] = Tail(todo[t])]
              /\ \A n \in todo[t][1].on : n = m \/ held[t][n] # "-",
           UNCHANGED <<shown, stored, loose, torn>>
    PROVE  LocksInv'
<1> DEFINE s == todo[t]
<1>1. s \in Seq(Step) /\ s # <<>> /\ s[1] \in Step /\ s[1].op = "lock" /\ 1 \in 1..Len(s)
  BY NextStep DEF LocksInv
<1>2. m \in Mutex
  BY <1>1 DEF Step
<1>3. /\ held' \in [Threads -> [Mutex -> {"S", "X", "-"}]]
      /\ held'[t][m] = s[1].by
      /\ \A n \in Mutex : n # m => held'[t][n] = held[t][n]
      /\ \A u \in Threads : u # t => held'[u] = held[u]
  BY <1>2 DEF LocksInv, LockTypes
<1>4. Tail(s) \in Seq(Step) /\ \A i \in 1..Len(Tail(s)) : i + 1 \in 1..Len(s) /\ Tail(s)[i] = s[i + 1]
  BY <1>1, TailFacts
<1>5. /\ todo' \in [Threads -> Seq(Step)]
      /\ todo'[t] = s \/ (todo'[t] = Tail(s) /\ \A n \in s[1].on : n = m \/ held[t][n] # "-")
      /\ \A u \in Threads : u # t => todo'[u] = todo[u]
  BY <1>4 DEF LocksInv, LockTypes
<1> HIDE DEF s
<1>6. m \in Parts => ~Dirty(m)
  <2>1. \A u \in Threads : u # t => held[u][m] # "X"
    BY DEF IsFree
  <2> QED BY <2>1 DEF LocksInv, DirtyIsOwned
<1>7. LockTypes'
  BY <1>3, <1>5 DEF LocksInv, LockTypes
<1>8. Exclusive'
  <2> SUFFICES ASSUME NEW u \in Threads, NEW w \in Threads, NEW n \in Mutex, u # w, held'[u][n] = "X"
               PROVE  held'[w][n] = "-"
    BY DEF Exclusive
  <2>1. CASE n # m
    BY <1>3, <2>1 DEF LocksInv, Exclusive
  <2>2. CASE n = m /\ u = t
    BY <1>3, <2>2 DEF IsFree, s
  <2>3. CASE n = m /\ u # t
    BY <1>3, <2>3 DEF IsFree
  <2> QED BY <2>1, <2>2, <2>3
<1>9. DirtyIsOwned'
  <2> SUFFICES ASSUME NEW p \in Parts, Dirty(p) PROVE \E u \in Threads : held'[u][p] = "X"
    BY DEF DirtyIsOwned, Dirty
  <2>1. PICK u \in Threads : held[u][p] = "X"
    BY DEF LocksInv, DirtyIsOwned
  <2>2. p \in Mutex /\ p # m
    BY <1>6 DEF Mutex
  <2> QED BY <1>3, <2>1, <2>2
<1>10. DirtyStaysLocked'
  <2> SUFFICES ASSUME NEW u \in Threads, NEW p \in Parts, held'[u][p] = "X", Dirty(p),
                      NEW i \in 1..Len(todo'[u]), todo'[u][i].op = "lock"
               PROVE  p \notin todo'[u][i].on
    BY DEF DirtyStaysLocked, Dirty
  <2>1. p \in Mutex /\ p # m
    BY <1>6 DEF Mutex
  <2>2. held[u][p] = "X"
    BY <1>3, <2>1
  <2>3. \A j \in 1..Len(todo[u]) : todo[u][j].op = "lock" => p \notin todo[u][j].on
    BY <2>2 DEF LocksInv, DirtyStaysLocked
  <2>4. CASE todo'[u] = todo[u]
    BY <2>3, <2>4
  <2>5. CASE u = t /\ todo'[t] = Tail(s)
    <3>1. i + 1 \in 1..Len(s) /\ Tail(s)[i] = s[i + 1]
      BY <1>4, <2>5
    <3> QED BY <2>3, <2>5, <3>1 DEF s
  <2> QED BY <1>5, <2>4, <2>5 DEF s
<1>11. RestDisciplined'
  <2>1. \A u \in Threads : u # t => Rest(todo'[u], held'[u])
    BY <1>3, <1>5 DEF LocksInv, RestDisciplined
  <2>2. Rest(s, held[t])
    BY DEF LocksInv, RestDisciplined, s
  <2>3. \A p \in Parts : p \in Mutex
    BY DEF Mutex
  <2>4. ASSUME NEW p \in Parts, held'[t][p] # "-" PROVE held[t][p] # "-" \/ (s[1].op = "lock" /\ p \in s[1].on)
    BY <1>1, <1>3, <2>3, <2>4 DEF s
  <2>5. ~OnParts(s[1]) => m \notin Parts
    BY <1>1 DEF OnParts, s
  <2>6. ~OnParts(s[1]) => \A p \in Parts : held'[t][p] = held[t][p]
    BY <1>3, <2>3, <2>5
  <2>7. \A p \in Parts : ~Frees(s[1], p)
    BY <1>1 DEF Frees
  <2>8. CASE todo'[t] = Tail(s) /\ \A n \in s[1].on : n = m \/ held[t][n] # "-"
    <3>1. ASSUME TakesParts(s[1]), \A p \in Parts : held[t][p] \in {"-", "X"},
                 NEW p \in Parts
          PROVE  held'[t][p] = "X"
      <4>1. s[1].on = Parts /\ s[1].by = "X"
        BY <3>1 DEF TakesParts
      <4>2. CASE p = m
        BY <1>3, <4>1, <4>2
      <4>3. CASE p # m
        BY <1>3, <2>3, <2>8, <3>1, <4>1, <4>3
      <4> QED BY <4>2, <4>3
    <3>2. Rest(Tail(s), held'[t])
      <4>1. PICK h, g : h = held[t] /\ g = held'[t]
        OBVIOUS
      <4>2. \A p \in Parts : g[p] # "-" =>
              \/ h[p] # "-" /\ ~Frees(s[1], p)
              \/ s[1].op = "lock" /\ p \in s[1].on
        BY <2>4, <2>7, <4>1
      <4>3. TakesParts(s[1]) /\ (\A p \in Parts : h[p] \in {"-", "X"}) => \A p \in Parts : g[p] = "X"
        BY <3>1, <4>1
      <4>4. ~OnParts(s[1]) => \A p \in Parts : g[p] = h[p]
        BY <2>6, <4>1
      <4>5. Rest(s, h)
        BY <2>2, <4>1
      <4>6. Rest(Tail(s), g)
        BY <1>1, <4>2, <4>3, <4>4, <4>5, RestAfter
      <4> QED BY <4>1, <4>6
    <3> QED BY <2>1, <2>8, <3>2 DEF RestDisciplined
  <2>9. CASE todo'[t] = s
    <3>1. RestReleases(s, held'[t])
      <4>1. ASSUME NEW p \in Parts, held'[t][p] # "-" PROVE \E k \in 1..Len(s) : Frees(s[k], p)
        <5>1. CASE held[t][p] # "-"
          BY <2>2, <5>1 DEF Rest, RestReleases
        <5>2. CASE s[1].op = "lock" /\ p \in s[1].on
          BY <1>1, <2>2, <5>2 DEF Rest, RestReleases, Releases
        <5> QED BY <2>4, <4>1, <5>1, <5>2
      <4> QED BY <2>2, <4>1 DEF Rest, RestReleases
    <3>2. RestOwns(s, held'[t])
      <4> SUFFICES ASSUME NEW i \in 1..Len(s), s[i].op = "change", s[i].by = "batch"
                   PROVE  /\ s[i].on = Parts
                          /\ \/ /\ \A p \in Parts : held'[t][p] = "X"
                                /\ \A k \in 1..(i - 1) : ~OnParts(s[k])
                             \/ /\ \A p \in Parts : held'[t][p] \in {"-", "X"}
                                /\ \E j \in 1..(i - 1) :
                                     /\ TakesParts(s[j])
                                     /\ \A k \in 1..(i - 1) : OnParts(s[k]) => k = j
        BY DEF RestOwns
      <4>1. 1 \in 1..(i - 1)
        BY <1>1
      <4>2. CASE ~OnParts(s[1])
        BY <2>2, <2>6, <4>2 DEF Rest, RestOwns
      <4>3. CASE OnParts(s[1])
        <5>1. /\ s[i].on = Parts /\ \A p \in Parts : held[t][p] \in {"-", "X"}
              /\ \E j \in 1..(i - 1) :
                   /\ TakesParts(s[j])
                   /\ \A k \in 1..(i - 1) : OnParts(s[k]) => k = j
          BY <2>2, <4>1, <4>3 DEF Rest, RestOwns
        <5>2. TakesParts(s[1])
          BY <4>1, <4>3, <5>1
        <5>3. s[1].by = "X"
          BY <5>2 DEF TakesParts
        <5>4. \A p \in Parts : held'[t][p] \in {"-", "X"}
          BY <1>3, <2>3, <5>1, <5>3
        <5> QED BY <5>1, <5>4
      <4> QED BY <4>2, <4>3
    <3>3. Rest(s, held'[t])
      BY <2>2, <3>1, <3>2 DEF Rest
    <3> QED BY <2>1, <2>9, <3>3 DEF RestDisciplined
  <2> QED BY <1>5, <2>8, <2>9
<1>12. ASSUME ~torn PROVE BatchIsWhole' /\ StoredAgree'
  <2> SUFFICES ASSUME NEW u \in Threads, NEW p \in Parts, held'[u][p] = "X", shown[p] # stored[p]
               PROVE  /\ \A q \in Parts : held'[u][q] = "X" /\ shown[q] # stored[q]
                      /\ Unfinished(todo'[u])
    BY <1>12 DEF LocksInv, BatchIsWhole, StoredAgree
  <2>1. p \in Mutex /\ p # m /\ \A q \in Parts : q \in Mutex
    BY <1>6 DEF Mutex, Dirty
  <2>2. held[u][p] = "X"
    BY <1>3, <2>1
  <2>3. (\A q \in Parts : held[u][q] = "X" /\ shown[q] # stored[q]) /\ Unfinished(todo[u])
    BY <1>12, <2>2 DEF LocksInv, BatchIsWhole
  <2>4. \A q \in Parts : held'[u][q] = "X"
    <3>1. \A q \in Parts : Dirty(q)
      BY <2>3 DEF Dirty
    <3>2. \A q \in Parts : q # m
      BY <1>6, <3>1
    <3> QED BY <1>3, <2>1, <2>3, <3>2
  <2>5. Unfinished(todo'[u])
    BY <1>1, <1>5, <2>3, TailUnfinished DEF s
  <2> QED BY <2>3, <2>4, <2>5
<1> QED BY <1>7, <1>8, <1>9, <1>10, <1>11, <1>12 DEF LocksInv

\* One step of std::lock that gives back what it took.
LEMMA BackOffStep ==
    ASSUME LocksInv, NEW t \in Threads, At(t, "lock"), NEW mine \in SUBSET todo[t][1].on,
           held' = [held EXCEPT ![t] = [n \in Mutex |-> IF n \in mine THEN "-" ELSE @[n]]],
           UNCHANGED <<todo, shown, stored, loose, torn>>
    PROVE  LocksInv'
<1> DEFINE s == todo[t]
<1>1. s \in Seq(Step) /\ s # <<>> /\ s[1] \in Step /\ s[1].op = "lock" /\ 1 \in 1..Len(s)
  BY NextStep DEF LocksInv
<1>2. /\ held' \in [Threads -> [Mutex -> {"S", "X", "-"}]]
      /\ \A n \in Mutex : held'[t][n] = IF n \in mine THEN "-" ELSE held[t][n]
      /\ \A u \in Threads : u # t => held'[u] = held[u]
  BY DEF LocksInv, LockTypes
<1>3. \A p \in Parts : p \in Mutex
  BY DEF Mutex
<1>4. \A u \in Threads, n \in Mutex : held'[u][n] # "-" => held'[u][n] = held[u][n]
  BY <1>2
<1> HIDE DEF s
<1>5. \A p \in Parts : held[t][p] = "X" /\ Dirty(p) => p \notin mine
  BY <1>1 DEF LocksInv, DirtyStaysLocked, s
<1>6. LockTypes'
  BY <1>2 DEF LocksInv, LockTypes
<1>7. Exclusive'
  BY <1>2, <1>4 DEF LocksInv, Exclusive
<1>8. DirtyIsOwned'
  <2> SUFFICES ASSUME NEW p \in Parts, Dirty(p) PROVE \E u \in Threads : held'[u][p] = "X"
    BY DEF DirtyIsOwned, Dirty
  <2>1. PICK u \in Threads : held[u][p] = "X"
    BY DEF LocksInv, DirtyIsOwned
  <2> QED BY <1>2, <1>3, <1>5, <2>1
<1>9. DirtyStaysLocked'
  BY <1>3, <1>4 DEF LocksInv, DirtyStaysLocked, Dirty
<1>10. Rest(s, held'[t])
  <2>1. Rest(s, held[t])
    BY DEF LocksInv, RestDisciplined, s
  <2>2. \A p \in Parts : held'[t][p] # "-" => held[t][p] # "-"
    BY <1>3, <1>4
  <2>3. RestReleases(s, held'[t])
    BY <2>1, <2>2 DEF Rest, RestReleases
  <2>4. RestOwns(s, held'[t])
    <3> SUFFICES ASSUME NEW i \in 1..Len(s), s[i].op = "change", s[i].by = "batch"
                 PROVE  /\ s[i].on = Parts
                        /\ \/ /\ \A p \in Parts : held'[t][p] = "X"
                              /\ \A k \in 1..(i - 1) : ~OnParts(s[k])
                           \/ /\ \A p \in Parts : held'[t][p] \in {"-", "X"}
                              /\ \E j \in 1..(i - 1) :
                                   /\ TakesParts(s[j])
                                   /\ \A k \in 1..(i - 1) : OnParts(s[k]) => k = j
      BY DEF RestOwns
    <3>1. 1 \in 1..(i - 1)
      BY <1>1
    <3>2. CASE ~OnParts(s[1])
      <4>1. \A p \in Parts : p \notin mine
        BY <1>1, <3>2 DEF OnParts, s
      <4>2. \A p \in Parts : held'[t][p] = held[t][p]
        BY <1>2, <1>3, <4>1
      <4> QED BY <2>1, <4>2 DEF Rest, RestOwns
    <3>3. CASE OnParts(s[1])
      <4>1. /\ s[i].on = Parts /\ \A p \in Parts : held[t][p] \in {"-", "X"}
            /\ \E j \in 1..(i - 1) : TakesParts(s[j]) /\ \A k \in 1..(i - 1) : OnParts(s[k]) => k = j
        BY <2>1, <3>1, <3>3 DEF Rest, RestOwns
      <4>2. \A p \in Parts : held'[t][p] \in {"-", "X"}
        BY <1>2, <1>3, <4>1
      <4> QED BY <4>1, <4>2
    <3> QED BY <3>2, <3>3
  <2> QED BY <2>1, <2>3, <2>4 DEF Rest
<1>11. RestDisciplined'
  BY <1>2, <1>10 DEF LocksInv, RestDisciplined, s
<1>12. ASSUME ~torn PROVE BatchIsWhole' /\ StoredAgree'
  <2> SUFFICES ASSUME NEW u \in Threads, NEW p \in Parts, held'[u][p] = "X", shown[p] # stored[p]
               PROVE  /\ \A q \in Parts : held'[u][q] = "X" /\ shown[q] # stored[q]
                      /\ Unfinished(todo'[u])
    BY <1>12 DEF LocksInv, BatchIsWhole, StoredAgree
  <2>1. held[u][p] = "X"
    BY <1>3, <1>4
  <2>2. (\A q \in Parts : held[u][q] = "X" /\ shown[q] # stored[q]) /\ Unfinished(todo[u])
    BY <1>12, <2>1 DEF LocksInv, BatchIsWhole
  <2>3. \A q \in Parts : held'[u][q] = "X"
    BY <1>2, <1>3, <1>5, <2>2 DEF Dirty
  <2> QED BY <2>2, <2>3
<1> QED BY <1>6, <1>7, <1>8, <1>9, <1>11, <1>12 DEF LocksInv

\* lock(), lock_shared() and std::lock, in both outcomes of its steps.
LEMMA AcquireStep ==
    ASSUME LocksInv, NEW t \in Threads, Acquire(t)
    PROVE  LocksInv'
<1> DEFINE s == Head(todo[t])
           mine == {m \in s.on : held[t][m] # "-"}
<1>1. At(t, "lock") /\ UNCHANGED <<shown, stored, loose, torn>>
  BY DEF Acquire
<1>2. s = todo[t][1] /\ s \in Step
  BY <1>1, NextStep DEF LocksInv
<1>3. PICK m \in s.on \ mine :
        \/ /\ IsFree(t, m, s.by)
           /\ held' = [held EXCEPT ![t][m] = s.by]
           /\ IF s.on = mine \cup {m} THEN Continue(t) ELSE UNCHANGED todo
        \/ /\ ~IsFree(t, m, s.by) /\ mine # {}
           /\ held' = [held EXCEPT ![t] = [n \in Mutex |-> IF n \in mine THEN "-" ELSE @[n]]]
           /\ UNCHANGED todo
  BY DEF Acquire
<1>4. CASE /\ held' = [held EXCEPT ![t] = [n \in Mutex |-> IF n \in mine THEN "-" ELSE @[n]]]
           /\ UNCHANGED todo
  <2>1. mine \in SUBSET todo[t][1].on
    BY <1>2
  <2> HIDE DEF mine
  <2> QED BY <1>1, <1>4, <2>1, BackOffStep
<1>5. CASE /\ IsFree(t, m, s.by)
           /\ held' = [held EXCEPT ![t][m] = s.by]
           /\ IF s.on = mine \cup {m} THEN Continue(t) ELSE UNCHANGED todo
  <2>1. m \in todo[t][1].on /\ held[t][m] = "-" /\ IsFree(t, m, todo[t][1].by)
    BY <1>2, <1>3, <1>5
  <2>2. \/ todo' = todo
        \/ /\ todo' = [todo EXCEPT ![t] = Tail(todo[t])]
           /\ \A n \in todo[t][1].on : n = m \/ held[t][n] # "-"
    BY <1>2, <1>5 DEF Continue
  <2>3. held' = [held EXCEPT ![t][m] = todo[t][1].by]
    BY <1>2, <1>5
  <2>4. todo[t][1].by \in {"S", "X"}
    BY <1>1, NextStep DEF LocksInv, Step
  <2> QED BY <1>1, <2>1, <2>2, <2>3, <2>4, TakeStep
<1> QED BY <1>3, <1>4, <1>5

\* ~InnerReader, ~InnerWriter.  A part that goes back unfinished is the exception after
\* a commit that failed.
LEMMA EndStep ==
    ASSUME LocksInv, NEW t \in Threads, EndHeld(t)
    PROVE  LocksInv'
<1> DEFINE s == todo[t]
<1>1. s \in Seq(Step) /\ s # <<>> /\ Head(s) = s[1] /\ s[1] \in Step /\ s[1].op = "end" /\ 1 \in 1..Len(s)
  BY NextStep DEF LocksInv, EndHeld
<1>2. PICK m \in s[1].on :
         /\ held' = [held EXCEPT ![t][m] = "-"]
         /\ loose' = IF m \in Written(t) THEN loose \ {m} ELSE loose
         /\ shown' = IF m \in Written(t) /\ s[1].by = "batch" THEN [shown EXCEPT ![m] = stored[m]] ELSE shown
         /\ stored' = IF m \in Written(t) /\ s[1].by = "plain" THEN [stored EXCEPT ![m] = shown[m]] ELSE stored
  BY <1>1 DEF EndHeld
<1>3. todo' = [todo EXCEPT ![t] = Tail(s)] /\ torn' = torn
  BY DEF EndHeld, Continue
<1>4. m \in Mutex /\ s[1].by \in {"plain", "batch"}
  BY <1>1 DEF Step
<1>5. /\ held' \in [Threads -> [Mutex -> {"S", "X", "-"}]]
      /\ held'[t][m] = "-"
      /\ \A n \in Mutex : n # m => held'[t][n] = held[t][n]
      /\ \A u \in Threads : u # t => held'[u] = held[u]
  BY <1>2, <1>4 DEF LocksInv, LockTypes
<1>6. Tail(s) \in Seq(Step) /\ \A i \in 1..Len(Tail(s)) : i + 1 \in 1..Len(s) /\ Tail(s)[i] = s[i + 1]
  BY <1>1, TailFacts
<1>7. /\ todo' \in [Threads -> Seq(Step)] /\ todo'[t] = Tail(s)
      /\ \A u \in Threads : u # t => todo'[u] = todo[u]
  BY <1>3, <1>6 DEF LocksInv, LockTypes
<1> HIDE DEF s
<1>8. \A p \in Parts : p \in Mutex
  BY DEF Mutex
<1>9. shown' \in [Parts -> {0, 1}] /\ stored' \in [Parts -> {0, 1}]
  BY <1>2 DEF LocksInv, LockTypes, Written
<1>10. \A p \in Parts : p # m => shown'[p] = shown[p] /\ stored'[p] = stored[p] /\ (p \in loose' <=> p \in loose)
  BY <1>2 DEF LocksInv, LockTypes
<1>11. m \in Parts /\ held[t][m] = "X" => m \notin loose' /\ shown'[m] = stored'[m]
  BY <1>2, <1>4 DEF LocksInv, LockTypes, Written
<1>12. ~(m \in Parts /\ held[t][m] = "X") => UNCHANGED <<shown, stored, loose>>
  BY <1>2 DEF Written
<1>13. \A p \in Parts : Dirty(p)' => Dirty(p) /\ ~(p = m /\ held[t][m] = "X")
  BY <1>10, <1>11, <1>12 DEF Dirty
<1>14. \A u \in Threads, n \in Mutex : held'[u][n] # "-" => held'[u][n] = held[u][n]
  BY <1>5
<1>15. LockTypes'
  BY <1>3, <1>5, <1>7, <1>9 DEF LocksInv, LockTypes
<1>16. Exclusive'
  BY <1>5, <1>14 DEF LocksInv, Exclusive
<1>17. DirtyIsOwned'
  <2> SUFFICES ASSUME NEW p \in Parts, Dirty(p)' PROVE \E u \in Threads : held'[u][p] = "X"
    BY DEF DirtyIsOwned
  <2>1. PICK u \in Threads : held[u][p] = "X"
    BY <1>13 DEF LocksInv, DirtyIsOwned
  <2>2. ~(u = t /\ p = m)
    BY <1>13, <2>1
  <2> QED BY <1>5, <1>8, <2>1, <2>2
<1>18. DirtyStaysLocked'
  <2> SUFFICES ASSUME NEW u \in Threads, NEW p \in Parts, held'[u][p] = "X", Dirty(p)',
                      NEW i \in 1..Len(todo'[u]), todo'[u][i].op = "lock"
               PROVE  p \notin todo'[u][i].on
    BY DEF DirtyStaysLocked
  <2>1. held[u][p] = "X" /\ Dirty(p)
    BY <1>8, <1>13, <1>14
  <2>2. \A j \in 1..Len(todo[u]) : todo[u][j].op = "lock" => p \notin todo[u][j].on
    BY <2>1 DEF LocksInv, DirtyStaysLocked
  <2>3. CASE u # t
    BY <1>7, <2>2, <2>3
  <2>4. CASE u = t
    <3>1. i + 1 \in 1..Len(s) /\ Tail(s)[i] = s[i + 1]
      BY <1>6, <1>7, <2>4
    <3> QED BY <1>7, <2>2, <2>4, <3>1 DEF s
  <2> QED BY <2>3, <2>4
<1>19. RestDisciplined'
  <2>1. PICK h, g : h = held[t] /\ g = held'[t]
    OBVIOUS
  <2>2. Rest(s, h)
    BY <2>1 DEF LocksInv, RestDisciplined, s
  <2>3. ASSUME NEW p \in Parts, g[p] # "-" PROVE h[p] # "-" /\ ~Frees(s[1], p)
    <3>1. h[p] # "-" /\ p # m
      BY <1>5, <1>8, <1>14, <2>1, <2>3
    <3>2. ~Frees(s[1], p)
      BY <1>2, <3>1 DEF Frees
    <3> QED BY <3>1, <3>2
  <2>4. ~OnParts(s[1]) => m \notin Parts
    BY <1>1, <1>2 DEF OnParts
  <2>5. ~OnParts(s[1]) => \A p \in Parts : g[p] = h[p]
    BY <1>5, <1>8, <2>1, <2>4
  <2>6. ~TakesParts(s[1])
    BY <1>1 DEF TakesParts
  <2>7. Rest(Tail(s), g)
    BY <1>1, <2>2, <2>3, <2>5, <2>6, RestAfter
  <2> QED BY <1>5, <1>7, <2>1, <2>7 DEF LocksInv, RestDisciplined
<1>20. ASSUME ~torn PROVE BatchIsWhole' /\ StoredAgree'
  <2>1. ASSUME m \in Parts, held[t][m] = "X" PROVE shown[m] = stored[m]
    <3> SUFFICES ASSUME shown[m] # stored[m] PROVE FALSE
      OBVIOUS
    <3>1. Unfinished(s)
      BY <1>20, <2>1 DEF LocksInv, BatchIsWhole, s
    <3>2. OnParts(s[1])
      BY <1>1, <1>2, <2>1 DEF OnParts
    <3>3. \E j \in 1..(1 - 1) : s[j].op = "rollback"
      BY <1>1, <3>1, <3>2 DEF Unfinished
    <3> QED BY <3>3
  <2>2. \A p \in Parts : shown'[p] = shown[p] /\ stored'[p] = stored[p]
    <3> SUFFICES ASSUME NEW p \in Parts PROVE shown'[p] = shown[p] /\ stored'[p] = stored[p]
      OBVIOUS
    <3>1. CASE p # m
      BY <1>10, <3>1
    <3>2. CASE p = m
      BY <1>2, <2>1, <3>2 DEF LocksInv, LockTypes, Written
    <3> QED BY <3>1, <3>2
  <2>3. StoredAgree'
    BY <1>20, <2>2 DEF LocksInv, StoredAgree
  <2>4. ASSUME NEW u \in Threads, NEW p \in Parts, held'[u][p] = "X", shown'[p] # stored'[p]
        PROVE  /\ \A q \in Parts : held'[u][q] = "X" /\ shown'[q] # stored'[q]
               /\ Unfinished(todo'[u])
    <3>1. held[u][p] = "X" /\ shown[p] # stored[p]
      BY <1>8, <1>14, <2>2, <2>4
    <3>2. (\A q \in Parts : held[u][q] = "X" /\ shown[q] # stored[q]) /\ Unfinished(todo[u])
      BY <1>20, <3>1 DEF LocksInv, BatchIsWhole
    <3>3. u = t => m \notin Parts
      BY <2>1, <3>2
    <3>4. \A q \in Parts : held'[u][q] = "X" /\ shown'[q] # stored'[q]
      BY <1>5, <1>8, <2>2, <3>2, <3>3
    <3>5. Unfinished(todo'[u])
      <4>1. CASE u = t
        BY <1>1, <1>7, <3>2, <4>1, TailUnfinished DEF s
      <4>2. CASE u # t
        BY <1>7, <3>2, <4>2
      <4> QED BY <4>1, <4>2
    <3> QED BY <3>4, <3>5
  <2> QED BY <2>3, <2>4 DEF BatchIsWhole
<1> QED BY <1>3, <1>15, <1>16, <1>17, <1>18, <1>19, <1>20 DEF LocksInv

\* A step that locks and releases nothing, and after which e is left of the call.
LEMMA KeepStep ==
    ASSUME LocksInv, NEW t \in Threads, NEW e \in Seq(Step), todo' = [todo EXCEPT ![t] = e],
           UNCHANGED held, shown' \in [Parts -> {0, 1}], stored' \in [Parts -> {0, 1}], torn' \in BOOLEAN,
           Rest(e, held[t]),
           \A p \in Parts : Dirty(p)' => Dirty(p) \/ held[t][p] = "X",
           \A p \in Parts : held[t][p] = "X" /\ Dirty(p)' =>
             \A i \in 1..Len(e) : e[i].op = "lock" => p \notin e[i].on
    PROVE  /\ LockTypes' /\ Exclusive' /\ DirtyIsOwned' /\ DirtyStaysLocked' /\ RestDisciplined'
           /\ todo'[t] = e /\ \A u \in Threads : u # t => todo'[u] = todo[u]
<1>1. todo' \in [Threads -> Seq(Step)] /\ todo'[t] = e /\ \A u \in Threads : u # t => todo'[u] = todo[u]
  BY DEF LocksInv, LockTypes
<1>2. LockTypes' /\ Exclusive'
  <2>1. held' \in [Threads -> [Mutex -> {"S", "X", "-"}]]
    BY DEF LocksInv, LockTypes
  <2>2. LockTypes'
    BY <1>1, <2>1 DEF LockTypes
  <2>3. Exclusive'
    BY DEF LocksInv, Exclusive
  <2> QED BY <2>2, <2>3
<1>3. DirtyIsOwned'
  BY DEF LocksInv, DirtyIsOwned
<1>4. DirtyStaysLocked'
  <2> SUFFICES ASSUME NEW u \in Threads, NEW p \in Parts, held[u][p] = "X", Dirty(p)',
                      NEW i \in 1..Len(todo'[u]), todo'[u][i].op = "lock"
               PROVE  p \notin todo'[u][i].on
    BY DEF DirtyStaysLocked
  <2>1. CASE u = t
    BY <1>1, <2>1
  <2>2. CASE u # t
    <3>1. held[t][p] # "X"
      BY <2>2 DEF Mutex, LocksInv, Exclusive
    <3>2. Dirty(p)
      BY <3>1
    <3> QED BY <1>1, <2>2, <3>2 DEF LocksInv, DirtyStaysLocked
  <2> QED BY <2>1, <2>2
<1>5. RestDisciplined'
  BY <1>1 DEF LocksInv, RestDisciplined
<1> QED BY <1>1, <1>2, <1>3, <1>4, <1>5

\* A batch, or the PIBD pipe, changes what it holds alone.
LEMMA ChangeStep ==
    ASSUME LocksInv, NEW t \in Threads, Change(t)
    PROVE  LocksInv'
<1> DEFINE s == todo[t]
<1>1. s \in Seq(Step) /\ s # <<>> /\ Head(s) = s[1] /\ s[1] \in Step /\ s[1].op = "change" /\ 1 \in 1..Len(s)
  BY NextStep DEF LocksInv, Change
<1>2. PICK changed : changed = s[1].on \cap Written(t)
  OBVIOUS
<1>3. /\ loose' = loose \cup changed
      /\ shown' = [p \in Parts |-> IF s[1].by = "batch" /\ p \in changed THEN 1 - shown[p] ELSE shown[p]]
      /\ todo' = [todo EXCEPT ![t] = Tail(s)]
      /\ UNCHANGED <<held, stored, torn>> /\ ~torn
  BY <1>1, <1>2 DEF Change, Continue
<1>4. \A p \in Parts : p \in changed <=> p \in s[1].on /\ held[t][p] = "X"
  BY <1>2 DEF Written
<1>5. Rest(s, held[t])
  BY DEF LocksInv, RestDisciplined
<1> HIDE DEF s
<1>6. /\ Tail(s) \in Seq(Step) /\ Len(Tail(s)) = Len(s) - 1 /\ Len(s) \in Nat
      /\ \A i \in 1..Len(Tail(s)) : Tail(s)[i] = s[i + 1]
  BY <1>1, TailFacts
<1>7. Rest(Tail(s), held[t])
  <2>1. PICK h : h = held[t]
    OBVIOUS
  <2> QED BY <1>1, <1>5, <2>1, RestAfterOther
<1>8. shown \in [Parts -> {0, 1}] /\ stored \in [Parts -> {0, 1}]
  BY DEF LocksInv, LockTypes
<1>9. \A p \in Parts : p \notin changed => shown'[p] = shown[p] /\ (p \in loose' <=> p \in loose)
  BY <1>3
<1>10. \A p \in Parts : Dirty(p)' => Dirty(p) \/ p \in changed
  BY <1>3, <1>9 DEF Dirty
<1>11. ASSUME NEW p \in Parts, held[t][p] = "X", Dirty(p)',
              NEW i \in 1..Len(Tail(s)), Tail(s)[i].op = "lock"
       PROVE  p \notin Tail(s)[i].on
  <2>1. i + 1 \in 1..Len(s) /\ 1 < i + 1 /\ Tail(s)[i] = s[i + 1]
    BY <1>6
  <2>2. CASE p \in changed
    <3>1. s[1].on \cap s[i + 1].on = {}
      BY <1>1, <1>5, <1>11, <2>1 DEF Rest, ChangesLast
    <3> QED BY <1>4, <2>1, <2>2, <3>1
  <2>3. CASE p \notin changed
    BY <1>10, <1>11, <2>1, <2>3 DEF LocksInv, DirtyStaysLocked, s
  <2> QED BY <2>2, <2>3
<1>12. shown' \in [Parts -> {0, 1}] /\ stored' \in [Parts -> {0, 1}] /\ torn' \in BOOLEAN
  BY <1>3, <1>8 DEF LocksInv, LockTypes
<1>13. /\ LockTypes' /\ Exclusive' /\ DirtyIsOwned' /\ DirtyStaysLocked' /\ RestDisciplined'
       /\ todo'[t] = Tail(s) /\ \A u \in Threads : u # t => todo'[u] = todo[u]
  <2>1. PICK e : e = Tail(s)
    OBVIOUS
  <2>2. e \in Seq(Step) /\ todo' = [todo EXCEPT ![t] = e] /\ UNCHANGED held /\ Rest(e, held[t])
    BY <1>3, <1>6, <1>7, <2>1
  <2>3. \A p \in Parts : Dirty(p)' => Dirty(p) \/ held[t][p] = "X"
    BY <1>4, <1>10
  <2>4. \A p \in Parts : held[t][p] = "X" /\ Dirty(p)' =>
          \A i \in 1..Len(e) : e[i].op = "lock" => p \notin e[i].on
    BY <1>11, <2>1
  <2>5. /\ LockTypes' /\ Exclusive' /\ DirtyIsOwned' /\ DirtyStaysLocked' /\ RestDisciplined'
        /\ todo'[t] = e /\ \A u \in Threads : u # t => todo'[u] = todo[u]
    BY <1>12, <2>2, <2>3, <2>4, KeepStep
  <2> QED BY <2>1, <2>5
<1>14. StoredAgree'
  BY <1>3 DEF LocksInv, StoredAgree
<1>15. BatchIsWhole'
  <2>1. CASE s[1].by = "batch"
    <3>1. s[1].on = Parts /\ \A p \in Parts : held[t][p] = "X"
      BY <1>1, <1>5, <2>1 DEF Rest, RestOwns
    <3>2. \A p \in Parts : shown'[p] = 1 - shown[p]
      BY <1>3, <1>4, <2>1, <3>1
    <3>3. \A p, q \in Parts : shown[p] # stored[p] => shown[q] # stored[q]
      BY <1>3, <3>1 DEF LocksInv, BatchIsWhole
    <3>4. \A p, q \in Parts : shown'[p] # stored'[p] => shown'[q] # stored'[q]
      BY <1>3, <1>8, <3>2, <3>3
    <3>5. Unfinished(Tail(s))
      <4> SUFFICES ASSUME NEW k \in 1..Len(Tail(s)), Tail(s)[k].op = "end", OnParts(Tail(s)[k])
                   PROVE  \E j \in 1..(k - 1) : Tail(s)[j].op = "rollback"
        BY DEF Unfinished
      <4>1. k + 1 \in 1..Len(s) /\ 1 < k + 1 /\ Tail(s)[k] = s[k + 1]
        BY <1>6
      <4>2. PICK j \in (1 + 1)..(k + 1 - 1) : s[j].op = "rollback"
        BY <1>1, <1>5, <2>1, <4>1 DEF Rest, RollsBack
      <4>3. j - 1 \in 1..(k - 1) /\ j - 1 \in 1..Len(Tail(s)) /\ (j - 1) + 1 = j
        BY <4>2
      <4>4. Tail(s)[j - 1] = s[j]
        BY <1>6, <4>3
      <4> QED BY <4>2, <4>3, <4>4
    <3>6. \A u \in Threads, p \in Parts : held[u][p] = "X" => u = t
      BY <3>1 DEF LocksInv, Exclusive, Mutex
    <3>7. held' = held
      BY <1>3
    <3>8. Unfinished(todo'[t])
      <4>1. todo'[t] = Tail(s)
        BY <1>13
      <4> QED BY <3>5, <4>1
    <3>9. \A u \in Threads, p \in Parts : held'[u][p] = "X" =>
            Unfinished(todo'[u]) /\ \A q \in Parts : held'[u][q] = "X"
      BY <3>1, <3>6, <3>7, <3>8
    <3> QED BY <3>4, <3>9 DEF BatchIsWhole
  <2>2. CASE s[1].by # "batch"
    <3>1. \A p \in Parts : shown'[p] = shown[p]
      BY <1>3, <2>2
    <3>2. Unfinished(s) => Unfinished(Tail(s))
      BY <1>1, TailUnfinished
    <3> QED BY <1>3, <1>13, <3>1, <3>2 DEF LocksInv, BatchIsWhole, s
  <2> QED BY <2>1, <2>2
<1> QED BY <1>13, <1>14, <1>15 DEF LocksInv

\* ChainState::Commit commits all the parts, or it fails and the call is left.
LEMMA CommitStep ==
    ASSUME LocksInv, NEW t \in Threads, CommitState(t)
    PROVE  LocksInv'
<1> DEFINE s == todo[t]
<1>1. s \in Seq(Step) /\ s # <<>> /\ s[1].op = "commit"
  BY NextStep DEF LocksInv, CommitState
<1>2. PICK n \in {0, 1, 2, 4} : CommitFirst(t, n)
  BY DEF CommitState
<1>3. PICK done : done = {Part[i] : i \in 1..n}
  OBVIOUS
<1>4. \A p \in Parts : (\E i \in 1..n : Part[i] = p) <=> p \in done
  BY <1>3
<1>5. stored' = [p \in Parts |-> IF p \in done THEN shown[p] ELSE stored[p]]
  BY <1>2, <1>4 DEF CommitFirst
<1>6. loose' = loose \ done /\ UNCHANGED <<held, shown>>
  BY <1>2, <1>3 DEF CommitFirst
<1>7. torn' \in BOOLEAN /\ (~torn' => ~torn /\ n \in {0, 4})
  <2>1. torn' = (torn \/ n \in 1..2) /\ torn \in BOOLEAN
    BY <1>2 DEF CommitFirst, LocksInv, LockTypes
  <2>2. n \in {0, 4} \/ n \in 1..2
    BY <1>2
  <2> QED BY <2>1, <2>2, Zenon
<1>8. PICK e : e = IF n = 4 THEN Tail(s) ELSE EndState
  OBVIOUS
<1>9. todo' = [todo EXCEPT ![t] = e]
  BY <1>2, <1>8 DEF CommitFirst, Continue
<1>10. Rest(s, held[t]) /\ (~torn => BatchIsWhole /\ StoredAgree) /\ DirtyIsOwned /\ DirtyStaysLocked
  BY DEF LocksInv, RestDisciplined
<1>11. \A p \in Parts : held[t][p] = "X" /\ Dirty(p) => \A i \in 1..Len(s) : s[i].op = "lock" => p \notin s[i].on
  BY <1>10 DEF DirtyStaysLocked
<1> HIDE DEF s
<1>12. e \in Seq(Step)
  BY <1>1, <1>8, TailFacts, EndStateFacts
<1>13. Rest(e, held[t])
  <2>1. PICK h : h = held[t]
    OBVIOUS
  <2>2. Rest(Tail(s), h)
    BY <1>1, <1>10, <2>1, RestAfterOther
  <2>3. Rest(EndState, held[t])
    BY EndStateRest
  <2> QED BY <1>8, <2>1, <2>2, <2>3
<1>14. shown \in [Parts -> {0, 1}] /\ stored \in [Parts -> {0, 1}]
  BY DEF LocksInv, LockTypes
<1>15. shown' \in [Parts -> {0, 1}] /\ stored' \in [Parts -> {0, 1}]
  BY <1>5, <1>6, <1>14
<1>16. \A p \in Parts : Dirty(p)' => Dirty(p) /\ p \notin done
  BY <1>5, <1>6 DEF Dirty
<1>17. \A p \in Parts : held[t][p] = "X" /\ Dirty(p)' =>
         \A i \in 1..Len(e) : e[i].op = "lock" => p \notin e[i].on
  <2>1. CASE n # 4
    <3>1. e = EndState
      BY <1>8, <2>1
    <3>2. \A i \in 1..Len(EndState) : EndState[i].op # "lock"
      BY EndStateFacts
    <3> QED BY <3>1, <3>2
  <2>2. CASE n = 4
    <3>1. \A i \in 1..Len(e) : i + 1 \in 1..Len(s) /\ e[i] = s[i + 1]
      BY <1>1, <1>8, <2>2, TailFacts
    <3> QED BY <1>11, <1>16, <3>1
  <2> QED BY <2>1, <2>2
<1>18. /\ LockTypes' /\ Exclusive' /\ DirtyIsOwned' /\ DirtyStaysLocked' /\ RestDisciplined'
       /\ todo'[t] = e /\ \A u \in Threads : u # t => todo'[u] = todo[u]
  BY <1>6, <1>7, <1>9, <1>12, <1>13, <1>15, <1>16, <1>17, KeepStep
<1>19. ASSUME ~torn' PROVE BatchIsWhole' /\ StoredAgree'
  <2>1. CASE n = 4
    <3>1. \A p \in Parts : p \in done
      <4> SUFFICES ASSUME NEW p \in Parts PROVE \E i \in 1..4 : Part[i] = p
        BY <1>4, <2>1
      <4>1. Part[1] = "store" /\ Part[2] = "db" /\ Part[3] = "mmr" /\ Part[4] = "set"
        BY DEF Part
      <4>2. 1 \in 1..4 /\ 2 \in 1..4 /\ 3 \in 1..4 /\ 4 \in 1..4
        OBVIOUS
      <4> QED BY <4>1, <4>2 DEF Parts
    <3>2. \A p \in Parts : stored'[p] = shown[p] /\ shown'[p] = shown[p]
      BY <1>5, <1>6, <3>1
    <3>3. \A p, q \in Parts : shown[p] # stored[p] => shown[q] # stored[q]
      BY <1>7, <1>10, <1>19 DEF DirtyIsOwned, Dirty, BatchIsWhole
    <3>4. \A p, q \in Parts : shown[p] = shown[q]
      BY <1>7, <1>10, <1>14, <1>19, <3>3 DEF StoredAgree
    <3> QED BY <3>2, <3>4 DEF BatchIsWhole, StoredAgree
  <2>2. CASE n = 0
    <3>1. \A p \in Parts : p \notin done
      BY <1>4, <2>2
    <3>2. \A p \in Parts : stored'[p] = stored[p] /\ shown'[p] = shown[p]
      BY <1>5, <1>6, <3>1
    <3>3. Unfinished(e)
      BY <1>8, <2>2, EndStateRest
    <3>4. BatchIsWhole /\ StoredAgree
      BY <1>7, <1>10, <1>19
    <3>5. StoredAgree'
      BY <3>2, <3>4 DEF StoredAgree
    <3>6. \A u \in Threads : Unfinished(todo[u]) => Unfinished(todo'[u])
      BY <1>18, <3>3
    <3>7. held' = held
      BY <1>6
    <3>8. BatchIsWhole'
      BY <3>2, <3>4, <3>6, <3>7 DEF BatchIsWhole
    <3> QED BY <3>5, <3>8
  <2> QED BY <1>7, <1>19, <2>1, <2>2
<1> QED BY <1>18, <1>19 DEF LocksInv

\* ChainState::Rollback.
LEMMA RollbackStep ==
    ASSUME LocksInv, NEW t \in Threads, RollbackState(t)
    PROVE  LocksInv'
<1> DEFINE s == todo[t]
<1>1. s \in Seq(Step) /\ s # <<>> /\ s[1].op = "rollback"
  BY NextStep DEF LocksInv, RollbackState
<1>2. PICK e : e = Tail(s)
  OBVIOUS
<1>3. todo' = [todo EXCEPT ![t] = e] /\ UNCHANGED <<held, stored, torn>>
  BY <1>2 DEF RollbackState, Continue
<1>4. shown' = [p \in Parts |-> IF held[t][p] = "X" THEN stored[p] ELSE shown[p]]
  BY DEF RollbackState, Written
<1>5. \A p \in Parts : p \in loose' <=> p \in loose /\ held[t][p] # "X"
  BY DEF RollbackState, Written
<1>6. Rest(s, held[t]) /\ (~torn => BatchIsWhole /\ StoredAgree)
  BY DEF LocksInv, RestDisciplined
<1> HIDE DEF s
<1>7. e \in Seq(Step)
  BY <1>1, <1>2, TailFacts
<1>8. Rest(e, held[t])
  <2>1. PICK h : h = held[t]
    OBVIOUS
  <2> QED BY <1>1, <1>2, <1>6, <2>1, RestAfterOther
<1>9. shown' \in [Parts -> {0, 1}] /\ stored' \in [Parts -> {0, 1}] /\ torn' \in BOOLEAN
  BY <1>3, <1>4 DEF LocksInv, LockTypes
<1>10. \A p \in Parts : Dirty(p)' => Dirty(p) /\ held[t][p] # "X"
  BY <1>3, <1>4, <1>5 DEF Dirty
<1>11. /\ LockTypes' /\ Exclusive' /\ DirtyIsOwned' /\ DirtyStaysLocked' /\ RestDisciplined'
       /\ todo'[t] = e /\ \A u \in Threads : u # t => todo'[u] = todo[u]
  <2>1. \A p \in Parts : Dirty(p)' => Dirty(p) \/ held[t][p] = "X"
    BY <1>10
  <2>2. \A p \in Parts : held[t][p] = "X" /\ Dirty(p)' =>
          \A i \in 1..Len(e) : e[i].op = "lock" => p \notin e[i].on
    BY <1>10
  <2>3. UNCHANGED held
    BY <1>3
  <2> HIDE DEF Dirty
  <2> QED BY <1>3, <1>7, <1>8, <1>9, <2>1, <2>2, <2>3, KeepStep
<1>12. ASSUME ~torn' PROVE BatchIsWhole' /\ StoredAgree'
  <2>1. StoredAgree'
    BY <1>3, <1>6, <1>12 DEF StoredAgree
  <2>2. ASSUME NEW u \in Threads, NEW p \in Parts, held[u][p] = "X", shown'[p] # stored[p]
        PROVE  (\A q \in Parts : held[u][q] = "X" /\ shown'[q] # stored[q]) /\ Unfinished(todo'[u])
    <3>1. u # t /\ shown[p] # stored[p]
      BY <1>4, <2>2
    <3>2. (\A q \in Parts : held[u][q] = "X" /\ shown[q] # stored[q]) /\ Unfinished(todo[u])
      BY <1>3, <1>6, <1>12, <2>2, <3>1 DEF BatchIsWhole
    <3>3. \A q \in Parts : held[t][q] # "X"
      BY <3>1, <3>2 DEF LocksInv, Exclusive, Mutex
    <3> QED BY <1>4, <1>11, <3>1, <3>2, <3>3
  <2> QED BY <1>3, <2>1, <2>2 DEF BatchIsWhole
<1> QED BY <1>11, <1>12 DEF LocksInv
-----------------------------------------------------------------------------
\* The invariant holds before any thread has begun a call.
LEMMA LocksStart ==
    ASSUME LocksInit
    PROVE  LocksInv
<1>1. \A t \in Threads : todo[t] = <<>> /\ Len(todo[t]) = 0 /\ \A p \in Parts : held[t][p] = "-"
  BY DEF LocksInit, Mutex
<1>2. LockTypes
  <2>1. held \in [Threads -> [Mutex -> {"S", "X", "-"}]]
    BY DEF LocksInit
  <2>2. todo \in [Threads -> Seq(Step)]
    BY DEF LocksInit
  <2>3. shown \in [Parts -> {0, 1}] /\ stored \in [Parts -> {0, 1}] /\ torn \in BOOLEAN
    BY DEF LocksInit
  <2> QED BY <2>1, <2>2, <2>3 DEF LockTypes
<1>3. \A p \in Parts : ~Dirty(p) /\ stored[p] = 0
  BY DEF LocksInit, Dirty
<1>4. Exclusive /\ DirtyIsOwned /\ DirtyStaysLocked /\ BatchIsWhole /\ StoredAgree
  BY <1>1, <1>3 DEF LocksInit, Exclusive, DirtyIsOwned, DirtyStaysLocked, BatchIsWhole, StoredAgree, Dirty
<1>5. RestDisciplined
  <2> SUFFICES ASSUME NEW t \in Threads PROVE Rest(todo[t], held[t])
    BY DEF RestDisciplined
  <2>1. Len(todo[t]) = 0
    BY <1>1
  <2>2. ChangesLast(todo[t]) /\ RollsBack(todo[t])
    BY <2>1 DEF ChangesLast, RollsBack
  <2>3. RestReleases(todo[t], held[t])
    BY <1>1, <2>1 DEF RestReleases, Releases
  <2>4. RestOwns(todo[t], held[t])
    BY <2>1 DEF RestOwns
  <2> QED BY <2>2, <2>3, <2>4 DEF Rest
<1> QED BY <1>2, <1>4, <1>5 DEF LocksInv

\* Every step of every thread keeps the invariant.
LEMMA LocksStep ==
    ASSUME LocksInv, [LocksNext]_lockVars
    PROVE  LocksInv'
<1>1. CASE UNCHANGED lockVars
  <2>1. UNCHANGED <<held, todo, shown, stored, loose, torn>>
    BY <1>1 DEF lockVars
  <2>2. LockTypes' /\ Exclusive' /\ RestDisciplined'
    BY <2>1 DEF LocksInv, LockTypes, Exclusive, RestDisciplined
  <2>3. DirtyIsOwned' /\ DirtyStaysLocked'
    BY <2>1 DEF LocksInv, DirtyIsOwned, DirtyStaysLocked, Dirty
  <2>4. ~torn' => BatchIsWhole' /\ StoredAgree'
    BY <2>1 DEF LocksInv, BatchIsWhole, StoredAgree
  <2> QED BY <2>2, <2>3, <2>4 DEF LocksInv
<1>2. ASSUME NEW t \in Threads,
             \/ Begin(t) \/ Acquire(t) \/ EndHeld(t) \/ Change(t)
             \/ CommitState(t) \/ RollbackState(t) \/ LeaveBatch(t)
      PROVE  LocksInv'
  <2>1. CASE Begin(t)
    BY <2>1, BeginStep
  <2>2. CASE Acquire(t)
    BY <2>2, AcquireStep
  <2>3. CASE EndHeld(t)
    BY <2>3, EndStep
  <2>4. CASE Change(t)
    BY <2>4, ChangeStep
  <2>5. CASE CommitState(t)
    BY <2>5, CommitStep
  <2>6. CASE RollbackState(t)
    BY <2>6, RollbackStep
  <2>7. CASE LeaveBatch(t)
    BY <2>7, LeaveStep DEF LeaveBatch
  <2> QED BY <1>2, <2>1, <2>2, <2>3, <2>4, <2>5, <2>6, <2>7
<1> QED BY <1>1, <1>2 DEF LocksNext

\* Whatever the threads do, a Reader never shows changes that are not committed, and
\* who reads the block database and the TxHashSet together sees them after the same
\* batch, as long as no commit failed half way (Lockable.h, ChainState.cpp): for any
\* number of threads and any calls that keep to the four rules of IsDisciplined.
THEOREM ReadersAreIsolated == LocksSpec => []ReadersSeeWholeBatches
<1>1. LocksInit => LocksInv
  BY LocksStart
<1>2. LocksInv /\ [LocksNext]_lockVars => LocksInv'
  BY LocksStep
<1>3. LocksInv => ReadersSeeWholeBatches
  <2> SUFFICES ASSUME LocksInv PROVE ReadersSeeWholeBatches
    OBVIOUS
  <2>1. ASSUME NEW t \in Threads, NEW p \in Parts, held[t][p] = "S" PROVE ~Dirty(p)
    <3>1. \A u \in Threads : held[u][p] # "X"
      BY <2>1 DEF LocksInv, Exclusive, Mutex
    <3> QED BY <3>1 DEF LocksInv, DirtyIsOwned
  <2>2. ReadersSeeCommitted
    BY <2>1 DEF ReadersSeeCommitted, Dirty
  <2>3. SameBatch
    BY <2>2 DEF LocksInv, StoredAgree, ReadersSeeCommitted, SameBatch, Parts
  <2> QED BY <2>2, <2>3 DEF ReadersSeeWholeBatches
<1> QED BY <1>1, <1>2, <1>3, PTL DEF LocksSpec
=============================================================================
