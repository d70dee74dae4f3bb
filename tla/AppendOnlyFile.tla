--------------------------- MODULE AppendOnlyFile ---------------------------
(***************************************************************************)
(* AppendOnlyFile: the file under every chain index, MMR hash file and     *)
(* data file.  The bytes on disk are covered by a buffer of appended bytes *)
(* that starts at bufferIndex; bufferIndex is below the end of the file    *)
(* after a rewind.  Flush is the only operation that writes the disk.      *)
(***************************************************************************)
EXTENDS Naturals, Sequences, FiniteSetsExt

CONSTANTS Byte,        \* the values of a byte that are told apart
          Zero,        \* what truncate() grows a file with
          MaxSize,     \* bound: largest size of the file
          MaxAppend    \* bound: most bytes given to one Append

ASSUME FileAssumption ==
    /\ Zero \in Byte
    /\ MaxSize \in Nat
    /\ MaxAppend \in Nat

VARIABLES disk,        \* the bytes of the file m_path
          fileSize,    \* m_fileSize
          bufferIndex, \* m_bufferIndex
          buffer,      \* m_buffer
          lost         \* history: a write went wrong unnoticed since the last
                       \* start, or a batch was discarded after a failed one

fileVars == <<disk, fileSize, bufferIndex, buffer, lost>>

\* FileUtil::TruncateFile: cuts the file, or grows it with zeros.
TruncateFile(s, n) == [i \in 1..n |-> IF i <= Len(s) THEN s[i] ELSE Zero]

GetSize == bufferIndex + Len(buffer)

\* The bytes a reader of the file is meant to see.
View == TruncateFile(disk, bufferIndex) \o buffer

\* m_fileSize is the length of the file: false only after a Write went wrong.
Intact == fileSize = Len(disk)

NothingToFlush == fileSize = bufferIndex /\ buffer = << >>

\* Load: the sizes are taken from the file, the buffer starts out empty.
Load(d) ==
    /\ disk' = d
    /\ fileSize' = Len(d)
    /\ bufferIndex' = Len(d)
    /\ buffer' = << >>
    /\ lost' = FALSE

Init ==
    /\ disk = << >>
    /\ fileSize = 0
    /\ bufferIndex = 0
    /\ buffer = << >>
    /\ lost = FALSE

Append_(data) ==
    /\ GetSize + Len(data) <= MaxSize
    /\ buffer' = buffer \o data
    /\ UNCHANGED <<disk, fileSize, bufferIndex, lost>>

\* A rewind past the end returns false and changes nothing.
Rewind(nextPosition) ==
    /\ nextPosition <= GetSize
    /\ IF nextPosition <= bufferIndex
         THEN /\ buffer' = << >>
              /\ bufferIndex' = nextPosition
         ELSE /\ buffer' = SubSeq(buffer, 1, nextPosition - bufferIndex)
              /\ UNCHANGED bufferIndex
    /\ UNCHANGED <<disk, fileSize, lost>>

\* Mutant: the write does not cut off what a rewind dropped.
FlushWithoutTruncate ==
    /\ ~NothingToFlush
    /\ disk' = disk \o buffer
    /\ fileSize' = Len(disk')
    /\ bufferIndex' = fileSize'
    /\ buffer' = << >>
    /\ UNCHANGED lost

\* Flush and MappedFile::Write: truncate at bufferIndex, then append.
Flush ==
    /\ ~NothingToFlush
    /\ bufferIndex <= fileSize
    /\ disk' = View
    /\ fileSize' = GetSize
    /\ bufferIndex' = fileSize'
    /\ buffer' = << >>
    /\ UNCHANGED lost

\* What is on disk when MappedFile::Write has called TruncateFile, whose result
\* it does not look at.
Truncated == {TruncateFile(disk, bufferIndex), disk}

\* MappedFile::Write cannot open the file for the append: Flush returns false
\* with its own fields untouched, and the file may already have been cut.
FlushFails ==
    /\ ~NothingToFlush
    /\ bufferIndex <= fileSize
    /\ buffer /= << >>
    /\ disk' \in Truncated
    /\ UNCHANGED <<fileSize, bufferIndex, buffer, lost>>

\* The file could not be cut, or only a part of the buffer reaches it: Write
\* appends at the end of whatever is there, does not look at the stream
\* afterwards, and Flush counts all of it as written.
FlushShort ==
    /\ ~NothingToFlush
    /\ bufferIndex <= fileSize
    /\ \E kept \in Truncated, k \in 0..Len(buffer) : disk' = kept \o SubSeq(buffer, 1, k)
    /\ disk' /= View /\ Len(disk') <= MaxSize
    /\ fileSize' = GetSize
    /\ bufferIndex' = fileSize'
    /\ buffer' = << >>
    /\ lost' = TRUE

\* After a Write that failed, m_fileSize is no longer the length of the file.
Discard ==
    /\ bufferIndex' = fileSize
    /\ buffer' = << >>
    /\ lost' = (lost \/ ~Intact)
    /\ UNCHANGED <<disk, fileSize>>

\* The process stops between two operations and is started again.
Restart == Load(disk)

\* The process stops inside the Write of a Flush: the file was truncated and
\* some of the buffer was appended.  (Where it could not be truncated the file is
\* the one of FlushShort and Restart.)
CrashInFlush ==
    /\ ~NothingToFlush
    /\ bufferIndex <= fileSize
    /\ \E k \in 0..Len(buffer) :
          Load(TruncateFile(disk, bufferIndex) \o SubSeq(buffer, 1, k))

Next ==
    \/ \E n \in 0..MaxAppend : \E data \in [1..n -> Byte] : Append_(data)
    \/ \E n \in 0..MaxSize : Rewind(n)
    \/ Flush
    \/ FlushFails
    \/ FlushShort
    \/ Discard
    \/ Restart
    \/ CrashInFlush

Spec == Init /\ [][Next]_fileVars

\* Mutant: what lies inside the file is read from it, rewound or not.
ReadStaleFile(position, numBytes) ==
    IF position + numBytes <= fileSize
      THEN SubSeq(disk, position + 1, position + numBytes)
      ELSE SubSeq(View, position + 1, position + numBytes)

\* Read: the bytes returned, or "none" when Read returns false.
Read(position, numBytes) ==
    LET mappedBytes == Min({numBytes, bufferIndex - position})
        remaining == numBytes - mappedBytes
        first == position - bufferIndex
        none == "none"
    IN  IF numBytes = 0 THEN << >>
        ELSE IF position > GetSize \/ numBytes > GetSize - position THEN none
        ELSE IF position < bufferIndex
          THEN IF remaining > Len(buffer) THEN none
               ELSE SubSeq(disk, position + 1, position + mappedBytes)
                      \o SubSeq(buffer, 1, remaining)
          ELSE SubSeq(buffer, first + 1, first + numBytes)

-----------------------------------------------------------------------------
(* Properties *)

\* The fields of AppendOnlyFile have their types, and the buffer never starts
\* beyond the size of the file, so that the size check in Flush never fails;
\* until something is lost, the file also reaches up to the buffer.
TypeOK ==
    /\ disk \in Seq(Byte)
    /\ fileSize \in Nat
    /\ bufferIndex \in Nat
    /\ buffer \in Seq(Byte)
    /\ lost \in BOOLEAN
    /\ bufferIndex <= fileSize
    /\ ~lost => bufferIndex <= Len(disk) /\ Len(disk) <= fileSize

\* Read returns the bytes of the view wherever the range lies: in the mapped
\* file, in the buffer, or across the boundary after a rewind; also after a
\* write that failed has already cut the file.
ReadSeesView ==
    ~lost => \A p \in 0..GetSize : \A n \in 0..(GetSize - p) :
                Read(p, n) = SubSeq(View, p + 1, p + n)

\* AppendOnlyFile as an AppendLog: Flush commits the view, Discard returns to the
\* file, a Flush that returns false can be repeated, and a crash leaves the
\* committed bytes or a beginning of the ones being committed.
Log == INSTANCE AppendLog WITH
           Value <- Byte,
           committed <- disk,
           working <- View,
           health <- IF lost THEN "lost" ELSE IF Intact THEN "ok" ELSE "failed"

\* Every behaviour of the file is one of the append log (AppendOnlyFile.h).
ImplementsLog == Log!LogSpec
=============================================================================
