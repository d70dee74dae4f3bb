---------------------------- MODULE SocketWrites ----------------------------
(***************************************************************************)
(* The messages that leave through a Socket (Net/Socket.cpp).  Many        *)
(* threads call SendAsync: a message waits in a queue, by priority, and    *)
(* async_write sends the message at the front.  Its handler HandleSent     *)
(* removes that message and starts the next write.  SendSync writes at     *)
(* once, past the queue.  A write hands over a message piece by piece.     *)
(***************************************************************************)
EXTENDS Naturals, Sequences, SequencesExt

CONSTANTS Queued,       \* the messages for SendAsync
          Direct,       \* the messages for SendSync
          Priority,     \* the priority of the messages, by type
          Pieces        \* the pieces in which a message leaves

ASSUME SocketAssumption ==
    /\ Priority \in [Queued -> Nat] /\ Queued \cap Direct = {}
    /\ Pieces \in Nat \ {0}

VARIABLES isOpen,       \* m_socketOpen
          broken,       \* the stream has failed; nothing more leaves
          offered,      \* the messages given to SendAsync, in order
          writeQueue,   \* m_writeQueue
          writing,      \* <<message, pieces left>> of the async_write, or <<>>
          direct,       \* the same of SendSync
          wire          \* the message of each piece that left

socketVars == <<isOpen, broken, offered, writeQueue, writing, direct, wire>>

\* A message overtakes those of lower priority, but not the front, which may
\* already be on its way.  The form that looks at the front too is not the code.
PlaceAnywhere(q, m) ==
    CHOOSE i \in 1..(Len(q) + 1) :
      /\ i <= Len(q) => Priority[q[i]] < Priority[m]
      /\ \A j \in 1..(i - 1) : Priority[q[j]] >= Priority[m]
Place(q, m) ==
    CHOOSE i \in 2..(Len(q) + 1) :
      /\ i <= Len(q) => Priority[q[i]] < Priority[m]
      /\ \A j \in 2..(i - 1) : Priority[q[j]] >= Priority[m]

Enqueue(q, m) == IF q # <<>> /\ Priority[m] > 0 THEN InsertAt(q, Place(q, m), m) ELSE Append(q, m)

\* StartAsyncWriteLocked, of the queue q.
StartAsyncWrite(q) == IF q # <<>> /\ isOpen THEN <<Head(q), Pieces>> ELSE <<>>

SendAsync(m) ==
    /\ ~ Contains(offered, m)
    /\ offered' = Append(offered, m)
    /\ writeQueue' = Enqueue(writeQueue, m)
    /\ writing' = IF writeQueue = <<>> THEN StartAsyncWrite(<<m>>) ELSE writing
    /\ UNCHANGED <<isOpen, broken, direct, wire>>

\* A piece of the message of async_write leaves.
WriteSome ==
    /\ writing # <<>> /\ writing[2] > 0 /\ isOpen /\ ~broken
    /\ wire' = Append(wire, writing[1])
    /\ writing' = <<writing[1], writing[2] - 1>>
    /\ UNCHANGED <<isOpen, broken, offered, writeQueue, direct>>

HandleSent ==
    /\ writing # <<>> /\ writing[2] = 0
    /\ writeQueue' = Tail(writeQueue)
    /\ writing' = StartAsyncWrite(writeQueue')
    /\ UNCHANGED <<isOpen, broken, offered, direct, wire>>

\* The write was given up: the socket is closed, or the stream failed.
HandleSentError ==
    /\ writing # <<>> /\ writing[2] > 0
    /\ broken' = (broken \/ isOpen)
    /\ writeQueue' = Tail(writeQueue)
    /\ writing' = <<>>
    /\ UNCHANGED <<isOpen, offered, direct, wire>>

SendSync(m) ==
    /\ direct = <<>> /\ ~ Contains(wire, m)
    /\ direct' = <<m, Pieces>>
    /\ UNCHANGED <<isOpen, broken, offered, writeQueue, writing, wire>>

\* asio::write goes on, returns or throws.
SendSyncSome ==
    /\ direct # <<>>
    /\ IF direct[2] > 0 /\ isOpen /\ ~broken
       THEN wire' = Append(wire, direct[1]) /\ direct' = <<direct[1], direct[2] - 1>>
       ELSE direct' = <<>> /\ UNCHANGED wire
    /\ UNCHANGED <<isOpen, broken, offered, writeQueue, writing>>

CloseSocket ==
    /\ isOpen /\ isOpen' = FALSE
    /\ UNCHANGED <<broken, offered, writeQueue, writing, direct, wire>>

\* A connection is used once its socket is open and the handshake is done.
SocketInit ==
    /\ isOpen = TRUE /\ broken = FALSE
    /\ offered = <<>> /\ writeQueue = <<>>
    /\ writing = <<>> /\ direct = <<>> /\ wire = <<>>

SocketNext ==
    \/ \E m \in Queued : SendAsync(m)
    \/ WriteSome \/ HandleSent \/ HandleSentError
    \/ \E m \in Direct : SendSync(m)
    \/ SendSyncSome \/ CloseSocket

SocketSpec == SocketInit /\ [][SocketNext]_socketVars
-----------------------------------------------------------------------------
Before(s, m, n) == \E i, j \in DOMAIN s : i < j /\ s[i] = m /\ s[j] = n

\* The message that is written is the front of the queue, those behind it wait by
\* priority and then in the order of SendAsync.
QueueIsOrdered ==
    /\ writing # <<>> => writeQueue # <<>> /\ writing[1] = Head(writeQueue)
    /\ \A i, j \in 2..Len(writeQueue) : i < j =>
         \/ Priority[writeQueue[i]] > Priority[writeQueue[j]]
         \/ Priority[writeQueue[i]] = Priority[writeQueue[j]] /\ Before(offered, writeQueue[i], writeQueue[j])

\* "There is already an async_write in process" when the queue is not empty, unless
\* the socket was closed or its stream failed.
QueueIsWritten == writeQueue # <<>> /\ isOpen /\ ~broken => writing # <<>>

\* Messages leave whole, once each, and in order among those of one priority.
\* SendSync alone may put its pieces between those of another message: that is
\* what Thread_Connect does when the connection is already in use.
MessagesAreWhole ==
    /\ \A i, j \in DOMAIN wire : i < j /\ wire[i] = wire[j] =>
         \A k \in i..j : wire[k] = wire[i] \/ wire[k] \in Direct \/ wire[i] \in Direct
    /\ \A m \in Queued : Cardinality({i \in DOMAIN wire : wire[i] = m}) <= Pieces
    /\ \A m, n \in Queued : Priority[m] = Priority[n] /\ Before(wire, m, n) => ~Before(offered, n, m)

\* SendAsync and HandleSent, whatever the order in which threads call them, keep the
\* stream of messages intact (Socket.cpp:198-351).
MessagesLeaveInOrder == QueueIsOrdered /\ QueueIsWritten /\ MessagesAreWhole
=============================================================================
