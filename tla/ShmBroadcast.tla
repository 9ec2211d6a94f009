----------------------------- MODULE ShmBroadcast -----------------------------
(***************************************************************************)
(* The shared-memory ring buffer of MessageQueue.  Each chunk has a        *)
(* written flag and one read flag per local reader, which are plain bytes: *)
(* every load and store of one of them is a step of its own.  Messages are *)
(* numbered in the order in which they are enqueued.  One that is too      *)
(* large for a chunk leaves only the overflow mark there and goes through  *)
(* a socket, after the chunk has been published; readers on other nodes    *)
(* get every message through a socket.                                     *)
(***************************************************************************)
EXTENDS Integers, Sequences

CONSTANTS
  NReader,      \* n_local_reader: the local readers are 1 .. NReader
  Remote,       \* readers on other nodes
  MaxChunks,    \* max_chunks
  Large,        \* the messages that do not fit in a chunk
  MaxMessages   \* bound on the number of messages

Local == 1 .. NReader
Readers == Local \cup Remote
Chunks == 0 .. MaxChunks - 1
Messages == 1 .. MaxMessages

ASSUME RingAssumption ==
  /\ NReader \in Nat \ {0}
  /\ MaxChunks \in Nat \ {0}
  /\ MaxMessages \in Nat
  /\ Large \subseteq Messages
  /\ Remote \cap Local = {}

VARIABLES
  written,      \* written[c]: metadata_buffer[0] of chunk c
  read,         \* read[c][r]: metadata_buffer[r] of chunk c
  data,         \* data[c]: the message in chunk c, 0 for none or a part of one
  inbox,        \* inbox[r]: messages on the way to a reader through its socket
  writer_at,    \* where the writer is in enqueue()
  writer_idx,   \* its current_idx
  i,            \* its loop variable
  read_count,   \* the read flags it has counted
  reader_at,    \* reader_at[r]: where a local reader is in dequeue()
  reader_idx,   \* its current_idx
  read_flag,    \* the read flag it has loaded
  obj,          \* what it has read
  sent,         \* number of messages published
  taken,        \* taken[r]: number of chunks a local reader has released
  last,         \* last[r]: what the last dequeue() of a reader returned
  desynced      \* local readers that gave up on a large message

memory == <<written, read, data>>
writerVars == <<writer_at, writer_idx, i, read_count, sent>>
readerVars == <<reader_at, reader_idx, read_flag, obj, taken, desynced>>
vars == <<memory, inbox, writerVars, readerVars, last>>

TypeOK ==
  /\ written \in [Chunks -> BOOLEAN]
  /\ read \in [Chunks -> [Local -> BOOLEAN]]
  /\ data \in [Chunks -> 0 .. MaxMessages]
  /\ inbox \in [Readers -> Seq(Messages)]
  /\ writer_at \in {"idle", "count", "write", "finish", "clear", "overflow", "remote"}
  /\ writer_idx \in Chunks
  /\ i \in 1 .. NReader + 1
  /\ read_count \in 0 .. NReader
  /\ reader_at \in [Local -> {"idle", "flag", "written", "read", "mark", "recv"}]
  /\ reader_idx \in [Local -> Chunks]
  /\ read_flag \in [Local -> BOOLEAN]
  /\ obj \in [Local -> 0 .. MaxMessages]
  /\ sent \in 0 .. MaxMessages
  /\ taken \in [Local -> 0 .. MaxMessages]
  /\ last \in [Readers -> 0 .. MaxMessages]
  /\ desynced \subseteq Local

\* After wait_until_ready, when all readers have subscribed.
Init ==
  /\ written = [c \in Chunks |-> FALSE]
  /\ read = [c \in Chunks |-> [r \in Local |-> FALSE]]
  /\ data = [c \in Chunks |-> 0]
  /\ inbox = [r \in Readers |-> <<>>]
  /\ writer_at = "idle"
  /\ writer_idx = 0
  /\ i = 1
  /\ read_count = 0
  /\ reader_at = [r \in Local |-> "idle"]
  /\ reader_idx = [r \in Local |-> 0]
  /\ read_flag = [r \in Local |-> FALSE]
  /\ obj = [r \in Local |-> 0]
  /\ sent = 0
  /\ taken = [r \in Local |-> 0]
  /\ last = [r \in Readers |-> 0]
  /\ desynced = {}

NextIdx(c) == (c + 1) % MaxChunks

-----------------------------------------------------------------------------
(* enqueue() and acquire_write() *)

Enqueue ==
  /\ writer_at = "idle"
  /\ sent < MaxMessages
  /\ writer_at' = "count"
  /\ i' = 1
  /\ read_count' = 0
  /\ UNCHANGED <<memory, inbox, writer_idx, sent, readerVars, last>>

\* One addition of sum(metadata_buffer[1:]).
CountReadFlag ==
  /\ writer_at = "count"
  /\ i <= NReader
  /\ i' = i + 1
  /\ read_count' = IF read[writer_idx][i] THEN read_count + 1 ELSE read_count
  /\ UNCHANGED <<memory, inbox, writer_at, writer_idx, sent, readerVars, last>>

\* Bug: one reader may be behind.
MustWait_OneLate == written[writer_idx] /\ read_count < NReader - 1

\* The block is written and not read by all readers.
MustWait == written[writer_idx] /\ read_count # NReader

\* The writer looks again, or its timeout is over and it raises.
WaitForReaders ==
  /\ writer_at = "count"
  /\ i > NReader
  /\ MustWait
  /\ i' = 1
  /\ read_count' = 0
  /\ writer_at' \in {"count", "idle"}
  /\ UNCHANGED <<memory, inbox, writer_idx, sent, readerVars, last>>

MarkNotWritten ==
  /\ writer_at = "count"
  /\ i > NReader
  /\ ~MustWait
  /\ written' = [written EXCEPT ![writer_idx] = FALSE]
  /\ writer_at' = "write"
  /\ UNCHANGED <<read, data, inbox, writer_idx, i, read_count, sent, readerVars, last>>

\* The caller fills the chunk; until it is done the chunk has a part of a message.
BeginWrite ==
  /\ writer_at = "write"
  /\ data' = [data EXCEPT ![writer_idx] = 0]
  /\ writer_at' = "finish"
  /\ UNCHANGED <<written, read, inbox, writer_idx, i, read_count, sent, readerVars, last>>

EndWrite ==
  /\ writer_at = "finish"
  /\ data' = [data EXCEPT ![writer_idx] = sent + 1]
  /\ writer_at' = "clear"
  /\ i' = 1
  /\ UNCHANGED <<written, read, inbox, writer_idx, read_count, sent, readerVars, last>>

\* Bug: the written flag is set before the read flags are reset.
ClearReadFlag_WrittenFirst ==
  /\ writer_at = "clear"
  /\ i <= NReader
  /\ written' = [written EXCEPT ![writer_idx] = TRUE]
  /\ read' = [read EXCEPT ![writer_idx][i] = FALSE]
  /\ i' = i + 1
  /\ UNCHANGED <<data, inbox, writer_at, writer_idx, read_count, sent, readerVars, last>>

ClearReadFlag ==
  /\ writer_at = "clear"
  /\ i <= NReader
  /\ read' = [read EXCEPT ![writer_idx][i] = FALSE]
  /\ i' = i + 1
  /\ UNCHANGED <<written, data, inbox, writer_at, writer_idx, read_count, sent,
                 readerVars, last>>

AfterLocal == IF Remote # {} THEN "remote" ELSE "idle"

MarkWritten ==
  /\ writer_at = "clear"
  /\ i > NReader
  /\ written' = [written EXCEPT ![writer_idx] = TRUE]
  /\ sent' = sent + 1
  /\ writer_idx' = NextIdx(writer_idx)
  /\ writer_at' = IF sent + 1 \in Large THEN "overflow" ELSE AfterLocal
  /\ UNCHANGED <<read, data, inbox, i, read_count, readerVars, last>>

\* send_multipart to the local or to the remote readers
SendTo(group) ==
  inbox' = [r \in Readers |->
              IF r \in group THEN Append(inbox[r], sent) ELSE inbox[r]]

SendOverflow ==
  /\ writer_at = "overflow"
  /\ SendTo(Local)
  /\ writer_at' = AfterLocal
  /\ UNCHANGED <<memory, writer_idx, i, read_count, sent, readerVars, last>>

SendRemote ==
  /\ writer_at = "remote"
  /\ SendTo(Remote)
  /\ writer_at' = "idle"
  /\ UNCHANGED <<memory, writer_idx, i, read_count, sent, readerVars, last>>

WriterStep ==
  \/ CountReadFlag \/ WaitForReaders \/ MarkNotWritten \/ BeginWrite \/ EndWrite
  \/ ClearReadFlag \/ MarkWritten \/ SendOverflow \/ SendRemote

-----------------------------------------------------------------------------
(* dequeue() and acquire_read() *)

Goto(r, place) == reader_at' = [reader_at EXCEPT ![r] = place]

Dequeue(r) ==
  /\ reader_at[r] = "idle"
  /\ Goto(r, "flag")
  /\ UNCHANGED <<memory, inbox, writerVars, reader_idx, read_flag, obj, taken, last,
                 desynced>>

LoadReadFlag(r) ==
  /\ reader_at[r] = "flag"
  /\ read_flag' = [read_flag EXCEPT ![r] = read[reader_idx[r]][r]]
  /\ Goto(r, "written")
  /\ UNCHANGED <<memory, inbox, writerVars, reader_idx, obj, taken, last, desynced>>

\* If the chunk is not ready the reader looks again, or it raises: its timeout
\* is over or it is cancelled.
LoadWrittenFlag(r) ==
  /\ reader_at[r] = "written"
  /\ IF ~written[reader_idx[r]] \/ read_flag[r]
       THEN Goto(r, "flag") \/ Goto(r, "idle")
       ELSE Goto(r, "read")
  /\ UNCHANGED <<memory, inbox, writerVars, reader_idx, read_flag, obj, taken, last,
                 desynced>>

ReadData(r) ==
  /\ reader_at[r] = "read"
  /\ obj' = [obj EXCEPT ![r] = data[reader_idx[r]]]
  /\ Goto(r, "mark")
  /\ UNCHANGED <<memory, inbox, writerVars, reader_idx, read_flag, taken, last, desynced>>

\* Bug: the index is advanced before the read flag is set.
MarkRead_AfterAdvance(r) ==
  /\ reader_at[r] = "mark"
  /\ read' = [read EXCEPT ![NextIdx(reader_idx[r])][r] = TRUE]
  /\ reader_idx' = [reader_idx EXCEPT ![r] = NextIdx(@)]
  /\ taken' = [taken EXCEPT ![r] = @ + 1]
  /\ IF obj[r] \in Large
       THEN Goto(r, "recv") /\ UNCHANGED last
       ELSE Goto(r, "idle") /\ last' = [last EXCEPT ![r] = obj[r]]
  /\ UNCHANGED <<written, data, inbox, writerVars, read_flag, obj, desynced>>

\* The reader releases the chunk; dequeue() returns unless the chunk has only
\* the overflow mark.
MarkRead(r) ==
  /\ reader_at[r] = "mark"
  /\ read' = [read EXCEPT ![reader_idx[r]][r] = TRUE]
  /\ reader_idx' = [reader_idx EXCEPT ![r] = NextIdx(@)]
  /\ taken' = [taken EXCEPT ![r] = @ + 1]
  /\ IF obj[r] \in Large
       THEN Goto(r, "recv") /\ UNCHANGED last
       ELSE Goto(r, "idle") /\ last' = [last EXCEPT ![r] = obj[r]]
  /\ UNCHANGED <<written, data, inbox, writerVars, read_flag, obj, desynced>>

\* MessageQueue.recv: the next message in the socket, whichever it is.
TakeFromSocket(r) ==
  /\ inbox[r] # <<>>
  /\ last' = [last EXCEPT ![r] = Head(inbox[r])]
  /\ inbox' = [inbox EXCEPT ![r] = Tail(@)]

Recv(r) ==
  /\ reader_at[r] = "recv"
  /\ TakeFromSocket(r)
  /\ Goto(r, "idle")
  /\ UNCHANGED <<memory, writerVars, reader_idx, read_flag, obj, taken, desynced>>

\* recv() raises TimeoutError; the chunk has been released already.
RecvTimeout(r) ==
  /\ reader_at[r] = "recv"
  /\ inbox[r] = <<>>
  /\ Goto(r, "idle")
  /\ desynced' = desynced \cup {r}
  /\ UNCHANGED <<memory, inbox, writerVars, reader_idx, read_flag, obj, taken, last>>

\* dequeue() of a remote reader; one that times out changes nothing.
RecvRemote(r) ==
  /\ TakeFromSocket(r)
  /\ UNCHANGED <<memory, writerVars, readerVars>>

ReaderStep(r) ==
  \/ LoadReadFlag(r) \/ LoadWrittenFlag(r) \/ ReadData(r) \/ MarkRead(r)
  \/ Recv(r) \/ RecvTimeout(r)

Next ==
  \/ Enqueue \/ WriterStep
  \/ \E r \in Local : Dequeue(r) \/ ReaderStep(r)
  \/ \E r \in Remote : RecvRemote(r)

Spec == Init /\ [][Next]_vars

\* Processes go on running, and readers call dequeue() again; the writer need
\* not enqueue anything, and no timeout has to happen.
Fairness ==
  /\ WF_vars(WriterStep)
  /\ \A r \in Local : WF_vars(Dequeue(r)) /\ WF_vars(ReaderStep(r))
  /\ \A r \in Remote : WF_vars(RecvRemote(r))

FairSpec == Spec /\ Fairness

-----------------------------------------------------------------------------
\* A chunk in which a reader has found a message it has not read stays as it is
\* until that reader has set its flag, whatever the writer and the other readers
\* do: the caller of acquire_read never sees part of a message or a later one.
NoTornRead ==
  \A r \in Local :
    reader_at[r] \in {"read", "mark"} =>
      /\ written[reader_idx[r]]
      /\ data[reader_idx[r]] = taken[r] + 1

BC == INSTANCE Broadcast

\* The ring buffer and the sockets together keep the promise of Broadcast: each
\* reader's dequeue() returns the messages in the order of enqueue(), each once.
ImplementsBroadcast == BC!Spec

\* Every message that was published gets to every reader that keeps calling
\* dequeue(): none spins for ever on a flag (the memory fences of acquire_read
\* and acquire_write are about this), unless it gave up on a large message.
EveryMessageArrives ==
  \A m \in Messages :
    (sent >= m) ~> (\A r \in Readers : last[r] >= m \/ r \in desynced)

\* An enqueue() that found the ring full goes on once the readers have caught up.
EnqueueReturns == (writer_at # "idle") ~> (writer_at = "idle")

-----------------------------------------------------------------------------
(* The inductive invariant. *)

\* The chunk the writer is filling.
Filling(c) == c = writer_idx /\ writer_at \in {"write", "finish", "clear"}

\* The last message published in chunk c; there is none if it is not positive.
Newest(c) == IF c < writer_idx
               THEN sent - writer_idx + c + 1
               ELSE sent - writer_idx + c + 1 - MaxChunks

\* How far a reader is behind the writer, in messages and around the ring.
Distances ==
  \A r \in Local :
    LET behind == sent - taken[r]
        ahead == writer_idx - reader_idx[r]
    IN  /\ behind \in 0 .. MaxChunks
        /\ behind = ahead \/ behind = ahead + MaxChunks

\* The cases 1 to 4 of ShmRingBuffer: which messages are in the chunks, and who
\* has read them.
ChunkContents ==
  \A c \in Chunks :
    /\ written[c] <=> (~Filling(c) /\ Newest(c) > 0)
    /\ written[c] => data[c] = Newest(c)
    /\ \A r \in Local : written[c] => (read[c][r] <=> taken[r] >= Newest(c))

WriterPlace ==
  LET w == writer_idx
  IN  /\ writer_at # "idle" /\ writer_at \notin {"overflow", "remote"} =>
           sent < MaxMessages
      /\ writer_at = "count" =>
           /\ read_count < i
           /\ (written[w] /\ read_count = i - 1) =>
                \A r \in Local : r < i => read[w][r]
      /\ Filling(w) => \A r \in Local : sent - taken[r] < MaxChunks
      /\ writer_at = "clear" =>
           /\ data[w] = sent + 1
           /\ \A r \in Local : r < i => ~read[w][r]
      /\ writer_at = "overflow" => sent \in Large
      /\ writer_at = "remote" => Remote # {} /\ sent > 0

ReaderPlace ==
  \A r \in Local :
    LET c == reader_idx[r]
    IN  /\ (reader_at[r] = "written" /\ ~read_flag[r]) =>
             ~read[c][r]
        /\ reader_at[r] \in {"read", "mark"} =>
             written[c] /\ ~read[c][r] /\ data[c] = taken[r] + 1
        /\ reader_at[r] = "mark" => obj[r] = taken[r] + 1
        /\ reader_at[r] = "recv" => taken[r] \in Large

Increasing(s) == \A j, k \in 1 .. Len(s) : j < k => s[j] < s[k]

\* The last message that local readers may find in their sockets.
Overflowed == IF writer_at = "overflow" THEN sent - 1 ELSE sent

InSocket(r, m) == \E k \in 1 .. Len(inbox[r]) : inbox[r][k] = m

\* A reader has what it has taken, but for a large message it waits for; its
\* socket has the large messages after that.
LocalDelivery ==
  \A r \in Local :
    /\ \A k \in 1 .. Len(inbox[r]) : inbox[r][k] <= Overflowed
    /\ r \notin desynced =>
         /\ last[r] = IF reader_at[r] = "recv" THEN taken[r] - 1 ELSE taken[r]
         /\ last[r] <= Overflowed
         /\ Increasing(inbox[r])
         /\ \A m \in Messages :
              InSocket(r, m) <=> (m \in Large /\ last[r] < m /\ m <= Overflowed)

RemoteSent == IF writer_at \in {"overflow", "remote"} THEN sent - 1 ELSE sent

RemoteDelivery ==
  \A r \in Remote :
    /\ Len(inbox[r]) = RemoteSent - last[r]
    /\ \A k \in 1 .. Len(inbox[r]) : inbox[r][k] = last[r] + k

\* Why the flags are enough: the writer's and the readers' positions, the flags
\* and the contents of the chunks determine each other, and the sockets hold
\* exactly what the readers still need.  (acquire_write, acquire_read, dequeue.)
IInv ==
  /\ TypeOK /\ Distances /\ ChunkContents /\ WriterPlace /\ ReaderPlace
  /\ LocalDelivery /\ RemoteDelivery

=============================================================================
