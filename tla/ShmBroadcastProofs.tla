------------------------- MODULE ShmBroadcastProofs -------------------------
(***************************************************************************)
(* The ring buffer keeps IInv, from which follow that no message is torn   *)
(* and that MessageQueue implements Broadcast, for any number of readers,  *)
(* chunks and messages, and any set of large messages.                     *)
(***************************************************************************)
EXTENDS ShmBroadcast, TLAPS

-----------------------------------------------------------------------------
(* enqueue().                                                              *)

\* The successor of an index of the ring.
LEMMA NextIdxFact ==
  ASSUME NEW c \in Chunks
  PROVE  /\ NextIdx(c) \in Chunks
         /\ NextIdx(c) = IF c + 1 = MaxChunks THEN 0 ELSE c + 1
BY SMTT(30), RingAssumption DEF NextIdx, Chunks

\* The initial state satisfies the invariant.
LEMMA InitInv == Init => IInv
BY SMTT(30), RingAssumption DEF Init, IInv, TypeOK, Distances, ChunkContents,
   WriterPlace, ReaderPlace, LocalDelivery, RemoteDelivery, Overflowed, InSocket,
   RemoteSent, Increasing, Newest, Filling, Local, Readers, Chunks, Messages

\* What LocalDelivery depends on.
LEMMA LocalDeliveryFrame ==
  ASSUME LocalDelivery, UNCHANGED <<inbox, last, taken, sent, desynced>>,
         (writer_at = "overflow") = (writer_at' = "overflow"),
         \A r \in Local : (reader_at[r] = "recv") = (reader_at'[r] = "recv")
  PROVE  LocalDelivery'
BY Zenon DEF LocalDelivery, InSocket, Overflowed

\* A chunk that is written and not read by r has the next message of r.
LEMMA ReadyChunk ==
  ASSUME IInv, NEW r \in Local, written[reader_idx[r]], ~read[reader_idx[r]][r]
  PROVE  /\ Newest(reader_idx[r]) = taken[r] + 1
         /\ data[reader_idx[r]] = taken[r] + 1
         /\ taken[r] < sent
         /\ ~Filling(reader_idx[r])
<1> DEFINE c == reader_idx[r]
<1>1. /\ c \in Chunks /\ writer_idx \in Chunks /\ taken[r] \in Nat /\ sent \in Nat
      /\ MaxChunks \in Nat
  BY SMTT(30), RingAssumption DEF IInv, TypeOK
<1>2. /\ ~Filling(c) /\ data[c] = Newest(c) /\ ~(taken[r] >= Newest(c))
  BY Zenon, <1>1 DEF IInv, ChunkContents
<1>3. /\ sent - taken[r] \in 0 .. MaxChunks
      /\ \/ sent - taken[r] = writer_idx - c
         \/ sent - taken[r] = writer_idx - c + MaxChunks
  BY Zenon DEF IInv, Distances
<1>4. Newest(c) = taken[r] + 1 /\ taken[r] < sent
  BY SMTT(30), <1>1, <1>2, <1>3 DEF Newest, Chunks
<1> QED BY Zenon, <1>2, <1>4

\* A writer that need not wait is not a whole ring ahead of any reader.
LEMMA FreeChunk ==
  ASSUME IInv, writer_at = "count", i > NReader, ~MustWait, NEW r \in Local
  PROVE  /\ sent - taken[r] < MaxChunks
         /\ written[writer_idx] => read[writer_idx][r]
<1>1. /\ writer_idx \in Chunks /\ taken[r] \in Nat /\ sent \in Nat
      /\ MaxChunks \in Nat /\ i = NReader + 1 /\ NReader \in Nat
  BY SMTT(30), RingAssumption DEF IInv, TypeOK
<1>2. written[writer_idx] => read[writer_idx][r]
  BY SMTT(30), <1>1 DEF IInv, WriterPlace, MustWait, Local
<1>3. CASE written[writer_idx]
  <2>1. taken[r] >= Newest(writer_idx)
    BY Zenon, <1>1, <1>2, <1>3 DEF IInv, ChunkContents
  <2> QED BY SMTT(30), <1>1, <1>2, <2>1 DEF Newest, Chunks
<1>4. CASE ~written[writer_idx]
  <2>1. ~(Newest(writer_idx) > 0)
    BY Zenon, <1>1, <1>4 DEF IInv, ChunkContents, Filling
  <2> QED BY SMTT(30), <1>1, <1>2, <1>4, <2>1 DEF Newest, Chunks
<1> QED BY Zenon, <1>3, <1>4

\* The socket of a local reader that is waiting for the rest of a message has
\* that message first.
LEMMA HeadOfSocket ==
  ASSUME IInv, NEW r \in Local, r \notin desynced, reader_at[r] = "recv",
         inbox[r] # <<>>
  PROVE  Head(inbox[r]) = taken[r]
<1>1. /\ inbox[r] \in Seq(Messages) /\ Len(inbox[r]) \in Nat /\ Len(inbox[r]) > 0
      /\ Head(inbox[r]) = inbox[r][1]
  BY SMTT(30) DEF IInv, TypeOK, Readers
<1>2. /\ taken[r] \in Large /\ last[r] = taken[r] - 1 /\ Increasing(inbox[r])
      /\ \A m \in Messages :
           InSocket(r, m) <=> (m \in Large /\ last[r] < m /\ m <= Overflowed)
  BY Zenon DEF IInv, ReaderPlace, LocalDelivery
<1>3. inbox[r][1] \in Messages /\ InSocket(r, inbox[r][1])
  BY SMTT(30), <1>1 DEF InSocket
<1>4. taken[r] \in Nat /\ sent \in Nat /\ Overflowed \in Int
  BY SMTT(30) DEF IInv, TypeOK, Overflowed
<1>5. taken[r] <= inbox[r][1] /\ inbox[r][1] <= Overflowed
  BY SMTT(30), <1>2, <1>3, <1>4 DEF Messages
<1>6. InSocket(r, taken[r])
  BY SMTT(30), <1>2, <1>3, <1>4, <1>5, RingAssumption DEF Messages
<1>7. PICK k \in 1 .. Len(inbox[r]) : inbox[r][k] = taken[r]
  BY Zenon, <1>6 DEF InSocket
<1>8. k = 1 \/ inbox[r][1] < inbox[r][k]
  BY SMTT(30), <1>2 DEF Increasing
<1> QED BY SMTT(30), <1>3, <1>4, <1>5, <1>7, <1>8 DEF Messages

\* What a socket holds when its first message is gone.
LEMMA TailFact ==
  ASSUME NEW s \in Seq(Messages), s # <<>>
  PROVE  /\ Tail(s) \in Seq(Messages) /\ Head(s) \in Messages /\ Head(s) = s[1]
         /\ Len(s) \in Nat /\ Len(s) > 0 /\ Len(Tail(s)) = Len(s) - 1
         /\ \A k \in 1 .. Len(s) - 1 : Tail(s)[k] = s[k + 1]
  BY SMTT(30)

\* What a socket holds when a message has been sent.
LEMMA AppendFact ==
  ASSUME NEW s \in Seq(Messages), NEW m \in Messages
  PROVE  /\ Append(s, m) \in Seq(Messages)
         /\ Len(s) \in Nat /\ Len(Append(s, m)) = Len(s) + 1
         /\ \A k \in 1 .. Len(s) : Append(s, m)[k] = s[k]
         /\ Append(s, m)[Len(s) + 1] = m
         /\ \A k \in 1 .. Len(s) : s[k] \in Messages
  BY SMTT(30)

\* Enqueue keeps the invariant.
LEMMA EnqueueInv ==
  ASSUME IInv, Enqueue
  PROVE  IInv'
<1>1. TypeOK'
  BY SMTT(30), RingAssumption DEF Enqueue, IInv, TypeOK, memory, readerVars
<1>2. Distances'
  BY Zenon DEF Enqueue, Distances, IInv, memory, readerVars
<1>3. ChunkContents'
  BY Zenon DEF Enqueue, ChunkContents, Newest, Filling, IInv, memory, readerVars
<1>4. WriterPlace'
  BY SMTT(30) DEF Enqueue, WriterPlace, Filling, Local
<1>5. ReaderPlace'
  BY Zenon DEF Enqueue, ReaderPlace, IInv, memory, readerVars
<1>6. LocalDelivery'
  BY Zenon, LocalDeliveryFrame DEF Enqueue, IInv, memory, readerVars
<1>7. RemoteDelivery'
  BY Zenon DEF Enqueue, RemoteDelivery, RemoteSent, Readers, IInv, memory, readerVars
<1> QED BY Zenon, <1>1, <1>2, <1>3, <1>4, <1>5, <1>6, <1>7 DEF IInv, readerVars

\* CountReadFlag keeps the invariant.
LEMMA CountReadFlagInv ==
  ASSUME IInv, CountReadFlag
  PROVE  IInv'
<1>1. TypeOK'
  BY SMTT(30), RingAssumption DEF CountReadFlag, WriterPlace, IInv, TypeOK, memory,
     readerVars
<1>2. Distances'
  BY Zenon DEF CountReadFlag, Distances, IInv, memory, readerVars
<1>3. ChunkContents'
  BY Zenon DEF CountReadFlag, ChunkContents, Newest, Filling, IInv, memory, readerVars
<1>4. WriterPlace'
  BY SMTT(30), RingAssumption DEF CountReadFlag, WriterPlace, Filling, Local, IInv,
     TypeOK, memory, readerVars
<1>5. ReaderPlace'
  BY Zenon DEF CountReadFlag, ReaderPlace, IInv, memory, readerVars
<1>6. LocalDelivery'
  BY Zenon, LocalDeliveryFrame DEF CountReadFlag, IInv, memory, readerVars
<1>7. RemoteDelivery'
  BY Zenon DEF CountReadFlag, RemoteDelivery, RemoteSent, Readers, IInv, memory,
     readerVars
<1> QED BY Zenon, <1>1, <1>2, <1>3, <1>4, <1>5, <1>6, <1>7 DEF IInv, readerVars

\* WaitForReaders keeps the invariant.
LEMMA WaitForReadersInv ==
  ASSUME IInv, WaitForReaders
  PROVE  IInv'
<1>1. TypeOK'
  BY SMTT(30), RingAssumption DEF WaitForReaders, IInv, TypeOK, memory, readerVars
<1>2. Distances'
  BY Zenon DEF WaitForReaders, MustWait, Distances, IInv, memory, readerVars
<1>3. ChunkContents'
  BY Zenon DEF WaitForReaders, MustWait, ChunkContents, Newest, Filling, IInv, memory,
     readerVars
<1>4. WriterPlace'
  BY SMTT(30) DEF WaitForReaders, MustWait, WriterPlace, Filling, Local, IInv, memory,
     readerVars
<1>5. ReaderPlace'
  BY Zenon DEF WaitForReaders, ReaderPlace, IInv, memory, readerVars
<1>6. LocalDelivery'
  BY Zenon, LocalDeliveryFrame DEF WaitForReaders, IInv, memory, readerVars
<1>7. RemoteDelivery'
  BY Zenon DEF WaitForReaders, RemoteDelivery, RemoteSent, Readers, IInv, memory,
     readerVars
<1> QED BY Zenon, <1>1, <1>2, <1>3, <1>4, <1>5, <1>6, <1>7 DEF IInv, readerVars

\* MarkNotWritten keeps the invariant.
LEMMA MarkNotWrittenInv ==
  ASSUME IInv, MarkNotWritten
  PROVE  IInv'
<1>1. TypeOK'
  BY Zenon, RingAssumption DEF MarkNotWritten, MustWait, IInv, TypeOK, memory,
     readerVars
<1>2. Distances'
  BY Zenon DEF MarkNotWritten, MustWait, Distances, IInv, memory, readerVars
<1>3. ChunkContents'
  BY Zenon, RingAssumption DEF MarkNotWritten, MustWait, ChunkContents, Newest,
     Filling, IInv, TypeOK, memory, readerVars
<1>4. WriterPlace'
  BY Zenon, FreeChunk DEF MarkNotWritten, WriterPlace, IInv, memory, readerVars
<1>5. ReaderPlace'
  <2>1. \A r \in Local : written[writer_idx] => read[writer_idx][r]
    BY Zenon, FreeChunk DEF MarkNotWritten
  <2> QED BY SMTT(30), <2>1 DEF MarkNotWritten, ReaderPlace, IInv, memory, readerVars
<1>6. LocalDelivery'
  BY Zenon, LocalDeliveryFrame DEF MarkNotWritten, MustWait, IInv, memory, readerVars
<1>7. RemoteDelivery'
  BY Zenon DEF MarkNotWritten, MustWait, RemoteDelivery, RemoteSent, Readers, IInv,
     memory, readerVars
<1> QED BY Zenon, <1>1, <1>2, <1>3, <1>4, <1>5, <1>6, <1>7 DEF IInv, readerVars

\* BeginWrite keeps the invariant.
LEMMA BeginWriteInv ==
  ASSUME IInv, BeginWrite
  PROVE  IInv'
<1>1. TypeOK'
  BY SMTT(30), RingAssumption DEF BeginWrite, IInv, TypeOK, memory, readerVars
<1>2. Distances'
  BY Zenon DEF BeginWrite, Distances, IInv, memory, readerVars
<1>3. ChunkContents'
  BY SMTT(30) DEF BeginWrite, ChunkContents, Newest, Filling, Chunks, IInv, memory,
     readerVars
<1>4. WriterPlace'
  BY Zenon DEF BeginWrite, WriterPlace, Filling, Local, IInv, memory, readerVars
<1>5. ReaderPlace'
  BY Zenon, RingAssumption DEF BeginWrite, ReaderPlace, ChunkContents, Filling, IInv,
     TypeOK, memory, readerVars
<1>6. LocalDelivery'
  BY Zenon, LocalDeliveryFrame DEF BeginWrite, IInv, memory, readerVars
<1>7. RemoteDelivery'
  BY Zenon DEF BeginWrite, RemoteDelivery, RemoteSent, Readers, IInv, memory,
     readerVars
<1> QED BY Zenon, <1>1, <1>2, <1>3, <1>4, <1>5, <1>6, <1>7 DEF IInv, readerVars

\* EndWrite keeps the invariant.
LEMMA EndWriteInv ==
  ASSUME IInv, EndWrite
  PROVE  IInv'
<1>1. TypeOK'
  BY SMTT(30), RingAssumption DEF EndWrite, WriterPlace, IInv, TypeOK, memory,
     readerVars
<1>2. Distances'
  BY Zenon DEF EndWrite, Distances, IInv, memory, readerVars
<1>3. ChunkContents'
  BY SMTT(30) DEF EndWrite, ChunkContents, Newest, Filling, IInv, memory, readerVars
<1>4. WriterPlace'
  BY SMTT(30), RingAssumption DEF EndWrite, WriterPlace, Filling, Local, IInv, TypeOK,
     memory, readerVars
<1>5. ReaderPlace'
  BY Zenon, RingAssumption DEF EndWrite, ReaderPlace, ChunkContents, Filling, IInv,
     TypeOK, memory, readerVars
<1>6. LocalDelivery'
  BY Zenon, LocalDeliveryFrame DEF EndWrite, IInv, memory, readerVars
<1>7. RemoteDelivery'
  BY Zenon DEF EndWrite, RemoteDelivery, RemoteSent, Readers, IInv, memory, readerVars
<1> QED BY Zenon, <1>1, <1>2, <1>3, <1>4, <1>5, <1>6, <1>7 DEF IInv, readerVars

\* ClearReadFlag keeps the invariant.
LEMMA ClearReadFlagInv ==
  ASSUME IInv, ClearReadFlag
  PROVE  IInv'
<1>1. TypeOK'
  <2>1. i \in Local
    BY SMTT(30), RingAssumption DEF ClearReadFlag, Local, IInv, TypeOK, memory,
       readerVars
  <2>2. read' \in [Chunks -> [Local -> BOOLEAN]]
    BY Zenon, <2>1, RingAssumption DEF ClearReadFlag, IInv, TypeOK, memory, readerVars
  <2> QED BY SMTT(30), <2>2, RingAssumption DEF ClearReadFlag, IInv, TypeOK, memory,
           readerVars
<1>2. Distances'
  BY Zenon DEF ClearReadFlag, Distances, IInv, memory, readerVars
<1>3. ChunkContents'
  BY SMTT(30) DEF ClearReadFlag, ChunkContents, Newest, Filling, IInv, memory,
     readerVars
<1>4. WriterPlace'
  <2>1. \A r \in Local : read'[writer_idx][r] = IF r = i THEN FALSE ELSE read[writer_idx][r]
    BY Zenon, RingAssumption DEF ClearReadFlag, IInv, TypeOK, memory, readerVars
  <2>2. \A r \in Local : r < i' => r < i \/ r = i
    BY SMTT(30), RingAssumption DEF ClearReadFlag, Local, IInv, TypeOK, memory,
       readerVars
  <2> QED BY Zenon, <2>1, <2>2 DEF ClearReadFlag, WriterPlace, Filling, IInv, memory,
           readerVars
<1>5. ReaderPlace'
  BY SMTT(30) DEF ClearReadFlag, ReaderPlace, IInv, memory, readerVars
<1>6. LocalDelivery'
  BY Zenon, LocalDeliveryFrame DEF ClearReadFlag, IInv, memory, readerVars
<1>7. RemoteDelivery'
  BY Zenon DEF ClearReadFlag, RemoteDelivery, RemoteSent, Readers, IInv, memory,
     readerVars
<1> QED BY Zenon, <1>1, <1>2, <1>3, <1>4, <1>5, <1>6, <1>7 DEF IInv, readerVars

\* MarkWritten keeps the invariant.
LEMMA MarkWrittenInv ==
  ASSUME IInv, MarkWritten
  PROVE  IInv'
<1>1. TypeOK'
  BY SMTT(30), NextIdxFact, RingAssumption DEF MarkWritten, AfterLocal, WriterPlace,
     IInv, TypeOK, memory, readerVars
<1>2. Distances'
  <2> SUFFICES ASSUME NEW r \in Local
               PROVE  LET behind == sent' - taken'[r]
                          ahead == writer_idx' - reader_idx'[r]
                      IN  /\ behind \in 0 .. MaxChunks
                          /\ behind = ahead \/ behind = ahead + MaxChunks
    BY Zenon DEF Distances
  <2>1. writer_idx' = IF writer_idx + 1 = MaxChunks THEN 0 ELSE writer_idx + 1
    BY Zenon, NextIdxFact, RingAssumption DEF MarkWritten, IInv, TypeOK, memory,
       readerVars
  <2>2. sent - taken[r] < MaxChunks
    BY Zenon DEF MarkWritten, WriterPlace, Filling, IInv, memory, readerVars
  <2>3. /\ sent - taken[r] \in 0 .. MaxChunks
        /\ \/ sent - taken[r] = writer_idx - reader_idx[r]
           \/ sent - taken[r] = writer_idx - reader_idx[r] + MaxChunks
    BY Zenon DEF Distances, IInv, memory, readerVars
  <2>4. /\ taken[r] \in Nat /\ sent \in Nat /\ writer_idx \in Chunks
        /\ reader_idx[r] \in Chunks
    BY SMTT(30), RingAssumption DEF IInv, TypeOK, memory, readerVars
  <2>5. sent' = sent + 1 /\ taken' = taken /\ reader_idx' = reader_idx
    BY Zenon DEF MarkWritten, readerVars
  <2> QED BY SMTT(30), <2>1, <2>2, <2>3, <2>4, <2>5, RingAssumption DEF Chunks,
           readerVars
<1>3. ChunkContents'
  <2> SUFFICES ASSUME NEW c \in Chunks
               PROVE  /\ written'[c] <=> (~Filling(c)' /\ Newest(c)' > 0)
                      /\ written'[c] => data'[c] = Newest(c)'
                      /\ \A r \in Local :
                           written'[c] => (read'[c][r] <=> taken'[r] >= Newest(c)')
    BY Zenon DEF ChunkContents
  <2>1. writer_idx' = IF writer_idx + 1 = MaxChunks THEN 0 ELSE writer_idx + 1
    BY Zenon, NextIdxFact, RingAssumption DEF MarkWritten, IInv, TypeOK, memory,
       readerVars
  <2>2. ~Filling(c)'
    BY Zenon DEF MarkWritten, AfterLocal, Filling
  <2>3. CASE c = writer_idx
    <3>1. Newest(c)' = sent + 1
      BY SMTT(30), <2>1, <2>3 DEF MarkWritten, Newest, Chunks
    <3>2. \A r \in Local : ~read[c][r] /\ taken[r] <= sent
      <4>1. \A r \in Local : r < i
        BY SMTT(30), RingAssumption DEF MarkWritten, Local, IInv, TypeOK, memory,
           readerVars
      <4>2. \A r \in Local : ~read[c][r]
        BY Zenon, <2>3, <4>1 DEF MarkWritten, WriterPlace, IInv, memory, readerVars
      <4>3. \A r \in Local : taken[r] <= sent
        BY SMTT(30), RingAssumption DEF Distances, IInv, TypeOK, memory, readerVars
      <4> QED BY Zenon, <4>2, <4>3
    <3>3. data[c] = sent + 1
      BY Zenon, <2>3 DEF MarkWritten, WriterPlace, IInv, memory, readerVars
    <3> QED BY SMTT(30), <2>2, <2>3, <3>1, <3>2, <3>3, RingAssumption DEF MarkWritten,
           IInv, TypeOK, memory, readerVars
  <2>4. CASE c # writer_idx
    <3>1. Newest(c)' = Newest(c)
      BY SMTT(30), <2>1, <2>4, RingAssumption DEF MarkWritten, Newest, Chunks, IInv,
         TypeOK, memory, readerVars
    <3>2. ~Filling(c)
      BY Zenon, <2>4 DEF Filling
    <3> QED BY SMTT(30), <2>2, <2>4, <3>1, <3>2 DEF MarkWritten, ChunkContents, IInv,
           memory, readerVars
  <2> QED BY Zenon, <2>3, <2>4
<1>4. WriterPlace'
  BY SMTT(30), NextIdxFact, RingAssumption DEF MarkWritten, AfterLocal, WriterPlace,
     Filling, Local, IInv, TypeOK, memory, readerVars
<1>5. ReaderPlace'
  BY SMTT(30), NextIdxFact DEF MarkWritten, ReaderPlace, IInv, memory, readerVars
<1>6. LocalDelivery'
  <2>1. \A m \in Large : m <= Overflowed' <=> m <= sent
    BY SMTT(30), RingAssumption DEF MarkWritten, Messages, Overflowed, IInv, TypeOK,
       memory, readerVars
  <2>2. sent <= Overflowed' /\ Overflowed' \in Nat /\ Overflowed = sent
    BY SMTT(30), RingAssumption DEF MarkWritten, Overflowed, IInv, TypeOK, memory,
       readerVars
  <2>3. \A r \in Local : \A k \in 1 .. Len(inbox[r]) : inbox[r][k] \in Nat
    BY SMTT(30), RingAssumption DEF Readers, Messages, IInv, TypeOK, memory,
       readerVars
  <2>4. UNCHANGED <<inbox, last, taken, desynced, reader_at>>
    BY Zenon DEF MarkWritten, readerVars
  <2>5. \A r \in Local : \A k \in 1 .. Len(inbox[r]) : inbox[r][k] <= Overflowed'
    BY SMTT(30), <2>2, <2>3, RingAssumption DEF LocalDelivery, IInv, TypeOK, memory,
       readerVars
  <2>6. \A r \in Local, m \in Messages :
          (m \in Large /\ last[r] < m /\ m <= sent)
            <=> (m \in Large /\ last[r] < m /\ m <= Overflowed')
    BY Zenon, <2>1
  <2>7. \A r \in Local : last[r] <= sent => last[r] <= Overflowed'
    BY SMTT(30), <2>2, RingAssumption DEF Readers, IInv, TypeOK, memory, readerVars
  <2> QED BY SMTT(30), <2>2, <2>4, <2>5, <2>6, <2>7 DEF LocalDelivery, Increasing,
           InSocket, IInv, memory, readerVars
<1>7. RemoteDelivery'
  BY SMTT(30), NextIdxFact, RingAssumption DEF MarkWritten, AfterLocal,
     RemoteDelivery, RemoteSent, Readers, IInv, TypeOK, memory, readerVars
<1> QED BY Zenon, <1>1, <1>2, <1>3, <1>4, <1>5, <1>6, <1>7 DEF IInv, readerVars

\* SendOverflow keeps the invariant.
LEMMA SendOverflowInv ==
  ASSUME IInv, SendOverflow
  PROVE  IInv'
<1>1. TypeOK'
  <2>1. inbox' \in [Readers -> Seq(Messages)]
    <3>1. sent \in Messages
      BY Zenon, RingAssumption DEF SendOverflow, WriterPlace, IInv, memory, readerVars
    <3> QED BY SMTT(30), <3>1, RingAssumption DEF SendOverflow, SendTo, IInv, TypeOK,
           memory, readerVars
  <2> QED BY Zenon, <2>1, RingAssumption DEF SendOverflow, AfterLocal, IInv, TypeOK,
           memory, readerVars
<1>2. Distances'
  BY Zenon DEF SendOverflow, SendTo, Distances, IInv, memory, readerVars
<1>3. ChunkContents'
  BY Zenon DEF SendOverflow, AfterLocal, SendTo, ChunkContents, Newest, Filling,
     Chunks, IInv, memory, readerVars
<1>4. WriterPlace'
  <2>1. UNCHANGED <<written, read, data, writer_idx, i, read_count, sent, taken>>
    BY Zenon DEF SendOverflow, memory, readerVars
  <2>2. sent \in Messages
    BY Zenon, RingAssumption DEF SendOverflow, WriterPlace, IInv, memory, readerVars
  <2>3. writer_at' \in {"idle", "remote"} /\ (writer_at' = "remote" => Remote # {})
    BY Zenon DEF SendOverflow, AfterLocal
  <2> QED BY SMTT(30), <2>1, <2>2, <2>3 DEF WriterPlace, Filling, Messages
<1>5. ReaderPlace'
  BY Zenon DEF SendOverflow, SendTo, ReaderPlace, IInv, memory, readerVars
<1>6. LocalDelivery'
  <2> SUFFICES ASSUME NEW r \in Local
               PROVE  /\ \A k \in 1 .. Len(inbox'[r]) : inbox'[r][k] <= Overflowed'
                      /\ r \notin desynced' =>
                           /\ last'[r] = IF reader_at'[r] = "recv" THEN taken'[r] - 1
                                                              ELSE taken'[r]
                           /\ last'[r] <= Overflowed'
                           /\ Increasing(inbox'[r])
                           /\ \A m \in Messages :
                                InSocket(r, m)' <=>
                                  (m \in Large /\ last'[r] < m /\ m <= Overflowed')
    BY Zenon DEF LocalDelivery
  <2>1. sent \in Large /\ sent \in Messages /\ sent \in Nat
    BY SMTT(30), RingAssumption DEF SendOverflow, WriterPlace, IInv, TypeOK, memory,
       readerVars
  <2>2. inbox[r] \in Seq(Messages) /\ inbox'[r] = Append(inbox[r], sent)
    BY Zenon, RingAssumption DEF SendOverflow, SendTo, Readers, IInv, TypeOK, memory,
       readerVars
  <2>3. /\ Len(inbox[r]) \in Nat /\ Len(inbox'[r]) = Len(inbox[r]) + 1
        /\ \A k \in 1 .. Len(inbox[r]) : inbox'[r][k] = inbox[r][k]
        /\ inbox'[r][Len(inbox[r]) + 1] = sent
    BY SMTT(30), <2>2, AppendFact
  <2>4. Overflowed = sent - 1 /\ Overflowed' = sent
    BY Zenon DEF SendOverflow, AfterLocal, Overflowed
  <2>5. UNCHANGED <<taken, last, desynced, reader_at>>
    BY Zenon DEF SendOverflow, readerVars
  <2>6. taken[r] \in Nat /\ last[r] \in Nat
    BY SMTT(30), RingAssumption DEF Readers, IInv, TypeOK, memory, readerVars
  <2>14. \A k \in 1 .. Len(inbox[r]) : inbox[r][k] \in Nat
    <3>1. \A k \in 1 .. Len(inbox[r]) : inbox[r][k] \in Messages
      BY SMTT(30), <2>2, AppendFact
    <3> QED BY SMTT(30), <3>1 DEF Messages
  <2>15. \A k \in 1 .. Len(inbox'[r]) :
           k \in 1 .. Len(inbox[r]) \/ k = Len(inbox[r]) + 1
    <3>1. Len(inbox[r]) \in Nat /\ Len(inbox'[r]) = Len(inbox[r]) + 1
      BY Zenon, <2>3
    <3> QED BY SMTT(30), <3>1
  <2>7. \A k \in 1 .. Len(inbox[r]) : inbox[r][k] <= sent - 1
    BY Zenon, <2>4 DEF IInv, LocalDelivery
  <2>8. \A k \in 1 .. Len(inbox'[r]) : inbox'[r][k] <= sent
    BY SMTT(30), <2>1, <2>3, <2>7, <2>14, <2>15, RingAssumption
  <2>9. \A m \in Messages : InSocket(r, m)' <=> (InSocket(r, m) \/ m = sent)
    <3>1. Len(inbox[r]) + 1 \in 1 .. Len(inbox'[r])
      BY SMTT(30), <2>3
    <3>2. \A k \in 1 .. Len(inbox[r]) : k \in 1 .. Len(inbox'[r])
      BY SMTT(30), <2>3
    <3> QED BY SMTT(30), <2>3, <3>1, <3>2 DEF InSocket
  <2>10. ASSUME r \notin desynced
         PROVE  Increasing(inbox'[r])
    <3>1. Increasing(inbox[r])
      BY Zenon, <2>10 DEF IInv, LocalDelivery
    <3> SUFFICES ASSUME NEW j \in 1 .. Len(inbox'[r]), NEW k \in 1 .. Len(inbox'[r]), j < k
                 PROVE  inbox'[r][j] < inbox'[r][k]
      BY Zenon DEF Increasing
    <3>2. j \in 1 .. Len(inbox[r])
      BY SMTT(30), <2>3
    <3>3. CASE k \in 1 .. Len(inbox[r])
      BY Zenon, <2>3, <3>1, <3>2, <3>3 DEF Increasing
    <3>4. CASE k = Len(inbox[r]) + 1
      BY SMTT(30), <2>1, <2>3, <2>7, <2>14, <3>2, <3>4
    <3> QED BY Zenon, <2>15, <3>3, <3>4
  <2>11. ASSUME r \notin desynced
         PROVE  last[r] <= sent - 1
    BY Zenon, <2>4, <2>11 DEF IInv, LocalDelivery
  <2>12. ASSUME r \notin desynced, NEW m \in Messages
         PROVE  InSocket(r, m)' <=> (m \in Large /\ last[r] < m /\ m <= sent)
    BY SMTT(30), <2>1, <2>4, <2>6, <2>9, <2>11, <2>12 DEF IInv, LocalDelivery,
       Messages
  <2>13. r \notin desynced =>
           last[r] = IF reader_at[r] = "recv" THEN taken[r] - 1 ELSE taken[r]
    BY Zenon DEF IInv, LocalDelivery
  <2> QED BY SMTT(30), <2>1, <2>4, <2>5, <2>6, <2>8, <2>10, <2>11, <2>12, <2>13
<1>7. RemoteDelivery'
  BY Zenon, RingAssumption DEF SendOverflow, AfterLocal, SendTo, RemoteDelivery,
     RemoteSent, Readers, IInv, memory, readerVars
<1> QED BY Zenon, <1>1, <1>2, <1>3, <1>4, <1>5, <1>6, <1>7 DEF IInv, readerVars

\* SendRemote keeps the invariant.
LEMMA SendRemoteInv ==
  ASSUME IInv, SendRemote
  PROVE  IInv'
<1>1. TypeOK'
  <2>1. inbox' \in [Readers -> Seq(Messages)]
    <3>1. sent \in Messages
      BY SMTT(30), RingAssumption DEF SendRemote, WriterPlace, Messages, IInv, TypeOK,
         memory, readerVars
    <3> QED BY SMTT(30), <3>1, RingAssumption DEF SendRemote, SendTo, IInv, TypeOK,
           memory, readerVars
  <2> QED BY Zenon, <2>1, RingAssumption DEF SendRemote, IInv, TypeOK, memory,
           readerVars
<1>2. Distances'
  BY Zenon DEF SendRemote, SendTo, Distances, IInv, memory, readerVars
<1>3. ChunkContents'
  BY Zenon DEF SendRemote, SendTo, ChunkContents, Newest, Filling, IInv, memory,
     readerVars
<1>4. WriterPlace'
  BY Zenon DEF SendRemote, SendTo, WriterPlace, Filling
<1>5. ReaderPlace'
  BY Zenon DEF SendRemote, SendTo, ReaderPlace, IInv, memory, readerVars
<1>6. LocalDelivery'
  <2>1. \A r \in Local : inbox'[r] = inbox[r]
    BY Zenon, RingAssumption DEF SendRemote, SendTo, Readers, memory, readerVars
  <2>2. Overflowed' = Overflowed
    BY Zenon DEF SendRemote, Overflowed
  <2>3. /\ last' = last /\ taken' = taken /\ desynced' = desynced
        /\ reader_at' = reader_at
    BY Zenon DEF SendRemote, readerVars
  <2>4. LocalDelivery
    BY Zenon DEF IInv, readerVars
  <2> QED BY SMTT(30), <2>1, <2>2, <2>3, <2>4 DEF LocalDelivery, InSocket
<1>7. RemoteDelivery'
  <2> SUFFICES ASSUME NEW r \in Remote
               PROVE  /\ Len(inbox'[r]) = RemoteSent' - last'[r]
                      /\ \A k \in 1 .. Len(inbox'[r]) : inbox'[r][k] = last'[r] + k
    BY Zenon DEF RemoteDelivery
  <2>1. sent \in Messages /\ sent \in Nat
    BY SMTT(30), RingAssumption DEF SendRemote, WriterPlace, Messages, IInv, TypeOK,
       memory, readerVars
  <2>2. inbox[r] \in Seq(Messages) /\ inbox'[r] = Append(inbox[r], sent)
    BY Zenon, RingAssumption DEF SendRemote, SendTo, Readers, IInv, TypeOK, memory,
       readerVars
  <2>3. /\ Len(inbox[r]) \in Nat /\ Len(inbox'[r]) = Len(inbox[r]) + 1
        /\ \A k \in 1 .. Len(inbox[r]) : inbox'[r][k] = inbox[r][k]
        /\ inbox'[r][Len(inbox[r]) + 1] = sent
    BY SMTT(30), <2>2, AppendFact
  <2>4. RemoteSent = sent - 1 /\ RemoteSent' = sent /\ last' = last
    BY Zenon DEF SendRemote, RemoteSent
  <2>5. last[r] \in Nat
    BY SMTT(30), RingAssumption DEF Readers, IInv, TypeOK, memory, readerVars
  <2>6. /\ Len(inbox[r]) = sent - 1 - last[r]
        /\ \A k \in 1 .. Len(inbox[r]) : inbox[r][k] = last[r] + k
    BY Zenon, <2>4 DEF RemoteDelivery, IInv, memory, readerVars
  <2>7. \A k \in 1 .. Len(inbox'[r]) :
          k \in 1 .. Len(inbox[r]) \/ k = Len(inbox[r]) + 1
    <3>1. Len(inbox[r]) \in Nat /\ Len(inbox'[r]) = Len(inbox[r]) + 1
      BY Zenon, <2>3
    <3> QED BY SMTT(30), <3>1
  <2>8. \A k \in 1 .. Len(inbox'[r]) : inbox'[r][k] = last[r] + k
    <3>1. sent = last[r] + (Len(inbox[r]) + 1)
      BY SMTT(30), <2>1, <2>5, <2>6
    <3>2. \A k \in 1 .. Len(inbox[r]) : inbox'[r][k] = last[r] + k
      BY Zenon, <2>3, <2>6
    <3> QED BY SMTT(30), <2>3, <3>1, <3>2
  <2>9. Len(inbox'[r]) = sent - last[r]
    BY SMTT(30), <2>1, <2>3, <2>5, <2>6
  <2> QED BY Zenon, <2>4, <2>8, <2>9
<1> QED BY Zenon, <1>1, <1>2, <1>3, <1>4, <1>5, <1>6, <1>7 DEF IInv, readerVars

-----------------------------------------------------------------------------
(* dequeue() and its timeouts.                                             *)

\* Dequeue keeps the invariant.
LEMMA DequeueInv ==
  ASSUME NEW p \in Local, IInv, Dequeue(p)
  PROVE  IInv'
<1>1. TypeOK'
  BY Zenon, RingAssumption DEF Dequeue, Goto, IInv, TypeOK, memory, writerVars
<1>2. Distances'
  BY Zenon DEF Dequeue, Goto, Distances, IInv, memory, writerVars
<1>3. ChunkContents'
  BY Zenon DEF Dequeue, Goto, ChunkContents, Newest, Filling, IInv, memory, writerVars
<1>4. WriterPlace'
  BY Zenon DEF Dequeue, Goto, WriterPlace, Filling, Local, IInv, memory, writerVars
<1>5. ReaderPlace'
  BY SMTT(30) DEF Dequeue, Goto, ReaderPlace, IInv, memory, writerVars
<1>6. LocalDelivery'
  BY SMTT(30), LocalDeliveryFrame DEF Dequeue, Goto, IInv, memory, writerVars
<1>7. RemoteDelivery'
  BY Zenon DEF Dequeue, RemoteDelivery, RemoteSent, Readers, IInv, memory, writerVars
<1> QED BY Zenon, <1>1, <1>2, <1>3, <1>4, <1>5, <1>6, <1>7 DEF IInv, writerVars

\* LoadReadFlag keeps the invariant.
LEMMA LoadReadFlagInv ==
  ASSUME NEW p \in Local, IInv, LoadReadFlag(p)
  PROVE  IInv'
<1>1. TypeOK'
  BY SMTT(30), RingAssumption DEF LoadReadFlag, Goto, IInv, TypeOK, memory, writerVars
<1>2. Distances'
  BY Zenon DEF LoadReadFlag, Goto, Distances, IInv, memory, writerVars
<1>3. ChunkContents'
  BY Zenon DEF LoadReadFlag, Goto, ChunkContents, Newest, Filling, IInv, memory,
     writerVars
<1>4. WriterPlace'
  BY Zenon DEF LoadReadFlag, WriterPlace, Filling, Local, IInv, memory, writerVars
<1>5. ReaderPlace'
  BY SMTT(30), RingAssumption DEF LoadReadFlag, Goto, ReaderPlace, IInv, TypeOK,
     memory, writerVars
<1>6. LocalDelivery'
  BY SMTT(30), LocalDeliveryFrame DEF LoadReadFlag, Goto, IInv, memory, writerVars
<1>7. RemoteDelivery'
  BY Zenon DEF LoadReadFlag, RemoteDelivery, RemoteSent, Readers, IInv, memory,
     writerVars
<1> QED BY Zenon, <1>1, <1>2, <1>3, <1>4, <1>5, <1>6, <1>7 DEF IInv, writerVars

\* LoadWrittenFlag keeps the invariant.
LEMMA LoadWrittenFlagInv ==
  ASSUME NEW p \in Local, IInv, LoadWrittenFlag(p)
  PROVE  IInv'
<1>1. TypeOK'
  BY ZenonT(40), RingAssumption DEF LoadWrittenFlag, Goto, IInv, TypeOK, memory,
     writerVars
<1>2. Distances'
  BY Zenon DEF LoadWrittenFlag, Goto, Distances, IInv, memory, writerVars
<1>3. ChunkContents'
  BY Zenon DEF LoadWrittenFlag, Goto, ChunkContents, Newest, Filling, IInv, memory,
     writerVars
<1>4. WriterPlace'
  BY Zenon DEF LoadWrittenFlag, WriterPlace, Filling, Local, IInv, memory, writerVars
<1>5. ReaderPlace'
  <2>1. (written[reader_idx[p]] /\ ~read_flag[p]) =>
          /\ ~read[reader_idx[p]][p]
          /\ data[reader_idx[p]] = taken[p] + 1
    BY Zenon, ReadyChunk DEF LoadWrittenFlag, ReaderPlace, IInv, memory, writerVars
  <2> QED BY SMTT(30), <2>1, RingAssumption DEF LoadWrittenFlag, Goto, ReaderPlace,
           IInv, TypeOK, memory, writerVars
<1>6. LocalDelivery'
  BY SMTT(30), LocalDeliveryFrame, RingAssumption DEF LoadWrittenFlag, Goto, IInv,
     TypeOK, memory, writerVars
<1>7. RemoteDelivery'
  BY Zenon DEF LoadWrittenFlag, RemoteDelivery, RemoteSent, Readers, IInv, memory,
     writerVars
<1> QED BY Zenon, <1>1, <1>2, <1>3, <1>4, <1>5, <1>6, <1>7 DEF IInv, writerVars

\* ReadData keeps the invariant.
LEMMA ReadDataInv ==
  ASSUME NEW p \in Local, IInv, ReadData(p)
  PROVE  IInv'
<1>1. TypeOK'
  BY Zenon, RingAssumption DEF ReadData, Goto, IInv, TypeOK, memory, writerVars
<1>2. Distances'
  BY Zenon DEF ReadData, Goto, Distances, IInv, memory, writerVars
<1>3. ChunkContents'
  BY Zenon DEF ReadData, Goto, ChunkContents, Newest, Filling, IInv, memory,
     writerVars
<1>4. WriterPlace'
  BY Zenon DEF ReadData, WriterPlace, Filling, Local, IInv, memory, writerVars
<1>5. ReaderPlace'
  BY Zenon, RingAssumption DEF ReadData, Goto, ReaderPlace, IInv, TypeOK, memory,
     writerVars
<1>6. LocalDelivery'
  BY SMTT(30), LocalDeliveryFrame DEF ReadData, Goto, IInv, memory, writerVars
<1>7. RemoteDelivery'
  BY Zenon DEF ReadData, RemoteDelivery, RemoteSent, Readers, IInv, memory, writerVars
<1> QED BY Zenon, <1>1, <1>2, <1>3, <1>4, <1>5, <1>6, <1>7 DEF IInv, writerVars

\* MarkRead keeps the invariant.
LEMMA MarkReadInv ==
  ASSUME NEW p \in Local, IInv, MarkRead(p)
  PROVE  IInv'
<1>1. TypeOK'
  <2>1. taken[p] < sent /\ NextIdx(reader_idx[p]) \in Chunks
    BY Zenon, ReadyChunk, NextIdxFact, RingAssumption DEF MarkRead, ReaderPlace, IInv,
       TypeOK, memory, writerVars
  <2>2. read' \in [Chunks -> [Local -> BOOLEAN]]
    BY Zenon, RingAssumption DEF MarkRead, IInv, TypeOK, memory, writerVars
  <2>3. last' \in [Readers -> 0 .. MaxMessages]
    BY Zenon, RingAssumption DEF MarkRead, Readers, IInv, TypeOK, memory, writerVars
  <2>4. taken' \in [Local -> 0 .. MaxMessages]
    BY SMTT(30), <2>1, RingAssumption DEF MarkRead, IInv, TypeOK, memory, writerVars
  <2>5. reader_idx' \in [Local -> Chunks]
    BY Zenon, <2>1, RingAssumption DEF MarkRead, IInv, TypeOK, memory, writerVars
  <2>6. reader_at' \in [Local -> {"idle", "flag", "written", "read", "mark", "recv"}]
    BY ZenonT(40), RingAssumption DEF MarkRead, Goto, IInv, TypeOK, memory, writerVars
  <2> QED BY Zenon, <2>2, <2>3, <2>4, <2>5, <2>6, RingAssumption DEF MarkRead, IInv,
           TypeOK, memory, writerVars
<1>2. Distances'
  <2> SUFFICES ASSUME NEW r \in Local
               PROVE  LET behind == sent' - taken'[r]
                          ahead == writer_idx' - reader_idx'[r]
                      IN  /\ behind \in 0 .. MaxChunks
                          /\ behind = ahead \/ behind = ahead + MaxChunks
    BY Zenon DEF Distances
  <2>1. taken[p] < sent
    BY Zenon, ReadyChunk DEF MarkRead, ReaderPlace, IInv, memory, writerVars
  <2>2. NextIdx(reader_idx[p]) =
          IF reader_idx[p] + 1 = MaxChunks THEN 0 ELSE reader_idx[p] + 1
    BY Zenon, NextIdxFact, RingAssumption DEF IInv, TypeOK, memory, writerVars
  <2>3. /\ sent - taken[r] \in 0 .. MaxChunks
        /\ \/ sent - taken[r] = writer_idx - reader_idx[r]
           \/ sent - taken[r] = writer_idx - reader_idx[r] + MaxChunks
    BY Zenon DEF Distances, IInv, memory, writerVars
  <2>4. /\ taken[r] \in Nat /\ sent \in Nat /\ writer_idx \in 0 .. MaxChunks - 1
        /\ reader_idx[r] \in 0 .. MaxChunks - 1
    BY SMTT(30), RingAssumption DEF Chunks, IInv, TypeOK, memory, writerVars
  <2>5. sent' = sent /\ writer_idx' = writer_idx
    BY Zenon DEF MarkRead, writerVars
  <2>6. /\ taken'[r] = IF r = p THEN taken[p] + 1 ELSE taken[r]
        /\ reader_idx'[r] = IF r = p THEN NextIdx(reader_idx[p]) ELSE reader_idx[r]
    BY Zenon, RingAssumption DEF MarkRead, IInv, TypeOK, memory, writerVars
  <2>7. CASE r # p
    BY Zenon, <2>3, <2>5, <2>6, <2>7
  <2>8. CASE r = p
    BY SMTT(30), <2>1, <2>2, <2>3, <2>4, <2>5, <2>6, <2>8, RingAssumption
  <2> QED BY Zenon, <2>7, <2>8
<1>3. ChunkContents'
  <2>1. Newest(reader_idx[p]) = taken[p] + 1
    BY Zenon, ReadyChunk DEF MarkRead, ReaderPlace, IInv, memory, writerVars
  <2>2. \A c \in Chunks : Newest(c)' = Newest(c) /\ Filling(c)' = Filling(c)
    BY Zenon DEF MarkRead, Newest, Filling, memory, writerVars
  <2>3. \A c \in Chunks : Newest(c) \in Int
    BY SMTT(30), RingAssumption DEF Newest, Chunks, IInv, TypeOK, memory, writerVars
  <2>4. \A c \in Chunks :
          written[c] /\ c # reader_idx[p] =>
            (taken[p] >= Newest(c) <=> taken[p] + 1 >= Newest(c))
    <3> SUFFICES ASSUME NEW c \in Chunks, c # reader_idx[p]
                 PROVE  Newest(c) # taken[p] + 1
      BY SMTT(30), <2>3, RingAssumption DEF IInv, TypeOK, memory, writerVars
    <3>1. c \in Int /\ reader_idx[p] \in Int /\ 0 <= c /\ c < MaxChunks
          /\ 0 <= reader_idx[p] /\ reader_idx[p] < MaxChunks
          /\ writer_idx \in Int /\ sent \in Int /\ MaxChunks \in Int
      BY SMTT(30), RingAssumption DEF Chunks, IInv, TypeOK, memory, writerVars
    <3> QED BY SMTT(30), <2>1, <3>1 DEF Newest
  <2>5. \A c \in Chunks, r \in Local :
          read'[c][r] = IF c = reader_idx[p] /\ r = p THEN TRUE ELSE read[c][r]
    BY Zenon, RingAssumption DEF MarkRead, IInv, TypeOK, memory, writerVars
  <2>6. \A r \in Local : taken'[r] = IF r = p THEN taken[p] + 1 ELSE taken[r]
    BY Zenon, RingAssumption DEF MarkRead, IInv, TypeOK, memory, writerVars
  <2>7. UNCHANGED <<written, data>>
    BY Zenon DEF MarkRead
  <2>8. \A c \in Chunks, r \in Local :
          written[c] => (read'[c][r] <=> taken'[r] >= Newest(c))
    <3> SUFFICES ASSUME NEW c \in Chunks, NEW r \in Local, written[c]
                 PROVE  read'[c][r] <=> taken'[r] >= Newest(c)
      BY Zenon
    <3>1. CASE r # p
      BY ZenonT(40), <2>5, <2>6, <3>1 DEF ChunkContents, IInv, memory, writerVars
    <3>2. CASE r = p /\ c # reader_idx[p]
      <4>1. read'[c][r] = read[c][r] /\ taken'[r] = taken[p] + 1
        BY Zenon, <2>5, <2>6, <3>2
      <4>2. read[c][p] <=> taken[p] >= Newest(c)
        BY Zenon DEF ChunkContents, IInv, memory, writerVars
      <4> QED BY Zenon, <2>4, <3>2, <4>1, <4>2
    <3>3. CASE r = p /\ c = reader_idx[p]
      <4>1. read'[c][r] /\ taken'[r] = Newest(c)
        BY ZenonT(40), <2>1, <2>5, <2>6, <3>3
      <4> QED BY SMTT(30), <2>3, <4>1
    <3> QED BY Zenon, <3>1, <3>2, <3>3
  <2> QED BY Zenon, <2>2, <2>7, <2>8 DEF ChunkContents, IInv, memory, writerVars
<1>4. WriterPlace'
  <2>1. ~Filling(reader_idx[p]) /\ Newest(reader_idx[p]) = taken[p] + 1
    BY Zenon, ReadyChunk DEF MarkRead, ReaderPlace, IInv, memory, writerVars
  <2>2. \A c \in Chunks, r \in Local :
          /\ read[c][r] => read'[c][r]
          /\ c # reader_idx[p] => read'[c][r] = read[c][r]
    BY ZenonT(40), RingAssumption DEF MarkRead, IInv, TypeOK, memory, writerVars
  <2>3. \A r \in Local : taken'[r] \in Nat /\ taken'[r] >= taken[r]
    BY SMTT(30), RingAssumption DEF MarkRead, IInv, TypeOK, memory, writerVars
  <2>4. writer_at = "clear" => writer_idx # reader_idx[p]
    BY Zenon, <2>1 DEF Filling
  <2>5. \A r \in Local : sent - taken[r] < MaxChunks => sent - taken'[r] < MaxChunks
    BY SMTT(30), <2>3, RingAssumption DEF IInv, TypeOK, memory, writerVars
  <2> QED BY SMTT(30), <2>2, <2>4, <2>5 DEF MarkRead, WriterPlace, Filling, IInv,
           memory, writerVars
<1>5. ReaderPlace'
  BY SMTT(30), NextIdxFact, RingAssumption DEF MarkRead, Goto, ReaderPlace, IInv,
     TypeOK, memory, writerVars
<1>6. LocalDelivery'
  <2>1. obj[p] = taken[p] + 1
    BY Zenon DEF MarkRead, ReaderPlace, IInv, memory, writerVars
  <2>2. p \in Readers /\ \A r \in Local : last[r] \in Nat /\ taken[r] \in Nat
    BY SMTT(30), RingAssumption DEF Readers, IInv, TypeOK, memory, writerVars
  <2>3. UNCHANGED <<inbox, desynced, sent, writer_at>> /\ Overflowed' = Overflowed
    BY Zenon DEF MarkRead, Overflowed, memory, writerVars
  <2>4. \A r \in Local : r # p =>
          last'[r] = last[r] /\ taken'[r] = taken[r] /\ reader_at'[r] = reader_at[r]
    <3> SUFFICES ASSUME NEW r \in Local, r # p
                 PROVE  last'[r] = last[r] /\ taken'[r] = taken[r]
                          /\ reader_at'[r] = reader_at[r]
      BY Zenon
    <3>1. taken'[r] = taken[r]
      BY SMTT(30) DEF MarkRead
    <3>2. reader_at'[r] = reader_at[r]
      BY Zenon, RingAssumption DEF MarkRead, Goto, IInv, TypeOK, memory, writerVars
    <3>3. last'[r] = last[r]
      BY Zenon, <2>2, RingAssumption DEF MarkRead, Readers, IInv, TypeOK, memory,
         writerVars
    <3> QED BY Zenon, <3>1, <3>2, <3>3
  <2>5. taken'[p] = taken[p] + 1 /\ reader_at[p] = "mark"
    BY Zenon, RingAssumption DEF MarkRead, IInv, TypeOK, memory, writerVars
  <2>6. CASE obj[p] \in Large
    <3>1. last' = last /\ reader_at'[p] = "recv"
      BY Zenon, <2>6, RingAssumption DEF MarkRead, Goto, IInv, TypeOK, memory,
         writerVars
    <3> QED BY SMTT(30), <2>2, <2>3, <2>4, <2>5, <3>1 DEF LocalDelivery, InSocket,
           IInv, memory, writerVars
  <2>7. CASE obj[p] \notin Large
    <3>1. last'[p] = taken[p] + 1 /\ reader_at'[p] = "idle"
      BY Zenon, <2>1, <2>2, <2>7, RingAssumption DEF MarkRead, Goto, IInv, TypeOK,
         memory, writerVars
    <3>2. \A m \in Large : taken[p] < m <=> taken[p] + 1 < m
      BY SMTT(30), <2>1, <2>2, <2>7, RingAssumption DEF Messages, writerVars
    <3>3. taken[p] + 1 <= Overflowed
      <4>1. taken[p] + 1 <= sent
        BY SMTT(30), <2>2, ReadyChunk, RingAssumption DEF MarkRead, ReaderPlace, IInv,
           TypeOK, memory, writerVars
      <4>2. writer_at = "overflow" => taken[p] + 1 # sent
        BY Zenon, <2>1, <2>7 DEF WriterPlace, IInv, memory, writerVars
      <4> QED BY SMTT(30), <2>2, <4>1, <4>2, RingAssumption DEF Overflowed, IInv,
           TypeOK, memory, writerVars
    <3> QED BY SMTT(30), <2>2, <2>3, <2>4, <2>5, <3>1, <3>2, <3>3 DEF LocalDelivery,
           InSocket, IInv, memory, writerVars
  <2> QED BY Zenon, <2>6, <2>7
<1>7. RemoteDelivery'
  BY ZenonT(40), NextIdxFact, RingAssumption DEF MarkRead, RemoteDelivery, RemoteSent,
     Readers, IInv, TypeOK, memory, writerVars
<1> QED BY Zenon, <1>1, <1>2, <1>3, <1>4, <1>5, <1>6, <1>7 DEF IInv, writerVars

\* Recv keeps the invariant.
LEMMA RecvInv ==
  ASSUME NEW p \in Local, IInv, Recv(p)
  PROVE  IInv'
<1>1. TypeOK'
  <2>1. inbox[p] \in Seq(Messages) /\ inbox[p] # <<>> /\ p \in Readers
    BY Zenon, RingAssumption DEF Recv, TakeFromSocket, Readers, IInv, TypeOK, memory,
       writerVars
  <2>2. Tail(inbox[p]) \in Seq(Messages) /\ Head(inbox[p]) \in 0 .. MaxMessages
    BY SMTT(30), <2>1, TailFact, RingAssumption DEF Messages, IInv, TypeOK, memory,
       writerVars
  <2>3. inbox' \in [Readers -> Seq(Messages)] /\ last' \in [Readers -> 0 .. MaxMessages]
    BY ZenonT(40), <2>2, RingAssumption DEF Recv, TakeFromSocket, IInv, TypeOK,
       memory, writerVars
  <2> QED BY Zenon, <2>3, RingAssumption DEF Recv, Goto, IInv, TypeOK, memory,
           writerVars
<1>2. Distances'
  BY Zenon DEF Recv, Goto, TakeFromSocket, Distances, IInv, memory, writerVars
<1>3. ChunkContents'
  BY Zenon DEF Recv, Goto, TakeFromSocket, ChunkContents, Newest, Filling, IInv,
     memory, writerVars
<1>4. WriterPlace'
  BY Zenon DEF Recv, TakeFromSocket, WriterPlace, Filling, Local, IInv, memory,
     writerVars
<1>5. ReaderPlace'
  BY SMTT(30) DEF Recv, Goto, TakeFromSocket, ReaderPlace, IInv, memory, writerVars
<1>6. LocalDelivery'
  <2> SUFFICES ASSUME NEW r \in Local
               PROVE  /\ \A k \in 1 .. Len(inbox'[r]) : inbox'[r][k] <= Overflowed'
                      /\ r \notin desynced' =>
                           /\ last'[r] = IF reader_at'[r] = "recv" THEN taken'[r] - 1
                                                              ELSE taken'[r]
                           /\ last'[r] <= Overflowed'
                           /\ Increasing(inbox'[r])
                           /\ \A m \in Messages :
                                InSocket(r, m)' <=>
                                  (m \in Large /\ last'[r] < m /\ m <= Overflowed')
    BY Zenon DEF LocalDelivery
  <2>1. Overflowed' = Overflowed
    BY Zenon DEF Recv, Overflowed, memory, writerVars
  <2>2. CASE r # p
    <3>1. /\ inbox'[r] = inbox[r] /\ last'[r] = last[r] /\ taken'[r] = taken[r]
          /\ reader_at'[r] = reader_at[r] /\ desynced' = desynced
      BY SMTT(30), <2>2 DEF Recv, TakeFromSocket, Goto
    <3>2. LocalDelivery
      BY Zenon DEF IInv, writerVars
    <3>3. \A m \in Messages : InSocket(r, m)' <=> InSocket(r, m)
      BY Zenon, <3>1 DEF InSocket
    <3>4. /\ \A k \in 1 .. Len(inbox[r]) : inbox[r][k] <= Overflowed
          /\ r \notin desynced =>
               /\ last[r] = IF reader_at[r] = "recv" THEN taken[r] - 1 ELSE taken[r]
               /\ last[r] <= Overflowed
               /\ Increasing(inbox[r])
               /\ \A m \in Messages :
                    InSocket(r, m) <=> (m \in Large /\ last[r] < m /\ m <= Overflowed)
      BY Zenon, <3>2 DEF LocalDelivery
    <3> QED BY Zenon, <2>1, <3>1, <3>3, <3>4
  <2>3. CASE r = p
    <3>1. inbox[r] \in Seq(Messages) /\ inbox[r] # <<>> /\ reader_at[r] = "recv"
      BY Zenon, <2>3, RingAssumption DEF Recv, TakeFromSocket, Readers, IInv, TypeOK,
         memory, writerVars
    <3>2. /\ inbox'[r] = Tail(inbox[r]) /\ last'[r] = Head(inbox[r]) /\ taken' = taken
          /\ reader_at'[r] = "idle" /\ desynced' = desynced
      BY Zenon, <2>3, RingAssumption DEF Recv, TakeFromSocket, Goto, Readers, IInv,
         TypeOK, memory, writerVars
    <3>3. /\ Head(inbox[r]) = inbox[r][1] /\ inbox[r][1] \in Messages
          /\ Len(inbox[r]) \in Nat /\ Len(inbox[r]) > 0
          /\ Len(inbox'[r]) = Len(inbox[r]) - 1
          /\ \A k \in 1 .. Len(inbox[r]) - 1 : inbox'[r][k] = inbox[r][k + 1]
      BY Zenon, <3>1, <3>2, TailFact
    <3>4. \A k \in 1 .. Len(inbox[r]) : inbox[r][k] \in Nat
      <4>1. \A k \in 1 .. Len(inbox[r]) : inbox[r][k] \in Messages
        BY SMTT(30), <3>1
      <4>2. Messages \subseteq Nat
        BY SMTT(30) DEF Messages
      <4> QED BY Zenon, <4>1, <4>2
    <3>5. r \notin desynced => Head(inbox[r]) = taken[r]
      BY Zenon, <3>1, HeadOfSocket
    <3>6. taken[r] \in Nat /\ Overflowed \in Int
      BY SMTT(30), RingAssumption DEF Overflowed, IInv, TypeOK, memory, writerVars
    <3>7. \A k \in 1 .. Len(inbox[r]) : inbox[r][k] <= Overflowed
      BY Zenon DEF IInv, LocalDelivery
    <3>8. \A k \in 1 .. Len(inbox'[r]) : inbox'[r][k] <= Overflowed
      BY SMTT(30), <3>3, <3>7
    <3>9. ASSUME r \notin desynced
          PROVE  /\ Increasing(inbox[r])
                 /\ last[r] = taken[r] - 1
                 /\ \A m \in Messages :
                      InSocket(r, m) <=> (m \in Large /\ last[r] < m /\ m <= Overflowed)
      BY Zenon, <3>1, <3>9 DEF IInv, LocalDelivery
    <3>10. ASSUME r \notin desynced
           PROVE  Increasing(inbox'[r])
      BY SMTT(30), <3>3, <3>4, <3>9, <3>10 DEF Increasing
    <3>11. ASSUME r \notin desynced, NEW m \in Messages
           PROVE  InSocket(r, m)' <=> (InSocket(r, m) /\ m # taken[r])
      <4>1. \A k \in 1 .. Len(inbox'[r]) : inbox[r][1] < inbox'[r][k]
        BY SMTT(30), <3>3, <3>9, <3>11 DEF Increasing
      <4>2. InSocket(r, m)' => InSocket(r, m) /\ m # taken[r]
        BY SMTT(30), <3>2, <3>3, <3>4, <3>5, <3>11, <4>1 DEF InSocket
      <4>3. ASSUME NEW k \in 1 .. Len(inbox[r]), inbox[r][k] = m, m # taken[r]
            PROVE  InSocket(r, m)'
        <5>1. k - 1 \in 1 .. Len(inbox'[r]) /\ inbox'[r][k - 1] = inbox[r][k]
          BY SMTT(30), <3>3, <3>5, <3>11, <4>3
        <5> QED BY Zenon, <4>3, <5>1 DEF InSocket
      <4> QED BY ZenonT(40), <4>2, <4>3 DEF InSocket
    <3>12. ASSUME r \notin desynced, NEW m \in Messages
           PROVE  InSocket(r, m)' <=> (m \in Large /\ taken[r] < m /\ m <= Overflowed)
      BY SMTT(30), <3>6, <3>9, <3>11, <3>12 DEF Messages
    <3>13. ASSUME r \notin desynced'
           PROVE  /\ last'[r] = IF reader_at'[r] = "recv" THEN taken'[r] - 1 ELSE taken'[r]
                  /\ last'[r] <= Overflowed'
                  /\ Increasing(inbox'[r])
                  /\ \A m \in Messages :
                       InSocket(r, m)' <=>
                         (m \in Large /\ last'[r] < m /\ m <= Overflowed')
      <4>1. r \notin desynced
        BY Zenon, <3>2, <3>13
      <4>2. last'[r] = taken[r] /\ taken'[r] = taken[r] /\ reader_at'[r] # "recv"
        BY Zenon, <3>2, <3>5, <4>1
      <4>3. last'[r] <= Overflowed'
        BY SMTT(30), <2>1, <3>2, <3>3, <3>7
      <4>4. Increasing(inbox'[r])
        BY Zenon, <3>10, <4>1
      <4>5. \A m \in Messages :
              InSocket(r, m)' <=> (m \in Large /\ last'[r] < m /\ m <= Overflowed')
        BY Zenon, <2>1, <3>12, <4>1, <4>2
      <4> QED BY Zenon, <4>2, <4>3, <4>4, <4>5
    <3> QED BY Zenon, <2>1, <3>8, <3>13
  <2> QED BY ZenonT(40), <2>2, <2>3
<1>7. RemoteDelivery'
  BY SMTT(30), RingAssumption DEF Recv, TakeFromSocket, RemoteDelivery, RemoteSent,
     Readers, IInv, memory, writerVars
<1> QED BY Zenon, <1>1, <1>2, <1>3, <1>4, <1>5, <1>6, <1>7 DEF IInv, writerVars

\* RecvTimeout keeps the invariant.
LEMMA RecvTimeoutInv ==
  ASSUME NEW p \in Local, IInv, RecvTimeout(p)
  PROVE  IInv'
<1>1. TypeOK'
  BY Zenon, RingAssumption DEF RecvTimeout, Goto, IInv, TypeOK, memory, writerVars
<1>2. Distances'
  BY Zenon DEF RecvTimeout, Goto, Distances, IInv, memory, writerVars
<1>3. ChunkContents'
  BY ZenonT(40) DEF RecvTimeout, Goto, ChunkContents, Newest, Filling, IInv, memory,
     writerVars
<1>4. WriterPlace'
  BY Zenon DEF RecvTimeout, WriterPlace, Filling, Local, IInv, memory, writerVars
<1>5. ReaderPlace'
  BY SMTT(30) DEF RecvTimeout, Goto, ReaderPlace, IInv, memory, writerVars
<1>6. LocalDelivery'
  BY SMTT(30) DEF RecvTimeout, Goto, LocalDelivery, Increasing, InSocket, Overflowed,
     ReaderPlace, IInv, memory, writerVars
<1>7. RemoteDelivery'
  BY Zenon DEF RecvTimeout, RemoteDelivery, RemoteSent, Readers, IInv, memory,
     writerVars
<1> QED BY Zenon, <1>1, <1>2, <1>3, <1>4, <1>5, <1>6, <1>7 DEF IInv, writerVars

\* RecvRemote keeps the invariant.
LEMMA RecvRemoteInv ==
  ASSUME NEW p \in Remote, IInv, RecvRemote(p)
  PROVE  IInv'
<1>1. TypeOK'
  <2>1. inbox[p] \in Seq(Messages) /\ inbox[p] # <<>> /\ p \in Readers
    BY Zenon, RingAssumption DEF RecvRemote, TakeFromSocket, Readers, IInv, TypeOK,
       memory, writerVars
  <2>2. Tail(inbox[p]) \in Seq(Messages) /\ Head(inbox[p]) \in 0 .. MaxMessages
    BY SMTT(30), <2>1, TailFact, RingAssumption DEF Messages, IInv, TypeOK, memory,
       writerVars
  <2>3. inbox' \in [Readers -> Seq(Messages)] /\ last' \in [Readers -> 0 .. MaxMessages]
    BY Zenon, <2>2, RingAssumption DEF RecvRemote, TakeFromSocket, IInv, TypeOK,
       memory, writerVars
  <2> QED BY Zenon, <2>3, RingAssumption DEF RecvRemote, readerVars, IInv, TypeOK,
           memory, writerVars
<1>2. Distances'
  BY Zenon DEF RecvRemote, TakeFromSocket, readerVars, Distances, IInv, memory,
     writerVars
<1>3. ChunkContents'
  BY Zenon DEF RecvRemote, TakeFromSocket, readerVars, ChunkContents, Newest, Filling,
     IInv, memory, writerVars
<1>4. WriterPlace'
  BY Zenon DEF RecvRemote, TakeFromSocket, readerVars, WriterPlace, Filling, Local,
     IInv, memory, writerVars
<1>5. ReaderPlace'
  BY Zenon DEF RecvRemote, TakeFromSocket, readerVars, ReaderPlace, IInv, memory,
     writerVars
<1>6. LocalDelivery'
  BY SMTT(30), RingAssumption DEF RecvRemote, TakeFromSocket, readerVars,
     LocalDelivery, Increasing, InSocket, Overflowed, IInv, memory, writerVars
<1>7. RemoteDelivery'
  <2> SUFFICES ASSUME NEW r \in Remote
               PROVE  /\ Len(inbox'[r]) = RemoteSent' - last'[r]
                      /\ \A k \in 1 .. Len(inbox'[r]) : inbox'[r][k] = last'[r] + k
    BY Zenon DEF RemoteDelivery
  <2>1. RemoteSent' = RemoteSent
    BY Zenon DEF RecvRemote, RemoteSent, memory, writerVars
  <2>2. CASE r # p
    BY SMTT(30), <2>1, <2>2 DEF RecvRemote, TakeFromSocket, RemoteDelivery, IInv,
       memory, writerVars
  <2>3. CASE r = p
    <3>1. inbox[r] \in Seq(Messages) /\ inbox[r] # <<>>
      BY Zenon, <2>3, RingAssumption DEF RecvRemote, TakeFromSocket, Readers, IInv,
         TypeOK, memory, writerVars
    <3>2. inbox'[r] = Tail(inbox[r]) /\ last'[r] = Head(inbox[r])
      BY Zenon, <2>3, RingAssumption DEF RecvRemote, TakeFromSocket, Readers, IInv,
         TypeOK, memory, writerVars
    <3>3. /\ Head(inbox[r]) = inbox[r][1]
          /\ Len(inbox[r]) \in Nat /\ Len(inbox[r]) > 0
          /\ Len(inbox'[r]) = Len(inbox[r]) - 1
          /\ \A k \in 1 .. Len(inbox[r]) - 1 : inbox'[r][k] = inbox[r][k + 1]
      BY Zenon, <3>1, <3>2, TailFact
    <3>4. last[r] \in Nat /\ RemoteSent \in Int
      BY SMTT(30), RingAssumption DEF Readers, RemoteSent, IInv, TypeOK, memory,
         writerVars
    <3>5. /\ Len(inbox[r]) = RemoteSent - last[r]
          /\ \A k \in 1 .. Len(inbox[r]) : inbox[r][k] = last[r] + k
      BY Zenon DEF RemoteDelivery, IInv, memory, writerVars
    <3>6. last'[r] = last[r] + 1
      <4>1. 1 \in 1 .. Len(inbox[r])
        BY SMTT(30), <3>3
      <4>2. inbox[r][1] = last[r] + 1
        BY Zenon, <3>5, <4>1
      <4> QED BY Zenon, <3>2, <3>3, <4>2
    <3>7. \A k \in 1 .. Len(inbox[r]) - 1 : k + 1 \in 1 .. Len(inbox[r])
      BY SMTT(30)
    <3>8. \A k \in 1 .. Len(inbox'[r]) : inbox'[r][k] = last'[r] + k
      <4> SUFFICES ASSUME NEW k \in 1 .. Len(inbox'[r])
                   PROVE  inbox'[r][k] = last'[r] + k
        BY Zenon
      <4>1. k \in 1 .. Len(inbox[r]) - 1
        BY Zenon, <3>3
      <4>2. inbox'[r][k] = inbox[r][k + 1]
        BY Zenon, <3>3
      <4>3. inbox[r][k + 1] = last[r] + (k + 1)
        BY Zenon, <3>5, <3>7, <4>1
      <4> QED BY SMTT(30), <3>4, <3>6, <4>1, <4>2, <4>3
    <3>9. Len(inbox'[r]) = RemoteSent - last'[r]
      <4>1. /\ Len(inbox'[r]) = Len(inbox[r]) - 1
            /\ Len(inbox[r]) = RemoteSent - last[r]
        BY Zenon, <3>3, <3>5
      <4> QED BY SMTT(30), <3>4, <3>6, <4>1
    <3> QED BY Zenon, <2>1, <3>8, <3>9
  <2> QED BY ZenonT(40), <2>2, <2>3
<1> QED BY Zenon, <1>1, <1>2, <1>3, <1>4, <1>5, <1>6, <1>7 DEF IInv, writerVars

-----------------------------------------------------------------------------
(* The invariant, and what follows from it.                                *)

\* Every step of the writer and of the readers keeps the invariant.
LEMMA NextInv == IInv /\ [Next]_vars => IInv'
<1> SUFFICES ASSUME IInv, [Next]_vars
             PROVE  IInv'
  BY Zenon
<1>1. CASE Enqueue
  BY Zenon, <1>1, EnqueueInv
<1>2. CASE WriterStep
  BY Zenon, <1>2, CountReadFlagInv, WaitForReadersInv, MarkNotWrittenInv,
     BeginWriteInv, EndWriteInv, ClearReadFlagInv, MarkWrittenInv, SendOverflowInv,
     SendRemoteInv DEF WriterStep
<1>3. CASE \E r \in Local : Dequeue(r) \/ ReaderStep(r)
  BY Zenon, <1>3, DequeueInv, LoadReadFlagInv, LoadWrittenFlagInv, ReadDataInv,
     MarkReadInv, RecvInv, RecvTimeoutInv DEF ReaderStep
<1>4. CASE \E r \in Remote : RecvRemote(r)
  BY Zenon, <1>4, RecvRemoteInv
<1>5. CASE UNCHANGED vars
  <2>1. TypeOK'
    BY Zenon, <1>5 DEF IInv, TypeOK, vars, memory, writerVars, readerVars
  <2>2. /\ UNCHANGED <<written, read, data, writer_at, writer_idx, i, read_count, sent>>
        /\ UNCHANGED <<reader_at, reader_idx, read_flag, obj, taken>>
    BY Zenon, <1>5 DEF vars, memory, writerVars, readerVars
  <2>3. Distances' /\ ChunkContents' /\ WriterPlace' /\ ReaderPlace'
    <3>1. Distances'
      BY Zenon, <2>2 DEF IInv, Distances
    <3>2. ChunkContents'
      BY Zenon, <2>2 DEF IInv, ChunkContents, Newest, Filling
    <3>3. WriterPlace'
      BY Zenon, <2>2 DEF IInv, WriterPlace, Filling
    <3>4. ReaderPlace'
      BY Zenon, <2>2 DEF IInv, ReaderPlace
    <3> QED BY Zenon, <3>1, <3>2, <3>3, <3>4
  <2>4. LocalDelivery'
    BY Zenon, <1>5, LocalDeliveryFrame DEF IInv, vars, writerVars, readerVars
  <2>5. RemoteDelivery'
    BY Zenon, <1>5 DEF IInv, RemoteDelivery, RemoteSent, vars, memory, writerVars,
       readerVars
  <2> QED BY Zenon, <2>1, <2>3, <2>4, <2>5 DEF IInv
<1> QED BY Zenon, <1>1, <1>2, <1>3, <1>4, <1>5 DEF Next

\* For any number of readers, chunks and messages, the flags, the positions, the
\* contents of the chunks and the sockets agree in every state (acquire_write,
\* acquire_read, dequeue).
THEOREM RingInvariant == Spec => []IInv
<1>1. Init => IInv
  BY Zenon, InitInv
<1> QED BY PTL, <1>1, NextInv DEF Spec

\* acquire_read never hands out a chunk that the writer is filling or has filled
\* again, however many readers and chunks there are.
THEOREM RingNeverTears == Spec => []NoTornRead
<1>1. IInv => NoTornRead
  BY Zenon DEF IInv, ReaderPlace, NoTornRead
<1> QED BY PTL, <1>1, RingInvariant

-----------------------------------------------------------------------------
(* The ring and the sockets implement Broadcast. *)


\* A local reader releases the chunk of its next message (acquire_read).
LEMMA MarkReadRefines ==
  ASSUME IInv, NEW p \in Local, MarkRead(p)
  PROVE  BC!Next
<1>1. obj[p] = taken[p] + 1 /\ reader_at[p] = "mark" /\ taken[p] < sent
  BY Zenon, ReadyChunk DEF IInv, MarkRead, ReaderPlace
<1>2. p \in desynced \/ last[p] = taken[p]
  BY Zenon, <1>1 DEF IInv, LocalDelivery
<1>3. /\ taken' = [taken EXCEPT ![p] = @ + 1]
      /\ UNCHANGED <<sent, desynced>>
      /\ last' = [last EXCEPT ![p] = obj[p]] \/ UNCHANGED last
  BY Zenon DEF MarkRead, writerVars
<1>4. obj[p] \in 1 .. sent
  BY SMTT(30), <1>1 DEF IInv, TypeOK
<1>5. BC!Take(p)
  <2>1. CASE UNCHANGED last
    BY Zenon, <1>1, <1>2, <1>3, <2>1 DEF BC!Take
  <2>2. CASE last' = [last EXCEPT ![p] = obj[p]] /\ p \in desynced
    BY Zenon, <1>1, <1>3, <1>4, <2>2 DEF BC!Take
  <2>3. CASE last' = [last EXCEPT ![p] = obj[p]] /\ last[p] = taken[p]
    <3>1. last' = [last EXCEPT ![p] = last[p] + 1]
      BY Zenon, <1>1, <2>3
    <3> QED BY Zenon, <1>1, <1>3, <2>3, <3>1 DEF BC!Take
  <2> QED BY Zenon, <1>2, <1>3, <2>1, <2>2, <2>3
<1> QED BY Zenon, <1>5 DEF BC!Next

\* A local reader gets the rest of a large message (MessageQueue.recv).
LEMMA RecvRefines ==
  ASSUME IInv, NEW p \in Local, Recv(p)
  PROVE  BC!Next
<1>1. /\ reader_at[p] = "recv" /\ inbox[p] # <<>> /\ inbox[p] \in Seq(Messages)
  BY Zenon DEF IInv, TypeOK, Recv, TakeFromSocket, Readers
<1>2. /\ last' = [last EXCEPT ![p] = Head(inbox[p])]
      /\ UNCHANGED <<sent, taken, desynced>>
  BY Zenon DEF Recv, TakeFromSocket, writerVars
<1>3. Head(inbox[p]) \in 1 .. sent
  <2>1. /\ Head(inbox[p]) \in Messages /\ Head(inbox[p]) = inbox[p][1]
        /\ 1 \in 1 .. Len(inbox[p])
    BY SMTT(30), <1>1
  <2>2. inbox[p][1] <= Overflowed
    BY Zenon, <2>1 DEF IInv, LocalDelivery
  <2>3. sent \in Nat
    BY SMTT(30) DEF IInv, TypeOK
  <2> QED BY SMTT(30), <2>1, <2>2, <2>3 DEF Overflowed, Messages
<1>4. BC!Receive(p)
  <2>1. CASE p \in desynced
    BY Zenon, <1>2, <1>3, <2>1 DEF BC!Receive
  <2>2. CASE p \notin desynced
    <3>1. Head(inbox[p]) = taken[p]
      BY Zenon, <1>1, <2>2, HeadOfSocket
    <3>2. last[p] = taken[p] - 1 /\ taken[p] \in Nat
      BY SMTT(30), <1>1, <2>2 DEF IInv, LocalDelivery, TypeOK
    <3>3. last[p] + 1 = taken[p]
      BY SMTT(30), <3>2
    <3>4. last' = [last EXCEPT ![p] = last[p] + 1]
      BY ZenonT(40), <1>2, <3>1, <3>3
    <3> QED BY ZenonT(40), <1>2, <3>3, <3>4 DEF BC!Receive
  <2> QED BY Zenon, <2>1, <2>2
<1> QED BY Zenon, <1>4 DEF BC!Next

\* A local reader gives up on the rest of a large message.
LEMMA RecvTimeoutRefines ==
  ASSUME IInv, NEW p \in Local, RecvTimeout(p)
  PROVE  BC!Next
<1>1. p \in desynced \/ last[p] = taken[p] - 1
  BY Zenon DEF IInv, LocalDelivery, RecvTimeout
<1>2. taken[p] \in Nat
  BY SMTT(30) DEF IInv, TypeOK
<1>3. last[p] = taken[p] - 1 => last[p] + 1 = taken[p]
  BY SMTT(30), <1>2
<1>4. /\ desynced' = desynced \cup {p}
      /\ UNCHANGED <<sent, taken, last>>
  BY ZenonT(40) DEF RecvTimeout, writerVars
<1>5. BC!GiveUp(p)
  BY Zenon, <1>1, <1>3, <1>4 DEF BC!GiveUp
<1> QED BY Zenon, <1>5 DEF BC!Next

\* A remote reader gets the next message.
LEMMA RecvRemoteRefines ==
  ASSUME IInv, NEW p \in Remote, RecvRemote(p)
  PROVE  BC!Next
<1>1. p \in Readers /\ inbox[p] # <<>> /\ inbox[p] \in Seq(Messages)
  BY Zenon DEF IInv, TypeOK, RecvRemote, TakeFromSocket, Readers
<1>2. /\ last' = [last EXCEPT ![p] = Head(inbox[p])]
      /\ UNCHANGED <<sent, taken, desynced>>
  BY Zenon DEF RecvRemote, TakeFromSocket, writerVars, readerVars
<1>3. Head(inbox[p]) = inbox[p][1] /\ Len(inbox[p]) \in Nat /\ Len(inbox[p]) > 0
  BY SMTT(30), <1>1
<1>4. last[p] \in Nat /\ sent \in Nat
  BY SMTT(30), <1>1 DEF IInv, TypeOK
<1>5. /\ Len(inbox[p]) = RemoteSent - last[p]
      /\ \A k \in 1 .. Len(inbox[p]) : inbox[p][k] = last[p] + k
  BY Zenon DEF IInv, RemoteDelivery
<1>6. Head(inbox[p]) = last[p] + 1
  BY SMTT(30), <1>3, <1>5
<1>7. last[p] < sent
  BY SMTT(30), <1>3, <1>4, <1>5 DEF RemoteSent
<1>8. BC!ReceiveRemote(p)
  BY ZenonT(40), <1>2, <1>6, <1>7 DEF BC!ReceiveRemote
<1> QED BY Zenon, <1>8 DEF BC!Next

\* Every step is a step of Broadcast or leaves its variables alone.
LEMMA NextRefines == IInv /\ [Next]_vars => [BC!Next]_(BC!vars)
<1> SUFFICES ASSUME IInv, [Next]_vars
             PROVE  [BC!Next]_(BC!vars)
  BY Zenon
<1>1. CASE MarkWritten
  <2>1. \A r \in Local : sent - taken[r] < MaxChunks
    BY Zenon, <1>1 DEF IInv, WriterPlace, Filling, MarkWritten
  <2>2. BC!Publish
    BY Zenon, <1>1, <2>1 DEF MarkWritten, readerVars, BC!Publish
  <2> QED BY Zenon, <2>2 DEF BC!Next
<1>2. CASE \/ Enqueue \/ CountReadFlag \/ WaitForReaders \/ MarkNotWritten
           \/ BeginWrite \/ EndWrite \/ ClearReadFlag \/ SendOverflow \/ SendRemote
  BY Zenon, <1>2 DEF Enqueue, CountReadFlag, WaitForReaders, MarkNotWritten,
     BeginWrite, EndWrite, ClearReadFlag, SendOverflow, SendRemote, readerVars,
     BC!vars
<1>3. CASE \E r \in Local : \/ Dequeue(r) \/ LoadReadFlag(r) \/ LoadWrittenFlag(r)
                            \/ ReadData(r)
  BY Zenon, <1>3 DEF Dequeue, LoadReadFlag, LoadWrittenFlag, ReadData, writerVars,
     BC!vars
<1>4. CASE \E r \in Local : MarkRead(r) \/ Recv(r) \/ RecvTimeout(r)
  BY Zenon, <1>4, MarkReadRefines, RecvRefines, RecvTimeoutRefines
<1>5. CASE \E r \in Remote : RecvRemote(r)
  BY Zenon, <1>5, RecvRemoteRefines
<1>6. CASE UNCHANGED vars
  BY Zenon, <1>6 DEF vars, writerVars, readerVars, BC!vars
<1> QED BY Zenon, <1>1, <1>2, <1>3, <1>4, <1>5, <1>6 DEF Next, WriterStep, ReaderStep

\* For any number of readers, chunks and messages, the ring buffer with its flags
\* and the sockets keeps the promise of Broadcast: enqueue() and dequeue() of
\* MessageQueue deliver every message once, in order, to every reader that did
\* not give up on a large message.
THEOREM RingImplementsBroadcast == Spec => ImplementsBroadcast
<1>1. Init => BC!Init
  BY Zenon DEF Init, BC!Init, Readers, BC!Readers
<1> QED BY PTL, <1>1, NextRefines, RingInvariant DEF Spec, ImplementsBroadcast,
           BC!Spec

==============================================================================
