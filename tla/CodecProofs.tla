---------------------------- MODULE CodecProofs -----------------------------
(***************************************************************************)
(* The codec: Frame for any sizes, chunks, limits and timeouts, and        *)
(* BufferPool for any number of PoolBuffers and arrays, any sizes and any  *)
(* three tiers.                                                            *)
(*                                                                         *)
(* A frame arrives whole or not at all, what this codec writes it reads,   *)
(* the memory of a large frame tracks the bytes received and a stalling    *)
(* peer holds the reader no longer than one idle interval for each of its  *)
(* reads.  The first two rest on the conservation of bytes: those in       *)
(* flight are the ones the sender's Writes have handed over less the ones  *)
(* consumed.  The last counts the ReadFulls begun, which bound the ticks   *)
(* so far and the ticks left to the deadline together.                     *)
(*                                                                         *)
(* The two properties of the pool are inductive only with what links an    *)
(* array to its tier: an array that nobody has made yet is nowhere         *)
(* (Unmade), an array in a sync.Pool has the capacity of that tier         *)
(* (PooledFits), and so has one that a PoolBuffer has not put back, which  *)
(* is large enough for the size the PoolBuffer was asked for (LentFits).   *)
(*                                                                         *)
(* The last part puts the two together: where they have the same tiers,    *)
(* the room that the reader counts on is the capacity of what it is lent.  *)
(***************************************************************************)
EXTENDS Frame, BufferPool, TLAPS

----------------------------------------------------------------------------
(* The conservation of bytes *)

Ranges ==
    /\ size \in Nat /\ off \in 0 .. size /\ unsent \in Nat /\ wire \in Nat
    /\ need \in Nat /\ got \in Nat /\ held \in Nat
    /\ rleft \in 0 .. Idle /\ wleft \in 0 .. Idle
    /\ foreign \in BOOLEAN
    /\ sender \in {"call", "writing", "ok", "error"}
    /\ reader \in {"length", "body", "ok", "error"}
    /\ cause \in {"none", "deadline", "eof", "malformed"}

\* The sender has begun to write, and so was not refused.
Begun == sender \in {"writing", "ok"} \/ unsent > 0

\* Bytes that the stream has accepted from the sender.
Accepted == IF Begun THEN Prefix + off - unsent ELSE 0

SenderInv ==
    /\ sender = "call" => off = 0 /\ unsent = 0
    /\ sender = "ok" => off = size /\ unsent = 0
    /\ (sender = "error" /\ unsent = 0) => off = 0
    /\ unsent <= Prefix + off
    /\ Begun => size <= MaxFrame \/ foreign

ReaderInv ==
    /\ reader = "length" => got = 0 /\ need <= Prefix /\ wire = Accepted - (Prefix - need)
    /\ reader \in {"body", "ok"} => size \in 1 .. MaxFrame /\ wire = Accepted - (Prefix + got)
    /\ reader = "body" => got + need <= size
    /\ reader = "ok" => got = size
    /\ reader = "error" =>
         \/ cause = "deadline"
         \/ cause = "malformed" /\ (foreign \/ size = 0)
         \/ cause = "eof" /\ sender = "error"

ByteInv == Ranges /\ SenderInv /\ ReaderInv

(* The holding time of a frame is a number of ticks.                           *)
LEMMA LimitType ==
    ASSUME size \in Nat
    PROVE  /\ Reads(Least(size, MaxFrame)) \in Nat \ {0} /\ HoldLimit \in Nat
           /\ HoldLimit = Idle * Reads(Least(size, MaxFrame))
<1>0. Chunk \in Nat \ {0} /\ Idle \in Nat /\ MaxFrame \in Nat
  BY FrameAssumption
<1>1. PICK n \in Nat : n = Least(size, MaxFrame)
  BY <1>0 DEF Least
<1>2. (n + Chunk - 1) \div Chunk \in Nat
  <2>1. n + Chunk - 1 \in Nat
    BY <1>0
  <2> QED BY <1>0, <2>1
<1>3. Reads(n) \in Nat \ {0}
  BY <1>2 DEF Reads
<1> QED BY <1>0, <1>1, <1>3 DEF HoldLimit

(* No byte has been written and the reader waits for the prefix.               *)
LEMMA InitBytes == Init => ByteInv
<1> SUFFICES ASSUME Init PROVE ByteInv
  OBVIOUS
<1>1. Ranges
  BY FrameAssumption DEF Init, Ranges
<1> QED BY <1>1, FrameAssumption DEF Init, ByteInv, SenderInv, ReaderInv, Accepted, Begun

(* Every step of the sender and of the reader conserves the bytes.             *)
LEMMA NextBytes == ByteInv /\ [Next]_vars => ByteInv'
<1> SUFFICES ASSUME ByteInv, [Next]_vars PROVE ByteInv'
  OBVIOUS
<1>0. /\ Prefix \in Nat \ {0} /\ Chunk \in Nat \ {0} /\ MaxFrame \in Nat \ {0}
      /\ InFlight \in Nat /\ Idle \in Nat
  BY FrameAssumption
<1> USE <1>0 DEF ByteInv, Ranges, SenderInv, ReaderInv, Accepted, Begun, Least, Most, writing, reading
<1>1. CASE WriteRefused
  BY <1>1 DEF WriteRefused
<1>2. CASE WriteLength
  BY <1>2 DEF WriteLength
<1>3. CASE SendByte
  BY <1>3 DEF SendByte
<1>4. CASE WriteChunk
  BY <1>4 DEF WriteChunk, BodyLeft
<1>5. CASE WriteDone
  BY <1>5 DEF WriteDone, BodyLeft
<1>6. CASE WriteFails
  BY <1>6 DEF WriteFails
<1>7. CASE ReadByte
  BY <1>7 DEF ReadByte, DeadlineAfterByte
<1>8. CASE LengthRefused
  BY <1>8 DEF LengthRefused, Malformed
<1>9. CASE LengthRead
  BY <1>9 DEF LengthRead, Malformed
<1>10. CASE ChunkRead
  BY <1>10 DEF ChunkRead, Complete
<1>11. CASE FrameRead
  BY <1>11 DEF FrameRead, Complete
<1>12. CASE ReadFails
  BY <1>12 DEF ReadFails, ReadDue
<1>13. CASE Tick
  <2>1. HoldLimit \in Nat
    BY LimitType
  <2> QED BY <1>13, <2>1 DEF Tick, Reading, ReadDue
<1>14. CASE UNCHANGED vars
  BY <1>14 DEF vars
<1> QED
  BY <1>1, <1>2, <1>3, <1>4, <1>5, <1>6, <1>7, <1>8, <1>9, <1>10, <1>11, <1>12, <1>13, <1>14, Zenon
  DEF Next, Send, Receive

(* So the bytes are conserved in every state.                                  *)
LEMMA BytesInductive == Spec => []ByteInv
BY InitBytes, NextBytes, PTL DEF Spec

(* The reader succeeds only with a legal length and all of its bytes, and only *)
(* if the sender was not cut off: no part of a frame passes for a frame.       *)
THEOREM FramesAreWhole == Spec => []WholeFrameOrNone
<1>1. ByteInv => WholeFrameOrNone
  BY FrameAssumption
  DEF ByteInv, Ranges, SenderInv, ReaderInv, Accepted, Begun, WholeFrameOrNone
<1> QED BY <1>1, BytesInductive, PTL

(* What WriteFrameWithTimeout writes, ReadFramePooledWithTimeout accepts: the  *)
(* reader of a non-empty frame fails only for time or because the writer did.  *)
THEOREM WrittenFramesAreReadable == Spec => []WrittenFrameReadable
<1>1. ByteInv => WrittenFrameReadable
  BY DEF ByteInv, Ranges, ReaderInv, WrittenFrameReadable
<1> QED BY <1>1, BytesInductive, PTL

----------------------------------------------------------------------------
(* Memory *)

MemoryInv ==
    size > TierLarge =>
        /\ room \in Nat /\ room <= Most(InitialCap, 2 * got)
        /\ reader = "length" => room = 0

(* A large frame's buffer starts at the initial capacity and grows by append   *)
(* to at most twice the bytes that have arrived.                               *)
LEMMA NextMemory == ByteInv /\ MemoryInv /\ [Next]_vars => MemoryInv'
<1> SUFFICES ASSUME ByteInv, MemoryInv, [Next]_vars PROVE MemoryInv'
  OBVIOUS
<1>0. /\ TierLarge \in Nat /\ InitialCap \in Nat \ {0} /\ size \in Nat /\ got \in Nat
      /\ size' = size
  BY FrameAssumption
  DEF ByteInv, Ranges, Next, Send, Receive, WriteRefused, WriteLength, SendByte, WriteChunk,
      WriteDone, WriteFails, ReadByte, LengthRefused, LengthRead, ChunkRead, FrameRead, ReadFails,
      Tick, vars, writing
<1> USE <1>0 DEF MemoryInv, Most
<1>1. CASE ReadByte
  BY <1>1 DEF ReadByte
<1>2. CASE LengthRead
  <2>1. size > TierLarge => room' = LargeRoom
    BY <1>2 DEF LengthRead
  <2> QED BY <1>2, <2>1 DEF LengthRead, LargeRoom, Least
<1>3. CASE ChunkRead \/ FrameRead
  BY <1>3 DEF ChunkRead, FrameRead, Append
<1>4. CASE Send \/ LengthRefused \/ ReadFails \/ Tick \/ UNCHANGED vars
  <2>1. UNCHANGED <<room, got>> /\ (reader' = "length" => reader = "length")
    BY <1>4 DEF Send, WriteRefused, WriteLength, SendByte, WriteChunk, WriteDone, WriteFails,
       LengthRefused, ReadFails, Tick, vars, reading
  <2> QED BY <2>1
<1> QED BY <1>1, <1>2, <1>3, <1>4 DEF Next, Receive

(* "memory pinned by a stream tracks bytes received rather than bytes          *)
(* promised", for any declared length: a chunk and the greater of the initial  *)
(* capacity and twice what has arrived.                                        *)
THEOREM MemoryAlwaysTracksBytes == Spec => []MemoryTracksBytes
<1>1. Init => MemoryInv
  BY FrameAssumption DEF Init, MemoryInv, Most
<1>2. ByteInv /\ MemoryInv => MemoryTracksBytes
  BY FrameAssumption DEF ByteInv, Ranges, MemoryInv, MemoryTracksBytes, Pinned, Most
<1> QED BY <1>1, <1>2, NextMemory, BytesInductive, PTL DEF Spec

----------------------------------------------------------------------------
(* Holding time *)

\* The reader is in the k-th ReadFull of the body.
InChunk(k) ==
    /\ held + rleft <= Idle * (1 + k)
    /\ (k - 1) * Chunk < size
    /\ got + need = Least(k * Chunk, size)

HoldInv ==
    /\ held <= HoldLimit
    /\ reader = "length" => held + rleft <= Idle
    /\ reader = "body" => \E k \in Nat \ {0} : InChunk(k)

(* A ReadFull of the body begins only while bytes are missing, so there are no *)
(* more of them than Reads counts.                                             *)
LEMMA ReadsBound ==
    ASSUME NEW n \in Nat, NEW k \in Nat \ {0}, (k - 1) * Chunk < n
    PROVE  1 + k <= Reads(n)
<1>0. Chunk \in Nat \ {0}
  BY FrameAssumption
<1>1. PICK m \in Nat : m = n + Chunk - 1
  BY <1>0
<1>2. PICK q \in Nat : q = m \div Chunk
  BY <1>0, <1>1
<1>3. PICK r \in 0 .. Chunk - 1 : m = Chunk * q + r
  <2>1. m % Chunk \in 0 .. Chunk - 1 /\ m = Chunk * q + (m % Chunk)
    BY <1>0, <1>1, <1>2
  <2> QED BY <2>1
<1>4. CASE k > q
  <2>1. PICK d \in Nat : k - 1 = q + d
    BY <1>4
  <2>2. (k - 1) * Chunk = Chunk * q + Chunk * d
    BY <1>0, <2>1
  <2>3. Chunk * d \in Nat
    BY <1>0, <2>1
  <2>4. PICK a \in Nat, b \in Nat : a = Chunk * q /\ b = Chunk * d
    BY <1>0, <2>3
  <2>5. a + b < n
    BY <2>2, <2>4
  <2> QED BY <1>0, <1>1, <1>3, <2>4, <2>5
<1> QED BY <1>0, <1>1, <1>2, <1>4 DEF Reads

LimitCovers ==
    /\ Idle <= HoldLimit
    /\ reader = "body" => \A k \in Nat \ {0} : InChunk(k) => held + rleft <= HoldLimit

(* One interval is always within the limit, and so are those of the ReadFulls  *)
(* begun.                                                                      *)
LEMMA WithinLimit == ByteInv => LimitCovers
<1> SUFFICES ASSUME ByteInv PROVE LimitCovers
  OBVIOUS
<1>0. Idle \in Nat /\ MaxFrame \in Nat /\ size \in Nat
  BY FrameAssumption DEF ByteInv, Ranges
<1>1. PICK n \in Nat \ {0} : n = Reads(Least(size, MaxFrame)) /\ HoldLimit = Idle * n
  BY <1>0, LimitType
<1>2. \A m \in Nat : m <= n => Idle * m <= HoldLimit
  <2> SUFFICES ASSUME NEW m \in Nat, m <= n PROVE Idle * m <= HoldLimit
    OBVIOUS
  <2>1. PICK d \in Nat : n = m + d
    BY <1>1
  <2>2. HoldLimit = Idle * m + Idle * d /\ Idle * d \in Nat /\ Idle * m \in Nat
    BY <1>0, <1>1, <2>1
  <2> QED BY <2>2
<1>3. Idle <= HoldLimit
  <2>1. Idle * 1 <= HoldLimit
    BY <1>1, <1>2
  <2> QED BY <1>0, <2>1
<1>4. ASSUME reader = "body", NEW k \in Nat \ {0}, InChunk(k) PROVE held + rleft <= HoldLimit
  <2>1. Least(size, MaxFrame) = size
    BY <1>0, <1>4 DEF ByteInv, ReaderInv, Least
  <2>2. 1 + k <= n
    BY <1>0, <1>1, <1>4, <2>1, ReadsBound DEF InChunk
  <2>3. PICK a \in Nat : a = Idle * (1 + k)
    BY <1>0
  <2>4. a <= HoldLimit
    BY <1>2, <2>2, <2>3
  <2>5. HoldLimit \in Nat /\ held \in Nat /\ rleft \in Nat
    BY <1>0, LimitType DEF ByteInv, Ranges
  <2> QED BY <1>4, <2>3, <2>4, <2>5 DEF InChunk
<1> QED BY <1>3, <1>4 DEF LimitCovers

(* Beginning a ReadFull adds an interval and a chunk; a tick moves one from    *)
(* the time left to the time held; everything else leaves the sum alone.       *)
LEMMA NextHold == ByteInv /\ HoldInv /\ [Next]_vars => HoldInv'
<1> SUFFICES ASSUME ByteInv, HoldInv, [Next]_vars PROVE HoldInv'
  OBVIOUS
<1>0. /\ Chunk \in Nat \ {0} /\ Idle \in Nat /\ MaxFrame \in Nat
      /\ size \in Nat /\ got \in Nat /\ need \in Nat /\ held \in Nat /\ rleft \in 0 .. Idle
      /\ HoldLimit \in Nat
  BY FrameAssumption, LimitType DEF ByteInv, Ranges
<1>1. ByteInv'
  BY NextBytes
<1>2. size' = size /\ HoldLimit' = HoldLimit
  <2>1. size' = size
    BY DEF Next, Send, Receive, WriteRefused, WriteLength, SendByte, WriteChunk, WriteDone,
       WriteFails, ReadByte, LengthRefused, LengthRead, ChunkRead, FrameRead, ReadFails, Tick,
       vars, writing
  <2> QED BY <2>1 DEF HoldLimit
<1>3. (reader' = "length" => held' + rleft' <= Idle) /\
      (reader' = "body" => \E k \in Nat \ {0} : InChunk(k)')
  <2>1. CASE ReadByte
    <3>1. /\ reader' = reader /\ held' = held /\ rleft' = rleft
          /\ reader = "body" => got' + need' = got + need
      BY <1>0, <2>1 DEF ReadByte, DeadlineAfterByte
    <3> QED BY <1>2, <3>1 DEF HoldInv, InChunk
  <2>2. CASE LengthRead
    <3>1. /\ reader = "length" /\ got = 0 /\ size > 0
          /\ reader' = "body" /\ got' = got /\ need' = Least(Chunk, size)
          /\ held' = held /\ rleft' = Idle
      BY <1>0, <2>2 DEF LengthRead, Malformed, ByteInv, ReaderInv
    <3>2. held' + rleft' <= Idle * (1 + 1)
      BY <1>0, <3>1 DEF HoldInv
    <3>3. InChunk(1)'
      BY <1>0, <1>2, <3>1, <3>2 DEF InChunk, Least
    <3> QED BY <3>1, <3>3
  <2>3. CASE ChunkRead
    <3>1. /\ reader = "body" /\ need = 0 /\ got < size
          /\ reader' = "body" /\ got' = got /\ need' = Least(Chunk, size - got)
          /\ held' = held /\ rleft' = Idle
      BY <1>0, <2>3 DEF ChunkRead, Complete
    <3>2. PICK k \in Nat \ {0} : InChunk(k)
      BY <3>1 DEF HoldInv
    <3>3. PICK c \in Nat : c = k * Chunk
      BY <1>0
    <3>4. (k + 1) * Chunk = c + Chunk /\ ((k + 1) - 1) * Chunk = c
      BY <1>0, <3>3
    <3>5. got = c /\ c < size
      BY <1>0, <3>1, <3>2, <3>3 DEF InChunk, Least
    <3>6. got' + need' = Least((k + 1) * Chunk, size)
      BY <1>0, <3>1, <3>4, <3>5 DEF Least
    <3>7. held' + rleft' <= Idle * (1 + (k + 1))
      <4>1. PICK a \in Nat : a = Idle * (1 + k)
        BY <1>0
      <4>2. Idle * (1 + (k + 1)) = a + Idle
        BY <1>0, <4>1
      <4>3. held <= a
        BY <1>0, <3>2, <4>1 DEF InChunk
      <4> QED BY <1>0, <3>1, <4>2, <4>3
    <3>8. InChunk(k + 1)'
      BY <1>2, <3>4, <3>5, <3>6, <3>7 DEF InChunk
    <3> QED BY <3>1, <3>8
  <2>4. CASE Tick
    <3>1. reader' = reader /\ got' = got /\ need' = need
      BY <2>4 DEF Tick
    <3>2. reader \in {"length", "body"} =>
            held' \in Nat /\ rleft' \in Nat /\ held' + rleft' <= held + rleft
      BY <1>0, <2>4 DEF Tick, Reading, ReadDue, Least, Most
    <3>3. CASE reader = "length"
      BY <1>0, <3>1, <3>2, <3>3 DEF HoldInv
    <3>4. CASE reader = "body"
      <4>1. PICK k \in Nat \ {0} : InChunk(k)
        BY <3>4 DEF HoldInv
      <4>2. PICK a \in Nat : a = Idle * (1 + k)
        BY <1>0
      <4>3. held' + rleft' <= a
        BY <1>0, <3>2, <3>4, <4>1, <4>2 DEF InChunk
      <4>4. InChunk(k)'
        BY <1>2, <3>1, <4>1, <4>2, <4>3 DEF InChunk
      <4> QED BY <3>1, <3>4, <4>4
    <3> QED BY <3>1, <3>3, <3>4
  <2>5. CASE Send \/ UNCHANGED vars
    <3>1. UNCHANGED <<reader, need, got, rleft, held>>
      BY <2>5 DEF Send, WriteRefused, WriteLength, SendByte, WriteChunk, WriteDone, WriteFails,
         vars, reading
    <3> QED BY <1>2, <3>1 DEF HoldInv, InChunk
  <2>6. CASE LengthRefused \/ FrameRead \/ ReadFails
    BY <2>6 DEF LengthRefused, FrameRead, ReadFails
  <2> QED BY <2>1, <2>2, <2>3, <2>4, <2>5, <2>6 DEF Next, Receive
<1>4. held' <= HoldLimit'
  <2>1. CASE Tick
    <3>1. CASE reader = "length" \/ reader = "body"
      <4>1. reader' = reader
        BY <2>1 DEF Tick
      <4>2. LimitCovers'
        BY <1>1, WithinLimit, PTL
      <4>3. PICK limit \in Nat : limit = HoldLimit'
        BY <1>0, <1>2
      <4>4. PICK h \in Nat, r \in Nat : h = held' /\ r = rleft'
        BY <1>0, <1>1 DEF ByteInv, Ranges
      <4>5. CASE reader = "length"
        <5>1. Idle <= limit
          BY <4>2, <4>3 DEF LimitCovers
        <5>2. h + r <= Idle
          BY <1>3, <4>1, <4>4, <4>5
        <5>3. h <= limit
          BY <1>0, <5>1, <5>2
        <5> QED BY <4>3, <4>4, <5>3
      <4>6. CASE reader = "body"
        <5>1. PICK k \in Nat \ {0} : InChunk(k)'
          BY <1>3, <4>1, <4>6
        <5>2. h + r <= limit
          BY <4>1, <4>2, <4>3, <4>4, <4>6, <5>1, Zenon DEF LimitCovers
        <5>3. h <= limit
          BY <5>2
        <5> QED BY <4>3, <4>4, <5>3
      <4> QED BY <3>1, <4>5, <4>6
    <3>2. CASE ~ (reader = "length" \/ reader = "body")
      BY <1>2, <2>1, <3>2 DEF Tick, Reading, HoldInv
    <3> QED BY <3>1, <3>2
  <2>2. CASE ~ Tick
    <3>1. held' = held
      BY <2>2 DEF Next, Send, Receive, WriteRefused, WriteLength, SendByte, WriteChunk, WriteDone,
         WriteFails, ReadByte, LengthRefused, LengthRead, ChunkRead, FrameRead, ReadFails, vars
    <3> QED BY <1>2, <3>1 DEF HoldInv
  <2> QED BY <2>1, <2>2
<1> QED BY <1>3, <1>4 DEF HoldInv

(* A stalling peer holds the reader no longer than one idle interval for the   *)
(* length and one for each chunk of the frame.                                 *)
THEOREM HoldAlwaysBounded == Spec => []HoldBounded
<1>1. Init => HoldInv
  <2> SUFFICES ASSUME Init PROVE HoldInv
    OBVIOUS
  <2>1. size \in Nat /\ HoldLimit \in Nat
    BY FrameAssumption, LimitType DEF Init
  <2> QED BY FrameAssumption, <2>1 DEF Init, HoldInv
<1>2. HoldInv => HoldBounded
  BY DEF HoldInv, HoldBounded
<1> QED BY <1>1, <1>2, NextHold, BytesInductive, PTL DEF Spec

----------------------------------------------------------------------------
(* The buffer pool *)

InPools(a) == free[0][a] + free[1][a] + free[2][a]

Unmade == \A a \in Arrays : capacity[a] = 0 => Holders(a) = {} /\ InPools(a) = 0

PooledFits == \A t \in 0 .. 2, a \in Arrays : free[t][a] > 0 => capacity[a] = TierSize[t]

LentFits ==
    \A b \in Buffers :
        /\ state[b] = "unused" => buf[b] = NoBuffer
        /\ (state[b] \in {"lent", "releasing"} /\ buf[b].data # "none") =>
             /\ capacity[buf[b].data] = TierSize[buf[b].tier]
             /\ buf[b].size <= TierSize[buf[b].tier]

PoolInv == PoolTypeOK /\ ExclusiveArrays /\ Unmade /\ PooledFits /\ LentFits

(* TierOf picks a tier that is large enough, or none (-1).                     *)
LEMMA TierFits ==
    ASSUME NEW n \in Asked
    PROVE  /\ TierOf(n) \in -1 .. 2
           /\ TierOf(n) # -1 => TierOf(n) \in 0 .. 2 /\ n <= TierSize[TierOf(n)]
BY BufferPoolAssumption DEF TierOf

(* The inductive invariant gives ArraysFit.                                    *)
LEMMA PoolInvFits == PoolInv => ArraysFit
<1> SUFFICES ASSUME PoolInv, NEW b \in Buffers, state[b] = "lent", buf[b].data # "none"
             PROVE  buf[b].size <= capacity[buf[b].data]
  BY DEF ArraysFit
<1> QED BY DEF PoolInv, LentFits

(* Before the first Get no array exists.                                       *)
LEMMA InitPool == PoolInit => PoolInv
<1> SUFFICES ASSUME PoolInit PROVE PoolInv
  OBVIOUS
<1>1. PoolTypeOK
  BY DEF PoolInit, PoolTypeOK, NoBuffer
<1>2. \A a \in Arrays : Holders(a) = {} /\ InPools(a) = 0
  BY DEF PoolInit, Holders, InPools
<1>3. ExclusiveArrays
  BY <1>2 DEF ExclusiveArrays, InPools
<1>4. Unmade /\ PooledFits /\ LentFits
  BY <1>2 DEF PoolInit, Unmade, PooledFits, LentFits
<1> QED BY <1>1, <1>3, <1>4 DEF PoolInv

\* What Get leaves of the PoolBuffers when it has lent the array a in b.
Lent(b, a, n) ==
    /\ buf' \in [Buffers -> [data : Arrays \cup {"none"}, size : Asked \cup {0}, tier : -1 .. 2]]
    /\ \A c \in Buffers : buf'[c].tier = -1 <=> buf'[c].data = "none"
    /\ state' \in [Buffers -> {"unused", "lent", "releasing", "released"}]
    /\ \A d \in Arrays : Holders(d)' = IF d = a THEN Holders(d) \cup {b} ELSE Holders(d)
    /\ buf'[b] = [data |-> a, size |-> n, tier |-> TierOf(n)] /\ state'[b] = "lent"
    /\ \A c \in Buffers \ {b} : buf'[c] = buf[c] /\ state'[c] = state[c]

(* A Get that finds or makes an array nobody has: the array passes into the    *)
(* hand of one new PoolBuffer and of nobody else.                              *)
LEMMA LendStep ==
    ASSUME PoolInv, NEW b \in Buffers, NEW a \in Arrays \cup {"none"}, NEW n \in Asked,
           Lend(b, a, n), TierOf(n) = -1 <=> a = "none"
    PROVE  Lent(b, a, n)
<1>1. TierOf(n) \in -1 .. 2
  BY TierFits
<1>2. b \notin UNION {Holders(d) : d \in Arrays}
  BY DEF Lend, Holders
<1>3. /\ buf' = [buf EXCEPT ![b] = [data |-> a, size |-> n, tier |-> TierOf(n)]]
      /\ state' = [state EXCEPT ![b] = "lent"]
  BY DEF Lend
<1>4. /\ buf \in [Buffers -> [data : Arrays \cup {"none"}, size : Asked \cup {0}, tier : -1 .. 2]]
      /\ state \in [Buffers -> {"unused", "lent", "releasing", "released"}]
      /\ \A c \in Buffers : buf[c].tier = -1 <=> buf[c].data = "none"
  BY DEF PoolInv, PoolTypeOK
<1>5. /\ buf'[b] = [data |-> a, size |-> n, tier |-> TierOf(n)] /\ state'[b] = "lent"
      /\ \A c \in Buffers \ {b} : buf'[c] = buf[c] /\ state'[c] = state[c]
  BY <1>3, <1>4
<1>6. /\ buf' \in [Buffers -> [data : Arrays \cup {"none"}, size : Asked \cup {0}, tier : -1 .. 2]]
      /\ state' \in [Buffers -> {"unused", "lent", "releasing", "released"}]
  BY <1>1, <1>3, <1>4
<1>7. \A c \in Buffers : buf'[c].tier = -1 <=> buf'[c].data = "none"
  BY <1>4, <1>5
<1>8. \A d \in Arrays : Holders(d)' = IF d = a THEN Holders(d) \cup {b} ELSE Holders(d)
  BY <1>2, <1>5 DEF Holders
<1> QED BY <1>5, <1>6, <1>7, <1>8 DEF Lent

(* Every step of a Get, a Release, or the garbage collector keeps arrays in    *)
(* one place and in the pools of their tier.                                   *)
LEMMA NextPool == PoolInv /\ [PoolNext]_poolVars => PoolInv'
<1> SUFFICES ASSUME PoolInv, [PoolNext]_poolVars PROVE PoolInv'
  OBVIOUS
<1>0. /\ capacity \in [Arrays -> {0, TierSize[0], TierSize[1], TierSize[2]}]
      /\ \A t \in 0 .. 2, a \in Arrays : free[t][a] \in Nat
      /\ free \in [0 .. 2 -> [Arrays -> Nat]]
      /\ buf \in [Buffers -> [data : Arrays \cup {"none"}, size : Asked \cup {0}, tier : -1 .. 2]]
      /\ \A b \in Buffers : buf[b].tier = -1 <=> buf[b].data = "none"
      /\ state \in [Buffers -> {"unused", "lent", "releasing", "released"}]
  <2>1. PoolTypeOK
    BY DEF PoolInv
  <2>2. free \in [0 .. 2 -> [Arrays -> Nat]]
    BY <2>1 DEF PoolTypeOK
  <2>3. \A t \in 0 .. 2, a \in Arrays : free[t][a] \in Nat
    BY <2>2
  <2> QED BY <2>1, <2>2, <2>3 DEF PoolTypeOK
<1>1. ASSUME NEW b \in Buffers, NEW n \in Asked, GetUnmanaged(b, n)
      PROVE  PoolInv'
  <2>1. Lend(b, "none", n) /\ TierOf(n) = -1 /\ UNCHANGED <<capacity, free>>
    BY <1>1 DEF GetUnmanaged
  <2>2. Lent(b, "none", n)
    BY <2>1, LendStep
  <2>3. PoolTypeOK'
    BY <1>0, <2>1, <2>2 DEF PoolTypeOK, Lent
  <2>4. /\ \A d \in Arrays : Holders(d)' = Holders(d)
        /\ buf'[b].data = "none" /\ state'[b] = "lent"
        /\ \A c \in Buffers \ {b} : buf'[c] = buf[c] /\ state'[c] = state[c]
    BY <2>2, BufferPoolAssumption DEF Lent
  <2>5. ExclusiveArrays'
    BY <2>1, <2>4 DEF PoolInv, ExclusiveArrays
  <2>6. Unmade' /\ PooledFits'
    BY <2>1, <2>4 DEF PoolInv, Unmade, PooledFits, InPools
  <2>7. LentFits'
    BY <2>1, <2>4 DEF PoolInv, LentFits
  <2> QED BY <2>3, <2>5, <2>6, <2>7 DEF PoolInv
<1>2. ASSUME NEW b \in Buffers, NEW n \in Asked, NEW a \in Arrays, GetPooled(b, a, n)
      PROVE  PoolInv'
  <2> DEFINE t == TierOf(n)
  <2>1. /\ Lend(b, a, n) /\ t \in 0 .. 2 /\ n <= TierSize[t] /\ UNCHANGED capacity
        /\ free[t][a] > 0 /\ free' = [free EXCEPT ![t][a] = @ - 1]
    BY <1>2, TierFits DEF GetPooled
  <2>2. Lent(b, a, n)
    BY <2>1, BufferPoolAssumption, LendStep
  <2>3. \A d \in Arrays : Holders(d)' = IF d = a THEN Holders(d) \cup {b} ELSE Holders(d)
    BY <2>2 DEF Lent
  <2>4. /\ buf'[b].data = a /\ buf'[b].size = n /\ buf'[b].tier = t /\ state'[b] = "lent"
         /\ \A c \in Buffers \ {b} : buf'[c] = buf[c] /\ state'[c] = state[c]
    BY <2>2 DEF Lent
  <2>5. /\ free' \in [0 .. 2 -> [Arrays -> Nat]]
        /\ \A u \in 0 .. 2, d \in Arrays :
             free'[u][d] = IF u = t /\ d = a THEN free[u][d] - 1 ELSE free[u][d]
    <3> HIDE DEF t
    <3> QED BY <1>0, <2>1
  <2>6. PoolTypeOK'
    BY <1>0, <2>1, <2>2, <2>5 DEF PoolTypeOK, Lent
  <2>7. Holders(a) = {} /\ InPools(a) = 1
    BY <1>0, <2>1 DEF PoolInv, ExclusiveArrays, InPools
  <2>8. InPools(a)' = 0 /\ \A d \in Arrays \ {a} : InPools(d)' = InPools(d)
    <3> HIDE DEF t
    <3> QED BY <1>0, <2>1, <2>5, <2>7 DEF InPools
  <2>9. ExclusiveArrays'
    <3>1. /\ \A d \in Arrays \ {a} : Holders(d)' = Holders(d) /\ InPools(d)' = InPools(d)
          /\ Holders(a)' = {b} /\ InPools(a)' = 0
      BY <2>3, <2>7, <2>8
    <3> QED BY <3>1 DEF PoolInv, ExclusiveArrays, InPools
  <2>10. Unmade'
    <3>1. capacity[a] # 0
      BY <2>7 DEF PoolInv, Unmade
    <3> QED BY <2>1, <2>3, <2>8, <3>1 DEF PoolInv, Unmade
  <2>11. PooledFits'
    BY <1>0, <2>1, <2>5 DEF PoolInv, PooledFits
  <2>12. LentFits'
    <3>1. capacity[a] = TierSize[t]
      BY <2>1 DEF PoolInv, PooledFits
    <3> QED BY <2>1, <2>4, <3>1 DEF PoolInv, LentFits
  <2> QED BY <2>6, <2>9, <2>10, <2>11, <2>12 DEF PoolInv
<1>3. ASSUME NEW b \in Buffers, NEW n \in Asked, NEW a \in Arrays, GetNew(b, a, n)
      PROVE  PoolInv'
  <2> DEFINE t == TierOf(n)
  <2>1. /\ Lend(b, a, n) /\ t \in 0 .. 2 /\ n <= TierSize[t] /\ UNCHANGED free
        /\ capacity[a] = 0 /\ capacity' = [capacity EXCEPT ![a] = TierSize[t]]
    BY <1>3, TierFits DEF GetNew
  <2>2. Lent(b, a, n)
    BY <2>1, BufferPoolAssumption, LendStep
  <2>3. \A d \in Arrays : Holders(d)' = IF d = a THEN Holders(d) \cup {b} ELSE Holders(d)
    BY <2>2 DEF Lent
  <2>4. /\ buf'[b].data = a /\ buf'[b].size = n /\ buf'[b].tier = t /\ state'[b] = "lent"
         /\ \A c \in Buffers \ {b} : buf'[c] = buf[c] /\ state'[c] = state[c]
    BY <2>2 DEF Lent
  <2>5. PoolTypeOK'
    <3>1. capacity' \in [Arrays -> {0, TierSize[0], TierSize[1], TierSize[2]}]
      BY <1>0, <2>1
    <3> QED BY <1>0, <2>1, <2>2, <3>1 DEF PoolTypeOK, Lent
  <2>6. Holders(a) = {} /\ InPools(a) = 0 /\ \A d \in Arrays : InPools(d)' = InPools(d)
    BY <2>1 DEF PoolInv, Unmade, InPools
  <2>7. ExclusiveArrays'
    <3>1. /\ \A d \in Arrays \ {a} : Holders(d)' = Holders(d) /\ InPools(d)' = InPools(d)
          /\ Holders(a)' = {b} /\ InPools(a)' = 0
      BY <2>3, <2>6
    <3> QED BY <3>1 DEF PoolInv, ExclusiveArrays, InPools
  <2>8. Unmade'
    <3>1. capacity'[a] # 0 /\ \A d \in Arrays \ {a} : capacity'[d] = capacity[d]
      BY <1>0, <2>1, BufferPoolAssumption
    <3> QED BY <2>3, <2>6, <3>1 DEF PoolInv, Unmade
  <2>9. PooledFits'
    BY <1>0, <2>1, <2>6 DEF PoolInv, PooledFits, InPools
  <2>10. LentFits'
    <3>1. \A c \in Buffers : (state[c] \in {"lent", "releasing"}) => buf[c].data # a
      BY <2>6 DEF Holders
    <3>2. capacity'[a] = TierSize[t] /\ \A d \in Arrays \ {a} : capacity'[d] = capacity[d]
      BY <1>0, <2>1
    <3>3. \A c \in Buffers : buf[c].data \in Arrays \cup {"none"}
      BY <1>0
    <3>4. ASSUME NEW c \in Buffers \ {b} PROVE
            /\ state'[c] = "unused" => buf'[c] = NoBuffer
            /\ (state'[c] \in {"lent", "releasing"} /\ buf'[c].data # "none") =>
                 /\ capacity'[buf'[c].data] = TierSize[buf'[c].tier]
                 /\ buf'[c].size <= TierSize[buf'[c].tier]
      BY <2>4, <3>1, <3>2, <3>3 DEF PoolInv, LentFits
    <3> QED BY <2>1, <2>4, <3>2, <3>4 DEF LentFits
  <2> QED BY <2>5, <2>7, <2>8, <2>9, <2>10 DEF PoolInv
<1>4. ASSUME NEW b \in Buffers, Release(b)
      PROVE  PoolInv'
  <2>1. /\ state[b] = "lent" /\ state' = [state EXCEPT ![b] = "releasing"]
        /\ UNCHANGED <<capacity, free, buf>>
    BY <1>4 DEF Release, WinsSwap
  <2>2. \A d \in Arrays : Holders(d)' = Holders(d)
    BY <2>1 DEF PoolInv, PoolTypeOK, Holders
  <2>3. PoolTypeOK'
    BY <1>0, <2>1 DEF PoolTypeOK
  <2>4. ExclusiveArrays'
    BY <2>1, <2>2 DEF PoolInv, ExclusiveArrays
  <2>5. Unmade' /\ PooledFits'
    BY <2>1, <2>2 DEF PoolInv, Unmade, PooledFits, InPools
  <2>6. LentFits'
    BY <1>0, <2>1 DEF PoolInv, LentFits
  <2> QED BY <2>3, <2>4, <2>5, <2>6 DEF PoolInv
<1>5. ASSUME NEW b \in Buffers, Put(b)
      PROVE  PoolInv'
  <2>0. PICK t, a : t = buf[b].tier /\ a = buf[b].data
    OBVIOUS
  <2>1. /\ state[b] = "releasing" /\ state' = [state EXCEPT ![b] = "released"]
        /\ free' = IF t = -1 THEN free ELSE [free EXCEPT ![t][a] = @ + 1]
        /\ UNCHANGED <<capacity, buf>>
    BY <1>5, <2>0 DEF Put, PutTier
  <2>2. t \in -1 .. 2 /\ a \in Arrays \cup {"none"} /\ (t = -1 <=> a = "none")
    BY <2>0 DEF PoolInv, PoolTypeOK
  <2>3. \A d \in Arrays : Holders(d)' = IF d = a THEN Holders(d) \ {b} ELSE Holders(d)
    BY <2>0, <2>1 DEF PoolInv, PoolTypeOK, Holders
  <2>4. CASE t = -1
    <3>1. \A d \in Arrays : Holders(d)' = Holders(d)
      BY <2>2, <2>3, <2>4, BufferPoolAssumption
    <3>2. UNCHANGED <<capacity, free, buf>>
      BY <2>1, <2>4
    <3>3. PoolTypeOK'
      BY <1>0, <2>1, <3>2, Zenon DEF PoolTypeOK
    <3>4. ExclusiveArrays'
      BY <3>1, <3>2 DEF PoolInv, ExclusiveArrays
    <3>5. Unmade' /\ PooledFits'
      BY <3>1, <3>2 DEF PoolInv, Unmade, PooledFits, InPools
    <3>6. LentFits'
      BY <1>0, <2>1, <3>2 DEF PoolInv, LentFits
    <3> QED BY <3>3, <3>4, <3>5, <3>6 DEF PoolInv
  <2>5. CASE t # -1
    <3>1. t \in 0 .. 2 /\ a \in Arrays /\ b \in Holders(a) /\ capacity[a] = TierSize[t]
      BY <2>0, <2>1, <2>2, <2>5 DEF PoolInv, LentFits, Holders
    <3>2. Holders(a) = {b} /\ InPools(a) = 0
      <4>1. free[0][a] \in Nat /\ free[1][a] \in Nat /\ free[2][a] \in Nat
        BY <1>0, <3>1
      <4>2. /\ \A c \in Holders(a) : c = b
            /\ free[0][a] + free[1][a] + free[2][a] <= 0
        BY <3>1 DEF PoolInv, ExclusiveArrays
      <4> QED BY <3>1, <4>1, <4>2 DEF InPools
    <3>3. /\ free' \in [0 .. 2 -> [Arrays -> Nat]]
          /\ \A u \in 0 .. 2, d \in Arrays :
               free'[u][d] = IF u = t /\ d = a THEN free[u][d] + 1 ELSE free[u][d]
      <4>1. free' = [free EXCEPT ![t][a] = @ + 1]
        BY <2>1, <2>5
      <4> QED BY <1>0, <3>1, <4>1
    <3>4. InPools(a)' = 1 /\ \A d \in Arrays \ {a} : InPools(d)' = InPools(d)
      <4>1. ASSUME NEW d \in Arrays
            PROVE  InPools(d)' = IF d = a THEN InPools(d) + 1 ELSE InPools(d)
        <5>1. free[0][d] \in Nat /\ free[1][d] \in Nat /\ free[2][d] \in Nat
          BY <1>0
        <5> QED BY <3>1, <3>3, <5>1 DEF InPools
      <4> QED BY <3>1, <3>2, <4>1
    <3>5. PoolTypeOK'
      BY <2>1, <3>3 DEF PoolInv, PoolTypeOK
    <3>6. ExclusiveArrays'
      <4>1. Holders(a)' = {}
        BY <2>3, <3>1, <3>2
      <4>2. \A d \in Arrays \ {a} : Holders(d)' = Holders(d) /\ InPools(d)' = InPools(d)
        BY <2>3, <3>4
      <4>3. ASSUME NEW d \in Arrays
            PROVE  /\ \A c, e \in Holders(d)' : c = e
                   /\ InPools(d)' <= IF Holders(d)' = {} THEN 1 ELSE 0
        <5>1. CASE d = a
          BY <3>4, <4>1, <5>1
        <5>2. CASE d # a
          BY <4>2, <5>2 DEF PoolInv, ExclusiveArrays, InPools
        <5> QED BY <5>1, <5>2
      <4> QED BY <4>3 DEF ExclusiveArrays, InPools
    <3>7. Unmade'
      <4>1. capacity[a] # 0
        BY <3>1, BufferPoolAssumption
      <4>2. \A d \in Arrays \ {a} : Holders(d)' = Holders(d) /\ InPools(d)' = InPools(d)
        BY <2>3, <3>4
      <4> QED BY <2>1, <4>1, <4>2 DEF PoolInv, Unmade
    <3>8. PooledFits'
      <4> QED BY <1>0, <2>1, <3>1, <3>3 DEF PoolInv, PooledFits
    <3>9. LentFits'
      BY <2>1 DEF PoolInv, PoolTypeOK, LentFits
    <3> QED BY <3>5, <3>6, <3>7, <3>8, <3>9 DEF PoolInv
  <2> QED BY <2>4, <2>5
<1>6. ASSUME NEW t \in 0 .. 2, NEW a \in Arrays, Drop(t, a)
      PROVE  PoolInv'
  <2>1. /\ free[t][a] > 0 /\ free' = [free EXCEPT ![t][a] = @ - 1]
        /\ UNCHANGED <<capacity, buf, state>>
    BY <1>6 DEF Drop
  <2>2. /\ free' \in [0 .. 2 -> [Arrays -> Nat]]
        /\ \A u \in 0 .. 2, d \in Arrays :
             free'[u][d] = IF u = t /\ d = a THEN free[u][d] - 1 ELSE free[u][d]
    BY <1>0, <2>1
  <2>3. \A d \in Arrays : Holders(d)' = Holders(d)
    BY <2>1 DEF Holders
  <2>4. \A d \in Arrays : InPools(d)' <= InPools(d) /\ InPools(d)' \in Nat /\ InPools(d) \in Nat
    <3> TAKE d \in Arrays
    <3>1. free[0][d] \in Nat /\ free[1][d] \in Nat /\ free[2][d] \in Nat
      BY <1>0
    <3>2. free'[0][d] \in Nat /\ free'[1][d] \in Nat /\ free'[2][d] \in Nat
      BY <1>0, <2>1, <2>2
    <3>3. free'[0][d] <= free[0][d] /\ free'[1][d] <= free[1][d] /\ free'[2][d] <= free[2][d]
      BY <2>2, <3>1
    <3> QED BY <3>1, <3>2, <3>3 DEF InPools
  <2>5. PoolTypeOK' /\ LentFits'
    BY <2>1, <2>2 DEF PoolInv, PoolTypeOK, LentFits
  <2>6. ExclusiveArrays'
    <3>1. ASSUME NEW d \in Arrays
          PROVE  /\ \A b, c \in Holders(d)' : b = c
                 /\ InPools(d)' <= IF Holders(d)' = {} THEN 1 ELSE 0
      <4>1. /\ \A b, c \in Holders(d) : b = c
            /\ InPools(d) <= IF Holders(d) = {} THEN 1 ELSE 0
        BY DEF PoolInv, ExclusiveArrays, InPools
      <4> QED BY <2>3, <2>4, <4>1
    <3> QED BY <3>1 DEF ExclusiveArrays, InPools
  <2>7. Unmade'
    BY <2>1, <2>3, <2>4 DEF PoolInv, Unmade
  <2>8. PooledFits'
    BY <1>0, <2>1, <2>2 DEF PoolInv, PooledFits
  <2> QED BY <2>5, <2>6, <2>7, <2>8 DEF PoolInv
<1>7. CASE UNCHANGED poolVars
  <2>1. UNCHANGED <<capacity, free, buf, state>>
    BY <1>7 DEF poolVars
  <2>2. \A d \in Arrays : Holders(d)' = Holders(d)
    BY <2>1 DEF Holders
  <2>3. PoolTypeOK'
    BY <1>0, <2>1 DEF PoolTypeOK
  <2>4. ExclusiveArrays'
    BY <2>1, <2>2 DEF PoolInv, ExclusiveArrays
  <2>5. Unmade' /\ PooledFits' /\ LentFits'
    BY <2>1, <2>2 DEF PoolInv, Unmade, PooledFits, LentFits, InPools
  <2> QED BY <2>3, <2>4, <2>5 DEF PoolInv
<1> QED BY <1>1, <1>2, <1>3, <1>4, <1>5, <1>6, <1>7 DEF PoolNext

(* So the links between arrays, tiers and PoolBuffers hold in every state.     *)
LEMMA PoolInductive == PoolSpec => []PoolInv
<1> QED BY InitPool, NextPool, PTL DEF PoolSpec

(* An array is lent to one PoolBuffer or lies in one sync.Pool, once, however  *)
(* often and by whomever PoolBuffers are released.                             *)
THEOREM ArraysAreExclusive == PoolSpec => []ExclusiveArrays
<1>1. PoolInv => ExclusiveArrays
  BY DEF PoolInv
<1> QED BY <1>1, PoolInductive, PTL

(* Get never slices an array beyond its capacity, whichever sizes it has been  *)
(* lent for before.                                                            *)
THEOREM ArraysAlwaysFit == PoolSpec => []ArraysFit
BY PoolInvFits, PoolInductive, PTL

(* Sizes, capacities and counts of the pool stay in their ranges, and only a   *)
(* buffer outside the tiers has no array.                                      *)
THEOREM BufferPoolTypeOK == PoolSpec => []PoolTypeOK
<1>1. PoolInv => PoolTypeOK
  BY DEF PoolInv
<1> QED BY <1>1, PoolInductive, PTL

----------------------------------------------------------------------------
(* The reader and the pool together *)

\* The tiers that Frame's reader looks at are those of the pool it calls.
SameTiers ==
    /\ Tiers = {TierSize[0], TierSize[1], TierSize[2]}
    /\ TierLarge = TierSize[2]

\* A frame read into a pooled buffer fits a tier, and has the room of that tier.
TierRoom ==
    /\ reader = "length" => room = 0 /\ ~ pooled
    /\ reader \in {"body", "ok"} => (pooled <=> size <= TierLarge)
    /\ pooled => size \in 1 .. TierLarge /\ room = TierSize[TierOf(size)]

(* The least tier that holds a frame, which the reader is given room for, is   *)
(* the one that the pool's Get takes the array from.                           *)
LEMMA LeastTier ==
    ASSUME SameTiers, NEW n \in Nat, n <= TierLarge
    PROVE  /\ TierSize[TierOf(n)] \in Nat /\ n <= TierSize[TierOf(n)]
           /\ TierSize[TierOf(n)] <= TierLarge
           /\ TierSize[TierOf(n)] =
                CHOOSE t \in Tiers : t >= n /\ \A u \in Tiers : u >= n => u >= t
<1>0. /\ TierSize[0] \in Nat /\ TierSize[1] \in Nat /\ TierSize[2] \in Nat
      /\ TierSize[0] < TierSize[1] /\ TierSize[1] < TierSize[2]
  BY BufferPoolAssumption
<1>1. PICK s : s = TierSize[TierOf(n)]
  OBVIOUS
<1>2. s \in {TierSize[0], TierSize[1], TierSize[2]}
  BY <1>1 DEF TierOf, SameTiers
<1>3. s >= n /\ \A u \in Tiers : u >= n => u >= s
  BY <1>0, <1>1 DEF TierOf, SameTiers
<1>4. \A t \in Tiers : (t >= n /\ \A u \in Tiers : u >= n => u >= t) => t = s
  BY <1>0, <1>2, <1>3 DEF SameTiers
<1>5. s = CHOOSE t \in Tiers : t >= n /\ \A u \in Tiers : u >= n => u >= t
  BY <1>2, <1>3, <1>4 DEF SameTiers
<1> QED BY <1>0, <1>1, <1>2, <1>3, <1>5 DEF SameTiers

(* The reader asks for a buffer once, when it has read the length, and never   *)
(* outgrows it.                                                                *)
LEMMA NextTierRoom == SameTiers /\ ByteInv /\ TierRoom /\ [Next]_vars => TierRoom'
<1> SUFFICES ASSUME SameTiers, ByteInv, TierRoom, [Next]_vars PROVE TierRoom'
  OBVIOUS
<1>0. /\ TierLarge \in Nat /\ MaxFrame \in Nat /\ size \in Nat /\ got \in Nat /\ size' = size
  BY FrameAssumption, Zenon
  DEF ByteInv, Ranges, Next, Send, Receive, WriteRefused, WriteLength, SendByte, WriteChunk,
      WriteDone, WriteFails, ReadByte, LengthRefused, LengthRead, ChunkRead, FrameRead, ReadFails,
      Tick, vars, writing
<1>1. TierOf(size)' = TierOf(size)
  BY <1>0 DEF TierOf
<1>2. CASE LengthRead
  <2>1. size \in 1 .. MaxFrame /\ reader' = "body" /\ reader = "length" /\ pooled = FALSE
    BY <1>0, <1>2 DEF LengthRead, Malformed, TierRoom, ByteInv, ReaderInv
  <2>2. CASE size > TierLarge
    <3>1. pooled' = pooled
      BY <1>2, <2>2 DEF LengthRead
    <3> QED BY <1>0, <2>1, <2>2, <3>1 DEF TierRoom
  <2>3. CASE size <= TierLarge
    <3>1. /\ pooled' = TRUE
          /\ room' = CHOOSE t \in Tiers : t >= size /\ \A u \in Tiers : u >= size => u >= t
      BY <1>0, <1>2, <2>3 DEF LengthRead
    <3>2. room' = TierSize[TierOf(size)]
      BY <1>0, <2>3, <3>1, LeastTier
    <3> QED BY <1>0, <1>1, <2>1, <2>3, <3>1, <3>2 DEF TierRoom
  <2> QED BY <1>0, <2>2, <2>3
<1>3. CASE ChunkRead \/ FrameRead
  <2>1. /\ reader = "body" /\ reader' \in {"body", "ok"} /\ pooled' = pooled /\ Append
        /\ got <= size
    BY <1>0, <1>3 DEF ChunkRead, FrameRead, ByteInv, ReaderInv, Ranges
  <2>2. ASSUME pooled PROVE room' = room
    <3>1. size <= room /\ room \in Nat
      BY <1>0, <2>2, LeastTier DEF TierRoom
    <3> QED BY <1>0, <2>1, <3>1 DEF Append
  <2> QED BY <1>0, <1>1, <2>1, <2>2 DEF TierRoom
<1>4. CASE ReadFails \/ LengthRefused
  BY <1>0, <1>1, <1>4 DEF ReadFails, LengthRefused, TierRoom
<1>5. CASE Send \/ ReadByte \/ Tick \/ UNCHANGED vars
  <2>1. UNCHANGED <<reader, room, pooled>>
    BY <1>5 DEF Send, WriteRefused, WriteLength, SendByte, WriteChunk, WriteDone, WriteFails,
       ReadByte, Tick, vars, reading
  <2> QED BY <1>0, <1>1, <2>1 DEF TierRoom
<1> QED BY <1>2, <1>3, <1>4, <1>5 DEF Next, Receive

(* So the room of a pooled buffer is that of its tier in every state.          *)
LEMMA TierRoomInductive == SameTiers => (Spec => []TierRoom)
<1> SUFFICES ASSUME SameTiers PROVE Spec => []TierRoom
  OBVIOUS
<1>1. Init => TierRoom
  BY DEF Init, TierRoom
<1>2. ByteInv /\ TierRoom /\ [Next]_vars => TierRoom'
  BY NextTierRoom
<1> QED BY <1>1, <1>2, BytesInductive, PTL DEF Spec

(* The counts of a frame's bytes stay in their ranges when the sender or the   *)
(* reader goes on.                                                             *)
LEMMA NextFrameType == SameTiers /\ ByteInv /\ TypeOK /\ [Next]_vars => TypeOK'
<1> SUFFICES ASSUME SameTiers, ByteInv, TypeOK, [Next]_vars PROVE TypeOK'
  OBVIOUS
<1>0. /\ Prefix \in Nat \ {0} /\ Chunk \in Nat \ {0} /\ MaxFrame \in Nat \ {0}
      /\ InFlight \in Nat /\ Idle \in Nat /\ InitialCap \in Nat \ {0}
      /\ TierLarge \in Nat /\ TierLarge <= MaxFrame
  BY FrameAssumption
<1>1. /\ size \in Nat /\ size' = size /\ foreign' = foreign
      /\ off' \in 0 .. size /\ got' \in Nat /\ need' \in Nat /\ unsent' \in Nat /\ wire' \in Nat
      /\ rleft' \in 0 .. Idle /\ wleft' \in 0 .. Idle /\ held' \in Nat
      /\ sender' \in {"call", "writing", "ok", "error"}
      /\ reader' \in {"length", "body", "ok", "error"}
      /\ cause' \in {"none", "deadline", "eof", "malformed"}
  <2>1. ByteInv'
    BY NextBytes
  <2>2. size' = size /\ foreign' = foreign
    BY DEF Next, Send, Receive, WriteRefused, WriteLength, SendByte, WriteChunk, WriteDone,
       WriteFails, ReadByte, LengthRefused, LengthRead, ChunkRead, FrameRead, ReadFails, Tick,
       vars, writing
  <2> QED BY <2>1, <2>2 DEF ByteInv, Ranges
<1>2. unsent' <= Most(Prefix, Chunk) /\ need' <= Most(Prefix, Chunk) /\ wire' <= InFlight
  <2>1. /\ unsent \in Nat /\ need \in Nat /\ wire \in Nat /\ off \in 0 .. size /\ got \in Nat
        /\ unsent <= Most(Prefix, Chunk) /\ need <= Most(Prefix, Chunk) /\ wire <= InFlight
    BY <1>0 DEF TypeOK, ByteInv, Ranges
  <2>2. CASE Send
    <3>1. CASE SendByte
      BY <1>0, <2>1, <3>1 DEF SendByte, reading, Most
    <3>2. CASE WriteLength
      BY <1>0, <2>1, <3>2 DEF WriteLength, reading, Most
    <3>3. CASE WriteChunk
      BY <1>0, <1>1, <2>1, <3>3 DEF WriteChunk, reading, Most, Least
    <3>4. CASE WriteRefused \/ WriteDone \/ WriteFails
      BY <2>1, <3>4 DEF WriteRefused, WriteDone, WriteFails, reading
    <3> QED BY <2>2, <3>1, <3>2, <3>3, <3>4 DEF Send
  <2>3. CASE Receive
    <3>1. CASE ReadByte
      BY <1>0, <2>1, <3>1 DEF ReadByte, writing, Most
    <3>2. CASE LengthRead
      <4>1. need' = Least(Chunk, size) /\ UNCHANGED <<unsent, wire>>
        BY <3>2 DEF LengthRead, writing
      <4> QED BY <1>0, <1>1, <2>1, <4>1 DEF Most, Least
    <3>3. CASE ChunkRead
      <4>1. need' = Least(Chunk, size - got) /\ UNCHANGED <<unsent, wire>>
        BY <3>3 DEF ChunkRead, writing
      <4> QED BY <1>0, <1>1, <2>1, <4>1 DEF Most, Least
    <3>4. CASE LengthRefused \/ FrameRead \/ ReadFails
      BY <2>1, <3>4 DEF LengthRefused, FrameRead, ReadFails, writing
    <3> QED BY <2>3, <3>1, <3>2, <3>3, <3>4 DEF Receive
  <2>4. CASE Tick \/ UNCHANGED vars
    BY <2>1, <2>4 DEF Tick, vars, writing, reading
  <2> QED BY <2>2, <2>3, <2>4 DEF Next
<1>3. got' <= MaxFrame
  <2>1. CASE ReadByte
    <3>1. reader = "body" => size <= MaxFrame /\ got + need <= size
      BY DEF ByteInv, ReaderInv
    <3>2. need \in Nat \ {0} /\ got \in Nat /\ got <= MaxFrame
      BY <2>1 DEF ReadByte, TypeOK, ByteInv, Ranges
    <3>3. got' = IF reader = "body" THEN got + 1 ELSE got
      BY <2>1 DEF ReadByte
    <3> QED BY <1>0, <1>1, <3>1, <3>2, <3>3
  <2>2. CASE ~ ReadByte
    <3>1. got' = got
      BY <2>2 DEF Next, Send, Receive, WriteRefused, WriteLength, SendByte, WriteChunk, WriteDone,
         WriteFails, LengthRefused, LengthRead, ChunkRead, FrameRead, ReadFails, Tick, vars, reading
    <3> QED BY <3>1 DEF TypeOK
  <2> QED BY <2>1, <2>2
<1>4. room' \in 0 .. 2 * MaxFrame /\ pooled' \in BOOLEAN
  <2>1. CASE LengthRead
    <3>1. size \in 1 .. MaxFrame
      BY <1>0, <1>1, <2>1 DEF LengthRead, Malformed
    <3>2. CASE size > TierLarge
      BY <1>0, <2>1, <3>1, <3>2 DEF LengthRead, LargeRoom, Least, TypeOK
    <3>3. CASE size <= TierLarge
      <4>1. /\ pooled' = TRUE
            /\ room' = CHOOSE t \in Tiers : t >= size /\ \A u \in Tiers : u >= size => u >= t
        BY <1>0, <1>1, <2>1, <3>3 DEF LengthRead
      <4>2. room' = TierSize[TierOf(size)]
        BY <1>1, <3>3, <4>1, LeastTier
      <4>3. TierSize[TierOf(size)] \in Nat /\ TierSize[TierOf(size)] <= TierLarge
        BY <1>1, <3>3, LeastTier
      <4>4. PICK t \in Nat : t = TierSize[TierOf(size)] /\ t <= TierLarge
        BY <4>3
      <4>5. t \in 0 .. 2 * MaxFrame
        BY <1>0, <4>4
      <4> QED BY <4>1, <4>2, <4>4, <4>5, Zenon
    <3> QED BY <1>0, <1>1, <3>2, <3>3
  <2>2. CASE ChunkRead \/ FrameRead
    <3>1. Append /\ pooled' = pooled /\ got \in 0 .. MaxFrame
      BY <2>2 DEF ChunkRead, FrameRead, TypeOK
    <3>2. room' \in 0 .. 2 * MaxFrame
      BY <1>0, <3>1 DEF Append, Most, TypeOK
    <3> QED BY <3>1, <3>2, Zenon DEF TypeOK
  <2>3. CASE ~ (LengthRead \/ ChunkRead \/ FrameRead)
    <3>1. room' = room /\ (pooled' = pooled \/ pooled' = FALSE)
      BY <2>3 DEF Next, Send, Receive, WriteRefused, WriteLength, SendByte, WriteChunk, WriteDone,
         WriteFails, ReadByte, LengthRefused, ReadFails, Tick, vars, reading
    <3> QED BY <3>1, Zenon DEF TypeOK
  <2> QED BY <2>1, <2>2, <2>3
<1>5. Most(Prefix, Chunk) \in Nat
  BY <1>0 DEF Most
<1> QED BY <1>0, <1>1, <1>2, <1>3, <1>4, <1>5 DEF TypeOK

(* Whatever length a peer declares, a frame's reader waits for no more than a  *)
(* chunk at a time and its buffer never exceeds twice MaxFrameSize.            *)
THEOREM FrameTypeOK == SameTiers => (Spec => []TypeOK)
<1> SUFFICES ASSUME SameTiers PROVE Spec => []TypeOK
  OBVIOUS
<1>1. Init => TypeOK
  <2>1. /\ Prefix \in Nat /\ Chunk \in Nat /\ MaxFrame \in Nat /\ InFlight \in Nat
        /\ Idle \in Nat /\ Sizes \subseteq Nat
    BY FrameAssumption, Zenon
  <2> SUFFICES ASSUME Init PROVE TypeOK
    OBVIOUS
  <2>2. /\ size \in Nat /\ 0 \in 0 .. size /\ 0 \in 0 .. Idle /\ Idle \in 0 .. Idle
        /\ 0 \in 0 .. InFlight /\ 0 \in 0 .. MaxFrame /\ 0 \in 0 .. 2 * MaxFrame
    BY <2>1 DEF Init
  <2>3. 0 \in 0 .. Most(Prefix, Chunk) /\ Prefix \in 0 .. Most(Prefix, Chunk)
    BY <2>1 DEF Most
  <2> QED BY <2>2, <2>3, Zenon DEF Init, TypeOK
<1>2. ByteInv /\ TypeOK /\ [Next]_vars => TypeOK'
  BY NextFrameType
<1> QED BY <1>1, <1>2, BytesInductive, PTL DEF Spec

\* A PoolBuffer remembers the tier it was lent from.
TierKept == \A b \in Buffers : state[b] # "unused" => buf[b].tier = TierOf(buf[b].size)

(* The tier of a PoolBuffer is set once, by the Get that lends it.             *)
LEMMA TierKeptInductive == PoolSpec => []TierKept
<1>1. PoolInit => TierKept
  BY DEF PoolInit, TierKept
<1>2. PoolInv /\ TierKept /\ [PoolNext]_poolVars => TierKept'
  <2> SUFFICES ASSUME PoolInv, TierKept, [PoolNext]_poolVars PROVE TierKept'
    OBVIOUS
  <2>0. /\ DOMAIN buf = Buffers /\ DOMAIN state = Buffers
        /\ buf \in [Buffers -> [data : Arrays \cup {"none"}, size : Asked \cup {0}, tier : -1 .. 2]]
    BY DEF PoolInv, PoolTypeOK
  <2>1. ASSUME NEW b \in Buffers, NEW a, NEW n \in Asked, Lend(b, a, n)
        PROVE  TierKept'
    <3>1. /\ buf' = [buf EXCEPT ![b] = [data |-> a, size |-> n, tier |-> TierOf(n)]]
          /\ state' = [state EXCEPT ![b] = "lent"]
      BY <2>1 DEF Lend
    <3>2. buf'[b].size = n /\ buf'[b].tier = TierOf(n)
      BY <2>0, <3>1
    <3>3. \A c \in Buffers \ {b} : buf'[c] = buf[c] /\ state'[c] = state[c]
      BY <2>0, <3>1
    <3>4. \A m : TierOf(m)' = TierOf(m)
      BY DEF TierOf
    <3> QED BY <3>2, <3>3, <3>4 DEF TierKept, TierOf
  <2>2. ASSUME NEW b \in Buffers, Release(b) \/ Put(b)
        PROVE  TierKept'
    <3>1. /\ buf' = buf /\ state[b] # "unused"
          /\ \A c \in Buffers \ {b} : state'[c] = state[c]
      BY <2>0, <2>2 DEF Release, Put
    <3> QED BY <3>1 DEF TierKept, TierOf
  <2>3. ASSUME NEW t \in 0 .. 2, NEW a \in Arrays, Drop(t, a)
        PROVE  TierKept'
    BY <2>3 DEF Drop, TierKept, TierOf
  <2>4. CASE UNCHANGED poolVars
    BY <2>4 DEF poolVars, TierKept, TierOf
  <2> QED BY <2>1, <2>2, <2>3, <2>4 DEF PoolNext, GetUnmanaged, GetPooled, GetNew
<1> QED BY <1>1, <1>2, PoolInductive, PTL DEF PoolSpec

\* The PoolBuffer that Get lends for the frame has an array of the room that the
\* reader counts on, enough for the frame.
ReadsIntoLentArray ==
    pooled => \A b \in Buffers :
        (state[b] = "lent" /\ buf[b].size = size) =>
            /\ buf[b].data \in Arrays
            /\ room = capacity[buf[b].data] /\ size <= room

(* The two halves of the codec fit together: whatever the pool lends the       *)
(* reader for a frame's length is an array, not a slice outside the pools, and *)
(* has the capacity that the reader's room stands for, through any reuse for   *)
(* other frames.                                                               *)
THEOREM ReaderFillsLentArray == SameTiers => (Spec /\ PoolSpec => []ReadsIntoLentArray)
<1> SUFFICES ASSUME SameTiers PROVE Spec /\ PoolSpec => []ReadsIntoLentArray
  OBVIOUS
<1>1. ByteInv /\ TierRoom /\ PoolInv /\ TierKept => ReadsIntoLentArray
  <2> SUFFICES ASSUME ByteInv, TierRoom, PoolInv, TierKept, pooled,
                      NEW b \in Buffers, state[b] = "lent", buf[b].size = size
               PROVE  /\ buf[b].data \in Arrays
                      /\ room = capacity[buf[b].data] /\ size <= room
    BY DEF ReadsIntoLentArray
  <2>1. /\ size \in Nat /\ size <= TierLarge /\ room = TierSize[TierOf(size)]
    BY DEF TierRoom, ByteInv, Ranges
  <2>2. buf[b].tier = TierOf(size)
    BY DEF TierKept
  <2>3. TierOf(size) # -1
    BY <2>1, BufferPoolAssumption DEF TierOf, SameTiers
  <2>4. buf[b].data \in Arrays
    BY <2>2, <2>3 DEF PoolInv, PoolTypeOK
  <2>5. capacity[buf[b].data] = TierSize[buf[b].tier]
    BY <2>4, BufferPoolAssumption DEF PoolInv, LentFits
  <2> QED BY <2>1, <2>2, <2>4, <2>5, LeastTier
<1> QED BY <1>1, BytesInductive, TierRoomInductive, PoolInductive, TierKeptInductive, PTL
=============================================================================
