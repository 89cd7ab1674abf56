------------------------------- MODULE Frame --------------------------------
(***************************************************************************)
(* codec: one length-prefixed frame on its way from WriteFrameWithTimeout  *)
(* at one end of a stream to ReadFramePooledWithTimeout at the other.  The *)
(* sender may also be foreign: it declares any length and may send less.   *)
(*                                                                         *)
(* The payload is its number of bytes, the stream a bounded number of      *)
(* bytes in flight.  A deadline is the number of ticks left; a tick passes *)
(* only when the reader has consumed what arrived, so that a tick is long  *)
(* against the time a goroutine needs to run.                              *)
(***************************************************************************)
EXTENDS Integers, FiniteSets

CONSTANTS
    Prefix,      \* LengthPrefixSize
    Chunk,       \* chunkSize
    MaxFrame,    \* MaxFrameSize
    Tiers,       \* the sizes of the pool's tiers
    TierLarge,   \* the largest of them
    InitialCap,  \* largeFrameInitialCap
    Idle,        \* the idle timeout of both ends in ticks, 0 for none
    Sizes,       \* frame sizes that senders try
    InFlight     \* how many bytes the stream accepts ahead of the reader

ASSUME FrameAssumption ==
    /\ {Prefix, Chunk, MaxFrame, TierLarge, InitialCap, InFlight} \subseteq Nat \ {0}
    /\ Tiers \subseteq Nat /\ TierLarge \in Tiers /\ \A t \in Tiers : t <= TierLarge
    /\ TierLarge <= MaxFrame
    /\ Idle \in Nat /\ Sizes \subseteq Nat

VARIABLES
    size,      \* the length the sender writes
    foreign,   \* the sender is not this codec
    sender,    \* where WriteFrameWithTimeout stands
    off,       \* body bytes handed to Write so far
    unsent,    \* bytes of the current Write the stream has not accepted
    wleft,     \* ticks to the write deadline
    wire,      \* bytes in flight
    reader,    \* where ReadFramePooledWithTimeout stands
    need,      \* bytes the current io.ReadFull still waits for
    got,       \* body bytes of completed ReadFulls and of the current one
    rleft,     \* ticks to the read deadline
    cause,     \* why the reader failed
    room,      \* capacity of the body's buffer
    pooled,    \* whether a pooled buffer is held
    held       \* history: ticks the reader was held up to HoldLimit + 1

writing == <<size, foreign, sender, off, unsent, wleft>>
reading == <<reader, need, got, rleft, cause, room, pooled>>
vars == <<writing, wire, reading, held>>

Least(a, b) == IF a < b THEN a ELSE b
Most(a, b) == IF a > b THEN a ELSE b

\* ReadFulls that a frame of n bytes takes: the prefix and the chunks.
Reads(n) == 1 + (n + Chunk - 1) \div Chunk

HoldLimit == Idle * Reads(Least(size, MaxFrame))

TypeOK ==
    /\ size \in Sizes /\ foreign \in BOOLEAN
    /\ sender \in {"call", "writing", "ok", "error"}
    /\ off \in 0 .. size /\ unsent \in 0 .. Most(Prefix, Chunk)
    /\ wleft \in 0 .. Idle /\ rleft \in 0 .. Idle
    /\ wire \in 0 .. InFlight
    /\ reader \in {"length", "body", "ok", "error"}
    /\ need \in 0 .. Most(Prefix, Chunk) /\ got \in 0 .. MaxFrame
    /\ cause \in {"none", "deadline", "eof", "malformed"}
    /\ room \in 0 .. 2 * MaxFrame
    /\ pooled \in BOOLEAN
    /\ held \in Nat

Init ==
    /\ size \in Sizes /\ foreign \in BOOLEAN
    /\ sender = "call" /\ off = 0 /\ unsent = 0 /\ wleft = 0
    /\ wire = 0
    /\ reader = "length" /\ need = Prefix /\ rleft = Idle   \* armRead, then io.ReadFull
    /\ got = 0 /\ cause = "none" /\ room = 0 /\ pooled = FALSE
    /\ held = 0

----------------------------------------------------------------------------
(* WriteFrameWithTimeout *)

\* Too large: nothing is written.
WriteRefused ==
    /\ sender = "call" /\ size > MaxFrame /\ ~ foreign
    /\ sender' = "error"
    /\ UNCHANGED <<size, foreign, off, unsent, wleft, wire, reading, held>>

WriteLength ==
    /\ sender = "call" /\ (size <= MaxFrame \/ foreign)
    /\ sender' = "writing"
    /\ unsent' = Prefix /\ wleft' = Idle
    /\ UNCHANGED <<size, foreign, off, wire, reading, held>>

\* The stream accepts a byte of the current Write.
SendByte ==
    /\ sender = "writing" /\ unsent > 0 /\ wire < InFlight
    /\ unsent' = unsent - 1 /\ wire' = wire + 1
    /\ UNCHANGED <<size, foreign, sender, off, wleft, reading, held>>

\* A bug: the loop ends one chunk early.
BodyLeftLess == off + Chunk < size

BodyLeft == off < size

\* Write returned; the loop goes on with the next chunk.
WriteChunk ==
    /\ sender = "writing" /\ unsent = 0 /\ BodyLeft
    /\ unsent' = Least(Chunk, size - off)
    /\ off' = Least(off + Chunk, size)
    /\ wleft' = Idle
    /\ UNCHANGED <<size, foreign, sender, wire, reading, held>>

WriteDone ==
    /\ sender = "writing" /\ unsent = 0 /\ ~ BodyLeft
    /\ sender' = "ok"
    /\ UNCHANGED <<size, foreign, off, unsent, wleft, wire, reading, held>>

\* The write deadline passes, or a foreign sender gives up at any point.
WriteFails ==
    /\ sender = "writing" /\ unsent > 0
    /\ foreign \/ (Idle > 0 /\ wleft = 0) \/ reader = "error"
    /\ sender' = "error"
    /\ UNCHANGED <<size, foreign, off, unsent, wleft, wire, reading, held>>

----------------------------------------------------------------------------
(* ReadFramePooledWithTimeout *)

\* A bug: every byte received refreshes the deadline.
DeadlineAfterByteRefreshed == Idle

\* The deadline is left alone while a ReadFull is under way.
DeadlineAfterByte == rleft

ReadByte ==
    /\ need > 0 /\ wire > 0 /\ reader \in {"length", "body"}
    /\ need' = need - 1 /\ wire' = wire - 1
    /\ got' = IF reader = "body" THEN got + 1 ELSE got
    /\ rleft' = DeadlineAfterByte
    /\ UNCHANGED <<writing, reader, cause, room, pooled, held>>

\* "empty frame", "frame too large".
Malformed == size = 0 \/ size > MaxFrame

LengthRefused ==
    /\ reader = "length" /\ need = 0 /\ Malformed
    /\ reader' = "error" /\ cause' = "malformed"
    /\ UNCHANGED <<writing, wire, need, got, rleft, room, pooled, held>>

\* A bug: the buffer is allocated for the declared length.
LargeRoomDeclared == size

\* make([]byte, 0, min(length, largeFrameInitialCap))
LargeRoom == Least(size, InitialCap)

\* pool.Get, or a buffer outside the pool for a frame beyond the largest tier.
LengthRead ==
    /\ reader = "length" /\ need = 0 /\ ~ Malformed
    /\ reader' = "body"
    /\ IF size > TierLarge
         THEN room' = LargeRoom /\ UNCHANGED pooled
         ELSE /\ room' = CHOOSE t \in Tiers : t >= size /\ \A u \in Tiers : u >= size => u >= t
              /\ pooled' = TRUE
    /\ need' = Least(Chunk, size) /\ rleft' = Idle
    /\ UNCHANGED <<writing, wire, got, cause, held>>

\* append: when the bytes read do not fit, the Go runtime takes a new array that holds
\* them, at most twice the old one unless they need more.
Append == IF got <= room THEN room' = room ELSE room' \in got .. Most(got, 2 * room)

\* A bug: the last byte is not waited for.
CompleteEarly == got + 1 >= size

Complete == got >= size

ChunkRead ==
    /\ reader = "body" /\ need = 0 /\ ~ Complete
    /\ need' = Least(Chunk, size - got) /\ rleft' = Idle
    /\ Append
    /\ UNCHANGED <<writing, wire, reader, got, cause, pooled, held>>

FrameRead ==
    /\ reader = "body" /\ need = 0 /\ Complete
    /\ reader' = "ok"
    /\ Append
    /\ UNCHANGED <<writing, wire, need, got, rleft, cause, pooled, held>>

\* A bug: the body is read without a deadline.
ReadDueOnlyInLength == reader = "length" /\ Idle > 0 /\ rleft = 0

ReadDue == Idle > 0 /\ rleft = 0

ReadFails ==
    /\ need > 0 /\ reader \in {"length", "body"}
    /\ \/ ReadDue /\ cause' = "deadline"
       \/ wire = 0 /\ sender \in {"ok", "error"} /\ cause' = "eof"
    /\ reader' = "error" /\ pooled' = FALSE   \* buf.Release()
    /\ UNCHANGED <<writing, wire, need, got, rleft, room, held>>

----------------------------------------------------------------------------

Reading == reader \in {"length", "body"}

\* A tick passes when the reader waits for bytes and its deadline is not due.
Tick ==
    /\ Reading \/ sender = "writing"
    /\ Reading => need > 0 /\ wire = 0 /\ ~ ReadDue
    /\ rleft' = IF Reading THEN Most(rleft - 1, 0) ELSE rleft
    /\ wleft' = Most(wleft - 1, 0)
    /\ held' = IF Reading /\ Idle > 0 THEN Least(held + 1, HoldLimit + 1) ELSE held
    /\ UNCHANGED <<size, foreign, sender, off, unsent, wire, reader, need, got, cause, room,
                   pooled>>

Send == WriteRefused \/ WriteLength \/ SendByte \/ WriteChunk \/ WriteDone \/ WriteFails

Receive ==
    ReadByte \/ LengthRefused \/ LengthRead \/ ChunkRead \/ FrameRead \/ ReadFails

Next == Send \/ Receive \/ Tick

\* Time passes and the reader runs; nothing is asked of the sender.
Fairness == WF_vars(Receive) /\ WF_vars(Tick)

Spec == Init /\ [][Next]_vars /\ Fairness

----------------------------------------------------------------------------
(* Properties *)

(* A frame is delivered whole or not at all: the reader succeeds only with a   *)
(* legal length, all of its bytes, and a sender that was not cut off.          *)
WholeFrameOrNone ==
    reader = "ok" => size \in 1 .. MaxFrame /\ got = size /\ sender # "error"

(* What WriteFrameWithTimeout writes, ReadFramePooledWithTimeout accepts: the  *)
(* reader fails only for time or because the writer did.  (An empty frame is   *)
(* written without complaint and refused by the reader.)                       *)
WrittenFrameReadable ==
    (reader = "error" /\ ~ foreign /\ size > 0) => cause = "deadline" \/ sender = "error"

\* What readLargeBody keeps allocated: the buffer, and the array of a chunk while it reads.
Pinned == room + IF reader = "body" THEN Chunk ELSE 0

(* "memory pinned by a stream tracks bytes received rather than bytes          *)
(* promised": beyond the largest tier, a chunk and the greater of the initial  *)
(* capacity and twice what has arrived, whatever length the prefix declares.   *)
(* A prefix alone therefore costs a chunk and the initial capacity, 320 KB,    *)
(* and not "nothing" as the comment of chunkSize says.                         *)
MemoryTracksBytes ==
    size > TierLarge => Pinned <= Chunk + Most(InitialCap, 2 * got)

(* A stalling peer holds the reader no longer than one idle interval for the   *)
(* length and one for each chunk.                                              *)
HoldBounded == held <= HoldLimit

(* The reader is never held forever, whatever the sender does.                 *)
ReaderFreed == Idle > 0 => <>(~ Reading)
=============================================================================
