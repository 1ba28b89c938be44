------------------------------ MODULE RawFile ------------------------------
(***************************************************************************)
(* The RAW stream in the capture buffer: hpcap_rx cuts it in files of      *)
(* HPCAP_FILESIZE bytes, so that a client may store it block by block      *)
(* without looking at it, and no record lies across two files.  A frame    *)
(* that does not fit in what is left of the file is replaced by padding    *)
(* records (set_padding) and reserved again.  The client reads the stream  *)
(* record by record with hpcap_read_packet.                                *)
(*                                                                         *)
(* The reservation of a thread is one step and each record it writes       *)
(* another.  Thread 0 publishes (module CaptureBuffer) when no thread has  *)
(* anything left to write: with one poll thread that is what the code      *)
(* does.  The client acknowledges each packet as soon as it has read it.   *)
(***************************************************************************)
EXTENDS Integers, FiniteSets

CONSTANTS FileSize,  \* HPCAP_FILESIZE
          BufBytes,  \* bytes of the buffer
          RawHlen,   \* bytes of a header
          LenMod,    \* the 16-bit length of a header counts modulo this
          Records,   \* sizes of the records of frames, header included
          Consumers  \* poll threads

ASSUME RawFileAssumption ==
    /\ FileSize \in Nat \ {0} /\ BufBytes \in Nat \ {0} /\ RawHlen <= FileSize
    /\ FileSize % BufBytes = 0 \/ BufBytes % FileSize = 0 \* hpcap_rx.c:584
    /\ RawHlen \in Nat \ {0} /\ LenMod \in Nat \ {0}
    /\ Consumers \in Nat \ {0}
    /\ \A n \in Records : n \in Nat /\ n > RawHlen /\ n <= LenMod
    /\ \A n \in Records : n + RawHlen <= FileSize /\ n < BufBytes

VARIABLES writeOff,  \* bufp->consumer_write_off
          readOff,   \* read offset of the client, and of the buffer
          pubOff,    \* published write offset
          stage,     \* where each poll thread is
          size,      \* to_write of its frame
          dst,       \* offset_dst of its reservation
          limit,     \* the limit of its hpcap_rx call
          cnt,       \* the bytes counted against it
          cell,      \* what each byte of the buffer holds
          aborted,   \* the client called abort() in hpcap_read_packet
          strayed,   \* history: a reservation ended inside a file's first header,
                     \* or padding was written on bytes not read yet
          misread    \* history: the client read a split header

offVars    == <<writeOff, readOff, pubOff>>
threadVars == <<stage, size, dst, limit, cnt>>
readerVars == <<aborted, misread>>
rawVars    == <<offVars, threadVars, cell, readerVars, strayed>>

-----------------------------------------------------------------------------
Consumer == 0..(Consumers - 1)

\* The running offsets count modulo 2^32, a multiple of both sizes.
OffsetMod == IF FileSize > BufBytes THEN FileSize ELSE BufBytes
RunningOffset == 0..(OffsetMod - 1)

AsBufferOffset(off) == off % BufBytes
AsFileOffset(off)   == off % FileSize

Data == [kind |-> "data", len |-> 0]   \* a byte that starts no record
Header(kind, len) == [kind |-> kind, len |-> len]

\* The length a reader finds in the header of a padding record.
StoredLength(padlen) == RawHlen + ((padlen - RawHlen) % LenMod)

\* The buffer after a header and n - 1 bytes behind its first one are written.
Written(off, h, n) ==
    [o \in 0..(BufBytes - 1) |->
        IF o = AsBufferOffset(off) THEN h
        ELSE IF (o - off) % BufBytes < n THEN Data ELSE cell[o]]

\* set_padding: only the header is written, and none if there is no room.
SetPadding(off, padlen) ==
    cell' = IF padlen < RawHlen THEN cell
            ELSE Written(off, Header("pad", StoredLength(padlen)), RawHlen)

Used == (pubOff - readOff) % OffsetMod

\* The n bytes of the buffer from off on.
Bytes(off, n) == {AsBufferOffset(off + k) : k \in 0..(n - 1)}

RawInit ==
    /\ writeOff = 0 /\ readOff = 0 /\ pubOff = 0
    /\ stage = [c \in Consumer |-> "rx"]
    /\ size = [c \in Consumer |-> 0] /\ dst = [c \in Consumer |-> 0]
    /\ limit = [c \in Consumer |-> (BufBytes - 1) \div Consumers]
    /\ cnt = [c \in Consumer |-> 0]
    /\ cell = [o \in 0..(BufBytes - 1) |-> Data]
    /\ aborted = FALSE /\ strayed = FALSE /\ misread = FALSE

-----------------------------------------------------------------------------
\* Mutant of HasRoom: only the condition of the loop is left.
HasRoomInLoop(c, n) == cnt[c] < limit[c]

HasRoom(c, n) == cnt[c] < limit[c] /\ limit[c] - cnt[c] >= n + RawHlen

\* Mutant of NeedsPadding: no room is kept for the header of the padding.
NeedsPaddingLate(off, n) == AsFileOffset(off) + n > FileSize

\* There is no room in the file for the frame and one more header.
NeedsPadding(off, n) == AsFileOffset(off) + n + RawHlen > FileSize

\* The previous reservation ended inside the first header of the file.
InGap(off) == AsFileOffset(off) \in 1..(RawHlen - 1)

\* The bytes of a frame are reserved, the first time or again behind padding.
Reserve(c, n) ==
    /\ stage[c] = "rx" \/ (stage[c] = "retry" /\ n = size[c])
    /\ HasRoom(c, n)
    /\ writeOff' = (writeOff + n) % OffsetMod
    /\ strayed' = (strayed \/ InGap(writeOff'))
    /\ size' = [size EXCEPT ![c] = n]
    /\ dst' = [dst EXCEPT ![c] = writeOff]
    /\ cnt' = [cnt EXCEPT ![c] = cnt[c] + n]
    /\ stage' = [stage EXCEPT ![c] = IF NeedsPadding(writeOff, n) THEN "padTail"
                               ELSE IF InGap(writeOff) THEN "padGap" ELSE "frame"]
    /\ UNCHANGED <<readOff, pubOff, limit, cell, readerVars>>

TailLength(c)  == FileSize - AsFileOffset(dst[c])
FinalOffset(c) == AsFileOffset(dst[c] + size[c])

\* Padding up to the end of the file.
PadTail(c) ==
    /\ stage[c] = "padTail"
    /\ SetPadding(dst[c], TailLength(c))
    /\ stage' = [stage EXCEPT ![c] = IF FinalOffset(c) >= RawHlen THEN "padHead" ELSE "retry"]
    /\ UNCHANGED <<offVars, size, dst, limit, cnt, readerVars, strayed>>

\* What was reserved before and not read yet, and the header behind it.
NotReadBefore(c) == Bytes(readOff, ((dst[c] - readOff) % OffsetMod) + 1)

\* Padding of what was reserved in the next file, if a header fits in it.  The
\* test is also true when nothing was reserved there, because the reservation
\* ended less than a header before the end of the file: the header then goes
\* behind the reservation.
PadHead(c) ==
    /\ stage[c] = "padHead"
    /\ SetPadding(dst[c] + TailLength(c), FinalOffset(c))
    /\ strayed' = (strayed \/ Bytes(dst[c] + TailLength(c), RawHlen) \cap NotReadBefore(c) # {})
    /\ stage' = [stage EXCEPT ![c] = "retry"]
    /\ UNCHANGED <<offVars, size, dst, limit, cnt, readerVars>>

\* Padding from the start of the file to the end of the reservation, when the
\* previous one could not write it; its length is taken in the buffer.
PadGap(c) ==
    /\ stage[c] = "padGap"
    /\ LET padlen == AsBufferOffset(dst[c] + FinalOffset(c))
       IN  /\ SetPadding(dst[c] - AsFileOffset(dst[c]), padlen)
           /\ stage' = [stage EXCEPT ![c] = IF padlen > 0 THEN "retry" ELSE "frame"]
    /\ UNCHANGED <<offVars, size, dst, limit, cnt, readerVars, strayed>>

\* The frame is written, and the loop counts its length.  Frames that are
\* filtered out, or cut to the caplen, count in full in the code: the loop then
\* ends sooner, as EndRx may at any time.
WriteFrame(c) ==
    /\ stage[c] = "frame"
    /\ cell' = Written(dst[c], Header("frame", size[c]), size[c])
    /\ cnt' = [cnt EXCEPT ![c] = cnt[c] + (size[c] - RawHlen)]
    /\ stage' = [stage EXCEPT ![c] = "rx"]
    /\ UNCHANGED <<offVars, size, dst, limit, readerVars, strayed>>

\* The loop of hpcap_rx ends: there is no frame, or no room.  A frame that found
\* no room the second time is dropped, its padding stays.
EndRx(c) ==
    /\ stage[c] = "rx" \/ (stage[c] = "retry" /\ ~HasRoom(c, size[c]))
    /\ stage' = [stage EXCEPT ![c] = "done"]
    /\ UNCHANGED <<offVars, size, dst, limit, cnt, cell, readerVars, strayed>>

\* hpcap_poll publishes what was reserved and starts the next calls.
Publish ==
    /\ \A c \in Consumer : stage[c] = "done"
    /\ pubOff' = writeOff
    /\ stage' = [c \in Consumer |-> "rx"]
    /\ size' = [c \in Consumer |-> 0] /\ dst' = [c \in Consumer |-> 0]
    /\ limit' = [c \in Consumer |->
                   (BufBytes - 1 - ((pubOff' - readOff) % OffsetMod)) \div Consumers]
    /\ cnt' = [c \in Consumer |-> 0]
    /\ UNCHANGED <<writeOff, readOff, cell, readerVars, strayed>>

-----------------------------------------------------------------------------
\* The byte with k published bytes from it on.
CellAt(k) == cell[AsBufferOffset(pubOff - k)]

\* A header that lies across the end of the buffer is not read whole: the second
\* memcpy of copy_from_circ_buffer overwrites what the first one copied.
IsSplit(k) == AsBufferOffset(pubOff - k) + RawHlen > BufBytes

\* hpcap_read_packet, when n headers were read: the bytes left behind the next
\* frame when k were left, or -1 if the client aborts: a fifth header, a header
\* or a record that is not all there, or padding with no header behind it.  A
\* split header may say anything (with the 12 bytes of the code, unless the end
\* of the buffer falls behind its tenth byte: then only its seconds are wrong).
LeftAfterPacket[n \in 0..4] == [k \in 0..BufBytes |->
    LET h == CellAt(k)
    IN  IF n = 4 \/ k < RawHlen THEN {-1}
        ELSE IF IsSplit(k) THEN {-1} \cup 0..(k - RawHlen)
        ELSE IF h.kind = "data" \/ h.len > k THEN {-1}
        ELSE IF h.kind = "frame" THEN {k - h.len}
        ELSE LeftAfterPacket[n + 1][k - h.len]]

\* What the next packet may leave of the bytes published.
LeftAfterNext == LeftAfterPacket[0][Used]

\* A client with less than a header gets no packet.  The bytes it releases are
\* forgotten, so that a header of an earlier turn is not taken for a new one.
ReadPacket ==
    /\ ~aborted /\ Used >= RawHlen
    /\ \E left \in LeftAfterNext :
          IF left = -1
          THEN aborted' = TRUE /\ UNCHANGED <<readOff, cell>>
          ELSE /\ readOff' = (pubOff - left) % OffsetMod
               /\ cell' = [o \in 0..(BufBytes - 1) |->
                             IF (o - readOff) % BufBytes < Used - left THEN Data ELSE cell[o]]
               /\ UNCHANGED aborted
    /\ misread' = (misread \/ Cardinality(LeftAfterNext) > 1)
    /\ UNCHANGED <<writeOff, pubOff, threadVars, strayed>>

Thread(c) ==
    \/ \E n \in Records : Reserve(c, n)
    \/ PadTail(c) \/ PadHead(c) \/ PadGap(c) \/ WriteFrame(c) \/ EndRx(c)

RawNext == (\E c \in Consumer : Thread(c)) \/ Publish \/ ReadPacket

RawSpec == RawInit /\ [][RawNext]_rawVars

-----------------------------------------------------------------------------
\* Type correctness.
RawTypeOK ==
    /\ writeOff \in RunningOffset /\ readOff \in RunningOffset /\ pubOff \in RunningOffset
    /\ stage \in [Consumer -> {"rx", "retry", "padTail", "padHead", "padGap", "frame", "done"}]
    /\ size \in [Consumer -> Records \cup {0}] /\ dst \in [Consumer -> RunningOffset]
    /\ limit \in [Consumer -> 0..(BufBytes - 1)] /\ cnt \in [Consumer -> Nat]
    /\ cell \in [0..(BufBytes - 1) -> [kind : {"data", "pad", "frame"}, len : Nat]]
    /\ aborted \in BOOLEAN /\ strayed \in BOOLEAN /\ misread \in BOOLEAN
    /\ Used < BufBytes

\* The last k published bytes are whole records, and none of them crosses the
\* end of a file.  The very last may be padding, at the end or at the start of
\* a file, whose other bytes belong to the next reservation.
Tiled[k \in 0..BufBytes] ==
    \/ k = 0
    \/ k < RawHlen /\ AsFileOffset(pubOff - k) = 0
    \/ LET h == CellAt(k)
       IN  /\ h.kind = "pad" \/ (h.kind = "frame" /\ h.len <= k)
           /\ AsFileOffset(pubOff - k) + h.len <= FileSize
           /\ h.len <= k => Tiled[k - h.len]

\* What the client may read are whole records, each within one file: whoever
\* stores the stream in files of FileSize bytes starts each with a header
\* (the padding that hpcap_rx writes at the end and the start of a file).
RecordsTile == aborted \/ Tiled[Used]

\* The same, until a reservation ends inside the first header of a file, a
\* padding header is written on unread bytes, or the client reads a header
\* that lies across the end of the buffer.
RecordsTileUntilMisread == strayed \/ misread \/ RecordsTile
=============================================================================
