--------------------------- MODULE CaptureBuffer ---------------------------
(***************************************************************************)
(* The circular capture buffer of a queue: the poll threads reserve space  *)
(* in it with an atomic add on consumer_write_off, copy each frame behind  *)
(* its RAW header, and thread 0 publishes what was reserved to the         *)
(* listeners and takes back the space all of them have released            *)
(* (hpcap_rx, hpcap_poll and the push/pop functions of hpcap_listeners.c). *)
(*                                                                         *)
(* The listeners are fixed here; opening, closing and the reset of the     *)
(* offsets when nobody listens are in module Listeners.  A record is a     *)
(* number of bytes (to_write); the padding records that hpcap_rx writes at *)
(* the end of a file reserve and fill space like any other and are         *)
(* modelled in module RawFile.  One step of a thread is one access to the  *)
(* shared offsets.                                                         *)
(***************************************************************************)
EXTENDS Integers, Sequences, FiniteSets

CONSTANTS BufSize,    \* bytes of the buffer (bufp->bufSize)
          OffsetMod,  \* consumer_write_off counts modulo this (2^32)
          RawHlen,    \* bytes of a RAW header (RAW_HLEN)
          Records,    \* the possible sizes of a record, header included
          Consumers,  \* poll threads of the queue
          Listener    \* the listeners of the queue

ASSUME BufferAssumption ==
    /\ BufSize \in Nat \ {0, 1}
    /\ OffsetMod \in Nat \ {0}
    /\ OffsetMod % BufSize = 0   \* the comment at hpcap_rx.c:584
    /\ RawHlen \in Nat \ {0}
    /\ Records \subseteq Nat
    /\ \A n \in Records : n > RawHlen /\ n < BufSize
    /\ Consumers \in Nat \ {0}
    /\ IsFiniteSet(Listener) /\ Listener # {}

VARIABLES writeOff,  \* bufp->consumer_write_off
          globalRd,  \* lstnr.global.bufferRdOffset
          globalWr,  \* lstnr.global.bufferWrOffset
          rd,        \* listeners[i].bufferRdOffset
          wr,        \* listeners[i].bufferWrOffset
          pc,        \* where each poll thread is
          limit,     \* the limit of its hpcap_rx call
          cnt,       \* the bytes it has counted against the limit
          start,     \* where its reservation starts (buffer_dst_offset)
          size,      \* and its size (to_write); 0 when it has none
          cell,      \* what each byte of the buffer holds
          bit        \* history: the bit of the last record copied

sharedVars == <<writeOff, globalRd, globalWr>>
lstnrVars  == <<rd, wr>>
threadVars == <<pc, limit, cnt, start, size>>
dataVars   == <<cell, bit>>
vars       == <<sharedVars, lstnrVars, threadVars, dataVars>>

-----------------------------------------------------------------------------
Consumer == 0..(Consumers - 1)
Offset   == 0..(BufSize - 1)

\* A byte nobody wrote since it was last reserved, or a byte of a record.
Hole == <<>>
Cell == {Hole} \cup ({0, 1} \X BOOLEAN)

Distance(from, to) == IF from <= to THEN to - from ELSE (BufSize - from) + to

UsedBytes(r, w)  == Distance(r, w)
AvailBytes(r, w) == (BufSize - UsedBytes(r, w)) - 1

\* Mutant of AsBufferOffset: the running offset is used as it is.
AsBufferOffsetIdentity(off) == off

\* The running offset of the consumers, in the buffer.
AsBufferOffset(off) == off % BufSize

\* The offsets of n bytes from off on.
Region(off, n) == {(off + k) % BufSize : k \in 0..(n - 1)}

\* hpcap_push_listener: the new write offset of a listener pushed count bytes.
\* When they do not fit count becomes avail - 1, an unsigned subtraction.
PushedOffset(r, w, count) ==
    LET avail == AvailBytes(r, w)
        pushed == IF avail < count THEN avail - 1 ELSE count
    IN  (w + pushed) % BufSize

\* Mutant of PoppedOffset: more than what is pending can be popped.
PoppedOffsetUnchecked(r, w, count) == (r + count) % BufSize

\* hpcap_pop_listener: count is cut down to what is pending.
PoppedOffset(r, w, count) ==
    LET used == UsedBytes(r, w)
    IN  (r + (IF used < count THEN used ELSE count)) % BufSize

\* hpcap_pop_global_listener: the distance to the slowest listener.
SlowestDistance ==
    LET dist == {Distance(globalRd, rd[l]) : l \in Listener}
    IN  CHOOSE d \in dist : \A e \in dist : d <= e

AfterRx(c) == IF c = 0 THEN "pop" ELSE "poll"

-----------------------------------------------------------------------------
Init ==
    /\ writeOff = 0 /\ globalRd = 0 /\ globalWr = 0
    /\ rd = [l \in Listener |-> 0]
    /\ wr = [l \in Listener |-> 0]
    /\ pc = [c \in Consumer |-> "poll"]
    /\ limit = [c \in Consumer |-> 0]
    /\ cnt = [c \in Consumer |-> 0]
    /\ start = [c \in Consumer |-> 0]
    /\ size = [c \in Consumer |-> 0]
    /\ cell = [o \in Offset |-> Hole]
    /\ bit = 1

\* Mutant of StartRx: the budget is the size of the buffer.
StartRxWholeBuffer(c) ==
    /\ pc[c] = "poll"
    /\ limit' = [limit EXCEPT ![c] = BufSize - 1]
    /\ cnt' = [cnt EXCEPT ![c] = 0]
    /\ pc' = [pc EXCEPT ![c] = "rx"]
    /\ UNCHANGED <<sharedVars, lstnrVars, start, size, dataVars>>

\* hpcap_poll computes the budget of the call from the global listener.
StartRx(c) ==
    /\ pc[c] = "poll"
    /\ limit' = [limit EXCEPT ![c] = AvailBytes(globalRd, globalWr) \div Consumers]
    /\ cnt' = [cnt EXCEPT ![c] = 0]
    /\ pc' = [pc EXCEPT ![c] = "rx"]
    /\ UNCHANGED <<sharedVars, lstnrVars, start, size, dataVars>>

\* A frame that fits in what is left of the budget, with room for one more
\* header: its bytes are reserved and counted.
Reserve(c, n) ==
    /\ pc[c] = "rx"
    /\ cnt[c] < limit[c]
    /\ limit[c] - cnt[c] >= n + RawHlen
    /\ writeOff' = (writeOff + n) % OffsetMod
    /\ start' = [start EXCEPT ![c] = AsBufferOffset(writeOff)]
    /\ size' = [size EXCEPT ![c] = n]
    /\ cnt' = [cnt EXCEPT ![c] = cnt[c] + n]
    /\ pc' = [pc EXCEPT ![c] = "copy"]
    /\ cell' = [o \in Offset |->
                  IF o \in Region(AsBufferOffset(writeOff), n) THEN Hole ELSE cell[o]]
    /\ UNCHANGED <<globalRd, globalWr, lstnrVars, limit, bit>>

\* Mutant of Copy: the length of the header is forgotten.
CopyWithoutHeader(c) ==
    /\ pc[c] = "copy"
    /\ bit' = 1 - bit
    /\ cell' = [o \in Offset |->
                  IF o \in Region(start[c], size[c] - RawHlen)
                  THEN <<bit', o = start[c]>>
                  ELSE cell[o]]
    /\ cnt' = [cnt EXCEPT ![c] = cnt[c] + (size[c] - RawHlen)]
    /\ size' = [size EXCEPT ![c] = 0]
    /\ pc' = [pc EXCEPT ![c] = "rx"]
    /\ UNCHANGED <<sharedVars, lstnrVars, limit, start>>

\* The header and the payload are copied; the loop then counts fd.size too.
Copy(c) ==
    /\ pc[c] = "copy"
    /\ bit' = 1 - bit
    /\ cell' = [o \in Offset |->
                  IF o \in Region(start[c], size[c])
                  THEN <<bit', o = start[c]>>
                  ELSE cell[o]]
    /\ cnt' = [cnt EXCEPT ![c] = cnt[c] + (size[c] - RawHlen)]
    /\ size' = [size EXCEPT ![c] = 0]
    /\ pc' = [pc EXCEPT ![c] = "rx"]
    /\ UNCHANGED <<sharedVars, lstnrVars, limit, start>>

\* The loop ends: no frame, the budget is spent, or the next frame does not
\* fit in it and is dropped (out_of_space).  Only thread 0 updates pointers.
\* Frames that are filtered out, or cut to the caplen, count against the budget
\* in full: that only ends the loop sooner, as this action already may.
EndRx(c) ==
    /\ pc[c] = "rx"
    /\ pc' = [pc EXCEPT ![c] = AfterRx(c)]
    /\ UNCHANGED <<sharedVars, lstnrVars, limit, cnt, start, size, dataVars>>

\* Mutant of PopGlobal: the space the clients released is never taken back.
PopGlobalNever(c) ==
    /\ pc[c] = "pop"
    /\ pc' = [pc EXCEPT ![c] = "push"]
    /\ UNCHANGED <<sharedVars, lstnrVars, limit, cnt, start, size, dataVars>>

\* Thread 0 moves the global read offset up to the slowest listener.
PopGlobal(c) ==
    /\ pc[c] = "pop"
    /\ globalRd' = (globalRd + SlowestDistance) % BufSize
    /\ pc' = [pc EXCEPT ![c] = "push"]
    /\ UNCHANGED <<writeOff, globalWr, lstnrVars, limit, cnt, start, size, dataVars>>

\* Thread 0 publishes everything reserved since its last publication.
PushAll(c) ==
    /\ pc[c] = "push"
    /\ LET count == Distance(globalWr, AsBufferOffset(writeOff))
       IN  IF count > 0
           THEN /\ globalWr' = PushedOffset(globalRd, globalWr, count)
                /\ wr' = [l \in Listener |-> PushedOffset(rd[l], wr[l], count)]
           ELSE UNCHANGED <<globalWr, wr>>
    /\ pc' = [pc EXCEPT ![c] = "poll"]
    /\ UNCHANGED <<writeOff, globalRd, rd, limit, cnt, start, size, dataVars>>

\* A client acknowledges count bytes (HPCAP_IOC_LSTOP or read()).
Ack(l, count) ==
    /\ UsedBytes(rd[l], wr[l]) > 0
    /\ rd' = [rd EXCEPT ![l] = PoppedOffset(rd[l], wr[l], count)]
    /\ UNCHANGED <<sharedVars, wr, threadVars, dataVars>>

Thread(c) ==
    \/ StartRx(c)
    \/ \E n \in Records : Reserve(c, n)
    \/ Copy(c)
    \/ EndRx(c)
    \/ PopGlobal(c)
    \/ PushAll(c)

Next ==
    \/ \E c \in Consumer : Thread(c)
    \/ \E l \in Listener, count \in 1..BufSize : Ack(l, count)

Spec == Init /\ [][Next]_vars

\* Poll threads keep running, frames keep arriving, so a call that has room
\* for a frame again and again gets one, and the clients keep acknowledging.
Fairness ==
    /\ \A c \in Consumer : WF_vars(Thread(c))
    /\ \A c \in Consumer : SF_vars(\E n \in Records : Reserve(c, n))
    /\ \A l \in Listener : WF_vars(\E count \in 1..BufSize : Ack(l, count))

FairSpec == Spec /\ Fairness

-----------------------------------------------------------------------------
\* Type correctness.
TypeOK ==
    /\ writeOff \in 0..(OffsetMod - 1)
    /\ globalRd \in Offset /\ globalWr \in Offset
    /\ rd \in [Listener -> Offset]
    /\ wr \in [Listener -> Offset]
    /\ pc \in [Consumer -> {"poll", "rx", "copy", "pop", "push"}]
    /\ limit \in [Consumer -> Offset]
    /\ cnt \in [Consumer -> Nat]
    /\ start \in [Consumer -> Offset]
    /\ size \in [Consumer -> Nat]
    /\ cell \in [Offset -> Cell]
    /\ bit \in {0, 1}

\* The bytes listener l may read now.
Unread(l) == Region(rd[l], UsedBytes(rd[l], wr[l]))

\* Every byte a client may read was copied: what thread 0 publishes is not
\* only reserved (hpcap_rx.c:830 publishes consumer_write_off).
PublishedIsCopied == \A l \in Listener : \A o \in Unread(l) : cell[o] # Hole

\* No thread reserves a byte that some client has not released yet: the
\* limit each call gets keeps the threads out of the unread data.
NoOverwrite ==
    [][\A c \in Consumer :
          size'[c] > 0 /\ size[c] = 0
              => \A l \in Listener : Region(start'[c], size'[c]) \cap Unread(l) = {}]_vars

\* A client that keeps acknowledging keeps getting data, however slow it is.
DataKeepsFlowing == \A l \in Listener : []<>(rd[l] # wr[l])

\* What a client sees of the buffer, and the stream it is promised.
Queue == [l \in Listener |->
             [k \in 1..UsedBytes(rd[l], wr[l]) |-> cell[(rd[l] + k - 1) % BufSize]]]

\* The bit of the last published record, that of the byte behind globalWr.
PublishedBit ==
    LET before == cell[(globalWr + BufSize - 1) % BufSize]
    IN  IF before = Hole THEN 1 ELSE before[1]

Stream == INSTANCE FrameBroadcast WITH
    Reader <- Listener, Capacity <- BufSize - 1,
    queue <- Queue, lastBit <- PublishedBit

\* With one poll thread the buffer is the broadcast of whole records.
ImplementsBroadcast == Stream!Spec
=============================================================================
