----------------------------- MODULE Listeners -----------------------------
(***************************************************************************)
(* Clients that come and go while a poll thread captures: the listener     *)
(* slots of a queue, their offsets in the capture buffer, and the reset of *)
(* all the offsets when nobody listens (hpcap_listeners.c, the open,       *)
(* release, read and ioctl handlers of hpcap_cdev.c, and the loop of       *)
(* hpcap_poll).                                                            *)
(*                                                                         *)
(* hpcap_add_listener and hpcap_del_listener take a spin lock; the poll    *)
(* thread and the acknowledgements never do.  A step is one access to      *)
(* state that somebody else uses.  global.bufferWrOffset and               *)
(* bufferRdOffset and consumer_write_off are only written by the poll      *)
(* thread, so what it does with them in a row is one step unless           *)
(* hpcap_add_listener could see the difference; a local that is not used   *)
(* any more is set to 0.                                                   *)
(*                                                                         *)
(* There is one poll thread (module CaptureBuffer has several) and every   *)
(* record has the same size, so that a record starts exactly at the        *)
(* multiples of FrameLen.  Killing listeners is in module Sessions.        *)
(***************************************************************************)
EXTENDS Integers, FiniteSets

CONSTANTS BufSize,      \* bytes of the buffer
          RawHlen,      \* bytes of a RAW header
          FrameLen,     \* bytes of a record, header included
          MaxListeners, \* slots (MAX_LISTENERS)
          Client,       \* the programs that open the device
          NoClient,     \* HPCAP_LISTENER_EMPTY
          AckBy         \* how they acknowledge: "lstop" (ioctl) or "read"

ASSUME ListenersAssumption ==
    /\ BufSize \in Nat /\ RawHlen \in Nat \ {0} /\ FrameLen \in Nat
    /\ RawHlen < FrameLen /\ FrameLen < BufSize /\ BufSize % FrameLen = 0
    /\ MaxListeners \in Nat
    /\ IsFiniteSet(Client) /\ Cardinality(Client) \in 1..MaxListeners
    /\ NoClient \notin Client
    /\ AckBy \subseteq {"lstop", "read"}

VARIABLES writeOff,  \* bufp->consumer_write_off, in the buffer
          globalRd,  \* lstnr.global.bufferRdOffset
          globalWr,  \* lstnr.global.bufferWrOffset
          popped,    \* lstnr.already_popped
          count,     \* lstnr.listeners_count
          id,        \* listeners[i].id: who owns slot i
          rd,        \* listeners[i].bufferRdOffset
          wr,        \* listeners[i].bufferWrOffset
          ppc,       \* where the poll thread is
          budget,    \* what is left of the limit of its hpcap_rx call
          idx,       \* the slot its loop over the slots is at
          minDist,   \* minDist of hpcap_pop_global_listener
          newBytes,  \* new_bytes of hpcap_poll
          cpc,       \* where each client is
          slot,      \* the slot it got
          raced,     \* history: an open overlapped a reset, pop or push
          unreset    \* history: a first listener found the offsets not reset

bufVars    == <<writeOff, globalRd, globalWr>>
slotVars   == <<id, rd, wr>>
pollVars   == <<ppc, budget, idx, minDist, newBytes>>
clientVars == <<cpc, slot>>
vars == <<bufVars, popped, count, slotVars, pollVars, clientVars, raced, unreset>>

-----------------------------------------------------------------------------
Slot   == 0..(MaxListeners - 1)
Offset == 0..(BufSize - 1)

Distance(from, to) == IF from <= to THEN to - from ELSE (BufSize - from) + to
UsedBytes(r, w)    == Distance(r, w)
AvailBytes(r, w)   == (BufSize - UsedBytes(r, w)) - 1
Region(off, n)     == {(off + k) % BufSize : k \in 0..(n - 1)}

Registered(s)  == id[s] # NoClient
AtFrameStart(o) == o % FrameLen = 0

Adding   == {"adding", "placed", "named"}
Deleting == {"unnamed", "cleared"}

\* The spin lock of the listeners is free.
LockFree == \A c \in Client : cpc[c] \notin Adding \cup Deleting

\* Mutant of Pushed: the offset does not wrap at the end of the buffer.
PushedNoWrap(r, w, n) ==
    LET avail == AvailBytes(r, w)
    IN  w + (IF avail < n THEN avail - 1 ELSE n)

\* hpcap_push_listener: when the bytes do not fit, avail - 1 are pushed.
Pushed(r, w, n) ==
    LET avail == AvailBytes(r, w)
    IN  (w + (IF avail < n THEN avail - 1 ELSE n)) % BufSize

Init ==
    /\ writeOff = 0 /\ globalRd = 0 /\ globalWr = 0
    /\ popped = FALSE /\ count = 0
    /\ id = [s \in Slot |-> NoClient]
    /\ rd = [s \in Slot |-> 0] /\ wr = [s \in Slot |-> 0]
    /\ ppc = "count" /\ budget = 0 /\ idx = 0 /\ minDist = 0 /\ newBytes = 0
    /\ cpc = [c \in Client |-> "closed"] /\ slot = [c \in Client |-> 0]
    /\ raced = FALSE /\ unreset = FALSE

-----------------------------------------------------------------------------
(* The poll thread: hpcap_poll.                                            *)

\* It reads the count.  With nobody listening the offsets are reset and the
\* frames of this round are discarded.
ReadCount ==
    /\ ppc = "count"
    /\ IF count = 0
       THEN ppc' = "resetWr" /\ UNCHANGED budget
       ELSE ppc' = "rx" /\ budget' = AvailBytes(globalRd, globalWr)
    /\ UNCHANGED <<bufVars, popped, count, slotVars, idx, minDist, newBytes, clientVars>>

ResetWr ==
    /\ ppc = "resetWr"
    /\ globalWr' = 0
    /\ ppc' = "resetRd"
    /\ UNCHANGED <<writeOff, globalRd, popped, count, slotVars, budget, idx, minDist, newBytes, clientVars>>

ResetRd ==
    /\ ppc = "resetRd"
    /\ globalRd' = 0
    /\ ppc' = "resetPopped"
    /\ UNCHANGED <<writeOff, globalWr, popped, count, slotVars, budget, idx, minDist, newBytes, clientVars>>

\* already_popped and consumer_write_off; the round then goes on to the pop.
ResetPopped ==
    /\ ppc = "resetPopped"
    /\ popped' = FALSE
    /\ writeOff' = 0
    /\ ppc' = "scan" /\ minDist' = BufSize + 1
    /\ UNCHANGED <<globalRd, globalWr, count, slotVars, budget, idx, newBytes, clientVars>>

\* Mutant of RxFrame: the frame is stored without looking at the room left.
RxFrameNoRoom ==
    /\ ppc = "rx"
    /\ budget > 0
    /\ writeOff' = (writeOff + FrameLen) % BufSize
    /\ budget' = budget - FrameLen - (FrameLen - RawHlen)
    /\ UNCHANGED <<globalRd, globalWr, popped, count, slotVars, ppc, idx, minDist, newBytes, clientVars>>

\* hpcap_rx stores a frame that fits in the budget.
RxFrame ==
    /\ ppc = "rx"
    /\ budget >= FrameLen + RawHlen
    /\ writeOff' = (writeOff + FrameLen) % BufSize
    /\ budget' = budget - FrameLen - (FrameLen - RawHlen)
    /\ UNCHANGED <<globalRd, globalWr, popped, count, slotVars, ppc, idx, minDist, newBytes, clientVars>>

EndRx ==
    /\ ppc = "rx"
    /\ ppc' = "scan" /\ budget' = 0 /\ minDist' = BufSize + 1
    /\ UNCHANGED <<bufVars, popped, count, slotVars, idx, newBytes, clientVars>>

\* hpcap_pop_global_listener: the id and the read offset of each slot.
ScanId ==
    /\ ppc = "scan" /\ idx \in Slot
    /\ IF Registered(idx)
       THEN ppc' = "scanRd" /\ UNCHANGED idx
       ELSE idx' = idx + 1 /\ UNCHANGED ppc
    /\ UNCHANGED <<bufVars, popped, count, slotVars, budget, minDist, newBytes, clientVars>>

\* Mutant of ScanRd: the last listener wins instead of the slowest.
ScanRdLast ==
    /\ ppc = "scanRd"
    /\ minDist' = Distance(globalRd, rd[idx])
    /\ idx' = idx + 1
    /\ ppc' = "scan"
    /\ UNCHANGED <<bufVars, popped, count, slotVars, budget, newBytes, clientVars>>

\* The minimum so far of the distances to the listeners' read offsets.
ScanRd ==
    /\ ppc = "scanRd"
    /\ LET dist == Distance(globalRd, rd[idx])
       IN  minDist' = IF dist < minDist THEN dist ELSE minDist
    /\ idx' = idx + 1
    /\ ppc' = "scan"
    /\ UNCHANGED <<bufVars, popped, count, slotVars, budget, newBytes, clientVars>>

\* The global read offset moves; then the new bytes are counted and, if there
\* are any, pushed to the global listener.
PopGlobal ==
    /\ ppc = "scan" /\ idx = MaxListeners
    /\ globalRd' = IF minDist <= BufSize THEN (globalRd + minDist) % BufSize ELSE globalRd
    /\ newBytes' = Distance(globalWr, writeOff)
    /\ ppc' = IF newBytes' > 0 THEN "pushGlobal" ELSE "count"
    /\ idx' = 0 /\ minDist' = 0
    /\ UNCHANGED <<writeOff, globalWr, popped, count, slotVars, budget, clientVars>>

PushGlobal ==
    /\ ppc = "pushGlobal"
    /\ globalWr' = Pushed(globalRd, globalWr, newBytes)
    /\ ppc' = "push"
    /\ UNCHANGED <<writeOff, globalRd, popped, count, slotVars, budget, idx, minDist, newBytes, clientVars>>

\* The same bytes are pushed to every registered slot, one after another.
PushSlot ==
    /\ ppc = "push" /\ idx \in Slot
    /\ wr' = IF Registered(idx)
             THEN [wr EXCEPT ![idx] = Pushed(rd[idx], wr[idx], newBytes)]
             ELSE wr
    /\ IF idx + 1 = MaxListeners
       THEN ppc' = "count" /\ idx' = 0 /\ newBytes' = 0
       ELSE idx' = idx + 1 /\ UNCHANGED <<ppc, newBytes>>
    /\ UNCHANGED <<bufVars, popped, count, id, rd, budget, minDist, clientVars>>

Poll ==
    /\ \/ ReadCount \/ ResetWr \/ ResetRd \/ ResetPopped \/ RxFrame \/ EndRx
       \/ ScanId \/ ScanRd \/ PopGlobal \/ PushGlobal \/ PushSlot
    /\ UNCHANGED unreset

-----------------------------------------------------------------------------
(* The clients.                                                            *)

\* Mutant of Open: hpcap_add_listener does not take the lock.
OpenUnlocked(c) ==
    /\ cpc[c] = "closed"
    /\ \E s \in Slot :
          /\ ~Registered(s) /\ \A t \in 0..(s - 1) : Registered(t)
          /\ slot' = [slot EXCEPT ![c] = s]
          /\ wr' = [wr EXCEPT ![s] = globalWr]
    /\ cpc' = [cpc EXCEPT ![c] = "adding"]
    /\ UNCHANGED <<bufVars, popped, count, id, rd, pollVars, unreset>>

\* hpcap_open, hpcap_add_listener: under the lock, the first free slot gets
\* the global write offset.
Open(c) ==
    /\ cpc[c] = "closed" /\ LockFree
    /\ \E s \in Slot :
          /\ ~Registered(s) /\ \A t \in 0..(s - 1) : Registered(t)
          /\ slot' = [slot EXCEPT ![c] = s]
          /\ wr' = [wr EXCEPT ![s] = globalWr]
    /\ cpc' = [cpc EXCEPT ![c] = "adding"]
    /\ UNCHANGED <<bufVars, popped, count, id, rd, pollVars, unreset>>

\* Mutant of PlaceRd: already_popped is not asked.
PlaceRdAlwaysGlobal(c) ==
    /\ cpc[c] = "adding"
    /\ rd' = [rd EXCEPT ![slot[c]] = globalRd]
    /\ unreset' = (unreset \/ (count = 0 /\ globalRd # 0))
    /\ cpc' = [cpc EXCEPT ![c] = "placed"]
    /\ UNCHANGED <<bufVars, popped, count, id, wr, pollVars, slot>>

\* Its read offset: the global one if no other listener acknowledged anything.
PlaceRd(c) ==
    /\ cpc[c] = "adding"
    /\ rd' = [rd EXCEPT ![slot[c]] =
                 IF count = 0 \/ ~popped THEN globalRd ELSE globalWr]
    /\ unreset' = (unreset \/ (count = 0 /\ globalRd # 0))
    /\ cpc' = [cpc EXCEPT ![c] = "placed"]
    /\ UNCHANGED <<bufVars, popped, count, id, wr, pollVars, slot>>

SetId(c) ==
    /\ cpc[c] = "placed"
    /\ id' = [id EXCEPT ![slot[c]] = c]
    /\ cpc' = [cpc EXCEPT ![c] = "named"]
    /\ UNCHANGED <<bufVars, popped, count, rd, wr, pollVars, slot, unreset>>

IncCount(c) ==
    /\ cpc[c] = "named"
    /\ count' = count + 1
    /\ cpc' = [cpc EXCEPT ![c] = "open"]
    /\ UNCHANGED <<bufVars, popped, slotVars, pollVars, slot, unreset>>

\* HPCAP_IOC_LSTOP sets already_popped, then pops; read() only pops.
MarkPopped(c) ==
    /\ cpc[c] = "open" /\ "lstop" \in AckBy
    /\ UsedBytes(rd[slot[c]], wr[slot[c]]) > 0
    /\ popped' = TRUE
    /\ cpc' = [cpc EXCEPT ![c] = "acking"]
    /\ UNCHANGED <<bufVars, count, slotVars, pollVars, slot, unreset>>

\* hpcap_pop_listener: the acknowledged bytes, never more than are pending.
Pop(c, n) ==
    /\ cpc[c] = "acking" \/ (cpc[c] = "open" /\ "read" \in AckBy)
    /\ LET s == slot[c]
           used == UsedBytes(rd[s], wr[s])
       IN  rd' = [rd EXCEPT ![s] = (rd[s] + (IF used < n THEN used ELSE n)) % BufSize]
    /\ cpc' = [cpc EXCEPT ![c] = "open"]
    /\ UNCHANGED <<bufVars, popped, count, id, wr, pollVars, slot, unreset>>

\* hpcap_release, hpcap_del_listener: hpcap_rst_listener clears the id first.
ClearId(c) ==
    /\ cpc[c] = "open" /\ LockFree
    /\ id' = [id EXCEPT ![slot[c]] = NoClient]
    /\ cpc' = [cpc EXCEPT ![c] = "unnamed"]
    /\ UNCHANGED <<bufVars, popped, count, rd, wr, pollVars, slot, unreset>>

ClearOffsets(c) ==
    /\ cpc[c] = "unnamed"
    /\ wr' = [wr EXCEPT ![slot[c]] = 0]
    /\ rd' = [rd EXCEPT ![slot[c]] = 0]
    /\ slot' = [slot EXCEPT ![c] = 0]
    /\ cpc' = [cpc EXCEPT ![c] = "cleared"]
    /\ UNCHANGED <<bufVars, popped, count, id, pollVars, unreset>>

DecCount(c) ==
    /\ cpc[c] = "cleared"
    /\ count' = count - 1
    /\ cpc' = [cpc EXCEPT ![c] = "closed"]
    /\ UNCHANGED <<bufVars, popped, slotVars, pollVars, slot, unreset>>

ClientStep(c) ==
    \/ Open(c) \/ PlaceRd(c) \/ SetId(c) \/ IncCount(c)
    \/ MarkPopped(c) \/ (\E n \in 1..BufSize : Pop(c, n))
    \/ ClearId(c) \/ ClearOffsets(c) \/ DecCount(c)

\* What a lock that the poll thread takes too would exclude: a listener added
\* during its reset, pop or push, or one deleted while the pop reads its slot.
Overlap ==
    \/ ppc \notin {"count", "rx"} /\ \E c \in Client : cpc[c] \in Adding
    \/ ppc = "scanRd" /\ \E c \in Client : cpc[c] \in Deleting

RememberOverlap == raced' = (raced \/ Overlap')

Next == (Poll \/ \E c \in Client : ClientStep(c)) /\ RememberOverlap

Spec == Init /\ [][Next]_vars

-----------------------------------------------------------------------------
\* Type correctness.
TypeOK ==
    /\ writeOff \in Offset /\ globalRd \in Offset /\ globalWr \in Offset
    /\ popped \in BOOLEAN /\ count \in 0..MaxListeners
    /\ id \in [Slot -> Client \cup {NoClient}]
    /\ rd \in [Slot -> Offset] /\ wr \in [Slot -> Offset]
    /\ ppc \in {"count", "resetWr", "resetRd", "resetPopped", "rx", "scan", "scanRd",
                "pushGlobal", "push"}
    /\ budget \in Int /\ idx \in 0..MaxListeners
    /\ minDist \in 0..(BufSize + 1) /\ newBytes \in Offset
    /\ cpc \in [Client -> {"closed", "open", "acking"} \cup Adding \cup Deleting]
    /\ slot \in [Client -> Slot]
    /\ raced \in BOOLEAN /\ unreset \in BOOLEAN

IsOpen(c)  == cpc[c] \in {"open", "acking"}
Reading(s) == \E c \in Client : IsOpen(c) /\ slot[c] = s
Unread(s)  == Region(rd[s], UsedBytes(rd[s], wr[s]))

\* Whatever the interleaving of opens and closes, a slot has one owner and the
\* count, which tells the poll thread to store or to discard, is the number of
\* registered slots (hpcap_add_listener, hpcap_del_listener).
SlotsCounted ==
    /\ \A c, d \in Client : IsOpen(c) /\ IsOpen(d) /\ slot[c] = slot[d] => c = d
    /\ \A c \in Client : IsOpen(c) => id[slot[c]] = c
    /\ LockFree => count = Cardinality({s \in Slot : Registered(s)})

\* Between two rounds every reading client has the global write offset: new
\* data was pushed to all the listeners, once (hpcap_push_all_listeners).
FollowsGlobal ==
    ppc \in {"count", "rx"} => \A s \in Slot : Reading(s) => wr[s] = globalWr

\* The global read offset is the first of all the read offsets: it is not
\* ahead of a reading client's (hpcap_pop_global_listener).
GlobalNotAhead ==
    ppc \in {"count", "rx"} =>
        \A s \in Slot : Reading(s) =>
            Distance(globalRd, rd[s]) <= Distance(globalRd, globalWr)

\* A client starts to read at the first byte of a frame (hpcap_add_listener).
StartsAtFrame == \A c \in Client : cpc[c] = "named" => AtFrameStart(rd[slot[c]])

\* Each of them as long as no listener was added or deleted in the middle of
\* the poll thread's unlocked updates; a client starts at a frame if, besides,
\* no first listener came before the reset.
OffsetsAgreeUnlessRaced  == raced \/ (FollowsGlobal /\ GlobalNotAhead)
StartsAtFrameUnlessRaced == raced \/ unreset \/ StartsAtFrame

\* Then no frame is stored over bytes that some client may still read.
NoOverwriteUnlessRaced ==
    [][RxFrame /\ ~raced =>
          \A s \in Slot : Reading(s) => Region(writeOff, FrameLen) \cap Unread(s) = {}]_vars
=============================================================================
