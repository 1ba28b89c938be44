------------------------------- MODULE RxRing -------------------------------
(***************************************************************************)
(* The RX descriptor ring of one queue, shared by the NIC and by the       *)
(* poll threads (the "consumers") of src/driver/common/hpcap_rx.c.         *)
(*                                                                         *)
(* The ring is cut in equal segments, one per consumer.  Every consumer    *)
(* reads its own segment over and over, but the descriptors go back to     *)
(* the NIC through ONE tail register, so they have to be returned in ring  *)
(* order: a consumer may write the tail only while its can_free mark is    *)
(* set, and the right to do so travels from segment to segment through     *)
(* the freed_last_rxd marks.                                               *)
(*                                                                         *)
(* One step of a consumer is one access to state that other threads or     *)
(* the NIC also use.  can_free[c] and rxd_idx are only touched by thread   *)
(* c.  The payload, the filters, the capture buffer and the statistics     *)
(* are abstracted: an iteration of hpcap_rx is "a frame is taken from its  *)
(* descriptor", and the budget that may end the loop after any frame is a  *)
(* nondeterministic choice (ExitLoop).  next_to_clean and queued are left  *)
(* out: nothing reads them while the threads run.                          *)
(***************************************************************************)
EXTENDS Integers, FiniteSets

CONSTANTS RingSize,     \* descriptors in the ring (rx_ring->count)
          Consumers,    \* poll threads of the queue (bufp->consumers)
          Batch,        \* HPCAP_RX_BUFFER_WRITE: reads between two returns
          TailAlign,    \* granularity of the tail register: 8 on the XL710
          HasLockGuard, \* whether can_lock_ring is compiled in (HPCAP_40G)
          LockDistance  \* its distance to the end of the segment: 8

ASSUME RingAssumption ==
    /\ RingSize \in Nat \ {0}
    /\ Consumers \in 1..RingSize
    /\ Batch \in Nat \ {0}
    /\ TailAlign \in Nat \ {0}
    /\ HasLockGuard \in BOOLEAN
    /\ LockDistance \in Nat

VARIABLES hasData,   \* descriptor -> is its DD bit set: a frame nobody took
          head,      \* the NIC's next descriptor
          tail,      \* the tail register: the NIC owns head .. tail-1
          canFree,   \* bufp->can_free
          freedLast, \* bufp->freed_last_rxd
          rxdIdx,    \* thi->rxd_idx: where the next hpcap_rx call resumes
          pc,        \* where each consumer is in hpcap_rx
          qidx,      \* next_qidx of the running hpcap_rx call
          lastRead,  \* last_read_idx of the running call
          reads,     \* read_descriptors, of which only "0" and "% Batch" matter
          leaving,   \* is this the release after the loop (line 694)?
          retired,   \* history: last_read_idx was already released by this call
          repeated   \* history: a mark was taken to release it a second time

ringVars   == <<hasData, head, tail>>
tokenVars  == <<canFree, freedLast>>
threadVars == <<rxdIdx, pc, qidx, lastRead, reads, leaving>>
histVars   == <<retired, repeated>>
vars       == <<ringVars, tokenVars, threadVars, histVars>>

-----------------------------------------------------------------------------
Consumer == 0..(Consumers - 1)
Descr    == 0..(RingSize - 1)

DescrPerConsumer == RingSize \div Consumers

PreviousConsumer(c) == (c + Consumers - 1) % Consumers

FirstDescr(c) == c * DescrPerConsumer

LastDescr(c) == ((c + 1) * DescrPerConsumer - 1) % RingSize

IsLastDescr(d, c) == d % RingSize = LastDescr(c)

ConsumerOf(d) == (d % RingSize) \div DescrPerConsumer

\* Mutants of CalcNext: the wrap at the end of the ring, and the jump over the
\* other segments, left out.
CalcNextNoWrap(d, c) ==
    LET next == d + 1
    IN  IF ConsumerOf(next) = c THEN next ELSE next + DescrPerConsumer * (Consumers - 1)

\* rxd_calc_next: one forward, or a jump over the other consumers' segments.
CalcNext(d, c) ==
    LET next == (d + 1) % RingSize
    IN  IF ConsumerOf(next) = c
        THEN next
        ELSE (next + DescrPerConsumer * (Consumers - 1)) % RingSize

\* The descriptors a cyclic walk from a meets before b.
Window(a, b) == {d \in Descr : IF a <= b THEN a <= d /\ d < b ELSE a <= d \/ d < b}

\* Mutant of AlignedTail: rounded up to the register's granularity, not down.
AlignedTailUp(d) == (((d + TailAlign) \div TailAlign) * TailAlign) % RingSize

\* The tail written for a given last read descriptor.
AlignedTail(d) == (d \div TailAlign) * TailAlign

Labels == {"check", "take", "grant", "release", "mark", "unset", "finish"}

-----------------------------------------------------------------------------
\* The ring after the driver filled it (RingSize - 1 descriptors given) and
\* the threads were launched: descriptor 0 is the next one to clean, so
\* consumer 0 starts with the right to return descriptors.
Init ==
    /\ hasData = [d \in Descr |-> FALSE]
    /\ head = 0
    /\ tail = RingSize - 1
    /\ canFree = [c \in Consumer |-> c = 0]
    /\ freedLast = [c \in Consumer |-> FALSE]
    /\ rxdIdx = [c \in Consumer |-> FirstDescr(c)]
    /\ pc = [c \in Consumer |-> "check"]
    /\ qidx = [c \in Consumer |-> FirstDescr(c)]
    /\ lastRead = [c \in Consumer |-> 0]
    /\ reads = [c \in Consumer |-> 0]
    /\ leaving = [c \in Consumer |-> FALSE]
    /\ retired = [c \in Consumer |-> FALSE]
    /\ repeated = FALSE

\* The NIC writes a frame in the next descriptor it owns and sets its DD bit.
NicReceive ==
    /\ head # tail
    /\ hasData' = [hasData EXCEPT ![head] = TRUE]
    /\ head' = (head + 1) % RingSize
    /\ UNCHANGED <<tail, tokenVars, threadVars, histVars>>

\* Mutant of CanLockRing: the distance to the end of the segment off by two.
CanLockRingLate(c, d) ==
    /\ ~canFree[c]
    /\ ~freedLast[PreviousConsumer(c)]
    /\ LastDescr(c) - d <= LockDistance - 2

\* can_lock_ring: reading on to the end of the segment before the previous
\* consumer has returned its own would leave nobody to return this segment.
CanLockRing(c, d) ==
    /\ ~canFree[c]
    /\ ~freedLast[PreviousConsumer(c)]
    /\ LastDescr(c) - d <= LockDistance

\* An iteration of the loop: check4packet finds a frame, it is copied and its
\* DD bit cleared; the thread then returns descriptors if the batch is full
\* or the segment is finished.  freedLast of the previous consumer, once set,
\* is only cleared by c, so the guard and the DD bit can be read in one step.
ReadFrame(c) ==
    /\ pc[c] = "check"
    /\ HasLockGuard => ~CanLockRing(c, qidx[c])
    /\ hasData[qidx[c]]
    /\ hasData' = [hasData EXCEPT ![qidx[c]] = FALSE]
    /\ lastRead' = [lastRead EXCEPT ![c] = qidx[c]]
    /\ qidx' = [qidx EXCEPT ![c] = CalcNext(qidx[c], c)]
    /\ reads' = [reads EXCEPT ![c] = (reads[c] % Batch) + 1]
    /\ pc' = [pc EXCEPT ![c] =
                IF reads'[c] = Batch \/ IsLastDescr(qidx[c], c) THEN "take" ELSE "check"]
    /\ retired' = [retired EXCEPT ![c] = FALSE]
    /\ UNCHANGED <<head, tail, tokenVars, rxdIdx, leaving, repeated>>

\* The loop ends: no more frames, the ring guard, or the budget is spent.  If
\* a frame was read, hpcap_advance_read_descriptors is called once more with
\* the last descriptor read.  A call that read nothing changes nothing.
ExitLoop(c) ==
    /\ pc[c] = "check"
    /\ reads[c] > 0
    /\ pc' = [pc EXCEPT ![c] = "take"]
    /\ leaving' = [leaving EXCEPT ![c] = TRUE]
    /\ UNCHANGED <<ringVars, tokenVars, rxdIdx, qidx, lastRead, reads, histVars>>

\* hpcap_advance_read_descriptors, first test: the previous consumer has
\* returned its last descriptor, and its mark is taken.
TakeMark(c) ==
    /\ pc[c] = "take"
    /\ ~canFree[c]
    /\ freedLast[PreviousConsumer(c)]
    /\ freedLast' = [freedLast EXCEPT ![PreviousConsumer(c)] = FALSE]
    /\ pc' = [pc EXCEPT ![c] = "grant"]
    /\ repeated' = (repeated \/ retired[c])
    /\ UNCHANGED <<ringVars, canFree, rxdIdx, qidx, lastRead, reads, leaving, retired>>

Grant(c) ==
    /\ pc[c] = "grant"
    /\ canFree' = [canFree EXCEPT ![c] = TRUE]
    /\ pc' = [pc EXCEPT ![c] = "release"]
    /\ UNCHANGED <<ringVars, freedLast, rxdIdx, qidx, lastRead, reads, leaving, histVars>>

\* Mutant of TestCanFree: the release does not ask for can_free.
TestCanFreeIgnored(c) ==
    /\ pc[c] = "take"
    /\ canFree[c] \/ ~freedLast[PreviousConsumer(c)]
    /\ pc' = [pc EXCEPT ![c] = "release"]
    /\ UNCHANGED <<ringVars, tokenVars, rxdIdx, qidx, lastRead, reads, leaving, histVars>>

\* No mark to take: release if the right was there already, else nothing.
TestCanFree(c) ==
    /\ pc[c] = "take"
    /\ canFree[c] \/ ~freedLast[PreviousConsumer(c)]
    /\ pc' = [pc EXCEPT ![c] = IF canFree[c] THEN "release" ELSE "finish"]
    /\ UNCHANGED <<ringVars, tokenVars, rxdIdx, qidx, lastRead, reads, leaving, histVars>>

\* The write of the tail register.
Release(c) ==
    /\ pc[c] = "release"
    /\ tail' = AlignedTail(lastRead[c])
    /\ pc' = [pc EXCEPT ![c] = IF IsLastDescr(lastRead[c], c) THEN "mark" ELSE "finish"]
    /\ retired' = [retired EXCEPT ![c] = TRUE]
    /\ UNCHANGED <<hasData, head, tokenVars, rxdIdx, qidx, lastRead, reads, leaving, repeated>>

\* The last descriptor of the segment went back: the next consumer may go on.
MarkFreed(c) ==
    /\ pc[c] = "mark"
    /\ freedLast' = [freedLast EXCEPT ![c] = TRUE]
    /\ pc' = [pc EXCEPT ![c] = "unset"]
    /\ UNCHANGED <<ringVars, canFree, rxdIdx, qidx, lastRead, reads, leaving, histVars>>

\* Mutant of UnsetCanFree: the consumer keeps its right.
UnsetCanFreeKept(c) ==
    /\ pc[c] = "unset"
    /\ pc' = [pc EXCEPT ![c] = "finish"]
    /\ UNCHANGED <<ringVars, tokenVars, rxdIdx, qidx, lastRead, reads, leaving, histVars>>

\* And this one may not, until the mark comes round.
UnsetCanFree(c) ==
    /\ pc[c] = "unset"
    /\ canFree' = [canFree EXCEPT ![c] = FALSE]
    /\ pc' = [pc EXCEPT ![c] = "finish"]
    /\ UNCHANGED <<ringVars, freedLast, rxdIdx, qidx, lastRead, reads, leaving, histVars>>

\* The end of the advance: back in the loop, or out of hpcap_rx and into the
\* next call, which resumes at rxd_idx with its locals reset.
Finish(c) ==
    /\ pc[c] = "finish"
    /\ rxdIdx' = [rxdIdx EXCEPT ![c] = CalcNext(lastRead[c], c)]
    /\ pc' = [pc EXCEPT ![c] = "check"]
    /\ leaving' = [leaving EXCEPT ![c] = FALSE]
    /\ IF leaving[c]
       THEN /\ qidx' = [qidx EXCEPT ![c] = rxdIdx'[c]]
            /\ lastRead' = [lastRead EXCEPT ![c] = 0]
            /\ reads' = [reads EXCEPT ![c] = 0]
            /\ retired' = [retired EXCEPT ![c] = FALSE]
       ELSE UNCHANGED <<qidx, lastRead, reads, retired>>
    /\ UNCHANGED <<ringVars, tokenVars, repeated>>

Advance(c) ==
    \/ TakeMark(c) \/ Grant(c) \/ TestCanFree(c)
    \/ Release(c) \/ MarkFreed(c) \/ UnsetCanFree(c) \/ Finish(c)

Thread(c) == ReadFrame(c) \/ ExitLoop(c) \/ Advance(c)

Next == NicReceive \/ \E c \in Consumer : Thread(c)

Spec == Init /\ [][Next]_vars

\* Frames keep arriving while the NIC has a descriptor to put them in, and
\* each poll thread, bound to a core of its own, keeps running.
Fairness ==
    /\ WF_vars(NicReceive)
    /\ \A c \in Consumer : WF_vars(Thread(c))

FairSpec == Spec /\ Fairness

-----------------------------------------------------------------------------
\* Type correctness.
TypeOK ==
    /\ hasData \in [Descr -> BOOLEAN]
    /\ head \in Descr
    /\ tail \in Descr
    /\ canFree \in [Consumer -> BOOLEAN]
    /\ freedLast \in [Consumer -> BOOLEAN]
    /\ rxdIdx \in [Consumer -> Descr]
    /\ pc \in [Consumer -> Labels]
    /\ qidx \in [Consumer -> Descr]
    /\ lastRead \in [Consumer -> Descr]
    /\ reads \in [Consumer -> 0..Batch]
    /\ leaving \in [Consumer -> BOOLEAN]
    /\ retired \in [Consumer -> BOOLEAN]
    /\ repeated \in BOOLEAN

\* Consumer c has the right to write the tail register.  Between the two
\* writes that pass it on, the mark is already the only copy of it.
HoldsRight(c) == pc[c] = "grant" \/ (canFree[c] /\ pc[c] # "unset")

\* The right to return descriptors is neither duplicated nor lost, across the
\* unlocked test-and-clear of the marks: at any time either one consumer
\* holds it or one mark carries it (hpcap_advance_read_descriptors).
OneRightToFree ==
    /\ \A a, b \in Consumer : HoldsRight(a) /\ HoldsRight(b) => a = b
    /\ \A a, b \in Consumer : freedLast[a] /\ freedLast[b] => a = b
    /\ \A a, b \in Consumer : ~(HoldsRight(a) /\ freedLast[b])
    /\ \E a \in Consumer : HoldsRight(a) \/ freedLast[a]

\* Two consumers are never both between the test of can_free and the end of
\* their writes to next_to_use and to the tail register.
ReleaseExclusive ==
    \A a, b \in Consumer :
        pc[a] \in {"grant", "release", "mark"} /\ pc[b] \in {"grant", "release", "mark"}
            => a = b

\* The NIC owns no descriptor whose frame nobody has taken yet: writing it
\* again would lose that frame without any counter noticing.
NoUnreadReleased == \A d \in Window(head, tail) : ~hasData[d]

\* A consumer meets the frames of its segment in the order they arrived: no
\* frame waits behind a descriptor of the segment that was already read.
InOrder ==
    \A c \in Consumer : \A d, e \in {x \in Descr : ConsumerOf(x) = c} :
        hasData[d] /\ e \in Window(qidx[c], d) => hasData[e]

\* No frame is lost and none is met out of order (hpcap_advance_read_descriptors,
\* the loop of hpcap_rx).
FramesKept == NoUnreadReleased /\ InOrder

\* With several consumers this holds until one takes a mark only to release, on
\* its way out, the last descriptor it had already released.
FramesKeptUntilRepeat == repeated \/ FramesKept

\* Every consumer keeps reading frames: the ring never stops for good.
RingKeepsMoving == \A c \in Consumer : []<>(reads[c] > 0)

\* The same, unless such a repeated release happens.
RingKeepsMovingUntilRepeat == <>repeated \/ RingKeepsMoving
=============================================================================
