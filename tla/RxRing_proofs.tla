--------------------------- MODULE RxRing_proofs ---------------------------
(***************************************************************************)
(* Theorems about the RX descriptor ring, for every ring size and every    *)
(* number of consumers.                                                    *)
(***************************************************************************)
EXTENDS RxRing, TLAPS

\* The index arithmetic of the ring stays inside the ring.
LEMMA ModInRing == ASSUME NEW x \in Nat PROVE x % RingSize \in Descr
  BY RingAssumption DEF Descr

\* The length of a segment (hpcap_launch_poll_threads) is a natural number.
LEMMA DescrPerConsumerNat == DescrPerConsumer \in Nat
  BY RingAssumption DEF DescrPerConsumer

\* Products of natural numbers are natural numbers: the provers need it said.
LEMMA MulNat == \A a, b \in Nat : a * b \in Nat
  OBVIOUS

\* rxd_calc_next returns a descriptor of the ring.
LEMMA CalcNextType ==
  ASSUME NEW d \in Descr, NEW c \in Consumer
  PROVE  CalcNext(d, c) \in Descr
<1> DEFINE next == (d + 1) % RingSize
<1>1. d + 1 \in Nat
  BY RingAssumption DEF Descr
<1>2. next \in Descr
  BY <1>1, ModInRing
<1>3. DescrPerConsumer * (Consumers - 1) \in Nat
  BY RingAssumption, DescrPerConsumerNat, MulNat
<1>4. next + DescrPerConsumer * (Consumers - 1) \in Nat
  <2> HIDE DEF next
  <2> QED BY <1>2, <1>3, RingAssumption DEF Descr
<1>5. (next + DescrPerConsumer * (Consumers - 1)) % RingSize \in Descr
  BY <1>4, ModInRing
<1> QED BY <1>2, <1>5 DEF CalcNext

\* Rounding a descriptor down to the tail's granularity stays in the ring.
LEMMA AlignedTailType ==
  ASSUME NEW d \in Descr
  PROVE  AlignedTail(d) \in Descr
<1> USE RingAssumption
<1>1. d \in Nat /\ d < RingSize
  BY DEF Descr
<1>2. d = TailAlign * (d \div TailAlign) + (d % TailAlign) /\ d % TailAlign \in Nat /\ d \div TailAlign \in Nat
  BY <1>1
<1>3. (d \div TailAlign) * TailAlign = TailAlign * (d \div TailAlign)
  BY <1>2
<1>4. TailAlign * (d \div TailAlign) \in Nat
  BY <1>2, MulNat
<1> QED BY <1>1, <1>2, <1>3, <1>4 DEF AlignedTail, Descr

\* previous_consumer returns one of the poll threads.
LEMMA PreviousConsumerType ==
  ASSUME NEW c \in Consumer
  PROVE  PreviousConsumer(c) \in Consumer
<1>1. c + Consumers - 1 \in Nat /\ Consumers \in Nat \ {0}
  BY RingAssumption DEF Consumer
<1> QED BY <1>1, RingAssumption DEF PreviousConsumer, Consumer

\* The first descriptor of every segment is a descriptor of the ring.
LEMMA FirstDescrType ==
  ASSUME NEW c \in Consumer
  PROVE  FirstDescr(c) \in Descr
<1> USE RingAssumption
<1> DEFINE D == DescrPerConsumer
<1>1. D \in Nat /\ c \in Nat /\ c + 1 <= Consumers
  BY DescrPerConsumerNat DEF Consumer
<1>2. D * Consumers <= RingSize
  BY DEF DescrPerConsumer
<1>3. D >= 1
  BY DEF DescrPerConsumer
<1>4. \A x, y, z \in Nat : x <= y => x * z <= y * z
  OBVIOUS
<1>5. (c + 1) * D <= Consumers * D
  <2> HIDE DEF D
  <2> QED BY <1>1, <1>4
<1>6. (c + 1) * D = c * D + D /\ Consumers * D = D * Consumers /\ c * D \in Nat
  <2> HIDE DEF D
  <2> QED BY <1>1
<1>7. c * D < RingSize
  <2> HIDE DEF D
  <2> QED BY <1>1, <1>2, <1>3, <1>5, <1>6
<1> QED BY <1>6, <1>7 DEF FirstDescr, Descr

-----------------------------------------------------------------------------
\* Init establishes the type invariant, and every action preserves it.
LEMMA TypeInit == Init => TypeOK
<1> SUFFICES ASSUME Init PROVE TypeOK
  OBVIOUS
<1>1. 0 \in Descr /\ RingSize - 1 \in Descr /\ 0 \in 0..Batch
  BY RingAssumption DEF Descr
<1>2. \A c \in Consumer : FirstDescr(c) \in Descr
  BY FirstDescrType
<1> QED BY <1>1, <1>2 DEF Init, TypeOK, Labels

\* Every action of the NIC and of the poll threads preserves the type invariant.
LEMMA TypeStep == TypeOK /\ [Next]_vars => TypeOK'
<1> SUFFICES ASSUME TypeOK, [Next]_vars PROVE TypeOK'
  OBVIOUS
<1> USE DEF TypeOK
<1>1. CASE NicReceive
  <2>1. head + 1 \in Nat
    BY RingAssumption DEF Descr
  <2>2. head' \in Descr
    BY <1>1, <2>1, ModInRing DEF NicReceive
  <2> QED BY <1>1, <2>2 DEF NicReceive, tokenVars, threadVars, histVars
<1>2. ASSUME NEW c \in Consumer, Thread(c) PROVE TypeOK'
  <2>1. CASE ReadFrame(c)
    <3>1. CalcNext(qidx[c], c) \in Descr
      BY CalcNextType
    <3>2. reads[c] \in Nat
      BY RingAssumption
    <3>3. (reads[c] % Batch) + 1 \in 0..Batch
      BY <3>2, RingAssumption
    <3> QED BY <2>1, <3>1, <3>3 DEF ReadFrame, tokenVars, Labels
  <2>2. CASE ExitLoop(c)
    BY <2>2 DEF ExitLoop, ringVars, tokenVars, histVars, Labels
  <2>3. CASE TakeMark(c)
    BY <2>3, PreviousConsumerType DEF TakeMark, ringVars, Labels
  <2>4. CASE Grant(c)
    BY <2>4 DEF Grant, ringVars, histVars, Labels
  <2>5. CASE TestCanFree(c)
    BY <2>5 DEF TestCanFree, ringVars, tokenVars, histVars, Labels
  <2>6. CASE Release(c)
    <3>1. AlignedTail(lastRead[c]) \in Descr
      BY AlignedTailType
    <3> QED BY <2>6, <3>1 DEF Release, tokenVars, Labels
  <2>7. CASE MarkFreed(c)
    BY <2>7 DEF MarkFreed, ringVars, histVars, Labels
  <2>8. CASE UnsetCanFree(c)
    BY <2>8 DEF UnsetCanFree, ringVars, histVars, Labels
  <2>9. CASE Finish(c)
    <3>1. CalcNext(lastRead[c], c) \in Descr
      BY CalcNextType
    <3>2. 0 \in Descr /\ 0 \in 0..Batch
      BY RingAssumption DEF Descr
    <3>3. CASE leaving[c]
      BY <2>9, <3>1, <3>2, <3>3 DEF Finish, ringVars, tokenVars, Labels
    <3>4. CASE ~leaving[c]
      BY <2>9, <3>1, <3>4 DEF Finish, ringVars, tokenVars, Labels
    <3> QED BY <3>3, <3>4
  <2> QED BY <1>2, <2>1, <2>2, <2>3, <2>4, <2>5, <2>6, <2>7, <2>8, <2>9 DEF Thread, Advance
<1>3. CASE UNCHANGED vars
  BY <1>3 DEF vars, ringVars, tokenVars, threadVars, histVars
<1> QED BY <1>1, <1>2, <1>3 DEF Next

\* Type correctness of every reachable state, whatever the ring size, the
\* number of consumers and the release granularity.
THEOREM TypeCorrect == Spec => []TypeOK
BY TypeInit, TypeStep, PTL DEF Spec

-----------------------------------------------------------------------------
\* The right to return descriptors.  RightInv adds to OneRightToFree that a
\* thread inside the release really has its own can_free set.
MayRelease(c) == pc[c] \in {"release", "mark", "unset"} => canFree[c]

RightInv ==
    /\ TypeOK
    /\ OneRightToFree
    /\ \A c \in Consumer : MayRelease(c)

\* At launch consumer 0, and nothing else, carries the right to return
\* descriptors (hpcap_launch_poll_threads).
LEMMA RightInit == Init => RightInv
<1> SUFFICES ASSUME Init PROVE RightInv
  OBVIOUS
<1>1. TypeOK
  BY TypeInit
<1>2. 0 \in Consumer
  BY RingAssumption DEF Consumer
<1>3. \A c \in Consumer : HoldsRight(c) <=> c = 0
  BY DEF Init, HoldsRight
<1>4. OneRightToFree
  BY <1>2, <1>3 DEF Init, OneRightToFree
<1>5. \A c \in Consumer : MayRelease(c)
  BY DEF Init, MayRelease
<1> QED BY <1>1, <1>4, <1>5 DEF RightInv

\* A step that neither moves the right nor a mark keeps the invariant.
LEMMA RightFrame ==
  ASSUME RightInv, TypeOK',
         UNCHANGED freedLast,
         \A a \in Consumer : HoldsRight(a)' <=> HoldsRight(a),
         \A a \in Consumer : MayRelease(a)'
  PROVE  RightInv'
BY DEF RightInv, OneRightToFree

\* Every access of hpcap_advance_read_descriptors to the marks conserves the
\* right.
LEMMA RightStep == RightInv /\ [Next]_vars => RightInv'
<1> SUFFICES ASSUME RightInv, [Next]_vars PROVE RightInv'
  OBVIOUS
<1>1. TypeOK /\ TypeOK'
  BY TypeStep DEF RightInv
<1>2. CASE NicReceive \/ UNCHANGED vars
  <2>1. UNCHANGED <<canFree, freedLast, pc>>
    BY <1>2 DEF NicReceive, vars, tokenVars, threadVars
  <2> QED BY <1>1, <2>1, RightFrame DEF RightInv, HoldsRight, MayRelease
<1>3. ASSUME NEW c \in Consumer, Thread(c) PROVE RightInv'
  <2>1. CASE ReadFrame(c) \/ ExitLoop(c) \/ TestCanFree(c) \/ Release(c) \/ Finish(c) \/ Grant(c)
    <3>1. UNCHANGED freedLast
      BY <2>1 DEF ReadFrame, ExitLoop, TestCanFree, Release, Finish, Grant, tokenVars
    <3>2. \A a \in Consumer : HoldsRight(a)' <=> HoldsRight(a)
      BY <1>1, <2>1 DEF RightInv, MayRelease, TypeOK, HoldsRight,
            ReadFrame, ExitLoop, TestCanFree, Release, Finish, Grant, tokenVars
    <3>3. \A a \in Consumer : MayRelease(a)'
      BY <1>1, <2>1 DEF RightInv, MayRelease, TypeOK,
            ReadFrame, ExitLoop, TestCanFree, Release, Finish, Grant, tokenVars
    <3> QED BY <1>1, <3>1, <3>2, <3>3, RightFrame
  <2>2. CASE TakeMark(c)
    <3> DEFINE p == PreviousConsumer(c)
    <3>1. p \in Consumer /\ freedLast[p]
      BY <2>2, PreviousConsumerType DEF TakeMark
    <3>2. \A a \in Consumer : ~HoldsRight(a) /\ (freedLast[a] => a = p)
      BY <3>1 DEF RightInv, OneRightToFree
    <3>3. \A a \in Consumer : ~freedLast'[a]
      BY <1>1, <2>2, <3>1, <3>2 DEF TakeMark, TypeOK
    <3>4. \A a \in Consumer : HoldsRight(a)' <=> a = c
      BY <1>1, <2>2, <3>2 DEF TakeMark, TypeOK, HoldsRight
    <3>5. OneRightToFree'
      BY <3>3, <3>4 DEF OneRightToFree
    <3>6. \A a \in Consumer : MayRelease(a)'
      BY <1>1, <2>2 DEF TakeMark, TypeOK, RightInv, MayRelease
    <3> QED BY <1>1, <3>5, <3>6 DEF RightInv
  <2>3. CASE MarkFreed(c)
    <3>1. HoldsRight(c)
      BY <2>3 DEF MarkFreed, HoldsRight, RightInv, MayRelease
    <3>2. \A a \in Consumer : ~freedLast[a] /\ (HoldsRight(a) => a = c)
      BY <3>1 DEF RightInv, OneRightToFree
    <3>3. \A a \in Consumer : freedLast'[a] <=> a = c
      BY <1>1, <2>3, <3>2 DEF MarkFreed, TypeOK
    <3>4. \A a \in Consumer : ~HoldsRight(a)'
      BY <1>1, <2>3, <3>2 DEF MarkFreed, TypeOK, HoldsRight
    <3>5. OneRightToFree'
      BY <3>3, <3>4 DEF OneRightToFree
    <3>6. \A a \in Consumer : MayRelease(a)'
      BY <1>1, <2>3 DEF MarkFreed, TypeOK, RightInv, MayRelease
    <3> QED BY <1>1, <3>5, <3>6 DEF RightInv
  <2>4. CASE UnsetCanFree(c)
    <3>1. UNCHANGED freedLast
      BY <2>4 DEF UnsetCanFree
    <3>2. \A a \in Consumer : HoldsRight(a)' <=> HoldsRight(a)
      BY <1>1, <2>4 DEF UnsetCanFree, TypeOK, HoldsRight
    <3>3. \A a \in Consumer : MayRelease(a)'
      BY <1>1, <2>4 DEF UnsetCanFree, TypeOK, RightInv, MayRelease
    <3> QED BY <1>1, <3>1, <3>2, <3>3, RightFrame
  <2> QED BY <1>3, <2>1, <2>2, <2>3, <2>4 DEF Thread, Advance
<1> QED BY <1>2, <1>3 DEF Next

\* The right to return descriptors to the NIC is never lost nor duplicated,
\* for every ring and every number of consumers.
THEOREM RightConserved == Spec => []OneRightToFree
<1>1. RightInv => OneRightToFree
  BY DEF RightInv
<1> QED BY RightInit, RightStep, <1>1, PTL DEF Spec

\* At most one consumer writes next_to_use and the tail register at a time,
\* although no lock protects them.
THEOREM TailWriteExclusive == Spec => []ReleaseExclusive
<1>1. RightInv => ReleaseExclusive
  <2> SUFFICES ASSUME RightInv, NEW a \in Consumer, NEW b \in Consumer,
                      pc[a] \in {"grant", "release", "mark"},
                      pc[b] \in {"grant", "release", "mark"}
               PROVE  a = b
    BY DEF ReleaseExclusive
  <2>1. HoldsRight(a) /\ HoldsRight(b)
    BY DEF RightInv, MayRelease, HoldsRight
  <2> QED BY <2>1 DEF RightInv, OneRightToFree
<1> QED BY RightInit, RightStep, <1>1, PTL DEF Spec

-----------------------------------------------------------------------------
\* One consumer per queue, the configuration of the 10 Gb/s driver and the
\* default of the others.  SingleInv says where the NIC, the tail and the
\* thread stand relative to each other: the frames nobody took are exactly
\* those between the thread and the NIC, the NIC does not pass the tail, and
\* the tail is a position the register can hold, or the initial one as long as
\* the last descriptor was not read.
Distance(a, b) == IF a <= b THEN b - a ELSE RingSize - a + b

SingleInv ==
    /\ TypeOK
    /\ \A d \in Descr :
         hasData[d] <=> Distance(qidx[0], d) < Distance(qidx[0], head)
    /\ Distance(qidx[0], head) <= Distance(qidx[0], tail)
    /\ \/ \E k \in Nat : tail = k * TailAlign
       \/ tail = RingSize - 1 /\ (reads[0] > 0 => lastRead[0] # RingSize - 1)
    /\ pc[0] # "check" => reads[0] > 0
    /\ reads[0] > 0 => qidx[0] = (lastRead[0] + 1) % RingSize

\* With one consumer the walk over the descriptors is the plain cyclic one.
LEMMA SingleWalk ==
  ASSUME Consumers = 1
  PROVE  /\ Consumer = {0}
         /\ FirstDescr(0) = 0
         /\ \A d \in Descr : CalcNext(d, 0) = (d + 1) % RingSize
<1> USE RingAssumption
<1>1. DescrPerConsumer = RingSize
  BY DEF DescrPerConsumer
<1>2. ASSUME NEW d \in Descr PROVE CalcNext(d, 0) = (d + 1) % RingSize
  <2> DEFINE next == (d + 1) % RingSize
  <2>1. next \in 0..(RingSize - 1)
    BY DEF Descr
  <2>2. next % RingSize = next /\ next \div RingSize = 0
    <3> HIDE DEF next
    <3> QED BY <2>1
  <2>3. ConsumerOf(next) = 0
    BY <1>1, <2>2 DEF ConsumerOf
  <2> QED BY <2>3 DEF CalcNext
<1> QED BY <1>1, <1>2 DEF Consumer, FirstDescr

\* The next position, without the modulo.
LEMMA NextIndex ==
  ASSUME NEW d \in Descr
  PROVE  (d + 1) % RingSize = IF d = RingSize - 1 THEN 0 ELSE d + 1
<1>1. CASE d = RingSize - 1
  BY <1>1, RingAssumption DEF Descr
<1>2. CASE d # RingSize - 1
  BY <1>2, RingAssumption DEF Descr
<1> QED BY <1>1, <1>2

\* The aligned tail is the largest position the register can hold up to d.
LEMMA AlignedTailLargest ==
  ASSUME NEW d \in Descr
  PROVE  /\ AlignedTail(d) <= d
         /\ \E k \in Nat : AlignedTail(d) = k * TailAlign
         /\ \A k \in Nat : k * TailAlign <= d => k * TailAlign <= AlignedTail(d)
<1> USE RingAssumption
<1> DEFINE q == d \div TailAlign
<1>1. d \in Nat /\ q \in Nat /\ d < TailAlign * q + TailAlign /\ TailAlign * q <= d
  BY DEF Descr
<1>2. \A x, y \in Nat : x * y = y * x /\ x * y \in Nat
  OBVIOUS
<1>3. AlignedTail(d) = q * TailAlign
  BY DEF AlignedTail
<1>4. ASSUME NEW k \in Nat, k * TailAlign <= d PROVE k * TailAlign <= q * TailAlign
  <2> HIDE DEF q
  <2>1. \A x, y, z \in Nat : x <= y => x * z <= y * z
    OBVIOUS
  <2>2. k <= q
    <3> SUFFICES ASSUME k >= q + 1 PROVE FALSE
      BY <1>1
    <3>1. (q + 1) * TailAlign <= k * TailAlign
      BY <1>1, <2>1
    <3>2. (q + 1) * TailAlign = TailAlign * q + TailAlign
      BY <1>1
    <3>3. k * TailAlign \in Nat /\ TailAlign * q \in Nat
      BY <1>1, <1>2
    <3> QED BY <1>1, <1>4, <3>1, <3>2, <3>3
  <2> QED BY <1>1, <2>1, <2>2
<1> HIDE DEF q
<1> QED BY <1>1, <1>2, <1>3, <1>4

\* The ring as the driver fills it and one thread finds it satisfies SingleInv.
LEMMA SingleInit == ASSUME Consumers = 1 PROVE Init => SingleInv
<1> SUFFICES ASSUME Init PROVE SingleInv
  OBVIOUS
<1> USE RingAssumption
<1>1. Consumer = {0} /\ FirstDescr(0) = 0
  BY SingleWalk
<1>2. qidx[0] = 0 /\ head = 0 /\ tail = RingSize - 1 /\ reads[0] = 0 /\ pc[0] = "check"
  BY <1>1 DEF Init
<1>3. \A d \in Descr : ~hasData[d] /\ ~(Distance(0, d) < Distance(0, 0))
  BY DEF Init, Distance, Descr
<1>4. Distance(0, 0) <= Distance(0, RingSize - 1)
  BY DEF Distance
<1>5. TypeOK
  BY TypeInit
<1> QED BY <1>2, <1>3, <1>4, <1>5 DEF SingleInv

\* With one consumer, every step of the NIC and of hpcap_rx preserves SingleInv.
LEMMA SingleStep ==
  ASSUME Consumers = 1
  PROVE  SingleInv /\ [Next]_vars => SingleInv'
<1> SUFFICES ASSUME SingleInv, [Next]_vars PROVE SingleInv'
  OBVIOUS
<1> USE RingAssumption
<1>1. TypeOK /\ TypeOK'
  BY TypeStep DEF SingleInv
<1>2. Consumer = {0} /\ \A d \in Descr : CalcNext(d, 0) = (d + 1) % RingSize
  BY SingleWalk
<1>3. /\ qidx[0] \in Descr /\ lastRead[0] \in Descr /\ head \in Descr /\ tail \in Descr
      /\ reads[0] \in Nat
  BY <1>1, <1>2 DEF TypeOK
<1>4. CASE NicReceive
  <2>1. head' = IF head = RingSize - 1 THEN 0 ELSE head + 1
    BY <1>3, <1>4, NextIndex DEF NicReceive
  <2>2. UNCHANGED <<tail, qidx, lastRead, reads, pc>> /\ head # tail
    BY <1>4 DEF NicReceive, threadVars
  <2>3. Distance(qidx[0], head') = Distance(qidx[0], head) + 1
    BY <1>3, <2>1, <2>2 DEF SingleInv, Distance, Descr
  <2>4. Distance(qidx[0], head') <= Distance(qidx[0], tail)
    BY <1>3, <2>2, <2>3 DEF SingleInv, Distance, Descr
  <2>5. ASSUME NEW d \in Descr
        PROVE hasData'[d] <=> Distance(qidx[0], d) < Distance(qidx[0], head')
    <3>1. hasData'[d] <=> (hasData[d] \/ d = head)
      BY <1>1, <1>4 DEF NicReceive, TypeOK
    <3>2. Distance(qidx[0], d) = Distance(qidx[0], head) <=> d = head
      BY <1>3 DEF Distance, Descr
    <3>3. Distance(qidx[0], d) \in Nat /\ Distance(qidx[0], head) \in Nat
      BY <1>3 DEF Distance, Descr
    <3> QED BY <2>3, <3>1, <3>2, <3>3 DEF SingleInv
  <2> QED BY <1>1, <2>2, <2>4, <2>5 DEF SingleInv
<1>5. CASE Thread(0)
  <2>1. CASE ReadFrame(0)
    <3>1. qidx'[0] = IF qidx[0] = RingSize - 1 THEN 0 ELSE qidx[0] + 1
      BY <1>1, <1>2, <1>3, <2>1, NextIndex DEF ReadFrame, TypeOK
    <3>2. /\ qidx'[0] = (lastRead'[0] + 1) % RingSize /\ lastRead'[0] = qidx[0]
          /\ UNCHANGED <<head, tail>> /\ hasData[qidx[0]]
      BY <1>1, <1>2, <1>3, <2>1 DEF ReadFrame, TypeOK
    <3>3. reads'[0] > 0
      <4>1. reads'[0] = (reads[0] % Batch) + 1
        BY <1>1, <1>2, <2>1 DEF ReadFrame, TypeOK
      <4> QED BY <1>3, <4>1
    <3>4. Distance(qidx[0], qidx[0]) < Distance(qidx[0], head)
      BY <1>3, <3>2 DEF SingleInv
    <3>5. ASSUME NEW d \in Descr, d # qidx[0]
          PROVE Distance(qidx'[0], d) = Distance(qidx[0], d) - 1
      BY <1>3, <3>1, <3>5 DEF Distance, Descr
    <3>6. head # qidx[0] /\ tail # qidx[0]
      BY <1>3, <3>4 DEF SingleInv, Distance, Descr
    <3>7. Distance(qidx'[0], head) <= Distance(qidx'[0], tail)
      <4>1. Distance(qidx'[0], head) = Distance(qidx[0], head) - 1
        BY <1>3, <3>5, <3>6
      <4>2. Distance(qidx'[0], tail) = Distance(qidx[0], tail) - 1
        BY <1>3, <3>5, <3>6
      <4>3. Distance(qidx[0], head) \in Int /\ Distance(qidx[0], tail) \in Int
        BY <1>3 DEF Distance, Descr
      <4> QED BY <4>1, <4>2, <4>3 DEF SingleInv
    <3>8. ASSUME NEW d \in Descr
          PROVE hasData'[d] <=> Distance(qidx'[0], d) < Distance(qidx'[0], head)
      <4>1. Distance(qidx'[0], head) = Distance(qidx[0], head) - 1
        BY <1>3, <3>5, <3>6
      <4>2. CASE d = qidx[0]
        <5>1. ~hasData'[d]
          BY <1>1, <2>1, <4>2 DEF ReadFrame, TypeOK
        <5>2. ~(Distance(qidx'[0], d) < Distance(qidx'[0], head))
          BY <1>3, <3>1, <4>2 DEF Distance, Descr
        <5> QED BY <5>1, <5>2
      <4>3. CASE d # qidx[0]
        <5>1. hasData'[d] = hasData[d]
          BY <1>1, <2>1, <4>3 DEF ReadFrame, TypeOK
        <5>2. Distance(qidx'[0], d) = Distance(qidx[0], d) - 1
          BY <3>5, <4>3
        <5>3. Distance(qidx[0], head) \in Int /\ Distance(qidx[0], d) \in Int
          BY <1>3 DEF Distance, Descr
        <5> QED BY <4>1, <5>1, <5>2, <5>3 DEF SingleInv
      <4> QED BY <4>2, <4>3
    <3>9. tail = RingSize - 1 => lastRead'[0] # RingSize - 1
      BY <3>2, <3>6
    <3> QED BY <1>1, <3>2, <3>3, <3>7, <3>8, <3>9 DEF SingleInv
  <2>2. CASE Release(0)
    <3> DEFINE l == lastRead[0]
    <3>1. /\ tail' = AlignedTail(l) /\ UNCHANGED <<hasData, head, qidx, lastRead, reads>>
          /\ reads[0] > 0
      BY <1>2, <2>2 DEF Release, SingleInv
    <3>2. qidx[0] = IF l = RingSize - 1 THEN 0 ELSE l + 1
      BY <1>3, <3>1, NextIndex DEF SingleInv
    <3>3. tail' <= l /\ tail' \in Descr /\ \E k \in Nat : tail' = k * TailAlign
      BY <1>3, <3>1, AlignedTailLargest, AlignedTailType
    <3>4. ~(tail' < tail /\ tail <= l)
      <4>1. ASSUME NEW k \in Nat, tail = k * TailAlign, tail <= l
            PROVE  tail <= tail'
        BY <1>3, <3>1, <4>1, AlignedTailLargest
      <4>2. CASE tail = RingSize - 1 /\ l # RingSize - 1
        BY <1>3, <4>2 DEF Descr
      <4>3. ASSUME tail' < tail, tail <= l PROVE FALSE
        <5>1. CASE \E k \in Nat : tail = k * TailAlign
          <6>1. tail <= tail'
            BY <4>1, <4>3, <5>1
          <6> QED BY <1>3, <3>3, <4>3, <6>1 DEF Descr
        <5>2. CASE tail = RingSize - 1 /\ l # RingSize - 1
          BY <4>2, <4>3, <5>2
        <5> QED BY <3>1, <5>1, <5>2 DEF SingleInv
      <4> QED BY <4>3
    <3>5. Distance(qidx[0], tail) <= Distance(qidx[0], tail')
      BY <1>3, <3>2, <3>3, <3>4 DEF Distance, Descr
    <3>6. Distance(qidx[0], head) <= Distance(qidx[0], tail')
      BY <1>3, <3>3, <3>5 DEF SingleInv, Distance, Descr
    <3> QED BY <1>1, <3>1, <3>3, <3>6 DEF SingleInv
  <2>3. CASE ExitLoop(0)
    BY <1>1, <2>3 DEF SingleInv, ExitLoop, ringVars
  <2>4. CASE TakeMark(0) \/ Grant(0) \/ TestCanFree(0) \/ MarkFreed(0) \/ UnsetCanFree(0)
    <3>1. UNCHANGED <<ringVars, qidx, lastRead, reads>> /\ pc[0] # "check"
      BY <2>4 DEF TakeMark, Grant, TestCanFree, MarkFreed, UnsetCanFree
    <3> QED BY <1>1, <3>1 DEF SingleInv, ringVars
  <2>5. CASE Finish(0)
    <3>1. UNCHANGED ringVars /\ pc'[0] = "check" /\ reads[0] > 0
      BY <1>1, <1>2, <2>5 DEF Finish, TypeOK, SingleInv
    <3>2. rxdIdx'[0] = qidx[0]
      BY <1>1, <1>2, <1>3, <2>5, <3>1 DEF Finish, TypeOK, SingleInv
    <3>3. qidx'[0] = qidx[0]
      BY <1>1, <1>2, <2>5, <3>2 DEF Finish, TypeOK
    <3>4. (reads'[0] = 0) \/ (UNCHANGED <<reads, lastRead>>)
      BY <1>1, <1>2, <2>5 DEF Finish, TypeOK
    <3>5. reads'[0] > 0 => UNCHANGED <<reads, lastRead>>
      BY <3>4
    <3>6. UNCHANGED <<hasData, head, tail>>
      BY <3>1 DEF ringVars
    <3>7. \/ \E k \in Nat : tail' = k * TailAlign
          \/ tail' = RingSize - 1 /\ (reads'[0] > 0 => lastRead'[0] # RingSize - 1)
      BY <3>5, <3>6 DEF SingleInv
    <3>8. reads'[0] > 0 => qidx'[0] = (lastRead'[0] + 1) % RingSize
      BY <3>3, <3>5 DEF SingleInv
    <3> QED BY <1>1, <3>1, <3>3, <3>6, <3>7, <3>8 DEF SingleInv
  <2> QED BY <1>5, <2>1, <2>2, <2>3, <2>4, <2>5 DEF Thread, Advance
<1>6. CASE UNCHANGED vars
  BY <1>1, <1>6 DEF SingleInv, vars, ringVars, threadVars
<1> QED BY <1>2, <1>4, <1>5, <1>6 DEF Next

\* With one consumer, the NIC never gets back a descriptor whose frame was not
\* taken, and frames leave the ring in the order they arrived, whatever the ring
\* size, the batch, the granularity of the tail and the ring guard.
THEOREM SingleConsumerSafe == ASSUME Consumers = 1 PROVE Spec => []FramesKept
<1>1. SingleInv => NoUnreadReleased
  <2> SUFFICES ASSUME SingleInv, NEW d \in Window(head, tail), hasData[d] PROVE FALSE
    BY DEF NoUnreadReleased
  <2>1. Consumer = {0}
    BY SingleWalk
  <2>2. qidx[0] \in Descr /\ head \in Descr /\ tail \in Descr /\ d \in Descr
    BY <2>1 DEF SingleInv, TypeOK, Window
  <2>3. Distance(qidx[0], d) < Distance(qidx[0], head)
    BY <2>2 DEF SingleInv
  <2> QED BY <2>2, <2>3, RingAssumption DEF SingleInv, Distance, Window, Descr
<1>2. SingleInv => InOrder
  <2> SUFFICES ASSUME SingleInv, NEW d \in Descr, NEW e \in Descr, hasData[d],
                      e \in Window(qidx[0], d)
               PROVE  hasData[e]
    BY SingleWalk DEF InOrder
  <2>1. qidx[0] \in Descr /\ head \in Descr
    BY SingleWalk DEF SingleInv, TypeOK
  <2>2. Distance(qidx[0], e) < Distance(qidx[0], d)
    BY <2>1, RingAssumption DEF Distance, Window, Descr
  <2>3. /\ Distance(qidx[0], e) \in Int /\ Distance(qidx[0], d) \in Int
        /\ Distance(qidx[0], head) \in Int
    BY <2>1, RingAssumption DEF Distance, Descr
  <2> QED BY <2>2, <2>3 DEF SingleInv
<1>3. SingleInv => FramesKept
  BY <1>1, <1>2 DEF FramesKept
<1> QED BY SingleInit, SingleStep, <1>3, PTL DEF Spec

-----------------------------------------------------------------------------
(***************************************************************************)
(* Several consumers.  hpcap_launch_poll_threads gives every thread        *)
(* count / consumers descriptors, and nothing else makes the segments      *)
(* cover the ring; EvenSegments says they do.                              *)
(***************************************************************************)
EvenSegments == Consumers * DescrPerConsumer = RingSize

AfterSegment(c) == FirstDescr(c) + DescrPerConsumer

Segment(c) == {d \in Descr : FirstDescr(c) <= d /\ d < AfterSegment(c)}

\* The segments lie one after the other, from one end of the ring to the other.
LEMMA SegmentsInOrder ==
  ASSUME EvenSegments
  PROVE  /\ \A c \in Consumer : /\ FirstDescr(c) \in Nat
                                /\ AfterSegment(c) \in Nat
                                /\ FirstDescr(c) < AfterSegment(c)
                                /\ AfterSegment(c) <= RingSize
         /\ \A a, b \in Consumer : a < b => AfterSegment(a) <= FirstDescr(b)
         /\ \A c \in Consumer : c > 0 => AfterSegment(c - 1) = FirstDescr(c)
         /\ FirstDescr(0) = 0
         /\ AfterSegment(Consumers - 1) = RingSize
<1> DEFINE D == DescrPerConsumer
<1> USE RingAssumption
<1>1. D \in Nat /\ D >= 1
  BY DescrPerConsumerNat DEF DescrPerConsumer
<1>2. Consumers * D = RingSize /\ Consumers \in Nat \ {0}
  BY DEF EvenSegments
<1> HIDE DEF D
<1>3. \A x, y, z \in Nat : x <= y => x * z <= y * z
  OBVIOUS
<1>4. \A x \in Nat : (x + 1) * D = x * D + D /\ x * D \in Nat
  BY <1>1
<1>5. \A c \in Consumer : c \in Nat /\ c + 1 \in Nat /\ c + 1 <= Consumers
  BY DEF Consumer
<1>6. \A c \in Nat : AfterSegment(c) = c * D + D /\ FirstDescr(c) = c * D
  BY DEF AfterSegment, FirstDescr, D
<1>7. ASSUME NEW c \in Consumer
      PROVE  /\ FirstDescr(c) \in Nat
             /\ AfterSegment(c) \in Nat
             /\ FirstDescr(c) < AfterSegment(c)
             /\ AfterSegment(c) <= RingSize
  <2>1. (c + 1) * D <= Consumers * D
    BY <1>1, <1>2, <1>3, <1>5
  <2>2. (c + 1) * D = c * D + D /\ c * D \in Nat
    BY <1>4, <1>5
  <2>3. AfterSegment(c) = c * D + D /\ FirstDescr(c) = c * D
    BY <1>5, <1>6
  <2> QED BY <1>1, <1>2, <2>1, <2>2, <2>3
<1>8. ASSUME NEW a \in Consumer, NEW b \in Consumer, a < b
      PROVE  AfterSegment(a) <= FirstDescr(b)
  <2>1. (a + 1) * D <= b * D
    BY <1>1, <1>3, <1>5, <1>8
  <2>2. (a + 1) * D = a * D + D
    BY <1>4, <1>5
  <2>3. AfterSegment(a) = a * D + D /\ FirstDescr(b) = b * D
    BY <1>5, <1>6
  <2> QED BY <2>1, <2>2, <2>3
<1>9. ASSUME NEW c \in Consumer, c > 0 PROVE AfterSegment(c - 1) = FirstDescr(c)
  <2>1. c - 1 \in Nat /\ (c - 1) + 1 = c
    BY <1>5, <1>9
  <2>2. ((c - 1) + 1) * D = (c - 1) * D + D
    BY <1>4, <2>1
  <2> QED BY <1>5, <1>6, <2>1, <2>2
<1>10. FirstDescr(0) = 0
  BY <1>1, <1>6
<1>11. AfterSegment(Consumers - 1) = RingSize
  <2>1. Consumers - 1 \in Nat /\ (Consumers - 1) + 1 = Consumers
    BY <1>2
  <2>2. ((Consumers - 1) + 1) * D = (Consumers - 1) * D + D
    BY <1>4, <2>1
  <2> QED BY <1>2, <1>6, <2>1, <2>2
<1> QED BY <1>7, <1>8, <1>9, <1>10, <1>11

\* previous_consumer, without the modulo.
LEMMA PreviousIndex ==
  ASSUME NEW c \in Consumer
  PROVE  PreviousConsumer(c) = IF c = 0 THEN Consumers - 1 ELSE c - 1
<1> USE RingAssumption
<1>1. CASE c = 0
  <2>1. c + Consumers - 1 = Consumers - 1 /\ Consumers - 1 \in Nat /\ Consumers - 1 < Consumers
    BY <1>1
  <2> QED BY <1>1, <2>1 DEF PreviousConsumer
<1>2. CASE c # 0
  <2>1. c \in 1..(Consumers - 1)
    BY <1>2 DEF Consumer
  <2>2. \A n \in Nat \ {0} : \A x \in 1..(n - 1) : (x + n - 1) % n = x - 1
    OBVIOUS
  <2> QED BY <1>2, <2>1, <2>2 DEF PreviousConsumer
<1> QED BY <1>1, <1>2

\* Every thread follows one thread, and another thread another.
LEMMA PreviousOnce ==
  ASSUME NEW a \in Consumer, NEW b \in Consumer, PreviousConsumer(a) = PreviousConsumer(b)
  PROVE  a = b
BY PreviousIndex, RingAssumption DEF Consumer

\* A descriptor is a consumer's (rxd index / rxd_per_consumer) exactly if it lies
\* in its segment.
LEMMA ConsumerOfSegment ==
  ASSUME EvenSegments, NEW c \in Consumer, NEW d \in Descr
  PROVE  ConsumerOf(d) = c <=> d \in Segment(c)
<1> DEFINE D == DescrPerConsumer
            q == d \div D
<1> USE RingAssumption
<1>1. D \in Nat /\ D >= 1 /\ c \in Nat
  BY DescrPerConsumerNat DEF DescrPerConsumer, Consumer
<1>2. d \in Nat /\ d < RingSize /\ d % RingSize = d
  BY DEF Descr
<1> HIDE DEF D
<1>3. q \in Nat /\ D * q <= d /\ d < D * q + D
  BY <1>1, <1>2
<1> HIDE DEF q
<1>4. \A x, y, z \in Nat : x <= y => x * z <= y * z
  OBVIOUS
<1>5. \A x \in Nat : (x + 1) * D = x * D + D /\ x * D = D * x /\ x * D \in Nat
  BY <1>1
<1>6. FirstDescr(c) = c * D /\ AfterSegment(c) = c * D + D
  BY DEF FirstDescr, AfterSegment, D
<1>7. ASSUME c * D <= d, d < c * D + D PROVE q = c
  <2>1. ~(q + 1 <= c)
    <3> SUFFICES ASSUME q + 1 <= c PROVE FALSE
      OBVIOUS
    <3>1. (q + 1) * D <= c * D
      BY <1>1, <1>3, <1>4
    <3> QED BY <1>1, <1>2, <1>3, <1>5, <1>7, <3>1
  <2>2. ~(c + 1 <= q)
    <3> SUFFICES ASSUME c + 1 <= q PROVE FALSE
      OBVIOUS
    <3>1. (c + 1) * D <= q * D
      BY <1>1, <1>3, <1>4
    <3> QED BY <1>1, <1>2, <1>3, <1>5, <1>7, <3>1
  <2> QED BY <1>1, <1>3, <2>1, <2>2
<1>8. ConsumerOf(d) = q
  BY <1>2 DEF ConsumerOf, q, D
<1> QED BY <1>1, <1>3, <1>5, <1>6, <1>7, <1>8 DEF Segment

\* The last descriptor of a segment is the one before the next segment.
LEMMA LastOfSegment ==
  ASSUME EvenSegments, NEW c \in Consumer, NEW d \in Descr
  PROVE  IsLastDescr(d, c) <=> d + 1 = AfterSegment(c)
<1> USE RingAssumption
<1>1. d \in Nat /\ d < RingSize /\ d % RingSize = d
  BY DEF Descr
<1>2. AfterSegment(c) \in Nat /\ 0 < AfterSegment(c) /\ AfterSegment(c) <= RingSize
  BY SegmentsInOrder
<1>3. (c + 1) * DescrPerConsumer = AfterSegment(c)
  BY DescrPerConsumerNat DEF AfterSegment, FirstDescr, Consumer
<1>4. LastDescr(c) = (AfterSegment(c) - 1) % RingSize
  BY <1>3 DEF LastDescr
<1>5. AfterSegment(c) - 1 \in 0..(RingSize - 1)
  BY <1>2
<1>6. LastDescr(c) = AfterSegment(c) - 1
  <2>1. \A n \in Nat \ {0} : \A x \in 0..(n - 1) : x % n = x
    OBVIOUS
  <2> QED BY <1>4, <1>5, <2>1
<1> QED BY <1>1, <1>2, <1>6 DEF IsLastDescr

\* rxd_calc_next walks round its own segment, over and over.
LEMMA WalkInSegment ==
  ASSUME EvenSegments, NEW c \in Consumer, NEW d \in Segment(c)
  PROVE  /\ CalcNext(d, c) = IF d + 1 = AfterSegment(c) THEN FirstDescr(c) ELSE d + 1
         /\ CalcNext(d, c) \in Segment(c)
<1> USE RingAssumption
<1> DEFINE next == (d + 1) % RingSize
            F == FirstDescr(c)
            A == AfterSegment(c)
            jump == DescrPerConsumer * (Consumers - 1)
<1>1. d \in Descr /\ F <= d /\ d < A
  BY DEF Segment
<1>2. F \in Nat /\ A \in Nat /\ F < A /\ A <= RingSize
  BY SegmentsInOrder
<1>3. next = IF d = RingSize - 1 THEN 0 ELSE d + 1
  BY <1>1, NextIndex
<1>4. next \in Descr
  BY <1>1, <1>3 DEF Descr
<1>5. ConsumerOf(next) = c <=> next \in Segment(c)
  BY <1>4, ConsumerOfSegment
<1>6. F \in Segment(c)
  BY <1>2 DEF Segment, Descr
<1>7. CASE d + 1 # A
  <2>1. next = d + 1 /\ next \in Segment(c)
    BY <1>1, <1>2, <1>3, <1>4, <1>7 DEF Segment, Descr
  <2> QED BY <1>5, <1>7, <2>1 DEF CalcNext
<1>8. CASE d + 1 = A
  <2>1. jump \in Nat /\ jump + DescrPerConsumer = RingSize /\ A = F + DescrPerConsumer
    <3>1. DescrPerConsumer \in Nat /\ Consumers \in Nat
      BY DescrPerConsumerNat
    <3>2. jump = Consumers * DescrPerConsumer - DescrPerConsumer
      BY <3>1
    <3>3. jump \in Nat
      BY <3>1, MulNat
    <3> QED BY <3>1, <3>2, <3>3 DEF EvenSegments, AfterSegment
  <2> HIDE DEF jump, next
  <2>2. CASE next \in Segment(c)
    <3>1. next = 0 /\ F = 0
      BY <1>1, <1>2, <1>3, <1>8, <2>2 DEF Segment, Descr
    <3> QED BY <1>5, <1>6, <1>8, <2>2, <3>1 DEF CalcNext, next
  <2>3. CASE next \notin Segment(c)
    <3>1. CalcNext(d, c) = (next + jump) % RingSize
      BY <1>5, <2>3 DEF CalcNext, jump, next
    <3>2. CASE d = RingSize - 1
      <4>1. next + jump = F /\ F \in 0..(RingSize - 1)
        BY <1>1, <1>2, <1>3, <1>8, <2>1, <3>2, DescrPerConsumerNat DEF Descr
      <4>2. F % RingSize = F
        BY <4>1
      <4> QED BY <1>6, <1>8, <3>1, <4>1, <4>2
    <3>3. CASE d # RingSize - 1
      <4>1. next + jump = F + RingSize /\ F \in 0..(RingSize - 1)
        BY <1>1, <1>2, <1>3, <1>8, <2>1, <3>3, DescrPerConsumerNat DEF Descr
      <4>2. (F + RingSize) % RingSize = F
        <5>1. \A n \in Nat \ {0} : \A x \in 0..(n - 1) : (x + n) % n = x
          OBVIOUS
        <5> QED BY <4>1, <5>1
      <4> QED BY <1>6, <1>8, <3>1, <4>1, <4>2
    <3> QED BY <3>2, <3>3
  <2> QED BY <2>2, <2>3
<1> QED BY <1>7, <1>8

-----------------------------------------------------------------------------
(***************************************************************************)
(* No frame is lost with several consumers.  Everything is said from the   *)
(* consumer whose turn it is to return descriptors: it holds the right, or *)
(* the mark of the one before it waits to be taken.  A descriptor is clean *)
(* when it holds no frame and the NIC does not own it: it may be given     *)
(* back.  The tail stands somewhere behind the consumer whose turn it is,  *)
(* everything in between is clean, and the consumers in between cannot     *)
(* read on until the NIC comes round.                                      *)
(***************************************************************************)
Clean(d) == ~hasData[d] /\ d \notin Window(head, tail)

\* Where a thread is in its segment.
Walks(c) ==
    /\ qidx[c] \in Segment(c)
    /\ pc[c] # "check" => reads[c] > 0
    /\ reads[c] > 0 => lastRead[c] \in Segment(c) /\ qidx[c] = CalcNext(lastRead[c], c)
    /\ pc[c] = "mark" => retired[c] /\ IsLastDescr(lastRead[c], c)

\* The running call read something that it did not return yet.
Fresh(c) == reads[c] > 0 /\ ~retired[c]

\* What a consumer read and did not return is still clean: a release to come
\* relies on it.
ReadBehind(c) ==
    /\ \A d \in Segment(c) : d < qidx[c] => Clean(d)
    /\ Fresh(c) /\ qidx[c] = FirstDescr(c) => \A d \in Segment(c) : Clean(d)

HasTurn(c) == HoldsRight(c) \/ freedLast[PreviousConsumer(c)]

\* Where the segment of the previous consumer ends.
Limit(c) == AfterSegment(PreviousConsumer(c))

\* A consumer with descriptors from the tail to l stands at or before the tail,
\* or at the start of its segment with nothing to return.
StoppedBefore(l) ==
    \A n \in Consumer :
        FirstDescr(n) < l /\ tail < AfterSegment(n) =>
            /\ qidx[n] <= tail \/ qidx[n] = FirstDescr(n)
            /\ ~(Fresh(n) /\ qidx[n] = FirstDescr(n))

CleanFromTail(l) == \A d \in Descr : tail <= d /\ d < l => Clean(d)

AlignedAt(t) == \E k \in Nat : t = k * TailAlign

\* It is c's turn, and it returned nothing yet: the tail is where the consumers
\* before it left it.
Arriving(c) ==
    /\ tail < Limit(c)
    /\ CleanFromTail(Limit(c))
    /\ StoppedBefore(Limit(c))
    /\ c # 0 => AlignedAt(tail)
    /\ HoldsRight(c) => ~retired[c] /\ pc[c] # "mark"
    /\ ReadBehind(c)

\* c returned some of its descriptors.  It goes on reading, or it read its last
\* one and is about to return it.
Inside(c) ==
    /\ canFree[c] /\ pc[c] \notin {"grant", "unset"}
    /\ AlignedAt(tail)
    /\ tail < AfterSegment(c)
    /\ StoppedBefore(FirstDescr(c))
    /\ \/ /\ qidx[c] > tail /\ qidx[c] > FirstDescr(c)
          /\ CleanFromTail(qidx[c])
       \/ /\ qidx[c] = FirstDescr(c)
          /\ reads[c] > 0 /\ pc[c] \in {"take", "release", "mark"}
          /\ CleanFromTail(AfterSegment(c))

TurnInv ==
    /\ RightInv
    /\ NoUnreadReleased
    /\ \A c \in Consumer : Walks(c)
    /\ \A c \in Consumer : HasTurn(c) =>
         /\ Arriving(c) \/ Inside(c)
         /\ \A n \in Consumer \ {c} : ReadBehind(n)

\* Only one consumer at a time has its turn.
LEMMA OneTurn ==
  ASSUME RightInv, NEW a \in Consumer, NEW b \in Consumer, HasTurn(a), HasTurn(b)
  PROVE  a = b
BY PreviousConsumerType, PreviousOnce DEF RightInv, OneRightToFree, HasTurn

\* The segment before a consumer's ends where its own begins, or at the end of
\* the ring.
LEMMA LimitOf ==
  ASSUME EvenSegments, NEW c \in Consumer
  PROVE  /\ Limit(c) = IF c = 0 THEN RingSize ELSE FirstDescr(c)
         /\ \A n \in Consumer : FirstDescr(n) < Limit(c) => AfterSegment(n) <= Limit(c)
<1>1. Limit(c) = IF c = 0 THEN RingSize ELSE FirstDescr(c)
  BY PreviousIndex, SegmentsInOrder, RingAssumption DEF Limit, Consumer
<1>2. ASSUME NEW n \in Consumer, FirstDescr(n) < Limit(c) PROVE AfterSegment(n) <= Limit(c)
  <2>1. CASE c = 0
    BY <1>1, <2>1, SegmentsInOrder
  <2>2. CASE c # 0
    <3>1. FirstDescr(n) < FirstDescr(c)
      BY <1>1, <1>2, <2>2
    <3>2. ~(c <= n)
      <4>1. c < n => AfterSegment(c) <= FirstDescr(n)
        BY SegmentsInOrder
      <4> QED BY <3>1, <4>1, SegmentsInOrder DEF Consumer
    <3>3. n < c
      BY <3>2 DEF Consumer
    <3> QED BY <1>1, <2>2, <3>3, SegmentsInOrder
  <2> QED BY <2>1, <2>2
<1> QED BY <1>1, <1>2

\* Moving the tail gives the NIC nothing but what lies between its old and its
\* new position.
LEMMA WindowMoves ==
  ASSUME NEW h \in Descr, NEW t \in Descr, NEW u \in Descr, NEW d \in Window(h, u)
  PROVE  d \in Window(h, t) \/ d \in Window(t, u)
BY RingAssumption DEF Window, Descr

\* At launch the first consumer has its turn, and only the last descriptor of
\* the ring is not the NIC's.
LEMMA TurnInit == ASSUME EvenSegments PROVE Init => TurnInv
<1> SUFFICES ASSUME Init PROVE TurnInv
  OBVIOUS
<1> USE RingAssumption
<1>1. RightInv
  BY RightInit
<1>2. 0 \in Consumer /\ Limit(0) = RingSize
  BY LimitOf DEF Consumer
<1>3. NoUnreadReleased
  BY DEF Init, NoUnreadReleased, Window
<1>4. \A c \in Consumer : /\ qidx[c] = FirstDescr(c) /\ reads[c] = 0 /\ pc[c] = "check"
                          /\ retired[c] = FALSE /\ freedLast[c] = FALSE /\ canFree[c] = (c = 0)
  BY DEF Init
<1>5. \A c \in Consumer : Walks(c)
  BY <1>4, SegmentsInOrder DEF Walks, Segment, Descr
<1>6. \A c \in Consumer : HasTurn(c) => c = 0
  BY <1>4, PreviousConsumerType DEF HasTurn, HoldsRight
<1>7. \A c \in Consumer : ReadBehind(c)
  BY <1>4, SegmentsInOrder DEF ReadBehind, Segment, Descr, Fresh
<1>8. Arriving(0)
  <2>1. tail = RingSize - 1 /\ head = 0
    BY DEF Init
  <2>2. \A d \in Descr : tail <= d => d = RingSize - 1
    BY <2>1 DEF Descr
  <2>3. Clean(RingSize - 1)
    BY <2>1 DEF Init, Clean, Window, Descr
  <2>4. StoppedBefore(RingSize)
    BY <1>4 DEF StoppedBefore, Fresh
  <2> QED BY <1>2, <1>4, <1>7, <2>1, <2>2, <2>3, <2>4 DEF Arriving, CleanFromTail
<1> QED BY <1>1, <1>3, <1>5, <1>6, <1>7, <1>8 DEF TurnInv

\* A frame arrives: what is clean stays clean, and no consumer moved.
LEMMA TurnNicReceive ==
  ASSUME TurnInv, RightInv', NicReceive
  PROVE  TurnInv'
<1> USE RingAssumption
<1>1. TypeOK
  BY DEF TurnInv, RightInv
<1>2. head \in Descr /\ tail \in Descr /\ head # tail
  BY <1>1 DEF TypeOK, NicReceive
<1>3. head' = IF head = RingSize - 1 THEN 0 ELSE head + 1
  BY <1>2, NextIndex DEF NicReceive
<1>4. UNCHANGED <<tail, canFree, freedLast, pc, qidx, lastRead, reads, retired>>
  BY DEF NicReceive, tokenVars, threadVars, histVars
<1>5. \A d \in Descr : d \in Window(head', tail) => d \in Window(head, tail) /\ d # head
  BY <1>2, <1>3 DEF Window, Descr
<1>6. \A d \in Descr : hasData'[d] => hasData[d] \/ d = head
  BY <1>1 DEF NicReceive, TypeOK
<1>7. head \in Window(head, tail)
  BY <1>2 DEF Window, Descr
<1>8. \A d \in Descr : Clean(d) => Clean(d)'
  BY <1>4, <1>5, <1>6, <1>7 DEF Clean
<1>9. NoUnreadReleased'
  BY <1>4, <1>5, <1>6 DEF TurnInv, NoUnreadReleased, Window
<1>10. ASSUME NEW c \in Consumer PROVE Walks(c)'
  BY <1>4 DEF TurnInv, Walks
<1>11. ASSUME NEW c \in Consumer, ReadBehind(c) PROVE ReadBehind(c)'
  BY <1>4, <1>8, <1>11 DEF ReadBehind, Fresh, Segment
<1>12. \A l : CleanFromTail(l) => CleanFromTail(l)'
  BY <1>4, <1>8 DEF CleanFromTail
<1>13. \A l : StoppedBefore(l) => StoppedBefore(l)'
  BY <1>4 DEF StoppedBefore, Fresh
<1>14. \A c \in Consumer : HasTurn(c)' <=> HasTurn(c)
  BY <1>4 DEF HasTurn, HoldsRight
<1>15. ASSUME NEW c \in Consumer, Arriving(c) PROVE Arriving(c)'
  BY <1>4, <1>11, <1>12, <1>13, <1>15 DEF Arriving, AlignedAt, HoldsRight
<1>16. ASSUME NEW c \in Consumer, Inside(c) PROVE Inside(c)'
  BY <1>4, <1>12, <1>13, <1>16 DEF Inside, AlignedAt
<1> QED BY <1>9, <1>10, <1>11, <1>14, <1>15, <1>16 DEF TurnInv

\* A consumer takes a frame: what it read is clean, because it cannot have been
\* the NIC's while it held a frame.
LEMMA TurnReadFrame ==
  ASSUME EvenSegments, TurnInv, RightInv', NEW c \in Consumer, ReadFrame(c)
  PROVE  TurnInv'
<1> DEFINE q == qidx[c]
<1> USE RingAssumption
<1>1. TypeOK /\ TypeOK'
  BY DEF TurnInv, RightInv
<1>2. /\ pc[c] = "check" /\ hasData[q] /\ q \in Segment(c) /\ q \in Descr
      /\ head \in Descr /\ tail \in Descr
  BY <1>1 DEF ReadFrame, TurnInv, Walks, TypeOK
<1>3. UNCHANGED <<head, tail, canFree, freedLast>>
  BY DEF ReadFrame, tokenVars
<1>4. \A n \in Consumer \ {c} :
        /\ pc'[n] = pc[n] /\ qidx'[n] = qidx[n] /\ reads'[n] = reads[n]
        /\ lastRead'[n] = lastRead[n] /\ retired'[n] = retired[n]
  BY <1>1 DEF ReadFrame, TypeOK
<1>5. /\ qidx'[c] = CalcNext(q, c) /\ lastRead'[c] = q /\ ~retired'[c]
      /\ pc'[c] \in {"take", "check"} /\ (IsLastDescr(q, c) => pc'[c] = "take")
  BY <1>1 DEF ReadFrame, TypeOK
<1>6. reads'[c] > 0
  <2>1. reads'[c] = (reads[c] % Batch) + 1 /\ reads[c] \in Nat
    BY <1>1 DEF ReadFrame, TypeOK
  <2> QED BY <2>1
<1>7. /\ qidx'[c] = IF q + 1 = AfterSegment(c) THEN FirstDescr(c) ELSE q + 1
      /\ qidx'[c] \in Segment(c)
  BY <1>2, <1>5, WalkInSegment
<1>8. q + 1 = AfterSegment(c) => pc'[c] = "take"
  BY <1>2, <1>5, LastOfSegment
<1>9. \A d \in Descr : hasData'[d] <=> hasData[d] /\ d # q
  BY <1>1 DEF ReadFrame, TypeOK
<1>10. ~Clean(q) /\ q \notin Window(head, tail)
  BY <1>2 DEF Clean, TurnInv, NoUnreadReleased
<1>11. \A d \in Descr : Clean(d) \/ d = q => Clean(d)'
  BY <1>2, <1>3, <1>9, <1>10 DEF Clean
<1>12. /\ FirstDescr(c) \in Nat /\ AfterSegment(c) \in Nat /\ FirstDescr(c) <= q
       /\ q < AfterSegment(c) /\ AfterSegment(c) <= RingSize /\ q \in Nat /\ tail \in Nat
  BY <1>2, SegmentsInOrder DEF Segment, Descr
<1> HIDE DEF q
<1>13. NoUnreadReleased'
  BY <1>3, <1>9 DEF TurnInv, NoUnreadReleased, Window
<1>14. ASSUME NEW n \in Consumer PROVE Walks(n)'
  <2>1. CASE n = c
    BY <1>2, <1>5, <1>6, <1>7, <2>1 DEF Walks
  <2>2. CASE n # c
    BY <1>4, <2>2 DEF TurnInv, Walks
  <2> QED BY <2>1, <2>2
<1>15. ASSUME NEW n \in Consumer, ReadBehind(n) PROVE ReadBehind(n)'
  <2>1. CASE n = c
    <3>1. ~(q + 1 = AfterSegment(c)) => qidx'[c] # FirstDescr(c)
      BY <1>7, <1>12
    <3>2. \A d \in Segment(c) : d <= q => Clean(d)'
      BY <1>11, <1>12, <1>15, <2>1 DEF ReadBehind, Segment, Descr, q
    <3>3. \A d \in Segment(c) : d < qidx'[c] => d <= q
      BY <1>7, <1>12 DEF Segment, Descr
    <3>4. q + 1 = AfterSegment(c) => \A d \in Segment(c) : d <= q
      BY <1>12 DEF Segment, Descr
    <3> QED BY <2>1, <3>1, <3>2, <3>3, <3>4 DEF ReadBehind, Segment
  <2>2. CASE n # c
    BY <1>4, <1>11, <1>15, <2>2 DEF ReadBehind, Fresh, Segment
  <2> QED BY <2>1, <2>2
<1>16. \A l : CleanFromTail(l) => CleanFromTail(l)'
  BY <1>3, <1>11 DEF CleanFromTail
<1>17. ASSUME NEW l \in Nat, CleanFromTail(l), StoppedBefore(l),
              FirstDescr(c) < l => AfterSegment(c) <= l
       PROVE  StoppedBefore(l)'
  <2> SUFFICES ASSUME NEW n \in Consumer, FirstDescr(n) < l, tail < AfterSegment(n)
               PROVE  /\ qidx'[n] <= tail \/ qidx'[n] = FirstDescr(n)
                      /\ ~(Fresh(n)' /\ qidx'[n] = FirstDescr(n))
    BY <1>3 DEF StoppedBefore
  <2>1. CASE n # c
    BY <1>4, <1>17, <2>1 DEF StoppedBefore, Fresh
  <2>2. CASE n = c
    <3>1. q < l
      BY <1>12, <1>17, <2>2
    <3>2. q < tail
      BY <1>2, <1>10, <1>12, <1>17, <3>1 DEF CleanFromTail
    <3>3. q + 1 <= tail /\ q + 1 # AfterSegment(c)
      BY <1>12, <2>2, <3>2
    <3> QED BY <1>7, <1>12, <2>2, <3>3
  <2> QED BY <2>1, <2>2
<1>18. \A a \in Consumer : HasTurn(a)' <=> HasTurn(a)
  <2>1. \A a \in Consumer : HoldsRight(a)' <=> HoldsRight(a)
    BY <1>2, <1>3, <1>4, <1>5 DEF HoldsRight
  <2> QED BY <1>3, <2>1 DEF HasTurn
<1>19. ASSUME NEW a \in Consumer, Arriving(a) PROVE Arriving(a)'
  <2>1. Limit(a) \in Nat /\ (FirstDescr(c) < Limit(a) => AfterSegment(c) <= Limit(a))
    BY LimitOf, SegmentsInOrder
  <2>2. StoppedBefore(Limit(a))'
    BY <1>17, <1>19, <2>1 DEF Arriving
  <2>3. HoldsRight(a)' => ~retired'[a] /\ pc'[a] # "mark"
    BY <1>2, <1>3, <1>4, <1>5, <1>19 DEF Arriving, HoldsRight
  <2> QED BY <1>3, <1>15, <1>16, <1>19, <2>2, <2>3 DEF Arriving, AlignedAt
<1>20. ASSUME NEW a \in Consumer, Inside(a) PROVE Inside(a)'
  <2>1. FirstDescr(a) \in Nat /\ AfterSegment(a) \in Nat /\ FirstDescr(a) < AfterSegment(a)
    BY SegmentsInOrder
  <2>2. qidx[a] \in Nat
    BY <1>1 DEF TypeOK, Descr
  <2>3. CleanFromTail(FirstDescr(a))
    BY <1>20, <2>1, <2>2 DEF Inside, CleanFromTail, Descr
  <2>4. FirstDescr(c) < FirstDescr(a) => AfterSegment(c) <= FirstDescr(a)
    <3> SUFFICES ASSUME FirstDescr(c) < FirstDescr(a) PROVE AfterSegment(c) <= FirstDescr(a)
      OBVIOUS
    <3>1. a < c => AfterSegment(a) <= FirstDescr(c)
      BY SegmentsInOrder
    <3>2. c < a
      BY <1>12, <2>1, <3>1 DEF Consumer
    <3> QED BY <3>2, SegmentsInOrder
  <2>5. StoppedBefore(FirstDescr(a))'
    BY <1>17, <1>20, <2>1, <2>3, <2>4 DEF Inside
  <2>6. CASE a # c
    BY <1>3, <1>4, <1>16, <1>20, <2>5, <2>6 DEF Inside, AlignedAt
  <2>7. CASE a = c
    <3>1. q > tail /\ q > FirstDescr(c) /\ CleanFromTail(q)
      BY <1>2, <1>20, <2>7 DEF Inside, q
    <3>2. \A d \in Descr : tail <= d /\ d < q + 1 => Clean(d)'
      BY <1>11, <1>12, <3>1 DEF CleanFromTail, Descr
    <3>3. \/ /\ qidx'[c] > tail /\ qidx'[c] > FirstDescr(c)
             /\ CleanFromTail(qidx[c])'
          \/ /\ qidx'[c] = FirstDescr(c)
             /\ reads'[c] > 0 /\ pc'[c] \in {"take", "release", "mark"}
             /\ CleanFromTail(AfterSegment(c))'
      <4>1. CASE q + 1 = AfterSegment(c)
        BY <1>3, <1>6, <1>7, <1>8, <3>2, <4>1 DEF CleanFromTail
      <4>2. CASE q + 1 # AfterSegment(c)
        BY <1>3, <1>7, <1>12, <3>1, <3>2, <4>2 DEF CleanFromTail
      <4> QED BY <4>1, <4>2
    <3> QED BY <1>3, <1>5, <1>20, <2>5, <2>7, <3>3 DEF Inside, AlignedAt
  <2> QED BY <2>6, <2>7
<1> QED BY <1>13, <1>14, <1>15, <1>18, <1>19, <1>20 DEF TurnInv

\* What a release relies on, in both situations: everything the NIC gets was
\* clean, what was read and not returned does not go with it, and neither does
\* what another consumer has still to return.
LEMMA ReleaseGivesClean ==
  ASSUME EvenSegments, TurnInv, NEW c \in Consumer, HasTurn(c), reads[c] > 0,
         Arriving(c) => ~retired[c],
         NEW z \in Descr, z = lastRead[c],
         NEW t \in Descr, t = AlignedTail(z)
  PROVE  /\ \A d \in Window(tail, t) : Clean(d)
         /\ \A d \in Descr : t <= d /\ d <= z => Clean(d) /\ d \notin Window(tail, t)
         /\ \A n \in Consumer \ {c} : \A d \in Segment(n) :
              d < qidx[n] \/ (Fresh(n) /\ qidx[n] = FirstDescr(n)) =>
                Clean(d) /\ d \notin Window(tail, t)
         /\ \A n \in Consumer : FirstDescr(n) < FirstDescr(c) /\ t < AfterSegment(n) =>
              /\ qidx[n] <= t \/ qidx[n] = FirstDescr(n)
              /\ ~(Fresh(n) /\ qidx[n] = FirstDescr(n))
<1> DEFINE F == FirstDescr(c)
           A == AfterSegment(c)
           q == qidx[c]
<1> USE RingAssumption
<1>1. tail \in Descr /\ tail \in Nat /\ t \in Nat /\ z \in Nat /\ q \in Nat
  BY DEF TurnInv, RightInv, TypeOK, Descr
<1>2. z \in Segment(c) /\ q = CalcNext(z, c)
  BY DEF TurnInv, Walks
<1>3. q = IF z + 1 = A THEN F ELSE z + 1
  BY <1>2, WalkInSegment
<1>4. F \in Nat /\ A \in Nat /\ F <= z /\ z < A /\ A <= RingSize
  BY <1>2, SegmentsInOrder DEF Segment
<1>5. t <= z /\ (AlignedAt(tail) /\ tail <= z => tail <= t)
  BY AlignedTailLargest DEF AlignedAt
<1>6. \A n \in Consumer : n # c => AfterSegment(n) <= F \/ A <= FirstDescr(n)
  <2> SUFFICES ASSUME NEW n \in Consumer, n # c PROVE AfterSegment(n) <= F \/ A <= FirstDescr(n)
    OBVIOUS
  <2>1. n < c \/ c < n
    BY DEF Consumer
  <2> QED BY <2>1, SegmentsInOrder
<1>7. \A n \in Consumer : /\ FirstDescr(n) \in Nat /\ AfterSegment(n) \in Nat /\ qidx[n] \in Nat
                          /\ FirstDescr(n) < AfterSegment(n) /\ AfterSegment(n) <= RingSize
  BY SegmentsInOrder DEF TurnInv, RightInv, TypeOK, Descr
<1>8. \A n \in Consumer : FirstDescr(n) < F => AfterSegment(n) <= F /\ n # c
  BY <1>4, <1>6, <1>7
<1>9. \A n \in Consumer \ {c} : ReadBehind(n)
  BY DEF TurnInv
<1> HIDE DEF F, A, q
<1>10. CASE Inside(c)
  <2>1. tail <= z
    BY <1>1, <1>3, <1>4, <1>10 DEF Inside, F, A, q
  <2>2. tail <= t
    BY <1>5, <1>10, <2>1 DEF Inside
  <2>3. \A d \in Descr : tail <= d /\ d <= z => Clean(d)
    BY <1>1, <1>3, <1>4, <1>10 DEF Inside, CleanFromTail, F, A, q, Descr
  <2>4. \A d \in Descr : d \in Window(tail, t) <=> tail <= d /\ d < t
    BY <1>1, <2>2 DEF Window
  <2>5. \A n \in Consumer : FirstDescr(n) < F /\ tail < AfterSegment(n) =>
              /\ qidx[n] <= tail \/ qidx[n] = FirstDescr(n)
              /\ ~(Fresh(n) /\ qidx[n] = FirstDescr(n))
    BY <1>10 DEF Inside, StoppedBefore, F
  <2>6. \A d \in Window(tail, t) : Clean(d)
    BY <1>1, <1>5, <2>3, <2>4 DEF Window, Descr
  <2>7. \A d \in Descr : t <= d /\ d <= z => Clean(d) /\ d \notin Window(tail, t)
    BY <1>1, <2>2, <2>3, <2>4 DEF Descr
  <2>8. ASSUME NEW n \in Consumer \ {c}, NEW d \in Segment(n),
               d < qidx[n] \/ (Fresh(n) /\ qidx[n] = FirstDescr(n))
        PROVE  Clean(d) /\ d \notin Window(tail, t)
    <3>1. Clean(d) /\ d \in Descr /\ FirstDescr(n) <= d /\ d < AfterSegment(n)
      BY <1>9, <2>8 DEF ReadBehind, Segment
    <3>2. ~(tail <= d /\ d < t)
      BY <1>1, <1>4, <1>5, <1>6, <1>7, <2>5, <2>8, <3>1 DEF Descr
    <3> QED BY <2>4, <3>1, <3>2
  <2>9. ASSUME NEW n \in Consumer, FirstDescr(n) < F, t < AfterSegment(n)
        PROVE  /\ qidx[n] <= t \/ qidx[n] = FirstDescr(n)
               /\ ~(Fresh(n) /\ qidx[n] = FirstDescr(n))
    BY <1>1, <1>7, <2>2, <2>5, <2>9
  <2> QED BY <2>6, <2>7, <2>8, <2>9 DEF F
<1>11. CASE Arriving(c)
  <2>1. Fresh(c)
    BY <1>11 DEF Fresh
  <2>2. \A d \in Descr : F <= d /\ d <= z => Clean(d)
    BY <1>3, <1>4, <1>11, <2>1 DEF Arriving, ReadBehind, Segment, F, A, q, Descr
  <2>3. Limit(c) = IF c = 0 THEN RingSize ELSE F
    BY LimitOf DEF F
  <2>4. \A d \in Descr : tail <= d /\ d < Limit(c) => Clean(d)
    BY <1>11 DEF Arriving, CleanFromTail
  <2>5. \A n \in Consumer : FirstDescr(n) < Limit(c) /\ tail < AfterSegment(n) =>
              /\ qidx[n] <= tail \/ qidx[n] = FirstDescr(n)
              /\ ~(Fresh(n) /\ qidx[n] = FirstDescr(n))
    BY <1>11 DEF Arriving, StoppedBefore
  <2>6. tail < Limit(c)
    BY <1>11 DEF Arriving
  <2>7. CASE c # 0
    <3>1. tail < F /\ tail <= t
      BY <1>1, <1>4, <1>5, <1>11, <2>3, <2>6, <2>7 DEF Arriving
    <3>2. \A d \in Descr : d \in Window(tail, t) <=> tail <= d /\ d < t
      BY <1>1, <3>1 DEF Window
    <3>3. \A d \in Descr : tail <= d /\ d <= z => Clean(d)
      BY <1>1, <1>4, <2>2, <2>3, <2>4, <2>7 DEF Descr
    <3>4. \A d \in Window(tail, t) : Clean(d)
      BY <1>1, <1>5, <3>2, <3>3 DEF Window, Descr
    <3>5. \A d \in Descr : t <= d /\ d <= z => Clean(d) /\ d \notin Window(tail, t)
      BY <1>1, <3>1, <3>2, <3>3 DEF Descr
    <3>6. ASSUME NEW n \in Consumer \ {c}, NEW d \in Segment(n),
                 d < qidx[n] \/ (Fresh(n) /\ qidx[n] = FirstDescr(n))
          PROVE  Clean(d) /\ d \notin Window(tail, t)
      <4>1. Clean(d) /\ d \in Descr /\ FirstDescr(n) <= d /\ d < AfterSegment(n)
        BY <1>9, <3>6 DEF ReadBehind, Segment
      <4>2. ~(tail <= d /\ d < t)
        BY <1>1, <1>4, <1>5, <1>6, <1>7, <2>3, <2>5, <2>7, <3>6, <4>1 DEF Descr
      <4> QED BY <3>2, <4>1, <4>2
    <3>7. ASSUME NEW n \in Consumer, FirstDescr(n) < F, t < AfterSegment(n)
          PROVE  /\ qidx[n] <= t \/ qidx[n] = FirstDescr(n)
                 /\ ~(Fresh(n) /\ qidx[n] = FirstDescr(n))
      BY <1>1, <1>7, <2>3, <2>5, <2>7, <3>1, <3>7
    <3> QED BY <3>4, <3>5, <3>6, <3>7 DEF F
  <2>8. CASE c = 0
    <3>1. F = 0 /\ Limit(c) = RingSize
      BY <2>3, <2>8, SegmentsInOrder DEF F
    <3>2. z < tail
      <4>1. tail < A => q <= tail /\ q # F
        BY <1>4, <2>1, <2>5, <3>1 DEF F, A, q
      <4> QED BY <1>1, <1>3, <1>4, <4>1
    <3>3. \A d \in Descr : d \in Window(tail, t) <=> tail <= d \/ d < t
      BY <1>1, <1>5, <3>2 DEF Window
    <3>4. \A d \in Window(tail, t) : Clean(d)
      BY <1>1, <1>5, <2>2, <2>4, <3>1, <3>3 DEF Window, Descr
    <3>5. \A d \in Descr : t <= d /\ d <= z => Clean(d) /\ d \notin Window(tail, t)
      BY <1>1, <2>2, <3>1, <3>2, <3>3 DEF Descr
    <3>6. ASSUME NEW n \in Consumer \ {c}, NEW d \in Segment(n),
                 d < qidx[n] \/ (Fresh(n) /\ qidx[n] = FirstDescr(n))
          PROVE  Clean(d) /\ d \notin Window(tail, t)
      <4>1. Clean(d) /\ d \in Descr /\ FirstDescr(n) <= d /\ d < AfterSegment(n)
        BY <1>9, <3>6 DEF ReadBehind, Segment
      <4>2. A <= FirstDescr(n)
        BY <1>6, <1>7, <3>1
      <4>3. ~(tail <= d \/ d < t)
        BY <1>1, <1>4, <1>5, <1>7, <2>5, <3>1, <3>6, <4>1, <4>2 DEF Descr
      <4> QED BY <3>3, <4>1, <4>3
    <3>7. \A n \in Consumer : ~(FirstDescr(n) < F)
      BY <1>7, <3>1
    <3> QED BY <3>4, <3>5, <3>6, <3>7 DEF F
  <2> QED BY <2>7, <2>8
<1> QED BY <1>10, <1>11 DEF TurnInv

\* The consumer whose turn it is writes the tail register.
LEMMA TurnRelease ==
  ASSUME EvenSegments, TurnInv, RightInv', NEW c \in Consumer, Release(c)
  PROVE  TurnInv'
<1> USE RingAssumption
<1>1. TypeOK /\ TypeOK'
  BY DEF TurnInv, RightInv
<1>2. pc[c] = "release" /\ canFree[c] /\ reads[c] > 0 /\ HoldsRight(c) /\ HasTurn(c)
  BY DEF Release, TurnInv, Walks, RightInv, MayRelease, HoldsRight, HasTurn
<1>3. UNCHANGED <<hasData, head, canFree, freedLast, qidx, lastRead, reads>>
  BY DEF Release, tokenVars
<1>4. \A n \in Consumer \ {c} : pc'[n] = pc[n] /\ retired'[n] = retired[n]
  BY <1>1 DEF Release, TypeOK
<1>5. PICK z \in Descr : z = lastRead[c]
  BY <1>1 DEF TypeOK
<1>6. PICK t \in Descr : t = AlignedTail(z)
  BY AlignedTailType
<1>7. tail' = t /\ retired'[c] /\ pc'[c] = (IF IsLastDescr(z, c) THEN "mark" ELSE "finish")
  BY <1>1, <1>5, <1>6 DEF Release, TypeOK
<1>8. Arriving(c) => ~retired[c]
  BY <1>2 DEF Arriving
<1>9. /\ \A d \in Window(tail, t) : Clean(d)
      /\ \A d \in Descr : t <= d /\ d <= z => Clean(d) /\ d \notin Window(tail, t)
      /\ \A n \in Consumer \ {c} : \A d \in Segment(n) :
           d < qidx[n] \/ (Fresh(n) /\ qidx[n] = FirstDescr(n)) =>
             Clean(d) /\ d \notin Window(tail, t)
      /\ \A n \in Consumer : FirstDescr(n) < FirstDescr(c) /\ t < AfterSegment(n) =>
           /\ qidx[n] <= t \/ qidx[n] = FirstDescr(n)
           /\ ~(Fresh(n) /\ qidx[n] = FirstDescr(n))
  BY <1>2, <1>5, <1>6, <1>8, ReleaseGivesClean
<1>10. head \in Descr /\ tail \in Descr
  BY <1>1 DEF TypeOK
<1>11. \A d \in Descr : d \in Window(head, t) => d \in Window(head, tail) \/ d \in Window(tail, t)
  BY <1>10, WindowMoves
<1>12. \A d \in Descr : Clean(d) /\ d \notin Window(tail, t) => Clean(d)'
  BY <1>3, <1>7, <1>11 DEF Clean
<1>13. NoUnreadReleased'
  <2> SUFFICES ASSUME NEW d \in Window(head, t) PROVE ~hasData[d]
    BY <1>3, <1>7 DEF NoUnreadReleased
  <2>1. d \in Descr
    BY DEF Window
  <2> QED BY <1>9, <1>11, <2>1 DEF TurnInv, NoUnreadReleased, Clean
<1>14. /\ z \in Segment(c) /\ z < AfterSegment(c)
       /\ qidx[c] = (IF z + 1 = AfterSegment(c) THEN FirstDescr(c) ELSE z + 1)
  BY <1>2, <1>5, WalkInSegment DEF TurnInv, Walks, Segment
<1>15. IsLastDescr(z, c) <=> z + 1 = AfterSegment(c)
  BY LastOfSegment
<1>16. ASSUME NEW n \in Consumer PROVE Walks(n)'
  BY <1>2, <1>3, <1>4, <1>5, <1>7 DEF TurnInv, Walks
<1>17. ASSUME NEW n \in Consumer \ {c} PROVE ReadBehind(n)'
  <2>1. Fresh(n)' <=> Fresh(n)
    BY <1>3, <1>4 DEF Fresh
  <2> QED BY <1>3, <1>9, <1>12, <2>1 DEF ReadBehind, Segment
<1>18. \A a \in Consumer : HasTurn(a)' => a = c
  <2>1. \A a \in Consumer : HoldsRight(a)' => HoldsRight(a)
    BY <1>2, <1>3, <1>4, <1>7 DEF HoldsRight
  <2>2. \A a \in Consumer : HasTurn(a)' => HasTurn(a)
    BY <1>3, <2>1 DEF HasTurn
  <2> QED BY <1>2, <2>2, OneTurn DEF TurnInv
<1>19. Inside(c)'
  <2>1. AlignedAt(tail)' /\ tail' <= z /\ tail' \in Nat /\ z \in Nat
    BY <1>6, <1>7, AlignedTailLargest DEF AlignedAt, Descr
  <2>2. StoppedBefore(FirstDescr(c))'
    BY <1>3, <1>4, <1>7, <1>9 DEF StoppedBefore, Fresh
  <2>3. \A d \in Descr : tail' <= d /\ d <= z => Clean(d)'
    BY <1>7, <1>9, <1>12
  <2>4. FirstDescr(c) \in Nat /\ AfterSegment(c) \in Nat /\ FirstDescr(c) <= z
    BY <1>14, SegmentsInOrder DEF Segment
  <2>5. CASE z + 1 = AfterSegment(c)
    <3>1. CleanFromTail(AfterSegment(c))'
      BY <2>1, <2>3, <2>4, <2>5 DEF CleanFromTail, Descr
    <3> QED BY <1>2, <1>3, <1>7, <1>14, <1>15, <2>1, <2>2, <2>4, <2>5, <3>1 DEF Inside
  <2>6. CASE z + 1 # AfterSegment(c)
    <3>1. CleanFromTail(qidx[c])'
      BY <1>3, <1>14, <2>1, <2>3, <2>4, <2>6 DEF CleanFromTail, Descr
    <3> QED BY <1>2, <1>3, <1>7, <1>14, <1>15, <2>1, <2>2, <2>4, <2>6, <3>1 DEF Inside
  <2> QED BY <2>5, <2>6
<1> QED BY <1>13, <1>16, <1>17, <1>18, <1>19 DEF TurnInv

\* The last descriptor of the segment went back, and the turn goes on to the
\* next consumer.
LEMMA TurnMarkFreed ==
  ASSUME EvenSegments, TurnInv, RightInv', NEW c \in Consumer, MarkFreed(c)
  PROVE  TurnInv'
<1> USE RingAssumption
<1>1. TypeOK /\ TypeOK'
  BY DEF TurnInv, RightInv
<1>2. /\ pc[c] = "mark" /\ HoldsRight(c) /\ HasTurn(c) /\ retired[c] /\ reads[c] > 0
      /\ IsLastDescr(lastRead[c], c) /\ lastRead[c] \in Segment(c)
      /\ qidx[c] = CalcNext(lastRead[c], c)
  BY DEF MarkFreed, TurnInv, Walks, RightInv, MayRelease, HoldsRight, HasTurn
<1>3. UNCHANGED <<hasData, head, tail, canFree, qidx, lastRead, reads, retired>>
  BY DEF MarkFreed, ringVars, histVars
<1>4. /\ pc'[c] = "unset" /\ \A n \in Consumer \ {c} : pc'[n] = pc[n]
      /\ freedLast'[c] /\ \A n \in Consumer \ {c} : freedLast'[n] = freedLast[n]
  BY <1>1 DEF MarkFreed, TypeOK
<1>5. qidx[c] = FirstDescr(c)
  BY <1>2, WalkInSegment, LastOfSegment DEF Segment
<1>6. Inside(c) /\ CleanFromTail(AfterSegment(c))
  BY <1>2, <1>5, SegmentsInOrder DEF TurnInv, Arriving, Inside
<1>7. \A d : Clean(d)' <=> Clean(d)
  BY <1>3 DEF Clean
<1>8. \A n \in Consumer : Fresh(n)' <=> Fresh(n)
  BY <1>3 DEF Fresh
<1>9. NoUnreadReleased'
  BY <1>3 DEF TurnInv, NoUnreadReleased
<1>10. ASSUME NEW n \in Consumer PROVE Walks(n)'
  BY <1>2, <1>3, <1>4 DEF TurnInv, Walks
<1>11. \A n \in Consumer : ReadBehind(n)'
  <2>1. ASSUME NEW n \in Consumer, n # c PROVE ReadBehind(n)'
    BY <1>2, <1>3, <1>7, <1>8, <2>1 DEF TurnInv, ReadBehind, Segment
  <2>2. ReadBehind(c)'
    BY <1>2, <1>3, <1>5, <1>8, SegmentsInOrder DEF ReadBehind, Segment, Descr, Fresh
  <2> QED BY <2>1, <2>2
<1>12. \A n \in Consumer : ~HoldsRight(n)' /\ (freedLast'[n] => n = c)
  BY <1>1, <1>2, <1>3, <1>4 DEF TurnInv, RightInv, OneRightToFree, HoldsRight, TypeOK
<1>13. ASSUME NEW a \in Consumer, HasTurn(a)' PROVE Arriving(a)'
  <2>1. PreviousConsumer(a) = c
    BY <1>12, <1>13, PreviousConsumerType DEF HasTurn
  <2>2. Limit(a) = AfterSegment(c)
    BY <2>1 DEF Limit
  <2>3. StoppedBefore(AfterSegment(c))'
    <3> SUFFICES ASSUME NEW n \in Consumer, FirstDescr(n) < AfterSegment(c), tail < AfterSegment(n)
                 PROVE  /\ qidx[n] <= tail \/ qidx[n] = FirstDescr(n)
                        /\ ~(Fresh(n) /\ qidx[n] = FirstDescr(n))
      BY <1>3, <1>8 DEF StoppedBefore
    <3>1. CASE n = c
      BY <1>2, <1>5, <3>1 DEF Fresh
    <3>2. CASE n # c
      <4>1. n < c \/ c < n
        BY <3>2 DEF Consumer
      <4>2. FirstDescr(n) < FirstDescr(c)
        BY <4>1, SegmentsInOrder
      <4> QED BY <1>6, <4>2 DEF Inside, StoppedBefore
    <3> QED BY <3>1, <3>2
  <2>4. CleanFromTail(AfterSegment(c))'
    BY <1>3, <1>6, <1>7 DEF CleanFromTail
  <2>5. tail' < AfterSegment(c) /\ AlignedAt(tail)'
    BY <1>3, <1>6 DEF Inside, AlignedAt
  <2> QED BY <1>11, <1>12, <2>2, <2>3, <2>4, <2>5 DEF Arriving
<1> QED BY <1>9, <1>10, <1>11, <1>13 DEF TurnInv

\* The other steps of a thread touch neither the ring nor its position, and the
\* turn stays where it is.
LEMMA TurnStill ==
  ASSUME EvenSegments, TurnInv, RightInv', NEW c \in Consumer,
         \/ ExitLoop(c) \/ Grant(c) \/ TestCanFree(c) \/ UnsetCanFree(c) \/ Finish(c)
         \/ TakeMark(c),
         ~repeated'
  PROVE  TurnInv'
<1> USE RingAssumption
<1>1. TypeOK /\ TypeOK'
  BY DEF TurnInv, RightInv
<1>2. UNCHANGED <<hasData, head, tail>>
  BY DEF ExitLoop, Grant, TestCanFree, UnsetCanFree, Finish, TakeMark, ringVars
<1>3. \A n \in Consumer \ {c} :
        /\ pc'[n] = pc[n] /\ qidx'[n] = qidx[n] /\ reads'[n] = reads[n] /\ canFree'[n] = canFree[n]
        /\ lastRead'[n] = lastRead[n] /\ retired'[n] = retired[n]
  BY <1>1 DEF ExitLoop, Grant, TestCanFree, UnsetCanFree, Finish, TakeMark, tokenVars, histVars, TypeOK
<1>4. qidx'[c] = qidx[c]
  <2>1. CASE Finish(c)
    <3>1. reads[c] > 0 /\ qidx[c] = CalcNext(lastRead[c], c)
      BY <2>1 DEF Finish, TurnInv, Walks
    <3>2. rxdIdx'[c] = CalcNext(lastRead[c], c)
      BY <1>1, <2>1 DEF Finish, TypeOK
    <3> QED BY <1>1, <2>1, <3>1, <3>2 DEF Finish, TypeOK
  <2>2. CASE ~Finish(c)
    BY <2>2 DEF ExitLoop, Grant, TestCanFree, UnsetCanFree, TakeMark
  <2> QED BY <2>1, <2>2
<1>5. \/ reads'[c] = reads[c] /\ lastRead'[c] = lastRead[c] /\ retired'[c] = retired[c]
      \/ Finish(c) /\ reads'[c] = 0 /\ ~retired'[c]
  BY <1>1 DEF ExitLoop, Grant, TestCanFree, UnsetCanFree, Finish, TakeMark, histVars, TypeOK
<1>6. pc'[c] # "mark" /\ (pc'[c] # "check" => reads[c] > 0 /\ reads'[c] = reads[c])
  BY <1>1 DEF ExitLoop, Grant, TestCanFree, UnsetCanFree, Finish, TakeMark, histVars, TypeOK,
     TurnInv, Walks
<1>7. \A d : Clean(d)' <=> Clean(d)
  BY <1>2 DEF Clean
<1>8. \A n \in Consumer : qidx'[n] = qidx[n] /\ (Fresh(n)' => Fresh(n))
  BY <1>3, <1>4, <1>5 DEF Fresh
<1>9. NoUnreadReleased'
  BY <1>2 DEF TurnInv, NoUnreadReleased
<1>10. ASSUME NEW n \in Consumer PROVE Walks(n)'
  <2>1. CASE n = c
    BY <1>4, <1>5, <1>6, <2>1 DEF TurnInv, Walks
  <2>2. CASE n # c
    BY <1>3, <2>2 DEF TurnInv, Walks
  <2> QED BY <2>1, <2>2
<1>11. ASSUME NEW n \in Consumer, ReadBehind(n) PROVE ReadBehind(n)'
  BY <1>7, <1>8, <1>11 DEF ReadBehind, Segment
<1>12. \A l : CleanFromTail(l) => CleanFromTail(l)'
  BY <1>2, <1>7 DEF CleanFromTail
<1>13. \A l : StoppedBefore(l) => StoppedBefore(l)'
  BY <1>2, <1>8 DEF StoppedBefore
<1>14. \A a \in Consumer : HasTurn(a)' => HasTurn(a)
  <2>1. CASE TakeMark(c)
    <3>1. HasTurn(c)
      BY <2>1 DEF TakeMark, HasTurn
    <3>2. \A a \in Consumer : HoldsRight(a)' => HoldsRight(a) \/ a = c
      BY <1>3 DEF HoldsRight
    <3>3. \A a \in Consumer : freedLast'[a] => freedLast[a]
      BY <1>1, <2>1, PreviousConsumerType DEF TakeMark, TypeOK
    <3> QED BY <3>1, <3>2, <3>3, PreviousConsumerType DEF HasTurn
  <2>2. CASE ~TakeMark(c)
    <3>1. UNCHANGED freedLast
      BY <2>2 DEF ExitLoop, Grant, TestCanFree, UnsetCanFree, Finish, tokenVars
    <3>2. HoldsRight(c)' => HoldsRight(c)
      BY <1>1, <2>2 DEF ExitLoop, Grant, TestCanFree, UnsetCanFree, Finish, tokenVars,
         HoldsRight, TypeOK
    <3>3. \A a \in Consumer : HoldsRight(a)' => HoldsRight(a)
      BY <1>3, <3>2 DEF HoldsRight
    <3> QED BY <3>1, <3>3 DEF HasTurn
  <2> QED BY <2>1, <2>2
<1>15. ASSUME NEW a \in Consumer, Arriving(a) PROVE Arriving(a)'
  <2>1. HoldsRight(a)' => ~retired'[a] /\ pc'[a] # "mark"
    <3>1. CASE a # c
      BY <1>3, <1>15, <3>1 DEF Arriving, HoldsRight
    <3>2. CASE a = c /\ TakeMark(c)
      <4>1. ~retired[c]
        BY <3>2 DEF TakeMark
      <4>2. retired' = retired
        BY <3>2 DEF TakeMark
      <4> QED BY <1>6, <3>2, <4>1, <4>2
    <3>3. CASE a = c /\ ~TakeMark(c)
      <4>1. HoldsRight(c)' => HoldsRight(c)
        BY <1>1, <3>3 DEF ExitLoop, Grant, TestCanFree, UnsetCanFree, Finish, tokenVars,
           HoldsRight, TypeOK
      <4> QED BY <1>5, <1>6, <1>15, <3>3, <4>1 DEF Arriving
    <3> QED BY <3>1, <3>2, <3>3
  <2> QED BY <1>2, <1>11, <1>12, <1>13, <1>15, <2>1 DEF Arriving, AlignedAt
<1>16. ASSUME NEW a \in Consumer, Inside(a) PROVE Inside(a)'
  <2>1. canFree'[a] /\ pc'[a] \notin {"grant", "unset"}
    <3>1. CASE a # c
      BY <1>3, <1>16, <3>1 DEF Inside
    <3>2. CASE a = c
      BY <1>1, <1>16, <3>2 DEF Inside, ExitLoop, Grant, TestCanFree, UnsetCanFree, Finish, TakeMark,
         tokenVars, TypeOK
    <3> QED BY <3>1, <3>2
  <2>2. \/ /\ qidx'[a] > tail /\ qidx'[a] > FirstDescr(a)
           /\ CleanFromTail(qidx[a])'
        \/ /\ qidx'[a] = FirstDescr(a)
           /\ reads'[a] > 0 /\ pc'[a] \in {"take", "release", "mark"}
           /\ CleanFromTail(AfterSegment(a))'
    <3>1. CASE /\ qidx[a] > tail /\ qidx[a] > FirstDescr(a)
               /\ CleanFromTail(qidx[a])
      BY <1>2, <1>7, <1>8, <3>1 DEF CleanFromTail
    <3>2. CASE /\ qidx[a] = FirstDescr(a)
               /\ reads[a] > 0 /\ pc[a] \in {"take", "release", "mark"}
               /\ CleanFromTail(AfterSegment(a))
      <4>1. CASE a # c
        BY <1>2, <1>3, <1>7, <3>2, <4>1 DEF CleanFromTail
      <4>2. CASE a = c
        <5>1. TestCanFree(c)
          BY <1>16, <3>2, <4>2 DEF Inside, ExitLoop, Grant, UnsetCanFree, Finish, TakeMark
        <5>2. pc'[c] = "release" /\ UNCHANGED reads
          BY <1>1, <1>16, <4>2, <5>1 DEF Inside, TestCanFree, TypeOK
        <5> QED BY <1>2, <1>7, <1>8, <3>2, <4>2, <5>2 DEF CleanFromTail
      <4> QED BY <4>1, <4>2
    <3> QED BY <1>16, <3>1, <3>2 DEF Inside
  <2> QED BY <1>2, <1>13, <1>16, <2>1, <2>2 DEF Inside, AlignedAt
<1> QED BY <1>9, <1>10, <1>11, <1>14, <1>15, <1>16 DEF TurnInv

\* Until a mark is taken for a repeated release, every step keeps TurnInv.
LEMMA TurnStep ==
  ASSUME EvenSegments, TurnInv, [Next]_vars, ~repeated'
  PROVE  TurnInv'
<1>1. RightInv'
  BY RightStep DEF TurnInv
<1>2. CASE UNCHANGED vars
  <2>1. \A d : Clean(d)' <=> Clean(d)
    BY <1>2 DEF Clean, vars, ringVars
  <2>2. UNCHANGED <<hasData, head, tail, canFree, freedLast, pc, qidx, lastRead, reads, retired>>
    BY <1>2 DEF vars, ringVars, tokenVars, threadVars, histVars
  <2>3. \A n \in Consumer : Fresh(n)' <=> Fresh(n)
    BY <2>2 DEF Fresh
  <2>4. \A n \in Consumer : ReadBehind(n)' <=> ReadBehind(n)
    BY <2>1, <2>2, <2>3 DEF ReadBehind, Segment
  <2>5. \A l : CleanFromTail(l)' <=> CleanFromTail(l)
    BY <2>1, <2>2 DEF CleanFromTail
  <2>6. \A l : StoppedBefore(l)' <=> StoppedBefore(l)
    BY <2>2, <2>3 DEF StoppedBefore
  <2>7. \A n \in Consumer : HoldsRight(n)' <=> HoldsRight(n)
    BY <2>2 DEF HoldsRight
  <2>8. \A n \in Consumer : Arriving(n)' <=> Arriving(n)
    BY <2>2, <2>4, <2>5, <2>6, <2>7 DEF Arriving, AlignedAt
  <2>9. ASSUME NEW n \in Consumer, Inside(n) PROVE Inside(n)'
    <3>1. \A d \in Descr : Clean(d) => Clean(d)'
      BY <2>1
    <3> QED BY <2>2, <2>6, <2>9, <3>1 DEF Inside, AlignedAt, CleanFromTail
  <2>10. \A n \in Consumer : HasTurn(n)' <=> HasTurn(n)
    BY <2>2, <2>7 DEF HasTurn
  <2>11. NoUnreadReleased'
    BY <2>2 DEF TurnInv, NoUnreadReleased
  <2>12. \A n \in Consumer : Walks(n)'
    BY <2>2 DEF TurnInv, Walks
  <2> QED BY <1>1, <2>4, <2>8, <2>9, <2>10, <2>11, <2>12 DEF TurnInv
<1>3. CASE NicReceive
  BY <1>1, <1>3, TurnNicReceive
<1>4. ASSUME NEW c \in Consumer, Thread(c) PROVE TurnInv'
  <2>1. CASE ReadFrame(c)
    BY <1>1, <2>1, TurnReadFrame
  <2>2. CASE Release(c)
    BY <1>1, <2>2, TurnRelease
  <2>3. CASE MarkFreed(c)
    BY <1>1, <2>3, TurnMarkFreed
  <2>4. CASE \/ ExitLoop(c) \/ Grant(c) \/ TestCanFree(c) \/ UnsetCanFree(c) \/ Finish(c)
             \/ TakeMark(c)
    BY <1>1, <2>4, TurnStill
  <2> QED BY <1>4, <2>1, <2>2, <2>3, <2>4 DEF Thread, Advance
<1> QED BY <1>2, <1>3, <1>4 DEF Next

-----------------------------------------------------------------------------
(***************************************************************************)
(* The order of the frames.  Seen from the consumer, the frames of a       *)
(* segment are those up to where the NIC goes on in it: at its head, or at *)
(* the start of the segment while the head is in another.  A segment that  *)
(* is all frames looks the same from inside as an empty one.               *)
(***************************************************************************)
Ahead(c, d) == IF qidx[c] <= d THEN d - qidx[c] ELSE d - qidx[c] + DescrPerConsumer

FillsAt(c) == IF head \in Segment(c) THEN head ELSE FirstDescr(c)

Filled(c) ==
    \/ \A d \in Segment(c) : hasData[d] <=> Ahead(c, d) < Ahead(c, FillsAt(c))
    \/ qidx[c] = FillsAt(c) /\ \A d \in Segment(c) : hasData[d]

OrderInv == TurnInv /\ \A c \in Consumer : Filled(c)

\* The next frame of a segment goes right behind the ones it has.
LEMMA FilledNicReceive ==
  ASSUME EvenSegments, TurnInv, NicReceive, NEW c \in Consumer, Filled(c)
  PROVE  Filled(c)'
<1> USE RingAssumption
<1> DEFINE F == FirstDescr(c)
           A == AfterSegment(c)
           q == qidx[c]
<1>1. TypeOK /\ head \in Descr /\ tail \in Descr /\ head # tail /\ q \in Segment(c)
  BY DEF TurnInv, RightInv, TypeOK, NicReceive, Walks
<1>2. head' = IF head = RingSize - 1 THEN 0 ELSE head + 1
  BY <1>1, NextIndex DEF NicReceive
<1>3. UNCHANGED qidx
  BY DEF NicReceive, threadVars
<1>4. \A d \in Descr : hasData'[d] <=> hasData[d] \/ d = head
  BY <1>1 DEF NicReceive, TypeOK
<1>5. ~hasData[head]
  <2>1. head \in Window(head, tail)
    BY <1>1 DEF Window, Descr
  <2> QED BY <2>1 DEF TurnInv, NoUnreadReleased
<1>6. /\ F \in Nat /\ A \in Nat /\ F < A /\ A <= RingSize /\ A = F + DescrPerConsumer
      /\ DescrPerConsumer \in Nat
  BY SegmentsInOrder, DescrPerConsumerNat DEF AfterSegment
<1>7. \A d : d \in Segment(c) <=> d \in Nat /\ F <= d /\ d < A
  BY <1>6 DEF Segment, Descr
<1>8. FirstDescr(0) = 0
  BY SegmentsInOrder
<1> HIDE DEF F, A
<1>9. CASE head \in Segment(c)
  <2>1. FillsAt(c) = head /\ ~\A d \in Segment(c) : hasData[d]
    BY <1>5, <1>9 DEF FillsAt
  <2>2. \A d \in Segment(c) : hasData[d] <=> Ahead(c, d) < Ahead(c, head)
    BY <2>1 DEF Filled
  <2>3. FillsAt(c)' = IF head + 1 = A THEN F ELSE head + 1
    <3>1. CASE head + 1 # A
      <4>1. head' = head + 1 /\ head' \in Segment(c)
        BY <1>1, <1>2, <1>6, <1>7, <1>9, <3>1 DEF Descr
      <4> QED BY <3>1, <4>1 DEF FillsAt, Segment
    <3>2. CASE head + 1 = A
      <4>1. head' \in Segment(c) => head' = F
        BY <1>1, <1>2, <1>6, <1>7, <1>9, <3>2 DEF Descr
      <4> QED BY <3>2, <4>1 DEF FillsAt, Segment, F
    <3> QED BY <3>1, <3>2
  <2>4. CASE FillsAt(c)' = q
    <3>1. \A d \in Segment(c) : d # head => Ahead(c, d) < Ahead(c, head)
      BY <1>1, <1>6, <1>7, <1>9, <2>3, <2>4 DEF Ahead
    <3>2. \A d \in Segment(c) : hasData'[d]
      BY <1>4, <2>2, <3>1 DEF Segment
    <3> QED BY <1>3, <2>4, <3>2 DEF Filled, Segment
  <2>5. CASE FillsAt(c)' # q
    <3> DEFINE f == IF head + 1 = A THEN F ELSE head + 1
    <3>1. \A d \in Segment(c) : Ahead(c, d) < Ahead(c, f) <=> Ahead(c, d) < Ahead(c, head) \/ d = head
      BY <1>1, <1>6, <1>7, <1>9, <2>3, <2>5 DEF Ahead
    <3>2. \A d \in Segment(c) : hasData'[d] <=> Ahead(c, d) < Ahead(c, f)
      BY <1>4, <2>2, <3>1 DEF Segment
    <3> QED BY <1>3, <2>3, <3>2 DEF Filled, Segment, Ahead
  <2> QED BY <2>4, <2>5
<1>10. CASE head \notin Segment(c)
  <2>1. head' \in Segment(c) => head' = F
    BY <1>1, <1>2, <1>6, <1>7, <1>10 DEF Descr
  <2>2. FillsAt(c)' = FillsAt(c)
    BY <1>10, <2>1 DEF FillsAt, Segment, F
  <2>3. \A d \in Segment(c) : hasData'[d] <=> hasData[d]
    BY <1>4, <1>10 DEF Segment
  <2> QED BY <1>3, <2>2, <2>3 DEF Filled, Segment, Ahead
<1> QED BY <1>9, <1>10

\* The consumer takes the first of them.
LEMMA FilledReadFrame ==
  ASSUME EvenSegments, TurnInv, NEW c \in Consumer, ReadFrame(c), Filled(c)
  PROVE  Filled(c)'
<1> USE RingAssumption
<1>1. TypeOK
  BY DEF TurnInv, RightInv
<1>2. PICK q \in Segment(c) : q = qidx[c]
  BY DEF TurnInv, Walks
<1>3. hasData[q] /\ UNCHANGED head
  BY <1>2 DEF ReadFrame
<1>4. \A d \in Descr : hasData'[d] <=> hasData[d] /\ d # q
  BY <1>1, <1>2 DEF ReadFrame, TypeOK
<1>5. qidx'[c] = IF q + 1 = AfterSegment(c) THEN FirstDescr(c) ELSE q + 1
  BY <1>1, <1>2, WalkInSegment DEF ReadFrame, TypeOK
<1>6. /\ FirstDescr(c) \in Nat /\ AfterSegment(c) \in Nat /\ FirstDescr(c) < AfterSegment(c)
      /\ AfterSegment(c) <= RingSize /\ AfterSegment(c) = FirstDescr(c) + DescrPerConsumer
      /\ DescrPerConsumer \in Nat
  BY SegmentsInOrder, DescrPerConsumerNat DEF AfterSegment
<1>7. \A d : d \in Segment(c) <=> d \in Nat /\ FirstDescr(c) <= d /\ d < AfterSegment(c)
  BY <1>6 DEF Segment, Descr
<1>8. FillsAt(c)' = FillsAt(c) /\ FillsAt(c) \in Segment(c)
  BY <1>3, <1>6, <1>7 DEF FillsAt, Segment
<1>9. PICK f \in Segment(c) : f = FillsAt(c)
  BY <1>8
<1>10. ASSUME NEW d \in Segment(c)
       PROVE  /\ d # q => Ahead(c, d)' = Ahead(c, d) - 1
              /\ d = q => Ahead(c, d)' = DescrPerConsumer - 1
              /\ Ahead(c, d) \in Nat /\ Ahead(c, d) < DescrPerConsumer
              /\ d # q => Ahead(c, d) > 0
              /\ d = q => Ahead(c, d) = 0
  BY <1>2, <1>5, <1>6, <1>7 DEF Ahead
<1>11. \A d \in Segment(c) : hasData'[d] <=> Ahead(c, d)' < Ahead(c, f)'
  <2>1. CASE f = q
    <3>1. \A d \in Segment(c) : hasData[d]
      BY <1>2, <1>3, <1>9, <1>10, <2>1 DEF Filled
    <3> QED BY <1>4, <1>6, <1>10, <2>1, <3>1 DEF Segment
  <2>2. CASE f # q
    <3>1. \A d \in Segment(c) : hasData[d] <=> Ahead(c, d) < Ahead(c, f)
      BY <1>2, <1>9, <2>2 DEF Filled
    <3> QED BY <1>4, <1>6, <1>10, <2>2, <3>1 DEF Segment
  <2> QED BY <2>1, <2>2
<1> QED BY <1>8, <1>9, <1>11 DEF Filled, Segment, Ahead

\* Frames arrive and are taken in the same order in every segment.
LEMMA OrderStep ==
  ASSUME EvenSegments, OrderInv, [Next]_vars, ~repeated'
  PROVE  OrderInv'
<1>1. TurnInv /\ TurnInv'
  BY TurnStep DEF OrderInv
<1>2. SUFFICES ASSUME NEW c \in Consumer PROVE Filled(c)'
  BY <1>1 DEF OrderInv
<1>3. Filled(c)
  BY DEF OrderInv
<1>4. CASE NicReceive
  BY <1>1, <1>3, <1>4, FilledNicReceive
<1>5. ASSUME UNCHANGED <<hasData, head>>, qidx'[c] = qidx[c] PROVE Filled(c)'
  BY <1>3, <1>5 DEF Filled, FillsAt, Ahead, Segment
<1>6. ASSUME NEW n \in Consumer, Thread(n) PROVE Filled(c)'
  <2>1. TypeOK
    BY <1>1 DEF TurnInv, RightInv
  <2>2. CASE ReadFrame(n) /\ n = c
    BY <1>1, <1>3, <2>2, FilledReadFrame
  <2>3. CASE ReadFrame(n) /\ n # c
    <3>1. qidx'[c] = qidx[c] /\ UNCHANGED head
      BY <2>1, <2>3 DEF ReadFrame, TypeOK
    <3>2. qidx[n] \notin Segment(c)
      <4>1. qidx[n] \in Segment(n)
        BY <1>1 DEF TurnInv, Walks
      <4> QED BY <2>3, <4>1, ConsumerOfSegment DEF Segment
    <3>3. \A d \in Segment(c) : hasData'[d] = hasData[d]
      BY <2>1, <2>3, <3>2 DEF ReadFrame, TypeOK, Segment
    <3> QED BY <1>3, <3>1, <3>3 DEF Filled, FillsAt, Ahead, Segment
  <2>4. CASE Finish(n)
    <3>1. UNCHANGED <<hasData, head>>
      BY <2>4 DEF Finish, ringVars
    <3>2. qidx'[c] = qidx[c]
      <4>1. reads[n] > 0 /\ qidx[n] = CalcNext(lastRead[n], n)
        BY <1>1, <2>4 DEF Finish, TurnInv, Walks
      <4>2. rxdIdx'[n] = CalcNext(lastRead[n], n)
        BY <2>1, <2>4 DEF Finish, TypeOK
      <4> QED BY <2>1, <2>4, <4>1, <4>2 DEF Finish, TypeOK
    <3> QED BY <1>5, <3>1, <3>2
  <2>5. CASE ExitLoop(n) \/ Grant(n) \/ TestCanFree(n) \/ UnsetCanFree(n) \/ TakeMark(n)
             \/ Release(n) \/ MarkFreed(n)
    <3>1. UNCHANGED <<hasData, head, qidx>>
      BY <2>5 DEF ExitLoop, Grant, TestCanFree, UnsetCanFree, TakeMark, Release, MarkFreed, ringVars
    <3> QED BY <1>5, <3>1
  <2> QED BY <1>6, <2>2, <2>3, <2>4, <2>5 DEF Thread, Advance
<1>7. CASE UNCHANGED vars
  BY <1>5, <1>7 DEF vars, ringVars, threadVars
<1> QED BY <1>4, <1>6, <1>7 DEF Next

\* Until one releases a second time what it had already released, any number of
\* consumers whose segments cover the ring give no unread descriptor back to the
\* NIC and meet their frames in the order they arrived, whatever the batch, the
\* ring guard and the granularity of the tail register.
THEOREM SeveralConsumersSafe == ASSUME EvenSegments PROVE Spec => []FramesKeptUntilRepeat
<1> DEFINE Inv == repeated \/ OrderInv
<1>1. Init => Inv
  <2> SUFFICES ASSUME Init PROVE OrderInv
    OBVIOUS
  <2>1. TurnInv
    BY TurnInit
  <2>2. ASSUME NEW c \in Consumer PROVE Filled(c)
    <3>1. FirstDescr(c) \in Nat /\ FirstDescr(c) < AfterSegment(c) /\ AfterSegment(c) <= RingSize
      BY SegmentsInOrder
    <3>2. head = 0 /\ qidx[c] = FirstDescr(c) /\ \A d \in Descr : ~hasData[d]
      BY DEF Init
    <3>3. FillsAt(c) = FirstDescr(c)
      BY <3>1, <3>2 DEF FillsAt, Segment, Descr
    <3>4. \A d \in Segment(c) : ~(Ahead(c, d) < Ahead(c, FirstDescr(c)))
      BY <3>1, <3>2 DEF Ahead, Segment, Descr
    <3> QED BY <3>2, <3>3, <3>4 DEF Filled, Segment
  <2> QED BY <2>1, <2>2 DEF OrderInv
<1>2. Inv /\ [Next]_vars => Inv'
  <2> SUFFICES ASSUME Inv, [Next]_vars, ~repeated' PROVE OrderInv'
    OBVIOUS
  <2>1. ~repeated
    BY DEF Next, Thread, Advance, NicReceive, ReadFrame, ExitLoop, TakeMark, Grant, TestCanFree,
       Release, MarkFreed, UnsetCanFree, Finish, histVars, vars
  <2> QED BY <2>1, OrderStep
<1>3. Inv => FramesKeptUntilRepeat
  <2> SUFFICES ASSUME OrderInv PROVE FramesKept
    BY DEF FramesKeptUntilRepeat
  <2>1. NoUnreadReleased
    BY DEF OrderInv, TurnInv
  <2>2. ASSUME NEW c \in Consumer, NEW d \in Descr, NEW e \in Descr,
               ConsumerOf(d) = c, ConsumerOf(e) = c, hasData[d], e \in Window(qidx[c], d)
        PROVE  hasData[e]
    <3>1. d \in Segment(c) /\ e \in Segment(c) /\ qidx[c] \in Segment(c)
      BY <2>2, ConsumerOfSegment DEF OrderInv, TurnInv, Walks
    <3>2. /\ FirstDescr(c) \in Nat /\ DescrPerConsumer \in Nat
          /\ AfterSegment(c) = FirstDescr(c) + DescrPerConsumer
      BY SegmentsInOrder, DescrPerConsumerNat DEF AfterSegment
    <3>3. FirstDescr(c) < AfterSegment(c) /\ FillsAt(c) \in Nat
      BY SegmentsInOrder DEF FillsAt, Segment, Descr
    <3>4. Ahead(c, e) < Ahead(c, d) /\ Ahead(c, e) \in Int /\ Ahead(c, d) \in Int /\ Ahead(c, FillsAt(c)) \in Int
      BY <2>2, <3>1, <3>2, <3>3, RingAssumption DEF Ahead, Segment, Descr, Window
    <3> QED BY <2>2, <3>1, <3>4 DEF OrderInv, Filled
  <2> QED BY <2>1, <2>2 DEF FramesKept, InOrder
<1> QED BY <1>1, <1>2, <1>3, PTL DEF Spec
=============================================================================
