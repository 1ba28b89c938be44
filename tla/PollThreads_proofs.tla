-------------------------- MODULE PollThreads_proofs --------------------------
(***************************************************************************)
(* Theorems about the launch and the stop of the poll threads, for any     *)
(* number of threads and any size of the buffer: the four invariants that  *)
(* the run checks for two threads and a buffer of four bytes.              *)
(***************************************************************************)
EXTENDS PollThreads, TLAPS

Offset == 0 .. BufSize - 1

\* The threads that may run are those this launch has prepared, and of those
\* the stop has not gone past.
LifeFits ==
    /\ apc = "launch" => created /\ setUp < Consumers
    /\ apc \in {"stop", "join"} => ~created
    /\ apc \in {"idle", "launch"} => stopIdx = 0
    /\ apc = "idle" /\ ~created => \A c \in Consumer : ~Alive(c)
    /\ apc \in {"stop", "join"} => \A c \in Consumer : c < stopIdx => ~Alive(c)
    /\ \A c \in Consumer : Alive(c) => c < setUp

-----------------------------------------------------------------------------
\* The remainder of what is at most one buffer outside the buffer: the offsets
\* of distance, avail_bytes and of the increments are of that kind.
LEMMA ModOnce ==
  ASSUME NEW x \in Int, -BufSize <= x, x < 2 * BufSize
  PROVE  /\ x % BufSize \in Offset
         /\ x % BufSize = IF x < 0 THEN x + BufSize
                          ELSE IF x < BufSize THEN x ELSE x - BufSize
<1>1. BufSize \in Nat /\ BufSize > 1
  BY PollAssumption
<1>2. /\ x = BufSize * (x \div BufSize) + (x % BufSize)
      /\ x % BufSize \in 0 .. BufSize - 1 /\ x \div BufSize \in Int
  BY <1>1
<1> DEFINE q == x \div BufSize
<1>3. q \in {-1, 0, 1}
  <2>1. CASE q <= -2
    <3>1. BufSize * q <= BufSize * (-2)
      BY <2>1, <1>1, <1>2
    <3> QED BY <3>1, <1>1, <1>2
  <2>2. CASE q >= 2
    <3>1. BufSize * q >= BufSize * 2
      BY <2>2, <1>1, <1>2
    <3> QED BY <3>1, <1>1, <1>2
  <2> QED BY <2>1, <2>2, <1>2
<1>4. BufSize * (-1) = -BufSize /\ BufSize * 0 = 0 /\ BufSize * 1 = BufSize
  BY <1>1
<1> QED BY <1>1, <1>2, <1>3, <1>4 DEF Offset

\* An increment brought back into the buffer is an offset.
LEMMA ModInside == \A x \in Int : x % BufSize \in Offset
BY PollAssumption DEF Offset

\* A thread's share of the room is inside the buffer.
LEMMA ShareFits ==
  ASSUME NEW a \in Offset
  PROVE  a \div Consumers \in Offset
<1>1. /\ BufSize \in Nat /\ BufSize > 1 /\ Consumers \in Nat /\ Consumers >= 1
      /\ a \in Nat /\ a < BufSize
  BY PollAssumption DEF Offset
<1> DEFINE q == a \div Consumers
           r == a % Consumers
<1>2. a = Consumers * q + r /\ q \in Int /\ r \in Nat /\ r < Consumers
  BY <1>1
<1> HIDE DEF q, r
<1>3. q >= 0
  <2>1. CASE q < 0
    <3>1. Consumers * q <= Consumers * (-1)
      BY <2>1, <1>1, <1>2
    <3>2. Consumers * (-1) = -Consumers
      BY <1>1
    <3>3. Consumers * q \in Int
      BY <1>1, <1>2
    <3> QED BY <3>1, <3>2, <3>3, <1>1, <1>2
  <2> QED BY <2>1, <1>2
<1>4. q <= Consumers * q
  BY <1>1, <1>2, <1>3
<1>5. Consumers * q \in Int
  BY <1>1, <1>2
<1>6. q \in Offset
  BY <1>1, <1>2, <1>3, <1>4, <1>5 DEF Offset
<1> QED BY <1>6 DEF q

\* The next thread to stop.
LEMMA NextThread ==
  ASSUME NEW c \in Consumer
  PROVE  (c + 1) % Consumers = IF c + 1 = Consumers THEN 0 ELSE c + 1
BY PollAssumption DEF Consumer

\* previous_consumer is a thread.
LEMMA PreviousType ==
  ASSUME NEW c \in Consumer PROVE PreviousConsumer(c) \in Consumer
<1>1. c + Consumers - 1 \in Nat /\ Consumers \in Nat \ {0}
  BY PollAssumption DEF Consumer
<1> QED BY <1>1 DEF PreviousConsumer, Consumer

-----------------------------------------------------------------------------
\* The types and the life of the threads.
LEMMA LifeInit == Init => TypeOK /\ LifeFits
<1>1. 0 \in Consumer
  BY PollAssumption DEF Consumer
<1>2. 0 \in 0 .. BufSize - 1 /\ 0 \in 0 .. Consumers
  BY PollAssumption
<1> QED BY <1>1, <1>2 DEF Init, TypeOK, LifeFits, Alive, Running, Pushing

\* The thread actions leave a thread where none ran alone, and the rest of the
\* life of the threads too.
LEMMA LifeFrame ==
  ASSUME TypeOK, LifeFits, UNCHANGED adminVars,
         \A c \in Consumer : Alive(c)' => Alive(c)
  PROVE  LifeFits'
BY DEF LifeFits, adminVars

\* Every step keeps them.
LEMMA LifeStep == TypeOK /\ LifeFits /\ [Next]_vars => TypeOK' /\ LifeFits'
<1> SUFFICES ASSUME TypeOK, LifeFits, [Next]_vars PROVE TypeOK' /\ LifeFits'
  OBVIOUS
<1> USE DEF TypeOK, adminVars, rightVars, threadVars, bufVars, histVars, pushVars
<1>0. /\ BufSize \in Nat /\ BufSize > 1 /\ Consumers \in Nat /\ Consumers > 0
      /\ Consumer = 0 .. Consumers - 1
  BY PollAssumption DEF Consumer
<1>1. CASE BeginLaunch
  <2>1. 0 \in 0 .. Consumers /\ 0 \in 0 .. BufSize - 1
    BY <1>0
  <2>2. TypeOK'
    BY <1>1, <2>1 DEF BeginLaunch
  <2>3. LifeFits'
    BY <1>1, <1>0 DEF BeginLaunch, LifeFits, Alive
  <2> QED BY <2>2, <2>3
<1>2. CASE LaunchThread
  <2>1. setUp \in Consumer
    BY <1>2, <1>0 DEF LaunchThread, LifeFits
  <2> QED BY <1>2, <1>0, <2>1 DEF LaunchThread, SetUpSlot, Goto, LifeFits, Alive, Running
<1>3. CASE LaunchFails
  <2>1. setUp \in Consumer
    BY <1>3, <1>0 DEF LaunchFails, LifeFits
  <2> QED BY <1>3, <1>0, <2>1 DEF LaunchFails, SetUpSlot, Goto, LifeFits, Alive, Running
<1>4. CASE BeginStop
  <2>1. \A d \in Consumer : ~(d < 0)
    BY <1>0
  <2>2. TypeOK'
    BY <1>4 DEF BeginStop
  <2>3. LifeFits'
    BY <1>4, <2>1 DEF BeginStop, LifeFits, Alive
  <2> QED BY <2>2, <2>3
<1>5. CASE RequestStop
  BY <1>5, <1>0 DEF RequestStop, LifeFits, Alive
<1>6. CASE Joined
  <2>1. stopIdx' = IF stopIdx + 1 = Consumers THEN 0 ELSE stopIdx + 1
    BY <1>6, NextThread DEF Joined
  <2>2. ~Alive(stopIdx)
    BY <1>6 DEF Joined, Alive, Running, Pushing
  <2> QED BY <1>6, <1>0, <2>1, <2>2 DEF Joined, LifeFits, Alive
<1>7. ASSUME NEW c \in Consumer, Thread(c) PROVE TypeOK' /\ LifeFits'
  <2>1. tpc' \in [Consumer -> Running \cup {"none", "failed", "ended"}]
    BY <1>7 DEF Thread, PollLoop, ResetGlobal, ResetOffsets, Reserve, PassRight,
                TakeRight, EndRx, ReadOffset, Measure, Push, Store, Goto, Running, Pushing
  <2>2. \A d \in Consumer : Alive(d)' => Alive(d)
    BY <1>7 DEF Thread, PollLoop, ResetGlobal, ResetOffsets, Reserve, PassRight,
                TakeRight, EndRx, ReadOffset, Measure, Push, Store, Goto, Running,
                Pushing, Alive
  <2>3. UNCHANGED adminVars
    BY <1>7 DEF Thread, PollLoop, ResetGlobal, ResetOffsets, Reserve, PassRight,
                TakeRight, EndRx, ReadOffset, Measure, Push, Store
  <2>4. /\ canFree' \in [Consumer -> BOOLEAN] /\ freedLast' \in [Consumer -> BOOLEAN]
        /\ attached' \in BOOLEAN /\ outdated' \in BOOLEAN /\ staleTaken' \in BOOLEAN
    BY <1>7, PreviousType DEF Thread, PollLoop, ResetGlobal, ResetOffsets, Reserve,
                PassRight, TakeRight, EndRx, ReadOffset, Measure, Push, Store, Forget
  <2>5. Avail \in Offset
    BY <1>0 DEF Avail, Offset
  <2>6. limit' \in [Consumer -> Offset]
    <3>1. Avail \div Consumers \in Offset
      BY <2>5, ShareFits
    <3>2. 0 \in Offset
      BY <1>0 DEF Offset
    <3>3. CASE PollLoop(c)
      BY <3>3, <3>1, <3>2 DEF PollLoop, Offset
    <3>4. CASE Reserve(c)
      <4>1. PICK n \in 1 .. limit[c] : limit' = [limit EXCEPT ![c] = limit[c] - n]
        BY <3>4 DEF Reserve
      <4>2. limit[c] - n \in Offset
        BY <1>0 DEF Offset
      <4> QED BY <4>1, <4>2 DEF Offset
    <3>5. CASE EndRx(c)
      BY <3>5, <3>2 DEF EndRx, Offset
    <3>6. CASE \/ ResetGlobal(c) \/ ResetOffsets(c) \/ PassRight(c) \/ TakeRight(c)
              \/ ReadOffset(c) \/ Measure(c) \/ Push(c) \/ Store(c)
      BY <3>6 DEF ResetGlobal, ResetOffsets, PassRight, TakeRight, ReadOffset, Measure,
                  Push, Store, Offset
    <3> QED BY <1>7, <3>3, <3>4, <3>5, <3>6 DEF Thread
  <2>7. {writeOff, rd, wr, found, unpublished, taken}' \subseteq Offset
    <3>0. {writeOff, rd, wr, found, unpublished, taken} \subseteq Offset /\ 0 \in Offset
      BY <1>0 DEF Offset
    <3>a. \A x \in Int : x % BufSize \in Offset
      BY ModInside
    <3> HIDE DEF TypeOK
    <3>1. CASE ResetGlobal(c) \/ ResetOffsets(c)
      BY <3>1, <3>0 DEF ResetGlobal, ResetOffsets, Forget
    <3>2. CASE Reserve(c)
      <4>1. PICK n \in 1 .. limit[c] : /\ writeOff' = (writeOff + n) % BufSize
                                      /\ unpublished' = (unpublished + n) % BufSize
        BY <3>2 DEF Reserve
      <4>2. writeOff + n \in Int /\ unpublished + n \in Int
        BY <3>0 DEF Offset
      <4> QED BY <3>2, <3>0, <4>1, <4>2, <3>a DEF Reserve
    <3>b. Distance(wr, found) \in Offset /\ (unpublished - taken) % BufSize \in Offset
      <4>1. found - wr \in Int /\ unpublished - taken \in Int
        BY <3>0 DEF Offset
      <4> QED BY <4>1, <3>a DEF Distance
    <3>3. CASE ReadOffset(c) \/ Measure(c) \/ Store(c)
      BY <3>3, <3>0, <3>b DEF ReadOffset, Measure, Store, Published
    <3>4. CASE Push(c)
      <4>1. \A k \in Int : ((wr + k) % Word) % BufSize \in Offset
        <5> TAKE k \in Int
        <5>1. Word \in Nat /\ Word > 0 /\ wr + k \in Int
          BY <3>0, PollAssumption DEF Offset
        <5>2. (wr + k) % Word \in Int
          BY <5>1
        <5> QED BY <5>2, <3>a
      <4>2. found \in Int /\ Avail - 1 \in Int
        BY <2>5, <3>0 DEF Offset
      <4>3. PICK k \in Int : found' = ((wr + k) % Word) % BufSize
        BY <3>4, <4>2 DEF Push
      <4>4. found' \in Offset
        BY <4>1, <4>3
      <4>5. Distance(wr, found') \in Offset
        <5>1. found' - wr \in Int
          BY <4>4, <3>0 DEF Offset
        <5> QED BY <5>1, <3>a DEF Distance
      <4>6. taken' \in {taken, Distance(wr, found')}
        BY <3>4 DEF Push
      <4> QED BY <3>4, <3>0, <4>4, <4>5, <4>6 DEF Push
    <3>5. CASE PollLoop(c) \/ PassRight(c) \/ TakeRight(c) \/ EndRx(c)
      BY <3>5, <3>0 DEF PollLoop, PassRight, TakeRight, EndRx
    <3> QED BY <1>7, <3>1, <3>2, <3>3, <3>4, <3>5 DEF Thread
  <2> QED BY <2>1, <2>2, <2>3, <2>4, <2>6, <2>7, LifeFrame DEF Offset
<1>8. CASE Attach \/ Detach \/ UNCHANGED vars
  <2>1. TypeOK'
    BY <1>8 DEF Attach, Detach, vars
  <2>2. UNCHANGED adminVars /\ tpc' = tpc
    BY <1>8 DEF Attach, Detach, vars
  <2>3. LifeFits'
    BY <2>2 DEF LifeFits, Alive
  <2> QED BY <2>1, <2>3
<1>9. CASE Ack
  <2>1. PICK n \in 1 .. Distance(rd, wr) : rd' = (rd + n) % BufSize
    BY <1>9 DEF Ack
  <2>2. Distance(rd, wr) \in Offset
    BY <1>0 DEF Distance, Offset
  <2>3. rd' \in Offset
    BY <2>1, <2>2, <1>0 DEF Offset
  <2> QED BY <1>9, <2>3 DEF Ack, LifeFits, Alive, Offset
<1> QED BY <1>1, <1>2, <1>3, <1>4, <1>5, <1>6, <1>7, <1>8, <1>9 DEF Next, Admin

\* Every variable keeps its type, the offsets and limits stay inside the
\* buffer, for any number of threads, BufSize and order of ups and downs.
THEOREM PollTypeCorrect == Spec => []TypeOK
BY LifeInit, LifeStep, PTL DEF Spec

\* hpcap_stop_poll_threads leaves no thread behind, and none is launched over
\* a running one.
THEOREM StopLeavesNone == Spec => []NoneRunsWhenDown
<1>1. TypeOK /\ LifeFits => NoneRunsWhenDown
  <2> SUFFICES ASSUME TypeOK, LifeFits PROVE NoneRunsWhenDown
    OBVIOUS
  <2>1. apc = "launch" => \A c \in setUp .. (Consumers - 1) : c \in Consumer /\ ~(c < setUp)
    BY PollAssumption DEF TypeOK, Consumer
  <2> QED BY <2>1 DEF LifeFits, NoneRunsWhenDown
<1> QED BY LifeInit, LifeStep, <1>1, PTL DEF Spec

-----------------------------------------------------------------------------
\* A step of a thread that runs, none of which changes setUp.
LEMMA AliveIsSetUp ==
  ASSUME LifeFits, NEW c \in Consumer, tpc[c] \in Running PROVE c < setUp
BY DEF LifeFits, Alive

\* One right among the threads of this launch, for every step.
LEMMA OneRightStep ==
  TypeOK /\ LifeFits /\ OneRightUnlessStale /\ [Next]_vars => OneRightUnlessStale'
<1> SUFFICES ASSUME TypeOK, LifeFits, OneRightUnlessStale, [Next]_vars
             PROVE  OneRightUnlessStale'
  OBVIOUS
<1>0. /\ Consumers \in Nat /\ Consumers > 0 /\ Consumer = 0 .. Consumers - 1
      /\ setUp \in 0 .. Consumers
      /\ canFree \in [Consumer -> BOOLEAN] /\ freedLast \in [Consumer -> BOOLEAN]
  BY PollAssumption DEF Consumer, TypeOK
<1>1. CASE UNCHANGED <<setUp, staleTaken, canFree, freedLast>>
  BY <1>1 DEF OneRightUnlessStale
<1>2. CASE BeginLaunch
  BY <1>2 DEF BeginLaunch, OneRightUnlessStale
<1>3. CASE LaunchThread \/ LaunchFails
  <2>1. /\ setUp \in Consumer /\ setUp' = setUp + 1 /\ staleTaken' = staleTaken
        /\ freedLast' = [freedLast EXCEPT ![setUp] = FALSE]
        /\ canFree' = [canFree EXCEPT ![setUp] = setUp = 0]
    BY <1>3, <1>0 DEF LaunchThread, LaunchFails, SetUpSlot, LifeFits, histVars
  <2>a. canFree'[setUp] = (setUp = 0) /\ freedLast'[setUp] = FALSE
    BY <2>1, <1>0, Zenon
  <2>b. \A d \in Consumer : d # setUp => /\ canFree'[d] = canFree[d]
                                        /\ freedLast'[d] = freedLast[d]
    BY <2>1, <1>0, Zenon
  <2>2. CASE setUp = 0
    <3>1. 0 .. setUp' - 1 = {0}
      BY <2>1, <2>2, <1>0
    <3>2. canFree'[0] = TRUE /\ freedLast'[0] = FALSE
      BY <2>a, <2>2, Zenon
    <3> QED BY <3>1, <3>2, Zenon DEF OneRightUnlessStale
  <2>3. CASE setUp > 0 /\ ~staleTaken
    <3>1. PICK c \in 0 .. setUp - 1 :
                 /\ canFree[c] # freedLast[c]
                 /\ \A d \in 0 .. setUp - 1 : canFree[d] \/ freedLast[d] => d = c
      BY <2>3 DEF OneRightUnlessStale
    <3>2. canFree'[setUp] = FALSE /\ freedLast'[setUp] = FALSE
      <4>1. (setUp = 0) = FALSE
        BY <2>3, <1>0
      <4> QED BY <2>a, <4>1, Zenon
    <3>3. \A d \in 0 .. setUp - 1 : canFree'[d] = canFree[d] /\ freedLast'[d] = freedLast[d]
      <4>1. \A d \in 0 .. setUp - 1 : d \in Consumer /\ d # setUp
        BY <1>0
      <4> QED BY <2>b, <4>1, Zenon
    <3>4. c \in 0 .. setUp' - 1 /\ \A d \in 0 .. setUp' - 1 : d = setUp \/ d \in 0 .. setUp - 1
      BY <2>1, <1>0
    <3> QED BY <3>1, <3>2, <3>3, <3>4 DEF OneRightUnlessStale
  <2>4. CASE setUp > 0 /\ staleTaken
    BY <2>1, <2>4 DEF OneRightUnlessStale
  <2> QED BY <2>2, <2>3, <2>4, <1>0
<1>4. ASSUME NEW c \in Consumer, PassRight(c) PROVE OneRightUnlessStale'
  <2>1. c \in 0 .. setUp - 1
    BY <1>4, <1>0, AliveIsSetUp DEF PassRight, Running
  <2>2. /\ setUp' = setUp /\ staleTaken' = staleTaken /\ canFree[c]
        /\ freedLast' = [freedLast EXCEPT ![c] = TRUE]
        /\ canFree' = [canFree EXCEPT ![c] = FALSE]
    BY <1>4 DEF PassRight, adminVars, histVars
  <2>3. CASE ~staleTaken
    <3>1. /\ ~freedLast[c]
          /\ \A d \in 0 .. setUp - 1 : canFree[d] \/ freedLast[d] => d = c
      BY <2>1, <2>2, <2>3, <1>0 DEF OneRightUnlessStale
    <3>2. canFree'[c] = FALSE /\ freedLast'[c] = TRUE
      BY <2>2, <1>0
    <3>3. \A d \in 0 .. setUp - 1 : d # c => canFree'[d] = canFree[d] /\ freedLast'[d] = freedLast[d]
      BY <2>2, <1>0
    <3> QED BY <2>1, <2>2, <3>1, <3>2, <3>3 DEF OneRightUnlessStale
  <2> QED BY <2>2, <2>3 DEF OneRightUnlessStale
<1>5. ASSUME NEW c \in Consumer, TakeRight(c) PROVE OneRightUnlessStale'
  <2> DEFINE p == PreviousConsumer(c)
  <2>0. p \in Consumer
    BY PreviousType
  <2>1. c \in 0 .. setUp - 1
    BY <1>5, <1>0, AliveIsSetUp DEF TakeRight, Running
  <2>2. /\ setUp' = setUp /\ staleTaken' = (staleTaken \/ p >= setUp)
        /\ ~canFree[c] /\ freedLast[p]
        /\ canFree' = [canFree EXCEPT ![c] = TRUE]
        /\ freedLast' = [freedLast EXCEPT ![p] = FALSE]
    BY <1>5 DEF TakeRight, adminVars
  <2> HIDE DEF p
  <2>3. CASE ~staleTaken /\ p < setUp
    <3>0. p \in 0 .. setUp - 1
      BY <2>0, <2>3, <1>0
    <3>1. /\ ~canFree[p]
          /\ \A d \in 0 .. setUp - 1 : canFree[d] \/ freedLast[d] => d = p
      BY <3>0, <2>1, <2>2, <2>3, <1>0 DEF OneRightUnlessStale
    <3>2. canFree'[c] = TRUE /\ freedLast'[p] = FALSE
      BY <2>0, <2>2, <1>0, Zenon
    <3>3. \A d \in 0 .. setUp - 1 : /\ d # c => canFree'[d] = canFree[d]
                                    /\ d # p => freedLast'[d] = freedLast[d]
      <4>1. \A d \in 0 .. setUp - 1 : d \in Consumer
        BY <1>0
      <4> QED BY <4>1, <2>0, <2>2, <1>0, Zenon
    <3>4. freedLast'[c] = FALSE
      <4>1. CASE c = p
        BY <4>1, <3>2
      <4>2. CASE c # p
        <5>1. ~freedLast[c] /\ freedLast[c] \in BOOLEAN
          BY <4>2, <3>1, <2>1, <1>0, Zenon
        <5>2. freedLast'[c] = freedLast[c]
          BY <4>2, <3>3, <2>1
        <5> QED BY <5>1, <5>2
      <4> QED BY <4>1, <4>2
    <3>5. \A d \in 0 .. setUp - 1 : canFree'[d] \/ freedLast'[d] => d = c
      <4> SUFFICES ASSUME NEW d \in 0 .. setUp - 1, d # c
                   PROVE  ~canFree'[d] /\ ~freedLast'[d]
        OBVIOUS
      <4>1. CASE d = p
        BY <4>1, <3>1, <3>2, <3>3, Zenon
      <4>2. CASE d # p
        BY <4>2, <3>1, <3>3, Zenon
      <4> QED BY <4>1, <4>2
    <3> QED BY <3>5, <2>1, <2>2, <3>1, <3>2, <3>3, <3>4 DEF OneRightUnlessStale
  <2>4. CASE staleTaken \/ p >= setUp
    BY <2>2, <2>4 DEF OneRightUnlessStale
  <2> QED BY <2>3, <2>4, <2>0, <1>0
<1>6. ASSUME NEW c \in Consumer, Thread(c), ~PassRight(c), ~TakeRight(c)
      PROVE  UNCHANGED <<setUp, staleTaken, canFree, freedLast>>
  BY <1>6 DEF Thread, PollLoop, ResetGlobal, ResetOffsets, Reserve, EndRx, ReadOffset,
              Measure, Push, Store, adminVars, rightVars, histVars
<1>7. CASE BeginStop \/ RequestStop \/ Joined \/ Attach \/ Detach \/ Ack \/ UNCHANGED vars
  BY <1>7, <1>1 DEF BeginStop, RequestStop, Joined, Attach, Detach, Ack,
              vars, adminVars, rightVars, histVars
<1> QED BY <1>1, <1>2, <1>3, <1>4, <1>5, <1>6, <1>7 DEF Next, Admin

\* The marks that pass the right to return descriptors around, hpcap_rx's and
\* those a launch resets thread by thread: one right among the threads launched,
\* for any number of them, unless a mark of the previous launch was taken.
THEOREM OneRightThroughLaunches == Spec => []OneRightUnlessStale
<1>1. Init => OneRightUnlessStale
  BY DEF Init, OneRightUnlessStale
<1> QED BY LifeInit, LifeStep, <1>1, OneRightStep, PTL DEF Spec

-----------------------------------------------------------------------------
\* Bytes moved from what is reserved to what is published: the sum of both is
\* the running offset all the time.
LEMMA ShiftSum ==
  ASSUME NEW w \in Offset, NEW u \in Offset, NEW n \in Int, n >= -1, n < BufSize
  PROVE  /\ n >= 0 => (w + ((u + n) % BufSize)) % BufSize = (((w + u) % BufSize) + n) % BufSize
         /\ (((w + n) % BufSize) + ((u - n) % BufSize)) % BufSize = (w + u) % BufSize
<1>0. /\ BufSize \in Nat /\ BufSize > 1
      /\ w \in Int /\ 0 <= w /\ w < BufSize /\ u \in Int /\ 0 <= u /\ u < BufSize
  BY PollAssumption DEF Offset
<1> DEFINE a == (w + u) % BufSize
           b == (w + n) % BufSize
           c == (u - n) % BufSize
           d == (u + n) % BufSize
<1>1. a \in Offset /\ a = IF w + u < BufSize THEN w + u ELSE w + u - BufSize
  BY <1>0, ModOnce
<1>2. b \in Offset /\ b = IF w + n < 0 THEN w + n + BufSize
                          ELSE IF w + n < BufSize THEN w + n ELSE w + n - BufSize
  BY <1>0, ModOnce
<1>3. c \in Offset /\ c = IF u - n < 0 THEN u - n + BufSize
                          ELSE IF u - n < BufSize THEN u - n ELSE u - n - BufSize
  BY <1>0, ModOnce
<1>4. n >= 0 => d \in Offset /\ d = IF u + n < BufSize THEN u + n ELSE u + n - BufSize
  BY <1>0, ModOnce
<1> HIDE DEF a, b, c, d
<1>5. (b + c) % BufSize = a
  <2>1. b + c \in Int /\ -BufSize <= b + c /\ b + c < 2 * BufSize
    BY <1>0, <1>2, <1>3 DEF Offset
  <2>2. (b + c) % BufSize = IF b + c < BufSize THEN b + c ELSE b + c - BufSize
    BY <2>1, <1>0, <1>2, <1>3, ModOnce DEF Offset
  <2> QED BY <2>2, <1>0, <1>1, <1>2, <1>3 DEF Offset
<1>6. ASSUME n >= 0 PROVE (w + d) % BufSize = (a + n) % BufSize
  <2>1. w + d \in Int /\ -BufSize <= w + d /\ w + d < 2 * BufSize
    BY <1>0, <1>4, <1>6 DEF Offset
  <2>2. a + n \in Int /\ -BufSize <= a + n /\ a + n < 2 * BufSize
    BY <1>0, <1>1, <1>6 DEF Offset
  <2>3. (w + d) % BufSize = IF w + d < BufSize THEN w + d ELSE w + d - BufSize
    BY <2>1, <1>0, <1>4, <1>6, ModOnce DEF Offset
  <2>4. (a + n) % BufSize = IF a + n < BufSize THEN a + n ELSE a + n - BufSize
    BY <2>2, <1>0, <1>1, <1>6, ModOnce DEF Offset
  <2> QED BY <2>3, <2>4, <1>0, <1>1, <1>4, <1>6 DEF Offset
<1> SUFFICES /\ n >= 0 => (w + d) % BufSize = (a + n) % BufSize
             /\ (b + c) % BufSize = a
  BY Zenon DEF a, b, c, d
<1> QED BY <1>5, <1>6

\* Distance undoes an addition, and an addition undoes distance.
LEMMA DistanceBack ==
  ASSUME NEW w \in Offset, NEW n \in Offset
  PROVE  /\ Distance(w, (w + n) % BufSize) = n
         /\ (w + Distance(w, n)) % BufSize = n
<1>0. /\ BufSize \in Nat /\ BufSize > 1
      /\ w \in Int /\ 0 <= w /\ w < BufSize /\ n \in Int /\ 0 <= n /\ n < BufSize
  BY PollAssumption DEF Offset
<1> DEFINE a == (w + n) % BufSize
           b == (n - w) % BufSize
<1>1. a \in Offset /\ a = IF w + n < BufSize THEN w + n ELSE w + n - BufSize
  BY <1>0, ModOnce
<1>2. b \in Offset /\ b = IF n - w < 0 THEN n - w + BufSize ELSE n - w
  BY <1>0, ModOnce
<1> HIDE DEF a, b
<1>3. (a - w) % BufSize = n
  <2>1. a - w \in Int /\ -BufSize <= a - w /\ a - w < 2 * BufSize
    BY <1>0, <1>1 DEF Offset
  <2>2. (a - w) % BufSize = IF a - w < 0 THEN a - w + BufSize
                            ELSE IF a - w < BufSize THEN a - w ELSE a - w - BufSize
    BY <2>1, ModOnce
  <2> QED BY <2>2, <1>0, <1>1
<1>4. (w + b) % BufSize = n
  <2> DEFINE sum == w + b
  <2>1. sum \in Int /\ -BufSize <= sum /\ sum < 2 * BufSize
    BY <1>0, <1>2 DEF Offset
  <2>2. sum >= 0 /\ n = IF sum < BufSize THEN sum ELSE sum - BufSize
    BY <1>0, <1>2
  <2> HIDE DEF sum
  <2>3. sum % BufSize = IF sum < 0 THEN sum + BufSize
                        ELSE IF sum < BufSize THEN sum ELSE sum - BufSize
    BY <2>1, ModOnce
  <2>4. sum % BufSize = n
    BY <2>1, <2>2, <2>3
  <2> QED BY <2>4 DEF sum
<1>5. Distance(w, a) = n
  BY <1>3 DEF Distance
<1>6. b = Distance(w, n)
  BY DEF b, Distance
<1> QED BY <1>4, <1>5, <1>6, Zenon DEF a

\* An offset stays where it is when nothing is added or taken away.
LEMMA NothingAdded ==
  ASSUME NEW o \in Offset PROVE (o + 0) % BufSize = o /\ (o - 0) % BufSize = o
<1>1. BufSize \in Nat /\ BufSize > 1 /\ o \in Nat /\ o < BufSize /\ o + 0 = o /\ o - 0 = o
  BY PollAssumption DEF Offset
<1> QED BY <1>1, ModOnce

\* A sum of two offsets does not overflow a u64.
LEMMA NoOverflow ==
  ASSUME NEW w \in Offset, NEW n \in Offset PROVE (w + n) % Word = w + n
BY PollAssumption DEF Offset

\* Only thread 0 publishes.  While nothing is outdated, the running offset is the
\* global one and what was not published yet, and thread 0 carries what it found
\* in the form its next step expects: the offset of its end, its size, or the
\* write offset it leads to.
PushFits ==
    /\ \A c \in Consumer : tpc[c] \in Pushing \cup {"publish"} => c = 0
    /\ \/ outdated \/ Resetting # {}
       \/ /\ (wr + unpublished) % BufSize = writeOff
          /\ tpc[0] \in {"measure", "store"} => found = (wr + taken) % BufSize
          /\ tpc[0] = "push" => found = taken

\* Every step keeps it.
LEMMA PushStep == TypeOK /\ LifeFits /\ PushFits /\ [Next]_vars => PushFits'
<1> SUFFICES ASSUME TypeOK, LifeFits, PushFits, [Next]_vars PROVE PushFits'
  OBVIOUS
<1>0. /\ writeOff \in Offset /\ wr \in Offset /\ unpublished \in Offset /\ rd \in Offset
      /\ found \in Offset /\ taken \in Offset
      /\ 0 \in Offset /\ 0 \in Consumer
      /\ tpc \in [Consumer -> Running \cup {"none", "failed", "ended"}]
  BY PollAssumption DEF TypeOK, Offset, Consumer
<1> DEFINE Same == UNCHANGED <<writeOff, wr, found, unpublished, taken, outdated>>
           Only == \A d \in Consumer : tpc[d] \in Pushing \cup {"publish"} => d = 0
           Sum  == (wr + unpublished) % BufSize = writeOff
           Local == /\ tpc[0] \in {"measure", "store"} => found = (wr + taken) % BufSize
                    /\ tpc[0] = "push" => found = taken
<1>1. Only /\ (outdated \/ Resetting # {} \/ (Sum /\ Local))
  BY DEF PushFits
<1>2. ASSUME tpc' = tpc PROVE Resetting' = Resetting /\ Only'
  BY <1>1, <1>2 DEF Resetting
<1>3. ASSUME NEW c \in Consumer, NEW l, Goto(c, l) PROVE
        /\ tpc'[c] = l /\ \A d \in Consumer : d # c => tpc'[d] = tpc[d]
        /\ tpc'[0] = IF c = 0 THEN l ELSE tpc[0]
        /\ (l \in Pushing \cup {"publish"} => c = 0) => Only'
        /\ tpc[c] \notin {"resetGlobal", "resetOffsets"} => (Resetting # {} => Resetting' # {})
  <2>1. tpc'[c] = l /\ \A d \in Consumer : d # c => tpc'[d] = tpc[d]
    BY <1>3, <1>0 DEF Goto
  <2> QED BY <2>1, <1>0, <1>1 DEF Resetting
<1>4. ASSUME Same, Only', Resetting # {} => Resetting' # {},
             tpc'[0] = tpc[0] \/ tpc'[0] \notin Pushing
      PROVE  PushFits'
  BY <1>1, <1>4 DEF PushFits, Pushing
<1>5. CASE BeginLaunch
  <2>1. /\ writeOff' = 0 /\ unpublished' = 0 /\ outdated' = (wr # 0) /\ wr' = wr
        /\ tpc' = tpc /\ ~Alive(0)
    BY <1>5, <1>0 DEF BeginLaunch, LifeFits, threadVars
  <2>2. tpc[0] \notin Pushing
    BY <2>1 DEF Alive, Running
  <2>3. wr' = 0 => (wr' + unpublished') % BufSize = writeOff'
    BY <2>1, <1>0, NothingAdded
  <2> QED BY <2>1, <2>2, <2>3, <1>2 DEF PushFits, Pushing
<1>6. CASE LaunchThread \/ LaunchFails
  <2>1. setUp \in Consumer /\ ~Alive(setUp)
    BY <1>6, PollAssumption DEF LaunchThread, LaunchFails, LifeFits, TypeOK, Consumer
  <2>2. Same /\ \E l \in {"test", "failed"} : Goto(setUp, l)
    BY <1>6 DEF LaunchThread, LaunchFails, bufVars, histVars, pushVars
  <2>3. PICK l \in {"test", "failed"} : Goto(setUp, l)
    BY <2>2
  <2>4. l \notin Pushing \cup {"publish"} /\ tpc[setUp] \notin {"resetGlobal", "resetOffsets"}
    BY <2>1 DEF Pushing, Alive, Running
  <2>5. /\ Only' /\ (Resetting # {} => Resetting' # {})
        /\ tpc'[0] = tpc[0] \/ tpc'[0] \notin Pushing
    BY <2>1, <2>3, <2>4, <1>3
  <2> QED BY <2>2, <2>5, <1>4
<1>7. CASE BeginStop \/ RequestStop \/ Joined \/ Attach \/ Detach \/ Ack \/ UNCHANGED vars
  <2>1. Same /\ tpc' = tpc
    BY <1>7 DEF BeginStop, RequestStop, Joined, Attach, Detach, Ack, vars,
                threadVars, bufVars, histVars, pushVars
  <2> QED BY <2>1, <1>2, <1>4
<1>8. ASSUME NEW c \in Consumer, Thread(c) PROVE PushFits'
  <2>1. CASE PollLoop(c) \/ EndRx(c)
    <3>1. /\ Same /\ tpc[c] \notin {"resetGlobal", "resetOffsets"}
          /\ \E l \in {"ended", "rx", "resetGlobal", "test", "publish"} :
                 Goto(c, l) /\ (l = "publish" => c = 0)
      BY <2>1 DEF PollLoop, EndRx, bufVars, histVars, pushVars
    <3>2. PICK l \in {"ended", "rx", "resetGlobal", "test", "publish"} :
                 Goto(c, l) /\ (l = "publish" => c = 0)
      BY <3>1
    <3>3. l \notin Pushing
      BY DEF Pushing
    <3>4. /\ Only' /\ (Resetting # {} => Resetting' # {})
          /\ tpc'[0] = tpc[0] \/ tpc'[0] \notin Pushing
      BY <3>1, <3>2, <3>3, <1>3
    <3> QED BY <3>1, <3>4, <1>4
  <2>2. CASE ResetGlobal(c)
    <3>1. Goto(c, "resetOffsets")
      BY <2>2 DEF ResetGlobal
    <3>2. Only' /\ tpc'[c] = "resetOffsets"
      BY <3>1, <1>3 DEF Pushing
    <3>3. c \in Resetting'
      BY <3>2 DEF Resetting
    <3> QED BY <3>2, <3>3 DEF PushFits
  <2>3. CASE ResetOffsets(c)
    <3>1. /\ writeOff' = 0 /\ unpublished' = 0 /\ wr' = wr /\ Goto(c, "rx")
          /\ outdated' = (wr # 0 \/ tpc[0] \in Pushing)
      BY <2>3 DEF ResetOffsets, Forget
    <3>2. Only' /\ (tpc'[0] = tpc[0] \/ tpc'[0] \notin Pushing)
      BY <3>1, <1>3 DEF Pushing
    <3>3. wr' = 0 => (wr' + unpublished') % BufSize = writeOff'
      BY <3>1, <1>0, NothingAdded
    <3> QED BY <3>1, <3>2, <3>3 DEF PushFits, Pushing
  <2>4. CASE Reserve(c)
    <3>1. PICK k \in 1 .. limit[c] : /\ writeOff' = (writeOff + k) % BufSize
                                    /\ unpublished' = (unpublished + k) % BufSize
      BY <2>4 DEF Reserve
    <3>2. k \in Int /\ k >= 0 /\ k < BufSize
      BY PollAssumption DEF TypeOK
    <3>3. Sum => (wr + unpublished') % BufSize = writeOff'
      BY <3>1, <3>2, <1>0, ShiftSum
    <3>4. /\ tpc' = tpc /\ wr' = wr /\ outdated' = outdated /\ found' = found /\ taken' = taken
      BY <2>4 DEF Reserve
    <3> QED BY <3>3, <3>4, <1>1, <1>2 DEF PushFits
  <2>5. CASE PassRight(c) \/ TakeRight(c)
    <3>1. Same /\ tpc' = tpc
      BY <2>5 DEF PassRight, TakeRight, threadVars, bufVars, histVars, pushVars
    <3> QED BY <3>1, <1>2, <1>4
  <2>6. CASE ReadOffset(c)
    <3>1. /\ tpc[c] = "publish" /\ Goto(c, "measure") /\ found' = writeOff
          /\ taken' = unpublished
          /\ UNCHANGED <<writeOff, wr, unpublished, outdated>>
      BY <2>6 DEF ReadOffset, bufVars
    <3>2. c = 0
      BY <3>1, <1>1
    <3>3. Only' /\ tpc'[0] = "measure" /\ (Resetting # {} => Resetting' # {})
      BY <3>1, <3>2, <1>3
    <3> QED BY <3>1, <3>3, <1>1 DEF PushFits
  <2>7. CASE Measure(c)
    <3> DEFINE new == Distance(wr, found)
    <3>1. /\ tpc[c] = "measure" /\ Goto(c, IF new > 0 THEN "push" ELSE "test") /\ found' = new
          /\ IF new > 0 THEN UNCHANGED <<unpublished, taken>>
                        ELSE unpublished' = (unpublished - taken) % BufSize
          /\ UNCHANGED <<writeOff, wr, outdated>>
      BY <2>7 DEF Measure, bufVars, Published
    <3>2. c = 0
      BY <3>1, <1>1 DEF Pushing
    <3>3. /\ Only' /\ tpc'[0] = IF new > 0 THEN "push" ELSE "test"
          /\ Resetting # {} => Resetting' # {}
      BY <3>1, <3>2, <1>3
    <3>4. ASSUME Sum, Local PROVE Sum' /\ Local'
      <4>1. new = taken
        BY <3>1, <3>2, <3>4, <1>0, DistanceBack
      <4>2. CASE new > 0
        BY <3>1, <3>3, <3>4, <4>1, <4>2
      <4>3. CASE ~(new > 0)
        <5>1. taken = 0
          BY <4>1, <4>3, <1>0 DEF Offset
        <5>2. unpublished' = unpublished
          BY <3>1, <4>3, <5>1, <1>0, NothingAdded
        <5> QED BY <3>1, <3>3, <3>4, <4>3, <5>2
      <4> QED BY <4>2, <4>3
    <3> QED BY <3>1, <3>3, <3>4, <1>1 DEF PushFits
  <2>8. CASE Push(c)
    <3> DEFINE count == IF Avail < found THEN Avail - 1 ELSE found
               new == ((wr + count) % Word) % BufSize
    <3>1. /\ tpc[c] = "push" /\ Goto(c, "store") /\ found' = new
          /\ taken' = IF Avail < found THEN Distance(wr, new) ELSE taken
          /\ UNCHANGED <<writeOff, wr, unpublished, outdated>>
      BY <2>8 DEF Push, bufVars
    <3>2. c = 0
      BY <3>1, <1>1 DEF Pushing
    <3>3. Only' /\ tpc'[0] = "store" /\ (Resetting # {} => Resetting' # {})
      BY <3>1, <3>2, <1>3
    <3>4. ASSUME Sum, Local PROVE Sum' /\ Local'
      <4>1. found = taken
        BY <3>1, <3>2, <3>4
      <4>2. found' = (wr + taken') % BufSize
        <5>1. CASE Avail < found
          <6>1. found' \in Offset
            BY LifeStep DEF TypeOK, Offset
          <6> QED BY <5>1, <6>1, <3>1, <1>0, DistanceBack
        <5>2. CASE ~(Avail < found)
          <6>1. found' = ((wr + taken) % Word) % BufSize /\ taken' = taken
            BY <5>2, <3>1, <4>1
          <6> QED BY <6>1, <1>0, NoOverflow
        <5> QED BY <5>1, <5>2
      <4> QED BY <3>1, <3>3, <3>4, <4>2
    <3> QED BY <3>1, <3>3, <3>4, <1>1 DEF PushFits
  <2>9. CASE Store(c)
    <3>1. /\ tpc[c] = "store" /\ Goto(c, "test") /\ wr' = found
          /\ unpublished' = (unpublished - taken) % BufSize
          /\ UNCHANGED <<writeOff, outdated>>
      BY <2>9 DEF Store, Published
    <3>2. c = 0
      BY <3>1, <1>1 DEF Pushing
    <3>3. Only' /\ tpc'[0] = "test" /\ (Resetting # {} => Resetting' # {})
      BY <3>1, <3>2, <1>3 DEF Pushing
    <3>4. ASSUME Sum, Local PROVE Sum'
      <4>1. found = (wr + taken) % BufSize
        BY <3>1, <3>2, <3>4
      <4>2. taken \in Int /\ taken >= -1 /\ taken < BufSize
        BY <1>0, PollAssumption DEF Offset
      <4>3. (((wr + taken) % BufSize) + ((unpublished - taken) % BufSize)) % BufSize
              = (wr + unpublished) % BufSize
        BY <4>2, <1>0, ShiftSum
      <4> QED BY <3>1, <3>4, <4>1, <4>3
    <3> QED BY <3>1, <3>3, <3>4, <1>1 DEF PushFits
  <2> QED BY <1>8, <2>1, <2>2, <2>3, <2>4, <2>5, <2>6, <2>7, <2>8, <2>9 DEF Thread
<1> QED BY <1>5, <1>6, <1>7, <1>8 DEF Next, Admin

\* What hpcap_poll publishes is what the threads had reserved when thread 0 read
\* the running offset, for any number of threads and any BufSize, whatever they
\* reserve until it pushes and across launches, stops and the resets of every
\* thread, unless the running offset was reset over a write offset left behind or
\* in the middle of the push.
THEOREM PublishesReserved == Spec => []PublishesReservedUnlessOutdated
<1>1. Init => PushFits
  <2> SUFFICES ASSUME Init PROVE PushFits
    OBVIOUS
  <2>1. 0 \in Offset /\ 0 \in Consumer
    BY PollAssumption DEF Offset, Consumer
  <2>2. (wr + unpublished) % BufSize = writeOff
    BY <2>1, NothingAdded DEF Init
  <2> QED BY <2>1, <2>2 DEF Init, PushFits, Pushing
<1>2. PushFits => PublishesReservedUnlessOutdated
  BY DEF PushFits, PublishesReservedUnlessOutdated
<1> QED BY LifeInit, LifeStep, <1>1, PushStep, <1>2, PTL DEF Spec
===============================================================================
