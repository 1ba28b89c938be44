------------------------- MODULE CaptureBuffer_proofs -------------------------
(***************************************************************************)
(* Theorems about the capture buffer: its types for any number of poll     *)
(* threads, and with one poll thread, for any size of the buffer, any      *)
(* sizes of records and any number of listeners, that what is published    *)
(* was copied, that nothing unread is reserved, and that the buffer        *)
(* implements the broadcast of whole records (FrameBroadcast).             *)
(***************************************************************************)
EXTENDS CaptureBuffer, WellFoundedInduction, SequenceTheorems, TLAPS

Labels == {"poll", "rx", "copy", "pop", "push"}

\* A thread has a size to copy exactly while it copies.
SizesFit ==
    \A c \in Consumer : /\ pc[c] = "copy" => size[c] \in Records
                        /\ pc[c] # "copy" => size[c] = 0

-----------------------------------------------------------------------------
\* The sizes.
LEMMA Sizes ==
  /\ BufSize \in Nat /\ BufSize > 1 /\ OffsetMod \in Nat /\ OffsetMod > 0
  /\ RawHlen \in Nat /\ RawHlen > 0 /\ Consumers \in Nat /\ Consumers > 0
  /\ Offset = 0 .. BufSize - 1 /\ Offset \subseteq Int /\ 0 \in Offset /\ 0 \in Consumer
  /\ \A n \in Records : n \in Nat /\ n > RawHlen /\ n < BufSize
BY BufferAssumption DEF Offset, Consumer

\* The remainder of what is at most one buffer outside the buffer.
LEMMA ModOnce ==
  ASSUME NEW x \in Int, -BufSize <= x, x < 2 * BufSize
  PROVE  /\ x % BufSize \in Offset
         /\ x % BufSize = IF x < 0 THEN x + BufSize
                          ELSE IF x < BufSize THEN x ELSE x - BufSize
<1>1. BufSize \in Nat /\ BufSize > 1
  BY Sizes
<1>2. /\ x = BufSize * (x \div BufSize) + (x % BufSize)
      /\ x % BufSize \in 0 .. BufSize - 1 /\ x \div BufSize \in Int
  BY <1>1
<1> DEFINE q == x \div BufSize
<1>3. q \in {-1, 0, 1}
  <2>1. CASE q <= -2
    <3>1. BufSize * q <= BufSize * (-2)
      BY <2>1, <1>1, <1>2
    <3> QED BY <3>1, <1>1, <1>2
  <2>2. CASE q >= 2
    <3>1. BufSize * q >= BufSize * 2
      BY <2>2, <1>1, <1>2
    <3> QED BY <3>1, <1>1, <1>2
  <2> QED BY <2>1, <2>2, <1>2
<1>4. BufSize * (-1) = -BufSize /\ BufSize * 0 = 0 /\ BufSize * 1 = BufSize
  BY <1>1
<1> QED BY <1>1, <1>2, <1>3, <1>4 DEF Offset

\* A remainder is an offset, and so is a distance.
LEMMA InBuffer ==
  /\ \A x \in Int : x % BufSize \in Offset
  /\ \A r, w \in Offset : Distance(r, w) \in Offset
<1>1. BufSize \in Nat /\ BufSize > 1
  BY Sizes
<1>2. \A x \in Int : x % BufSize \in Offset
  BY <1>1 DEF Offset
<1>3. \A r, w \in Offset : Distance(r, w) \in Offset
  BY <1>1 DEF Offset, Distance
<1> QED BY <1>2, <1>3

\* The remainder is unique.
LEMMA ModUnique ==
  ASSUME NEW q \in Int, NEW y \in Offset PROVE (BufSize * q + y) % BufSize = y
<1>1. BufSize \in Nat /\ BufSize > 1 /\ y \in Int /\ 0 <= y /\ y < BufSize /\ BufSize * q \in Int
  BY Sizes DEF Offset
<1> DEFINE x == BufSize * q + y
<1>2. /\ x = BufSize * (x \div BufSize) + (x % BufSize) /\ x \in Int
      /\ x % BufSize \in 0 .. BufSize - 1 /\ x \div BufSize \in Int
  BY <1>1
<1> DEFINE d == (x \div BufSize) - q
           z == x % BufSize
<1>3. d \in Int /\ BufSize * (x \div BufSize) = BufSize * q + BufSize * d /\ BufSize * d \in Int
  BY <1>1, <1>2
<1>4. BufSize * d = y - z /\ z \in Int /\ 0 <= z /\ z < BufSize
  BY <1>1, <1>2, <1>3
<1> HIDE DEF d, z
<1>5. d = 0
  <2>1. CASE d >= 1
    <3>1. BufSize * d >= BufSize * 1 /\ BufSize * 1 = BufSize
      BY <2>1, <1>1, <1>3
    <3> QED BY <3>1, <1>1, <1>4
  <2>2. CASE d <= -1
    <3>1. BufSize * d <= BufSize * (-1) /\ BufSize * (-1) = -BufSize
      BY <2>2, <1>1, <1>3
    <3> QED BY <3>1, <1>1, <1>4
  <2> QED BY <2>1, <2>2, <1>3
<1>6. BufSize * d = 0
  BY <1>1, <1>5
<1>7. z = y
  BY <1>1, <1>4, <1>6
<1> QED BY <1>7 DEF z

\* The running offset wraps at a multiple of the buffer, so that its place in
\* the buffer moves on as if it did not wrap (the comment at hpcap_rx.c:584).
LEMMA RunningOffset ==
  ASSUME NEW w \in Nat, NEW n \in Nat, n < BufSize
  PROVE  /\ ((w + n) % OffsetMod) % BufSize = ((w % BufSize) + n) % BufSize
         /\ w % BufSize \in Offset
<1>1. BufSize \in Nat /\ BufSize > 1 /\ OffsetMod \in Nat /\ OffsetMod > 0 /\ OffsetMod % BufSize = 0
  BY Sizes, BufferAssumption
<1> DEFINE m == OffsetMod \div BufSize
<1>2. OffsetMod = BufSize * m /\ m \in Int
  <2>1. OffsetMod = BufSize * (OffsetMod \div BufSize) + (OffsetMod % BufSize)
        /\ OffsetMod \div BufSize \in Int
    BY <1>1
  <2> QED BY <2>1, <1>1
<1> HIDE DEF m
<1> DEFINE x == w + n
           p == x \div OffsetMod
           y == x % OffsetMod
<1>3. x \in Int /\ p \in Int /\ y \in Int /\ x = OffsetMod * p + y
  BY <1>1
<1> DEFINE a == y \div BufSize
           b == y % BufSize
<1>4. y = BufSize * a + b /\ a \in Int /\ b \in Offset
  BY <1>1, <1>3 DEF Offset
<1> DEFINE e == w \div BufSize
           f == w % BufSize
<1>5. w = BufSize * e + f /\ e \in Int /\ f \in Offset
  BY <1>1 DEF Offset
<1> DEFINE g == (f + n) \div BufSize
           h == (f + n) % BufSize
<1>6. f + n = BufSize * g + h /\ g \in Int /\ h \in Offset
  <2>1. f + n \in Int
    BY <1>5 DEF Offset
  <2> QED BY <1>1, <2>1 DEF Offset
<1> HIDE DEF p, y, a, b, e, f, g, h
<1>7. x = BufSize * (e + g) + h
  <2>1. BufSize * (e + g) = BufSize * e + BufSize * g
    BY <1>1, <1>5, <1>6
  <2>2. BufSize * e \in Int /\ BufSize * g \in Int /\ f \in Int /\ h \in Int
    BY <1>1, <1>5, <1>6 DEF Offset
  <2> QED BY <1>5, <1>6, <2>1, <2>2
<1>8. x = BufSize * (m * p + a) + b
  <2>1. OffsetMod * p = BufSize * (m * p) /\ m * p \in Int
    BY <1>1, <1>2, <1>3
  <2>2. BufSize * (m * p + a) = BufSize * (m * p) + BufSize * a
    BY <1>1, <1>4, <2>1
  <2>3. BufSize * (m * p) \in Int /\ BufSize * a \in Int /\ b \in Int
    BY <1>1, <1>4, <2>1 DEF Offset
  <2> QED BY <1>3, <1>4, <2>1, <2>2, <2>3
<1>9. x % BufSize = h
  <2>1. e + g \in Int
    BY <1>5, <1>6
  <2>2. (BufSize * (e + g) + h) % BufSize = h
    BY <2>1, <1>6, ModUnique
  <2> QED BY <1>7, <2>2
<1>10. x % BufSize = b
  <2>1. m * p + a \in Int
    BY <1>2, <1>3, <1>4
  <2>2. (BufSize * (m * p + a) + b) % BufSize = b
    BY <2>1, <1>4, ModUnique
  <2> QED BY <1>8, <2>2
<1> QED BY <1>5, <1>9, <1>10 DEF b, f, h, y

\* There is a slowest listener.
LEMMA Slowest ==
  ASSUME rd \in [Listener -> Offset], globalRd \in Offset
  PROVE  /\ SlowestDistance \in Offset
         /\ \E l \in Listener : SlowestDistance = Distance(globalRd, rd[l])
         /\ \A l \in Listener : SlowestDistance <= Distance(globalRd, rd[l])
<1> DEFINE T == {Distance(globalRd, rd[l]) : l \in Listener}
           R == OpToRel(<, Nat)
<1>1. \A l \in Listener : Distance(globalRd, rd[l]) \in Offset
  BY InBuffer
<1>2. T \subseteq Offset /\ Offset \subseteq Nat /\ T # {}
  BY <1>1, Sizes, BufferAssumption
<1>3. IsWellFoundedOn(R, Nat)
  BY NatLessThanWellFounded
<1> HIDE DEF R
<1>4. PICK x \in T : \A y \in T : ~(<<y, x>> \in R)
  <2>1. T \subseteq Nat
    BY <1>2
  <2> HIDE DEF T
  <2> QED BY <1>2, <1>3, <2>1, WFMin
<1>5. \A y \in T : x <= y
  <2> SUFFICES ASSUME NEW y \in T PROVE x <= y
    OBVIOUS
  <2>1. x \in Nat /\ y \in Nat
    BY <1>2
  <2>2. ~(y < x)
    BY <1>4, <2>1 DEF R, OpToRel
  <2> QED BY <2>1, <2>2
<1>6. SlowestDistance \in T /\ \A y \in T : SlowestDistance <= y
  BY <1>5 DEF SlowestDistance
<1> QED BY <1>2, <1>6

\* A thread's share of the room is inside the buffer; one thread has it all.
LEMMA ShareFits ==
  ASSUME NEW a \in Offset
  PROVE  a \div Consumers \in Offset /\ (Consumers = 1 => a \div Consumers = a)
<1>1. /\ BufSize \in Nat /\ BufSize > 1 /\ Consumers \in Nat /\ Consumers >= 1
      /\ a \in Nat /\ a < BufSize
  BY Sizes
<1> DEFINE q == a \div Consumers
           r == a % Consumers
<1>2. a = Consumers * q + r /\ q \in Int /\ r \in Nat /\ r < Consumers
  BY <1>1
<1> HIDE DEF q, r
<1>3. q >= 0
  <2>1. CASE q < 0
    <3>1. Consumers * q <= Consumers * (-1)
      BY <2>1, <1>1, <1>2
    <3>2. Consumers * (-1) = -Consumers
      BY <1>1
    <3>3. Consumers * q \in Int
      BY <1>1, <1>2
    <3> QED BY <3>1, <3>2, <3>3, <1>1, <1>2
  <2> QED BY <2>1, <1>2
<1>4. q <= Consumers * q /\ Consumers * q \in Int
  BY <1>1, <1>2, <1>3
<1>5. q \in Offset
  BY <1>1, <1>2, <1>3, <1>4 DEF Offset
<1>6. Consumers = 1 => q = a
  <2> SUFFICES ASSUME Consumers = 1 PROVE q = a
    OBVIOUS
  <2>1. 1 * q = q /\ r = 0
    BY <1>2
  <2> QED BY <1>1, <1>2, <2>1
<1> QED BY <1>5, <1>6 DEF q

\* Going on by a distance.
LEMMA GoOn ==
  ASSUME NEW a \in Offset, NEW b \in Offset PROVE (a + Distance(a, b)) % BufSize = b
<1>1. BufSize \in Nat /\ BufSize > 1 /\ a \in Int /\ b \in Int
  BY Sizes
<1>2. CASE a <= b
  <2>1. a + Distance(a, b) = b
    BY <1>1, <1>2 DEF Distance
  <2>2. b % BufSize = b
    BY <1>1, ModOnce DEF Offset
  <2> QED BY <2>1, <2>2
<1>3. CASE ~(a <= b)
  <2>1. a + Distance(a, b) = BufSize + b
    BY <1>1, <1>3 DEF Distance
  <2>2. (BufSize + b) % BufSize = b
    BY <1>1, ModOnce DEF Offset
  <2> QED BY <2>1, <2>2
<1> QED BY <1>2, <1>3

\* Distances seen from g: equal ones are of the same offset, and that of two
\* offsets is their difference.
LEMMA SeenFrom ==
  ASSUME NEW g \in Offset, NEW a \in Offset, NEW b \in Offset
  PROVE  /\ Distance(g, a) \in Offset
         /\ Distance(g, a) = Distance(g, b) => a = b
         /\ Distance(g, a) <= Distance(g, b)
              => Distance(a, b) = Distance(g, b) - Distance(g, a)
         /\ Distance(g, b) < Distance(g, a)
              => Distance(a, b) = (Distance(g, b) - Distance(g, a)) + BufSize
BY Sizes DEF Offset, Distance

\* Going on n bytes without going past g adds n to the distance.
LEMMA Further ==
  ASSUME NEW g \in Offset, NEW a \in Offset, NEW n \in Nat,
         Distance(g, a) + n < BufSize
  PROVE  /\ (a + n) % BufSize \in Offset
         /\ Distance(g, (a + n) % BufSize) = Distance(g, a) + n
<1>1. BufSize \in Nat /\ BufSize > 1 /\ a \in 0 .. BufSize - 1 /\ g \in 0 .. BufSize - 1
  BY Sizes
<1>2. Distance(g, a) = IF g <= a THEN a - g ELSE (BufSize - g) + a
  BY DEF Distance
<1>3. n < BufSize
  BY <1>1, <1>2
<1> DEFINE m == (a + n) % BufSize
<1>4. m \in Offset /\ m = IF a + n < BufSize THEN a + n ELSE (a + n) - BufSize
  BY <1>1, <1>3, ModOnce
<1> HIDE DEF m
<1>5. Distance(g, m) = IF g <= m THEN m - g ELSE (BufSize - g) + m
  BY DEF Distance
<1>6. Distance(g, m) = Distance(g, a) + n
  BY <1>1, <1>2, <1>4, <1>5
<1> QED BY <1>4, <1>6 DEF m

\* A region that does not go past g, by the distances of its bytes.
LEMMA RegionFrom ==
  ASSUME NEW g \in Offset, NEW a \in Offset, NEW n \in Nat,
         Distance(g, a) + n <= BufSize, NEW o
  PROVE  o \in Region(a, n) <=> /\ o \in Offset
                                /\ Distance(g, a) <= Distance(g, o)
                                /\ Distance(g, o) < Distance(g, a) + n
<1>1. BufSize \in Nat /\ BufSize > 1 /\ Distance(g, a) \in Int /\ Distance(g, a) >= 0
  BY Sizes, SeenFrom DEF Offset
<1>2. ASSUME NEW k \in 0 .. n - 1
      PROVE  /\ (a + k) % BufSize \in Offset
             /\ Distance(g, (a + k) % BufSize) = Distance(g, a) + k
  BY <1>1, Further
<1>3. ASSUME o \in Region(a, n)
      PROVE  o \in Offset /\ Distance(g, a) <= Distance(g, o) /\ Distance(g, o) < Distance(g, a) + n
  <2>1. PICK k \in 0 .. n - 1 : o = (a + k) % BufSize
    BY <1>3 DEF Region
  <2>2. o \in Offset /\ Distance(g, o) = Distance(g, a) + k
    BY <1>2, <2>1
  <2> QED BY <1>1, <2>2
<1>4. ASSUME o \in Offset, Distance(g, a) <= Distance(g, o), Distance(g, o) < Distance(g, a) + n
      PROVE  o \in Region(a, n)
  <2>1. Distance(g, o) \in Int
    BY <1>4, Sizes, SeenFrom
  <2> DEFINE k == Distance(g, o) - Distance(g, a)
  <2>2. k \in 0 .. n - 1
    BY <1>1, <1>4, <2>1
  <2>3. Distance(g, (a + k) % BufSize) = Distance(g, o) /\ (a + k) % BufSize \in Offset
    BY <1>1, <1>2, <2>1, <2>2
  <2>4. (a + k) % BufSize = o
    BY <1>4, <2>3, SeenFrom
  <2> QED BY <2>2, <2>4 DEF Region
<1> QED BY <1>3, <1>4

-----------------------------------------------------------------------------
\* The buffer empty and nobody in it.
LEMMA TypesInit == Init => TypeOK /\ SizesFit
<1> SUFFICES ASSUME Init PROVE TypeOK /\ SizesFit
  OBVIOUS
<1>1. /\ rd \in [Listener -> Offset] /\ wr \in [Listener -> Offset]
      /\ pc \in [Consumer -> Labels] /\ limit \in [Consumer -> Offset]
      /\ cnt \in [Consumer -> Nat] /\ start \in [Consumer -> Offset]
      /\ size \in [Consumer -> Nat] /\ cell \in [Offset -> Cell]
  BY Sizes DEF Init, Labels, Cell
<1>2. /\ writeOff \in 0 .. (OffsetMod - 1) /\ globalRd \in Offset /\ globalWr \in Offset
      /\ bit \in {0, 1}
  BY Sizes DEF Init
<1>3. SizesFit
  BY DEF Init, SizesFit
<1> QED BY <1>1, <1>2, <1>3 DEF TypeOK, Labels

\* Every step of a thread or a client keeps the types.
LEMMA TypesStep == TypeOK /\ SizesFit /\ [Next]_vars => TypeOK' /\ SizesFit'
<1> SUFFICES ASSUME TypeOK, SizesFit, [Next]_vars PROVE TypeOK' /\ SizesFit'
  OBVIOUS
<1> USE DEF TypeOK, sharedVars, lstnrVars, threadVars, dataVars
<1>0. TypeOK /\ SizesFit
  OBVIOUS
<1>a. \A r, w \in Offset, n \in Int :
         PushedOffset(r, w, n) \in Offset /\ PoppedOffset(r, w, n) \in Offset
               /\ AvailBytes(r, w) \in Offset
  <2> SUFFICES ASSUME NEW r \in Offset, NEW w \in Offset, NEW n \in Int
               PROVE  PushedOffset(r, w, n) \in Offset /\ PoppedOffset(r, w, n) \in Offset
                      /\ AvailBytes(r, w) \in Offset
    OBVIOUS
  <2>1. Distance(r, w) \in Offset
    BY InBuffer
  <2>2. AvailBytes(r, w) \in Offset /\ AvailBytes(r, w) \in Int /\ UsedBytes(r, w) \in Int
    BY <2>1, Sizes DEF AvailBytes, UsedBytes
  <2>3. /\ w + (IF AvailBytes(r, w) < n THEN AvailBytes(r, w) - 1 ELSE n) \in Int
        /\ r + (IF UsedBytes(r, w) < n THEN UsedBytes(r, w) ELSE n) \in Int
    BY <2>2, Sizes
  <2>4. PushedOffset(r, w, n) \in Offset /\ PoppedOffset(r, w, n) \in Offset
    BY <2>3, InBuffer DEF PushedOffset, PoppedOffset
  <2> QED BY <2>2, <2>4
<1>1. ASSUME NEW c \in Consumer, Thread(c) PROVE TypeOK' /\ SizesFit'
  <2>1. CASE StartRx(c)
    <3>1. AvailBytes(globalRd, globalWr) \div Consumers \in Offset
      BY <1>a, ShareFits
    <3> QED BY <1>0, <2>1, <3>1 DEF StartRx, SizesFit
  <2>2. ASSUME NEW n \in Records, Reserve(c, n) PROVE TypeOK' /\ SizesFit'
    <3>0. n \in Nat /\ writeOff \in Int /\ cnt[c] \in Nat
      BY <1>0, Sizes
    <3>1. AsBufferOffset(writeOff) \in Offset
      BY <3>0, InBuffer DEF AsBufferOffset
    <3>2. (writeOff + n) % OffsetMod \in 0 .. (OffsetMod - 1)
      BY <3>0, Sizes
    <3>3. cell' \in [Offset -> Cell]
      BY <1>0, <2>2 DEF Reserve, Cell
    <3>4. cnt[c] + n \in Nat
      BY <3>0
    <3>5. SizesFit'
      BY <1>0, <2>2 DEF Reserve, SizesFit
    <3> QED BY <1>0, <2>2, <3>0, <3>1, <3>2, <3>3, <3>4, <3>5 DEF Reserve
  <2>3. CASE Copy(c)
    <3>1. cnt[c] + (size[c] - RawHlen) \in Nat
      BY <1>0, <2>3, Sizes DEF Copy, SizesFit
    <3>2. bit' \in {0, 1}
      BY <1>0, <2>3 DEF Copy
    <3>3. cell' \in [Offset -> Cell]
      <4>1. \A o \in Offset : <<bit', o = start[c]>> \in {0, 1} \X BOOLEAN
        BY <3>2
      <4> QED BY <1>0, <2>3, <4>1 DEF Copy, Cell
    <3>4. SizesFit'
      BY <1>0, <2>3 DEF Copy, SizesFit
    <3> QED BY <1>0, <2>3, <3>1, <3>2, <3>3, <3>4 DEF Copy
  <2>4. CASE EndRx(c)
    BY <1>0, <2>4 DEF EndRx, AfterRx, SizesFit
  <2>5. CASE PopGlobal(c)
    <3>1. globalRd + SlowestDistance \in Int
      BY <1>0, Slowest, Sizes
    <3>2. (globalRd + SlowestDistance) % BufSize \in Offset
      BY <3>1, InBuffer
    <3> QED BY <1>0, <2>5, <3>2 DEF PopGlobal, SizesFit
  <2>6. CASE PushAll(c)
    <3> DEFINE count == Distance(globalWr, AsBufferOffset(writeOff))
    <3>1. writeOff \in Int
      BY <1>0, Sizes
    <3>2. AsBufferOffset(writeOff) \in Offset
      BY <3>1, InBuffer DEF AsBufferOffset
    <3>3. count \in Offset
      BY <1>0, <3>2, InBuffer
    <3>4. count \in Int
      BY <3>3, Sizes
    <3>5. PushedOffset(globalRd, globalWr, count) \in Offset
          /\ \A l \in Listener : PushedOffset(rd[l], wr[l], count) \in Offset
      BY <1>0, <1>a, <3>4
    <3>6. globalWr' \in Offset /\ wr' \in [Listener -> Offset]
      BY <1>0, <2>6, <3>5 DEF PushAll
    <3> QED BY <1>0, <2>6, <3>6 DEF PushAll, SizesFit
  <2> QED BY <1>1, <2>1, <2>2, <2>3, <2>4, <2>5, <2>6 DEF Thread
<1>2. ASSUME NEW l \in Listener, NEW n \in 1 .. BufSize, Ack(l, n)
      PROVE  TypeOK' /\ SizesFit'
  <2>0. rd[l] \in Offset /\ wr[l] \in Offset /\ n \in Int
    BY <1>0, Sizes
  <2>1. PoppedOffset(rd[l], wr[l], n) \in Offset
    BY <2>0, <1>a
  <2> QED BY <1>0, <1>2, <2>1 DEF Ack, SizesFit
<1>3. CASE UNCHANGED vars
  BY <1>0, <1>3 DEF vars, SizesFit
<1> QED BY <1>1, <1>2, <1>3 DEF Next

\* For any number of poll threads every offset stays inside the buffer and no
\* count goes negative, also when hpcap_push_listener is asked for more than
\* fits and cuts the count down.
THEOREM BufferTypeCorrect == Spec => []TypeOK
<1>1. TypeOK /\ SizesFit => TypeOK
  OBVIOUS
<1> QED BY TypesInit, TypesStep, <1>1, PTL DEF Spec

-----------------------------------------------------------------------------
\* One poll thread.  Seen from the global read offset, the buffer holds first
\* what some client has not read, up to globalWr, then what was reserved and is
\* not published, up to the running offset, and never as much as the buffer.
Here == AsBufferOffset(writeOff)
D(o) == Distance(globalRd, o)

\* Every listener ends at the global write offset and is not past it.
ListenersFollow == \A l \in Listener : wr[l] = globalWr /\ D(rd[l]) <= D(globalWr)

\* What is being copied ends the reserved part.
LastIsCopied == /\ D(globalWr) + size[0] <= D(Here)
                /\ size[0] > 0 => D(start[0]) + size[0] = D(Here)

\* What comes before it was copied.
RestIsCopied == \A o \in Offset : D(o) + size[0] < D(Here) => cell[o] # Hole

\* The budget of a call covers what it reserved, and fits in the buffer.
BudgetHolds ==
    /\ pc[0] \in {"rx", "copy"} => /\ D(Here) - D(globalWr) <= cnt[0]
                                  /\ limit[0] + D(globalWr) <= BufSize - 1
    /\ pc[0] = "poll" => Here = globalWr

OneInv == /\ TypeOK /\ SizesFit
          /\ ListenersFollow /\ LastIsCopied /\ RestIsCopied /\ BudgetHolds

\* Thread 0 is the only one.
LEMMA OneThread == ASSUME Consumers = 1 PROVE Consumer = {0}
BY DEF Consumer

\* The distances are distances.
LEMMA Seen ==
  ASSUME TypeOK
  PROVE  /\ Here \in Offset /\ D(Here) \in Offset /\ D(globalWr) \in Offset
         /\ \A l \in Listener : D(rd[l]) \in Offset
         /\ \A c \in Consumer : D(start[c]) \in Offset
         /\ \A o \in Offset : D(o) \in Offset
<1>1. writeOff \in Int
  BY Sizes DEF TypeOK
<1>2. Here \in Offset
  BY <1>1, InBuffer DEF Here, AsBufferOffset
<1>3. \A o \in Offset : D(o) \in Offset
  BY InBuffer DEF D, TypeOK
<1> QED BY <1>2, <1>3 DEF TypeOK

\* It holds in the empty buffer.
LEMMA OneInit == ASSUME Consumers = 1 PROVE Init => OneInv
<1> SUFFICES ASSUME Init PROVE OneInv
  OBVIOUS
<1>1. TypeOK /\ SizesFit
  BY TypesInit
<1>2. Here = 0 /\ globalRd = 0 /\ globalWr = 0 /\ pc[0] = "poll" /\ size[0] = 0
      /\ \A l \in Listener : rd[l] = 0 /\ wr[l] = 0
  <2>1. 0 % BufSize = 0
    BY Sizes, ModOnce
  <2> QED BY <2>1, OneThread DEF Init, Here, AsBufferOffset
<1>3. D(0) = 0
  BY <1>2 DEF D, Distance
<1>4. \A o \in Offset : D(o) >= 0 /\ D(o) \in Int
  BY <1>1, Seen, Sizes
<1> QED BY <1>1, <1>2, <1>3, <1>4
        DEF OneInv, ListenersFollow, LastIsCopied, RestIsCopied, BudgetHolds

\* A reservation adds its bytes behind the running offset, inside the room.
LEMMA ReserveAdds ==
  ASSUME Consumers = 1, OneInv, NEW n \in Records, Reserve(0, n)
  PROVE  /\ start'[0] = Here /\ size'[0] = n /\ n \in Nat /\ n > 0
         /\ D(Here)' = D(Here) + n /\ D(Here) + n < BufSize
         /\ size[0] = 0 /\ pc'[0] = "copy" /\ cnt'[0] = cnt[0] + n
<1>0. TypeOK /\ SizesFit /\ 0 \in Consumer
  BY OneThread DEF OneInv
<1>1. n \in Nat /\ n > RawHlen /\ n < BufSize /\ RawHlen \in Nat /\ writeOff \in Nat
  BY <1>0, Sizes DEF TypeOK
<1>2. /\ size[0] = 0 /\ pc[0] = "rx" /\ limit[0] - cnt[0] >= n + RawHlen
      /\ limit[0] \in Int /\ cnt[0] \in Nat
  BY <1>0, Sizes DEF Reserve, SizesFit, TypeOK
<1>3. D(Here) + n < BufSize
  <2>1. D(Here) - D(globalWr) <= cnt[0] /\ limit[0] + D(globalWr) <= BufSize - 1
    BY <1>2 DEF OneInv, BudgetHolds
  <2>2. D(Here) \in Int /\ D(globalWr) \in Int
    BY <1>0, Seen, Sizes
  <2> QED BY <1>1, <1>2, <2>1, <2>2, Sizes
<1>4. Here' = (Here + n) % BufSize
  BY <1>1, RunningOffset DEF Reserve, Here, AsBufferOffset
<1>5. Distance(globalRd, (Here + n) % BufSize) = Distance(globalRd, Here) + n
  <2>1. Here \in Offset /\ globalRd \in Offset
    BY <1>0, Seen DEF TypeOK
  <2> QED BY <1>1, <1>3, <2>1, Further DEF D
<1>6. D(Here)' = D(Here) + n
  BY <1>4, <1>5 DEF Reserve, D
<1>7. start'[0] = Here /\ size'[0] = n /\ pc'[0] = "copy" /\ cnt'[0] = cnt[0] + n
  BY <1>0 DEF Reserve, Here, TypeOK
<1> QED BY <1>1, <1>2, <1>3, <1>6, <1>7

\* When nothing is being copied the publication ends at the running offset,
\* for the global listener and for all the others.
LEMMA PushEnds ==
  ASSUME Consumers = 1, OneInv, PushAll(0)
  PROVE  globalWr' = Here /\ \A l \in Listener : wr'[l] = Here
<1>0. TypeOK /\ 0 \in Consumer /\ BufSize \in Nat
  BY OneThread, Sizes DEF OneInv
<1>1. /\ size[0] = 0 /\ globalRd \in Offset /\ globalWr \in Offset /\ Here \in Offset
      /\ D(globalWr) <= D(Here) /\ D(Here) \in Offset /\ D(globalWr) \in Offset
  <2>1. size[0] = 0
    BY <1>0 DEF OneInv, SizesFit, PushAll
  <2>2. D(Here) \in Offset /\ D(globalWr) \in Offset
    BY <1>0, Seen
  <2>3. D(globalWr) + size[0] <= D(Here)
    BY DEF OneInv, LastIsCopied
  <2>4. D(globalWr) <= D(Here)
    BY <2>1, <2>2, <2>3, Sizes
  <2> QED BY <1>0, <2>1, <2>2, <2>4, Seen DEF TypeOK
<1> DEFINE count == Distance(globalWr, Here)
<1>2. count = D(Here) - D(globalWr) /\ count \in Int
  BY <1>1, SeenFrom, Sizes DEF D
<1>3. (globalWr + count) % BufSize = Here
  BY <1>1, GoOn
<1>4. ASSUME NEW r \in Offset, D(r) <= D(globalWr), D(r) \in Offset
      PROVE  PushedOffset(r, globalWr, count) = Here
  <2>1. Distance(r, globalWr) = D(globalWr) - D(r)
    BY <1>1, <1>4, SeenFrom DEF D
  <2>2. ~(AvailBytes(r, globalWr) < count)
    BY <1>0, <1>1, <1>2, <1>4, <2>1 DEF AvailBytes, UsedBytes, Offset
  <2> QED BY <1>3, <2>2 DEF PushedOffset
<1>5. ASSUME NEW l \in Listener
      PROVE  wr[l] = globalWr /\ PushedOffset(rd[l], wr[l], count) = Here
  <2>1. wr[l] = globalWr /\ D(rd[l]) <= D(globalWr)
    BY DEF OneInv, ListenersFollow
  <2>2. rd[l] \in Offset /\ D(rd[l]) \in Offset
    BY <1>0, Seen DEF TypeOK
  <2> QED BY <1>4, <2>1, <2>2
<1>6. PushedOffset(globalRd, globalWr, count) = Here
  <2>1. D(globalRd) = 0
    BY <1>1, Sizes DEF D, Distance
  <2>2. D(globalRd) <= D(globalWr) /\ D(globalRd) \in Offset
    BY <1>1, <2>1, Sizes DEF Offset
  <2> QED BY <1>1, <1>4, <2>2
<1>7. CASE count > 0
  BY <1>5, <1>6, <1>7 DEF PushAll, Here
<1>8. CASE ~(count > 0)
  <2>1. D(Here) = D(globalWr)
    BY <1>1, <1>2, <1>8, Sizes
  <2>2. Here = globalWr
    BY <1>1, <2>1, SeenFrom DEF D
  <2> QED BY <1>5, <1>8, <2>2 DEF PushAll, Here
<1> QED BY <1>7, <1>8

\* The global read offset moves to a slowest listener: what was seen behind it
\* comes as much closer, the rest of the buffer is now at the far end.
LEMMA PopMoves ==
  ASSUME OneInv, PopGlobal(0)
  PROVE  \E k \in Listener :
           /\ globalRd' = rd[k]
           /\ \A l \in Listener : D(rd[k]) <= D(rd[l])
           /\ \A o \in Offset :
                D(o)' = IF D(rd[k]) <= D(o) THEN D(o) - D(rd[k]) ELSE (D(o) - D(rd[k])) + BufSize
<1>0. TypeOK /\ globalRd \in Offset /\ rd \in [Listener -> Offset]
  BY DEF OneInv, TypeOK
<1>1. PICK k \in Listener : SlowestDistance = D(rd[k])
  BY <1>0, Slowest DEF D
<1>2. globalRd' = rd[k]
  <2>1. (globalRd + Distance(globalRd, rd[k])) % BufSize = rd[k]
    BY <1>0, GoOn
  <2> QED BY <1>1, <2>1 DEF PopGlobal, D
<1>3. \A l \in Listener : D(rd[k]) <= D(rd[l])
  BY <1>0, <1>1, Slowest DEF D
<1>4. ASSUME NEW o \in Offset
      PROVE  D(o)' = IF D(rd[k]) <= D(o) THEN D(o) - D(rd[k]) ELSE (D(o) - D(rd[k])) + BufSize
  <2>1. D(o)' = Distance(rd[k], o)
    BY <1>2 DEF D
  <2>2. D(o) \in Int /\ D(rd[k]) \in Int
    BY <1>0, Seen, Sizes
  <2>3. ~(D(rd[k]) <= D(o)) => D(o) < D(rd[k])
    BY <2>2
  <2> QED BY <1>0, <2>1, <2>3, SeenFrom DEF D
<1> QED BY <1>2, <1>3, <1>4

\* What a client has not read is seen before the global write offset.
LEMMA UnreadBehind ==
  ASSUME OneInv, NEW l \in Listener, NEW o \in Unread(l)
  PROVE  o \in Offset /\ D(o) \in Offset /\ D(o) < D(globalWr)
<1>1. /\ TypeOK /\ globalRd \in Offset /\ rd[l] \in Offset /\ globalWr \in Offset
      /\ wr[l] = globalWr /\ D(rd[l]) <= D(globalWr)
  BY DEF OneInv, TypeOK, ListenersFollow
<1>2. D(rd[l]) \in Int /\ D(globalWr) \in Int /\ D(globalWr) < BufSize /\ BufSize \in Nat
  BY <1>1, Seen, Sizes DEF Offset
<1>3. UsedBytes(rd[l], wr[l]) = D(globalWr) - D(rd[l])
  BY <1>1, SeenFrom DEF D, UsedBytes
<1> DEFINE used == D(globalWr) - D(rd[l])
<1>4. used \in Nat /\ Distance(globalRd, rd[l]) + used <= BufSize /\ o \in Region(rd[l], used)
  BY <1>1, <1>2, <1>3 DEF Unread, D
<1>5. o \in Offset /\ Distance(globalRd, o) < Distance(globalRd, rd[l]) + used
  <2> HIDE DEF used
  <2> QED BY <1>1, <1>4, RegionFrom
<1> QED BY <1>1, <1>2, <1>5, Seen DEF D

\* Every step of the thread or of a client keeps it.
LEMMA OneStep == ASSUME Consumers = 1 PROVE OneInv /\ [Next]_vars => OneInv'
<1> SUFFICES ASSUME OneInv, [Next]_vars PROVE OneInv'
  OBVIOUS
<1>0. TypeOK /\ SizesFit /\ 0 \in Consumer /\ BufSize \in Nat /\ Offset \subseteq Int
  BY OneThread, Sizes DEF OneInv
<1>1. TypeOK' /\ SizesFit'
  BY TypesStep DEF OneInv
<1>2. /\ D(Here) \in Int /\ D(Here) >= 0 /\ D(Here) < BufSize
      /\ D(globalWr) \in Int /\ D(globalWr) >= 0 /\ D(globalWr) < BufSize
      /\ D(start[0]) \in Int /\ size[0] \in Nat
      /\ \A l \in Listener : D(rd[l]) \in Int /\ D(rd[l]) >= 0 /\ D(rd[l]) < BufSize
      /\ \A o \in Offset : D(o) \in Int /\ D(o) >= 0 /\ D(o) < BufSize
  <2>1. \A x \in Offset : x \in Int /\ x >= 0 /\ x < BufSize
    BY <1>0 DEF Offset
  <2>2. /\ D(Here) \in Offset /\ D(globalWr) \in Offset /\ D(start[0]) \in Offset
        /\ \A l \in Listener : D(rd[l]) \in Offset
        /\ \A o \in Offset : D(o) \in Offset
    BY <1>0, Seen
  <2>3. size[0] \in Nat
    BY <1>0 DEF TypeOK
  <2> QED BY <2>1, <2>2, <2>3
<1>a. /\ Here \in Offset /\ start[0] \in Offset /\ rd \in [Listener -> Offset]
      /\ globalRd \in Offset /\ globalWr \in Offset
  BY <1>0, Seen DEF TypeOK
<1>3. /\ ListenersFollow /\ LastIsCopied /\ RestIsCopied /\ BudgetHolds
  BY DEF OneInv
<1>4. ASSUME Thread(0) PROVE OneInv'
  <2>1. CASE StartRx(0)
    <3>1. UNCHANGED <<globalRd, globalWr, rd, wr, size, start, cell, Here>> /\ pc[0] = "poll"
      BY <2>1 DEF StartRx, sharedVars, lstnrVars, dataVars, Here
    <3>2. pc'[0] = "rx" /\ cnt'[0] = 0 /\ limit'[0] = AvailBytes(globalRd, globalWr)
      <4>1. AvailBytes(globalRd, globalWr) \in Offset
        <5>1. (BufSize - D(globalWr)) - 1 \in Offset
          BY <1>0, <1>2 DEF Offset
        <5> QED BY <5>1 DEF AvailBytes, UsedBytes, D
      <4>2. AvailBytes(globalRd, globalWr) \div Consumers = AvailBytes(globalRd, globalWr)
        BY <4>1, ShareFits
      <4> QED BY <1>0, <2>1, <4>2 DEF StartRx, TypeOK
    <3>3. AvailBytes(globalRd, globalWr) = (BufSize - D(globalWr)) - 1
      BY DEF AvailBytes, UsedBytes, D
    <3>4. Here = globalWr
      BY <1>3, <3>1 DEF BudgetHolds
    <3>5. BudgetHolds'
      <4>1. D(globalWr)' = D(globalWr) /\ D(Here)' = D(globalWr)
        BY <3>1, <3>4 DEF D
      <4>2. D(globalWr) - D(globalWr) <= 0 /\ ((BufSize - D(globalWr)) - 1) + D(globalWr) <= BufSize - 1
        BY <1>0, <1>2
      <4> QED BY <3>2, <3>3, <4>1, <4>2 DEF BudgetHolds
    <3>6. ListenersFollow' /\ LastIsCopied' /\ RestIsCopied'
      BY <1>3, <3>1 DEF ListenersFollow, LastIsCopied, RestIsCopied, D
    <3> QED BY <1>1, <3>5, <3>6 DEF OneInv
  <2>2. ASSUME NEW n \in Records, Reserve(0, n) PROVE OneInv'
    <3>1. /\ start'[0] = Here /\ size'[0] = n /\ n \in Nat /\ n > 0
          /\ D(Here)' = D(Here) + n /\ D(Here) + n < BufSize
          /\ size[0] = 0 /\ pc'[0] = "copy" /\ cnt'[0] = cnt[0] + n
      BY <2>2, ReserveAdds
    <3>2. UNCHANGED <<globalRd, globalWr, rd, wr, limit>> /\ pc[0] = "rx"
      BY <2>2 DEF Reserve, lstnrVars
    <3>3. ListenersFollow'
      BY <1>3, <3>2 DEF ListenersFollow, D
    <3>4. D(globalWr)' = D(globalWr) /\ D(start[0])' = D(Here)
      BY <3>1, <3>2 DEF D
    <3>5. LastIsCopied'
      BY <1>0, <1>2, <1>3, <3>1, <3>4 DEF LastIsCopied
    <3>6. RestIsCopied'
      <4> SUFFICES ASSUME NEW o \in Offset, D(o)' + size'[0] < D(Here)' PROVE cell'[o] # Hole
        BY DEF RestIsCopied
      <4>1. D(o)' = D(o)
        BY <3>2 DEF D
      <4>2. D(o) + size[0] < D(Here) /\ D(o) < D(Here)
        BY <1>0, <1>2, <3>1, <4>1
      <4>3. cell[o] # Hole
        BY <1>3, <4>2 DEF RestIsCopied
      <4>4. o \notin Region(Here, n)
        <5>1. Distance(globalRd, Here) + n <= BufSize
          BY <1>0, <1>2, <3>1 DEF D
        <5>2. ~(Distance(globalRd, Here) <= Distance(globalRd, o))
          BY <1>0, <1>2, <4>2 DEF D
        <5> QED BY <1>a, <3>1, <5>1, <5>2, RegionFrom
      <4> QED BY <2>2, <4>3, <4>4 DEF Reserve, Here
    <3>7. BudgetHolds'
      <4>1. cnt[0] \in Int /\ limit[0] \in Int
        BY <1>0, Sizes DEF TypeOK
      <4>2. D(Here) - D(globalWr) <= cnt[0] /\ limit[0] + D(globalWr) <= BufSize - 1
        BY <1>3, <3>2 DEF BudgetHolds
      <4>3. (D(Here) + n) - D(globalWr) <= cnt[0] + n
        BY <1>0, <1>2, <3>1, <4>1, <4>2
      <4> QED BY <3>1, <3>2, <3>4, <4>2, <4>3 DEF BudgetHolds
    <3> QED BY <1>1, <3>3, <3>5, <3>6, <3>7 DEF OneInv
  <2>3. CASE Copy(0)
    <3>1. /\ UNCHANGED <<globalRd, globalWr, rd, wr, limit, start, Here>>
          /\ pc[0] = "copy" /\ pc'[0] = "rx" /\ size'[0] = 0
          /\ cnt'[0] = cnt[0] + (size[0] - RawHlen)
      BY <1>0, <2>3 DEF Copy, sharedVars, lstnrVars, Here, TypeOK
    <3>2. size[0] \in Nat /\ size[0] > RawHlen /\ RawHlen \in Nat
      BY <1>0, <3>1, Sizes DEF SizesFit
    <3>3. D(start[0]) + size[0] = D(Here)
      BY <1>3, <3>2 DEF LastIsCopied
    <3>4. ListenersFollow'
      BY <1>3, <3>1 DEF ListenersFollow, D
    <3>5. LastIsCopied'
      <4>1. D(globalWr)' = D(globalWr) /\ D(Here)' = D(Here)
        BY <3>1 DEF D
      <4>2. D(globalWr) + 0 <= D(Here)
        BY <1>0, <1>2, <1>3, <3>2 DEF LastIsCopied
      <4> QED BY <3>1, <4>1, <4>2 DEF LastIsCopied
    <3>6. RestIsCopied'
      <4> SUFFICES ASSUME NEW o \in Offset, D(o)' + size'[0] < D(Here)' PROVE cell'[o] # Hole
        BY DEF RestIsCopied
      <4>1. D(o) < D(Here)
        <5>1. D(o)' = D(o) /\ D(Here)' = D(Here)
          BY <3>1 DEF D
        <5> QED BY <1>0, <1>2, <3>1, <5>1
      <4>2. \/ D(o) + size[0] < D(Here)
            \/ D(start[0]) <= D(o) /\ D(o) < D(start[0]) + size[0]
        BY <1>0, <1>2, <3>3, <4>1
      <4>3. Distance(globalRd, start[0]) + size[0] <= BufSize
        BY <1>0, <1>2, <3>3, Sizes DEF D
      <4>4. cell[o] # Hole \/ o \in Region(start[0], size[0])
        <5>1. CASE D(o) + size[0] < D(Here)
          BY <1>3, <5>1 DEF RestIsCopied
        <5>2. CASE D(start[0]) <= D(o) /\ D(o) < D(start[0]) + size[0]
          BY <1>0, <1>2, <4>3, <5>2, RegionFrom DEF D, TypeOK
        <5> QED BY <4>2, <5>1, <5>2
      <4>5. <<bit', o = start[0]>> # Hole
        BY DEF Hole
      <4> QED BY <2>3, <4>4, <4>5 DEF Copy
    <3>7. BudgetHolds'
      <4>1. cnt[0] \in Int /\ D(Here) - D(globalWr) <= cnt[0] /\ limit[0] + D(globalWr) <= BufSize - 1
        BY <1>0, <1>3, <3>1 DEF BudgetHolds, TypeOK
      <4>2. D(Here) - D(globalWr) <= cnt[0] + (size[0] - RawHlen)
        BY <1>0, <1>2, <3>2, <4>1
      <4> QED BY <3>1, <4>1, <4>2 DEF BudgetHolds, D
    <3> QED BY <1>1, <3>4, <3>5, <3>6, <3>7 DEF OneInv
  <2>4. CASE EndRx(0)
    <3>1. /\ UNCHANGED <<globalRd, globalWr, rd, wr, limit, start, size, cnt, cell, Here>>
          /\ pc'[0] = "pop"
      BY <1>0, <2>4 DEF EndRx, AfterRx, sharedVars, lstnrVars, dataVars, Here, TypeOK
    <3> QED BY <1>1, <1>3, <3>1
            DEF OneInv, ListenersFollow, LastIsCopied, RestIsCopied, BudgetHolds, D
  <2>5. CASE PopGlobal(0)
    <3>1. PICK k \in Listener :
             /\ globalRd' = rd[k]
             /\ \A l \in Listener : D(rd[k]) <= D(rd[l])
             /\ \A o \in Offset : D(o)' = IF D(rd[k]) <= D(o) THEN D(o) - D(rd[k])
                                          ELSE (D(o) - D(rd[k])) + BufSize
      BY <2>5, PopMoves
    <3>2. /\ UNCHANGED <<globalWr, rd, wr, size, start, cell, Here>>
          /\ pc[0] = "pop" /\ pc'[0] = "push" /\ size[0] = 0
      BY <1>0, <2>5 DEF PopGlobal, lstnrVars, dataVars, Here, TypeOK, SizesFit
    <3>3. /\ D(rd[k]) \in Int /\ D(rd[k]) <= D(globalWr) /\ D(globalWr) <= D(Here)
          /\ D(rd[k]) <= D(Here)
      BY <1>0, <1>2, <1>3, <3>2 DEF ListenersFollow, LastIsCopied
    <3>4. \A o \in Offset : D(rd[k]) <= D(o) => Distance(rd[k], o) = D(o) - D(rd[k])
      <4>1. \A o \in Offset : D(o)' = Distance(rd[k], o)
        BY <3>1 DEF D
      <4> QED BY <3>1, <4>1
    <3>5. D(globalWr)' = D(globalWr) - D(rd[k]) /\ D(Here)' = D(Here) - D(rd[k])
      <4>1. D(globalWr)' = Distance(rd[k], globalWr) /\ D(Here)' = Distance(rd[k], Here)
        BY <3>1, <3>2 DEF D
      <4> QED BY <1>a, <3>3, <3>4, <4>1
    <3>6. ListenersFollow'
      <4> SUFFICES ASSUME NEW l \in Listener PROVE wr'[l] = globalWr' /\ D(rd[l])' <= D(globalWr)'
        BY DEF ListenersFollow
      <4>1. wr[l] = globalWr /\ D(rd[l]) <= D(globalWr) /\ D(rd[k]) <= D(rd[l])
        BY <1>3, <3>1 DEF ListenersFollow
      <4>2. D(rd[l])' = D(rd[l]) - D(rd[k])
        BY <1>0, <3>1, <3>2, <3>4, <4>1 DEF D, TypeOK
      <4> QED BY <1>0, <1>2, <3>2, <3>5, <4>1, <4>2
    <3>7. LastIsCopied'
      <4>1. D(globalWr) - D(rd[k]) + 0 <= D(Here) - D(rd[k])
        BY <1>0, <1>2, <3>3
      <4> QED BY <3>2, <3>5, <4>1 DEF LastIsCopied
    <3>8. RestIsCopied'
      <4> SUFFICES ASSUME NEW o \in Offset, D(o)' + size'[0] < D(Here)' PROVE cell'[o] # Hole
        BY DEF RestIsCopied
      <4>1. D(o)' = IF D(rd[k]) <= D(o) THEN D(o) - D(rd[k]) ELSE (D(o) - D(rd[k])) + BufSize
        BY <3>1
      <4>2. D(o) < D(Here)
        <5>1. D(o) \in Int /\ D(Here) \in Int /\ D(Here) < BufSize /\ D(o) >= 0
          BY <1>0, <1>2 DEF Offset
        <5>2. D(o)' + 0 < D(Here) - D(rd[k])
          BY <3>2, <3>5
        <5> QED BY <1>0, <3>3, <4>1, <5>1, <5>2
      <4>3. D(o) + size[0] < D(Here)
        BY <1>0, <1>2, <3>2, <4>2
      <4> QED BY <1>3, <3>2, <4>3 DEF RestIsCopied
    <3>9. BudgetHolds'
      BY <3>2 DEF BudgetHolds
    <3> QED BY <1>1, <3>6, <3>7, <3>8, <3>9 DEF OneInv
  <2>6. CASE PushAll(0)
    <3>1. globalWr' = Here /\ \A l \in Listener : wr'[l] = Here
      BY <2>6, PushEnds
    <3>2. /\ UNCHANGED <<globalRd, rd, size, start, cell, Here>>
          /\ pc[0] = "push" /\ pc'[0] = "poll" /\ size[0] = 0
      BY <1>0, <2>6 DEF PushAll, dataVars, Here, TypeOK, SizesFit
    <3>3. D(globalWr) <= D(Here)
      BY <1>0, <1>2, <1>3, <3>2 DEF LastIsCopied
    <3>4. D(Here)' = D(Here) /\ D(globalWr)' = D(Here)
      BY <3>1, <3>2 DEF D
    <3>5. ListenersFollow'
      <4> SUFFICES ASSUME NEW l \in Listener PROVE wr'[l] = globalWr' /\ D(rd[l])' <= D(globalWr)'
        BY DEF ListenersFollow
      <4>1. D(rd[l])' = D(rd[l]) /\ D(rd[l]) <= D(globalWr)
        BY <1>3, <3>2 DEF ListenersFollow, D
      <4> QED BY <1>0, <1>2, <3>1, <3>3, <3>4, <4>1
    <3>6. LastIsCopied'
      BY <1>0, <1>2, <3>2, <3>4 DEF LastIsCopied
    <3>7. RestIsCopied'
      BY <1>3, <3>2 DEF RestIsCopied, D
    <3>8. BudgetHolds'
      BY <3>1, <3>2 DEF BudgetHolds
    <3> QED BY <1>1, <3>5, <3>6, <3>7, <3>8 DEF OneInv
  <2> QED BY <1>4, <2>1, <2>2, <2>3, <2>4, <2>5, <2>6 DEF Thread
<1>5. ASSUME NEW l \in Listener, NEW n \in 1 .. BufSize, Ack(l, n) PROVE OneInv'
  <2>1. /\ UNCHANGED <<globalRd, globalWr, wr, size, start, cell, pc, cnt, limit, Here>>
        /\ rd' = [rd EXCEPT ![l] = PoppedOffset(rd[l], wr[l], n)]
    BY <1>5 DEF Ack, sharedVars, threadVars, dataVars, Here
  <2>2. LastIsCopied' /\ RestIsCopied' /\ BudgetHolds'
    BY <1>3, <2>1 DEF LastIsCopied, RestIsCopied, BudgetHolds, D
  <2>3. ListenersFollow'
    <3> DEFINE used == UsedBytes(rd[l], wr[l])
               popped == IF used < n THEN used ELSE n
    <3>1. wr[l] = globalWr /\ D(rd[l]) <= D(globalWr)
      BY <1>3 DEF ListenersFollow
    <3>2. used = D(globalWr) - D(rd[l])
      BY <1>a, <3>1, SeenFrom DEF D, UsedBytes
    <3>3. popped \in Nat /\ D(rd[l]) + popped <= D(globalWr)
      BY <1>0, <1>2, <3>1, <3>2
    <3>4. D(rd[l]) + popped < BufSize
      BY <1>0, <1>2, <3>3 DEF Offset
    <3>5. Distance(globalRd, (rd[l] + popped) % BufSize) = Distance(globalRd, rd[l]) + popped
      <4>1. rd[l] \in Offset /\ globalRd \in Offset
        BY <1>0 DEF TypeOK
      <4> HIDE DEF popped
      <4> QED BY <3>3, <3>4, <4>1, Further DEF D
    <3>6. rd'[l] = (rd[l] + popped) % BufSize
      BY <1>0, <2>1 DEF PoppedOffset, TypeOK
    <3>7. D(rd[l])' <= D(globalWr)'
      BY <2>1, <3>3, <3>5, <3>6 DEF D
    <3>8. ASSUME NEW k \in Listener, k # l PROVE D(rd[k])' <= D(globalWr)'
      BY <1>0, <1>3, <2>1, <3>8 DEF ListenersFollow, D, TypeOK
    <3> QED BY <1>3, <2>1, <3>7, <3>8 DEF ListenersFollow
  <2> QED BY <1>1, <2>2, <2>3 DEF OneInv
<1>6. CASE UNCHANGED vars
  <2>1. UNCHANGED <<globalRd, globalWr, rd, wr, size, start, cell, pc, cnt, limit, Here>>
    BY <1>6 DEF vars, sharedVars, lstnrVars, threadVars, dataVars, Here
  <2> QED BY <1>1, <1>3, <2>1
          DEF OneInv, ListenersFollow, LastIsCopied, RestIsCopied, BudgetHolds, D
<1> QED BY <1>4, <1>5, <1>6, OneThread DEF Next

\* With one poll thread every byte a client may read was copied, for any size
\* of the buffer, any records and any number of listeners (hpcap_rx.c:830).
THEOREM OnePublishesCopied == ASSUME Consumers = 1 PROVE Spec => []PublishedIsCopied
<1>1. OneInv => PublishedIsCopied
  <2> SUFFICES ASSUME OneInv, NEW l \in Listener, NEW o \in Unread(l) PROVE cell[o] # Hole
    BY DEF PublishedIsCopied
  <2>1. o \in Offset /\ D(o) < D(globalWr) /\ D(o) \in Offset
    BY UnreadBehind
  <2>2. D(o) + size[0] < D(Here)
    <3>1. size[0] \in Nat /\ D(globalWr) + size[0] <= D(Here)
      BY OneThread DEF OneInv, LastIsCopied, TypeOK
    <3>2. D(globalWr) \in Offset /\ D(Here) \in Offset
      BY Seen DEF OneInv
    <3> QED BY <2>1, <3>1, <3>2, Sizes
  <2> QED BY <2>1, <2>2 DEF OneInv, RestIsCopied
<1> QED BY OneInit, OneStep, <1>1, PTL DEF Spec

\* With one poll thread no byte a client has not released is reserved again:
\* the budget of hpcap_poll keeps the reservations behind the slowest client.
THEOREM OneNeverOverwrites == ASSUME Consumers = 1 PROVE Spec => NoOverwrite
<1> DEFINE Apart == \A c \in Consumer : size'[c] > 0 /\ size[c] = 0
                       => \A l \in Listener : Region(start'[c], size'[c]) \cap Unread(l) = {}
<1>1. OneInv /\ [Next]_vars => [Apart]_vars
  <2> SUFFICES ASSUME OneInv, Next, NEW c \in Consumer, size'[c] > 0, size[c] = 0,
                      NEW l \in Listener, NEW o \in Unread(l), o \in Region(start'[c], size'[c])
               PROVE  FALSE
    OBVIOUS
  <2>1. c = 0 /\ TypeOK /\ SizesFit
    BY OneThread DEF OneInv
  <2>2. \E n \in Records : Reserve(0, n)
    <3>1. size' # size
      BY <2>1
    <3>2. Thread(0)
      BY <3>1, OneThread DEF Next, Ack, threadVars
    <3> QED BY <2>1, <3>1, <3>2
            DEF Thread, StartRx, Copy, EndRx, PopGlobal, PushAll, SizesFit, TypeOK
  <2>3. PICK n \in Records : Reserve(0, n)
    BY <2>2
  <2>4. /\ start'[0] = Here /\ size'[0] = n /\ n \in Nat /\ D(Here) + n < BufSize
    BY <2>3, ReserveAdds
  <2>5. Here \in Offset /\ D(Here) \in Int /\ D(globalWr) \in Int /\ globalRd \in Offset
    BY <2>1, Seen, Sizes DEF TypeOK
  <2>6. D(Here) <= D(o)
    <3>1. Distance(globalRd, Here) + n <= BufSize
      BY <2>4, <2>5, Sizes DEF D
    <3> QED BY <2>1, <2>4, <2>5, <3>1, RegionFrom DEF D
  <2>7. D(o) < D(globalWr) /\ D(o) \in Int
    BY UnreadBehind, Sizes
  <2>8. D(globalWr) <= D(Here)
    BY <2>1, <2>5 DEF OneInv, LastIsCopied
  <2> QED BY <2>5, <2>6, <2>7, <2>8
<1> QED BY OneInit, OneStep, <1>1, PTL DEF Spec, NoOverwrite

-----------------------------------------------------------------------------
(***************************************************************************)
(* The broadcast.  One poll thread implements FrameBroadcast, the stream   *)
(* of whole records that every listener receives.                          *)
(***************************************************************************)
\* The byte before o, and the bit of the record it belongs to.
Before(o) == (o + (BufSize - 1)) % BufSize
BitBefore(o) == IF cell[Before(o)] = Hole THEN 1 ELSE cell[Before(o)][1]

\* The bit changes at o exactly if a record starts there.
Alternates(o) == (cell[o][1] # BitBefore(o)) <=> cell[o][2] = TRUE

\* Where the next record will be copied.
End == IF size[0] > 0 THEN start[0] ELSE Here

\* What was copied and is not published continues the stream.
StreamInv ==
    /\ bit = BitBefore(End)
    /\ \A o \in Offset : D(globalWr) <= D(o) /\ D(o) < D(End) => Alternates(o)
    /\ D(globalWr) < D(End) => cell[globalWr][2] = TRUE

-----------------------------------------------------------------------------
\* The byte before is one closer, and the one before globalRd is the furthest.
LEMMA BeforeSeen ==
  ASSUME NEW g \in Offset, NEW o \in Offset
  PROVE  /\ Before(o) \in Offset
         /\ Distance(g, Before(o)) = IF Distance(g, o) > 0 THEN Distance(g, o) - 1 ELSE BufSize - 1
<1>1. BufSize \in Nat /\ BufSize > 1 /\ o \in 0 .. BufSize - 1 /\ g \in 0 .. BufSize - 1
  BY Sizes
<1>2. Distance(g, o) = IF g <= o THEN o - g ELSE (BufSize - g) + o
  BY DEF Distance
<1> DEFINE b == Before(o)
<1>3. b \in Offset /\ b = IF o = 0 THEN BufSize - 1 ELSE o - 1
  <2>1. o + (BufSize - 1) \in Int /\ -BufSize <= o + (BufSize - 1) /\ o + (BufSize - 1) < 2 * BufSize
    BY <1>1
  <2>2. b \in Offset /\ b = IF o + (BufSize - 1) < 0 THEN (o + (BufSize - 1)) + BufSize
                            ELSE IF o + (BufSize - 1) < BufSize THEN o + (BufSize - 1)
                            ELSE (o + (BufSize - 1)) - BufSize
    BY <2>1, ModOnce DEF Before
  <2> QED BY <1>1, <2>2
<1> HIDE DEF b
<1>4. Distance(g, b) = IF g <= b THEN b - g ELSE (BufSize - g) + b
  BY DEF Distance
<1>5. b \in Int /\ 0 <= b /\ b < BufSize
  BY <1>1, <1>3
<1>6. Distance(g, b) = IF Distance(g, o) > 0 THEN Distance(g, o) - 1 ELSE BufSize - 1
  BY <1>1, <1>2, <1>3, <1>4, <1>5
<1> QED BY <1>3, <1>6 DEF b

\* Where records end, with one thread: the copied part ends there.
LEMMA EndSeen ==
  ASSUME Consumers = 1, OneInv
  PROVE  /\ End \in Offset /\ D(End) + size[0] = D(Here) /\ D(globalWr) <= D(End)
         /\ \A x \in {D(End), D(Here), D(globalWr)} : x \in Int /\ x >= 0 /\ x < BufSize
         /\ \A o \in Offset : D(o) \in Int /\ D(o) >= 0 /\ D(o) < BufSize
         /\ size[0] \in Nat /\ BufSize \in Nat
<1>1. TypeOK /\ 0 \in Consumer /\ BufSize \in Nat
  BY OneThread, Sizes DEF OneInv
<1>2. start[0] \in Offset /\ size[0] \in Nat /\ globalWr \in Offset /\ Here \in Offset
  BY <1>1, Seen DEF TypeOK
<1>3. \A o \in Offset : D(o) \in Int /\ D(o) >= 0 /\ D(o) < BufSize
  <2>1. \A o \in Offset : D(o) \in Offset
    BY <1>1, Seen
  <2> QED BY <1>1, <2>1 DEF Offset
<1>4. End \in Offset
  BY <1>2 DEF End
<1>5. D(End) + size[0] = D(Here)
  BY <1>2, <1>3 DEF OneInv, LastIsCopied, End
<1>6. D(globalWr) <= D(End)
  BY <1>2, <1>3, <1>4, <1>5 DEF OneInv, LastIsCopied
<1> QED BY <1>1, <1>2, <1>3, <1>4, <1>5, <1>6

\* What was copied is bytes of records.
LEMMA CopiedBytes ==
  ASSUME Consumers = 1, OneInv, NEW o \in Offset, D(o) < D(End)
  PROVE  cell[o] # Hole /\ cell[o] \in {0, 1} \X BOOLEAN
<1>1. D(o) + size[0] < D(Here)
  BY EndSeen
<1>2. cell[o] # Hole
  BY <1>1 DEF OneInv, RestIsCopied
<1> QED BY <1>2 DEF OneInv, TypeOK, Cell

\* The byte before one of the copied part, or before its end, is not reserved.
LEMMA BeforeKept ==
  ASSUME Consumers = 1, OneInv, NEW a \in Offset, NEW n \in Nat, n > 0,
         D(a) + n < BufSize, NEW o \in Offset, D(o) <= D(a)
  PROVE  Before(o) \notin Region(a, n)
<1>1. globalRd \in Offset /\ D(a) \in Int /\ D(o) \in Int /\ D(o) >= 0 /\ BufSize \in Nat
  BY EndSeen DEF OneInv, TypeOK
<1>2. Before(o) \in Offset /\ D(Before(o)) = IF D(o) > 0 THEN D(o) - 1 ELSE BufSize - 1
  BY <1>1, BeforeSeen DEF D
<1>3. ~(D(a) <= D(Before(o)) /\ D(Before(o)) < D(a) + n)
  BY <1>1, <1>2
<1>4. Distance(globalRd, a) + n <= BufSize
  BY <1>1 DEF D
<1> QED BY <1>1, <1>3, <1>4, RegionFrom DEF D

\* It holds in the empty buffer.
LEMMA StreamInit == ASSUME Consumers = 1 PROVE Init => StreamInv
<1> SUFFICES ASSUME Init PROVE StreamInv
  OBVIOUS
<1>1. OneInv /\ size[0] = 0 /\ Here = 0 /\ globalWr = 0 /\ bit = 1
  <2>1. 0 % BufSize = 0
    BY Sizes, ModOnce
  <2> QED BY <2>1, OneInit, OneThread DEF Init, Here, AsBufferOffset
<1>2. End = globalWr /\ End \in Offset
  BY <1>1, Sizes DEF End
<1>3. BitBefore(End) = 1
  <2>1. Before(End) \in Offset
    BY <1>2, BeforeSeen
  <2> QED BY <2>1 DEF Init, BitBefore
<1>4. \A o \in Offset : ~(D(globalWr) <= D(o) /\ D(o) < D(End))
  BY <1>1, <1>2, EndSeen
<1>5. ~(D(globalWr) < D(End))
  BY <1>1, <1>2, EndSeen
<1> QED BY <1>1, <1>3, <1>4, <1>5 DEF StreamInv

\* A step that leaves the bytes, the reservations and the write offset alone.
LEMMA StreamSame ==
  ASSUME StreamInv, UNCHANGED <<globalRd, globalWr, writeOff, start, size, cell, bit>>
  PROVE  StreamInv' /\ PublishedBit' = PublishedBit
<1>1. UNCHANGED <<Here, End>> /\ \A o : D(o)' = D(o) /\ BitBefore(o)' = BitBefore(o)
  BY DEF Here, End, D, BitBefore
<1>2. D(End)' = D(End) /\ D(globalWr)' = D(globalWr) /\ BitBefore(End)' = BitBefore(End)
  BY <1>1 DEF D, BitBefore
<1> QED BY <1>1, <1>2 DEF StreamInv, Alternates, PublishedBit

\* A copy continues the stream by one record.
LEMMA StreamCopied ==
  ASSUME Consumers = 1, OneInv, StreamInv, Copy(0)
  PROVE  StreamInv'
<1>1. /\ pc[0] = "copy" /\ size[0] > 0 /\ size[0] \in Nat /\ size'[0] = 0 /\ End = start[0]
      /\ UNCHANGED <<globalRd, globalWr, Here>> /\ Here \in Offset /\ globalWr \in Offset
      /\ TypeOK
  <2>1. TypeOK /\ SizesFit /\ 0 \in Consumer
    BY OneThread DEF OneInv
  <2>2. pc[0] = "copy" /\ size[0] > 0 /\ size[0] \in Nat
    BY <2>1, Sizes DEF Copy, SizesFit, TypeOK
  <2> QED BY <2>1, <2>2, Seen DEF Copy, sharedVars, Here, End, TypeOK
<1>2. End' = Here /\ \A o : D(o)' = D(o)
  BY <1>1 DEF End, D, Here
<1>3. D(End)' = D(Here) /\ D(globalWr)' = D(globalWr)
  BY <1>1, <1>2 DEF D
<1>4. /\ End \in Offset /\ D(End) + size[0] = D(Here) /\ D(globalWr) <= D(End)
      /\ \A x \in {D(End), D(Here), D(globalWr)} : x \in Int /\ x >= 0 /\ x < BufSize
      /\ \A o \in Offset : D(o) \in Int /\ D(o) >= 0 /\ D(o) < BufSize
      /\ BufSize \in Nat
  BY EndSeen
<1> DEFINE R == Region(End, size[0])
<1>5. \A o \in Offset : o \in R <=> D(End) <= D(o) /\ D(o) < D(Here)
  <2>1. globalRd \in Offset /\ Distance(globalRd, End) + size[0] <= BufSize
    BY <1>1, <1>4 DEF D, TypeOK
  <2> QED BY <1>1, <1>4, <2>1, RegionFrom DEF D
<1>6. /\ \A o \in Offset : cell'[o] = IF o \in R THEN <<1 - bit, o = End>> ELSE cell[o]
      /\ bit' = 1 - bit /\ bit \in {0, 1}
  BY <1>1 DEF Copy, TypeOK
<1> HIDE DEF R
<1>7. \A o \in Offset :
        /\ Before(o) \in Offset
        /\ D(Before(o)) = IF D(o) > 0 THEN D(o) - 1 ELSE BufSize - 1
  BY <1>1, BeforeSeen DEF D, TypeOK
<1>8. \A o \in Offset : D(o) <= D(End) => BitBefore(o)' = BitBefore(o)
  <2> SUFFICES ASSUME NEW o \in Offset, D(o) <= D(End) PROVE BitBefore(o)' = BitBefore(o)
    OBVIOUS
  <2>1. Before(o) \notin R
    BY <1>1, <1>4, BeforeKept DEF R
  <2>2. cell'[Before(o)] = cell[Before(o)]
    BY <1>6, <1>7, <2>1
  <2> QED BY <2>2 DEF BitBefore
<1>9. \A o \in Offset : D(End) < D(o) /\ D(o) <= D(Here) => BitBefore(o)' = 1 - bit
  <2> SUFFICES ASSUME NEW o \in Offset, D(End) < D(o), D(o) <= D(Here)
               PROVE  BitBefore(o)' = 1 - bit
    OBVIOUS
  <2>1. Before(o) \in R
    BY <1>4, <1>5, <1>7
  <2>2. cell'[Before(o)] = <<1 - bit, Before(o) = End>>
    BY <1>6, <1>7, <2>1
  <2>3. <<1 - bit, Before(o) = End>> # Hole
    BY DEF Hole
  <2> QED BY <2>2, <2>3 DEF BitBefore
<1>10. bit' = BitBefore(End)'
  <2>1. BitBefore(Here)' = 1 - bit
    BY <1>1, <1>4, <1>9
  <2> QED BY <1>1, <1>2, <1>6, <2>1 DEF BitBefore
<1>11. ASSUME NEW o \in Offset, D(globalWr) <= D(o), D(o) < D(Here)
       PROVE  Alternates(o)'
  <2>1. CASE D(o) < D(End)
    <3>1. cell'[o] = cell[o] /\ BitBefore(o)' = BitBefore(o)
      <4>1. o \notin R /\ D(o) <= D(End)
        BY <1>4, <1>5, <2>1
      <4> QED BY <1>6, <1>8, <4>1
    <3>2. Alternates(o)
      BY <1>11, <2>1 DEF StreamInv
    <3> QED BY <3>1, <3>2 DEF Alternates
  <2>2. CASE D(o) = D(End)
    <3>1. o = End
      BY <1>1, <1>4, <2>2, SeenFrom DEF D, TypeOK
    <3>2. BitBefore(o)' = bit
      BY <1>4, <1>8, <3>1 DEF StreamInv
    <3>3. cell'[o] = <<1 - bit, TRUE>>
      <4>1. o \in R
        BY <1>4, <1>5, <1>11, <2>2
      <4> QED BY <1>6, <3>1, <4>1
    <3> QED BY <1>6, <3>2, <3>3 DEF Alternates
  <2>3. CASE D(End) < D(o)
    <3>1. o # End
      BY <1>4, <2>3
    <3>2. BitBefore(o)' = 1 - bit
      BY <1>4, <1>9, <1>11, <2>3
    <3>3. cell'[o] = <<1 - bit, FALSE>>
      <4>1. o \in R
        BY <1>4, <1>5, <1>11, <2>3
      <4> QED BY <1>6, <3>1, <4>1
    <3> QED BY <3>2, <3>3 DEF Alternates
  <2> QED BY <1>4, <1>11, <2>1, <2>2, <2>3
<1>12. cell'[globalWr][2] = TRUE
  <2>1. CASE D(globalWr) < D(End)
    <3>1. cell'[globalWr] = cell[globalWr]
      <4>1. globalWr \notin R
        BY <1>1, <1>4, <1>5, <2>1
      <4> QED BY <1>1, <1>6, <4>1
    <3> QED BY <2>1, <3>1 DEF StreamInv
  <2>2. CASE D(globalWr) = D(End)
    <3>1. globalWr = End
      BY <1>1, <1>4, <2>2, SeenFrom DEF D, TypeOK
    <3>2. globalWr \in R
      BY <1>1, <1>4, <1>5, <2>2
    <3>3. cell'[globalWr] = <<1 - bit, TRUE>>
      BY <1>1, <1>6, <3>1, <3>2
    <3> QED BY <3>3
  <2>3. D(globalWr) < D(End) \/ D(globalWr) = D(End)
    BY <1>4
  <2> QED BY <2>1, <2>2, <2>3
<1> QED BY <1>1, <1>2, <1>3, <1>10, <1>11, <1>12 DEF StreamInv

\* Every step keeps it.
LEMMA StreamStep ==
  ASSUME Consumers = 1 PROVE OneInv /\ StreamInv /\ [Next]_vars => StreamInv'
<1> SUFFICES ASSUME OneInv, StreamInv, [Next]_vars PROVE StreamInv'
  OBVIOUS
<1>0. TypeOK /\ SizesFit /\ 0 \in Consumer
  BY OneThread DEF OneInv
<1>1. /\ End \in Offset /\ D(End) + size[0] = D(Here) /\ D(globalWr) <= D(End)
      /\ \A x \in {D(End), D(Here), D(globalWr)} : x \in Int /\ x >= 0 /\ x < BufSize
      /\ \A o \in Offset : D(o) \in Int /\ D(o) >= 0 /\ D(o) < BufSize
      /\ BufSize \in Nat
  BY EndSeen
<1>2. CASE StartRx(0) \/ EndRx(0)
  BY <1>2, StreamSame DEF StartRx, EndRx, sharedVars, dataVars
<1>3. ASSUME NEW n \in Records, Reserve(0, n) PROVE StreamInv'
  <2>1. /\ start'[0] = Here /\ size'[0] = n /\ n \in Nat /\ n > 0
        /\ D(Here) + n < BufSize /\ size[0] = 0
    BY <1>3, ReserveAdds
  <2>2. UNCHANGED <<globalRd, globalWr, bit>> /\ End = Here /\ End' = Here
    BY <1>3, <2>1 DEF Reserve, End
  <2>3. D(End)' = D(End) /\ D(globalWr)' = D(globalWr) /\ \A o : D(o)' = D(o)
    BY <2>2 DEF D
  <2>4. \A o \in Offset : cell'[o] = IF o \in Region(Here, n) THEN Hole ELSE cell[o]
    BY <1>3 DEF Reserve, Here
  <2>5. \A o \in Offset : D(o) <= D(End) => BitBefore(o)' = BitBefore(o)
    <3> SUFFICES ASSUME NEW o \in Offset, D(o) <= D(End) PROVE BitBefore(o)' = BitBefore(o)
      OBVIOUS
    <3>1. Before(o) \notin Region(Here, n)
      BY <1>1, <2>1, <2>2, BeforeKept
    <3>2. Before(o) \in Offset
      BY BeforeSeen
    <3> QED BY <2>4, <3>1, <3>2 DEF BitBefore
  <2>6. \A o \in Offset : D(o) < D(End) => cell'[o] = cell[o]
    <3> SUFFICES ASSUME NEW o \in Offset, D(o) < D(End) PROVE cell'[o] = cell[o]
      OBVIOUS
    <3>1. globalRd \in Offset /\ Distance(globalRd, Here) + n <= BufSize
          /\ ~(Distance(globalRd, Here) <= Distance(globalRd, o))
      BY <1>0, <1>1, <2>1, <2>2 DEF D, TypeOK
    <3>2. o \notin Region(Here, n)
      BY <1>1, <2>1, <2>2, <3>1, RegionFrom
    <3> QED BY <2>4, <3>2
  <2>7. bit' = BitBefore(End)'
    <3>1. BitBefore(End)' = BitBefore(End)
      <4>1. D(End) <= D(End)
        BY <1>1
      <4>2. \A o \in Offset : o = End => BitBefore(o)' = BitBefore(o)
        BY <2>5, <4>1 DEF D
      <4> QED BY <1>1, <2>2, <4>2 DEF BitBefore
    <3> QED BY <2>2, <3>1 DEF StreamInv
  <2>8. ASSUME NEW o \in Offset, D(globalWr) <= D(o), D(o) < D(End) PROVE Alternates(o)'
    <3>1. Alternates(o) /\ cell'[o] = cell[o] /\ BitBefore(o)' = BitBefore(o)
      BY <1>1, <2>5, <2>6, <2>8 DEF StreamInv
    <3> QED BY <3>1 DEF Alternates
  <2>9. D(globalWr) < D(End) => cell'[globalWr][2] = TRUE
    BY <1>0, <2>6 DEF StreamInv, TypeOK
  <2> QED BY <2>2, <2>3, <2>7, <2>8, <2>9 DEF StreamInv
<1>4. CASE Copy(0)
  BY <1>4, StreamCopied
<1>5. CASE PopGlobal(0)
  <2>1. PICK k \in Listener :
           /\ globalRd' = rd[k]
           /\ \A l \in Listener : D(rd[k]) <= D(rd[l])
           /\ \A o \in Offset : D(o)' = IF D(rd[k]) <= D(o) THEN D(o) - D(rd[k])
                                        ELSE (D(o) - D(rd[k])) + BufSize
    BY <1>5, PopMoves
  <2>2. UNCHANGED <<globalWr, writeOff, start, size, cell, bit, End>>
        /\ \A o : BitBefore(o)' = BitBefore(o)
    BY <1>5 DEF PopGlobal, dataVars, End, Here, BitBefore
  <2>3. D(rd[k]) <= D(globalWr) /\ rd[k] \in Offset /\ globalWr \in Offset
    BY <1>0 DEF OneInv, ListenersFollow, TypeOK
  <2>4. D(globalWr)' = D(globalWr) - D(rd[k]) /\ D(End)' = D(End) - D(rd[k])
    <3>1. \A o \in Offset : D(o)' = Distance(rd[k], o)
      BY <2>1 DEF D
    <3>2. D(globalWr)' = Distance(rd[k], globalWr) /\ D(End)' = Distance(rd[k], End)
      BY <2>1, <2>2 DEF D
    <3>3. D(rd[k]) <= D(End)
      BY <1>1, <2>3
    <3> QED BY <1>1, <2>1, <2>3, <3>1, <3>2, <3>3
  <2>5. ASSUME NEW o \in Offset, D(globalWr)' <= D(o)', D(o)' < D(End)' PROVE Alternates(o)'
    <3>1. D(globalWr) <= D(o) /\ D(o) < D(End)
      <4>1. D(o)' = IF D(rd[k]) <= D(o) THEN D(o) - D(rd[k]) ELSE (D(o) - D(rd[k])) + BufSize
        BY <2>1
      <4> QED BY <1>1, <2>3, <2>4, <2>5, <4>1
    <3>2. Alternates(o)
      BY <3>1 DEF StreamInv
    <3> QED BY <2>2, <3>2 DEF Alternates
  <2>6. D(globalWr)' < D(End)' => cell'[globalWr'][2] = TRUE
    BY <1>1, <2>2, <2>3, <2>4 DEF StreamInv
  <2>7. bit' = BitBefore(End)'
    BY <2>2 DEF StreamInv, BitBefore
  <2> QED BY <2>5, <2>6, <2>7 DEF StreamInv
<1>6. CASE PushAll(0)
  <2>1. globalWr' = Here /\ size[0] = 0
    BY <1>0, <1>6, PushEnds DEF PushAll, SizesFit
  <2>2. UNCHANGED <<globalRd, size, start, cell, bit, Here>>
    BY <1>6 DEF PushAll, dataVars, Here
  <2>3. End = Here /\ End' = Here
    BY <2>1, <2>2 DEF End
  <2>4. D(globalWr)' = D(End)'
    BY <2>1, <2>3 DEF D
  <2>5. D(End)' = D(End) /\ BitBefore(End)' = BitBefore(End) /\ \A o : D(o)' = D(o)
    BY <2>2, <2>3 DEF D, BitBefore
  <2>6. \A o \in Offset : ~(D(globalWr)' <= D(o)' /\ D(o)' < D(End)')
    BY <1>1, <2>4, <2>5
  <2>7. ~(D(globalWr)' < D(End)')
    BY <1>1, <2>4, <2>5
  <2> QED BY <2>2, <2>5, <2>6, <2>7 DEF StreamInv
<1>7. ASSUME NEW l \in Listener, NEW n \in 1 .. BufSize, Ack(l, n) PROVE StreamInv'
  BY <1>7, StreamSame DEF Ack, sharedVars, threadVars, dataVars
<1>8. CASE UNCHANGED vars
  BY <1>8, StreamSame DEF vars, sharedVars, threadVars, dataVars
<1> QED BY <1>2, <1>3, <1>4, <1>5, <1>6, <1>7, <1>8, OneThread DEF Next, Thread

-----------------------------------------------------------------------------
Byte == {0, 1} \X BOOLEAN

\* The bytes from offset a on, n of them.
Bytes(a, n) == [k \in 1 .. n |-> cell[(a + (k - 1)) % BufSize]]

\* The k-th of them, by its distance.
LEMMA ByteSeen ==
  ASSUME TypeOK, NEW a \in Offset, NEW n \in Nat, D(a) + n < BufSize, NEW k \in 1 .. n
  PROVE  /\ (a + (k - 1)) % BufSize \in Offset
         /\ D((a + (k - 1)) % BufSize) = (D(a) + k) - 1
<1>1. globalRd \in Offset /\ D(a) \in Int /\ D(a) >= 0 /\ BufSize \in Nat /\ a \in Int
  BY Seen, Sizes DEF TypeOK, Offset
<1>2. k - 1 \in Nat /\ Distance(globalRd, a) + (k - 1) < BufSize
  BY <1>1 DEF D
<1>3. /\ (a + (k - 1)) % BufSize \in Offset
      /\ Distance(globalRd, (a + (k - 1)) % BufSize) = Distance(globalRd, a) + (k - 1)
  BY <1>1, <1>2, Further
<1>4. D(a) + (k - 1) = (D(a) + k) - 1
  BY <1>1
<1> QED BY <1>2, <1>3, <1>4 DEF D

\* Copied bytes are a sequence.
LEMMA BytesAre ==
  ASSUME Consumers = 1, OneInv, NEW a \in Offset, NEW n \in Nat, D(a) + n <= D(End)
  PROVE  /\ Bytes(a, n) \in Seq(Byte) /\ Len(Bytes(a, n)) = n
         /\ \A k \in 1 .. n : /\ Bytes(a, n)[k] = cell[(a + (k - 1)) % BufSize]
                              /\ Bytes(a, n)[k] \in Byte /\ Bytes(a, n)[k] # Hole
<1>1. TypeOK /\ D(a) \in Int /\ D(End) \in Int /\ D(a) + n < BufSize
  BY EndSeen DEF OneInv
<1>2. \A k \in 1 .. n : /\ cell[(a + (k - 1)) % BufSize] \in Byte
                        /\ cell[(a + (k - 1)) % BufSize] # Hole
  <2> SUFFICES ASSUME NEW k \in 1 .. n
               PROVE  /\ cell[(a + (k - 1)) % BufSize] \in Byte
                      /\ cell[(a + (k - 1)) % BufSize] # Hole
    OBVIOUS
  <2> DEFINE o == (a + (k - 1)) % BufSize
  <2>1. o \in Offset /\ D(o) = (D(a) + k) - 1
    BY <1>1, ByteSeen
  <2> HIDE DEF o
  <2>2. D(o) < D(End)
    BY <1>1, <2>1
  <2>3. cell[o] # Hole /\ cell[o] \in Byte
    BY <2>1, <2>2, CopiedBytes DEF Byte
  <2> QED BY <2>3 DEF o
<1>3. Bytes(a, n) \in [1 .. n -> Byte]
  BY <1>2 DEF Bytes
<1>4. Bytes(a, n) \in Seq(Byte)
  BY <1>3, SeqDef
<1>5. Len(Bytes(a, n)) = n
  BY <1>4, <1>3, LenProperties
<1> QED BY <1>2, <1>4, <1>5 DEF Bytes

\* What a listener is to read: the bytes up to the global write offset.
LEMMA QueueIs ==
  ASSUME Consumers = 1, OneInv, NEW l \in Listener
  PROVE  /\ Queue[l] = Bytes(rd[l], D(globalWr) - D(rd[l]))
         /\ D(globalWr) - D(rd[l]) \in Nat /\ D(rd[l]) \in Int
         /\ rd[l] \in Offset /\ D(rd[l]) >= 0 /\ D(globalWr) <= D(End)
         /\ UsedBytes(rd[l], wr[l]) = D(globalWr) - D(rd[l])
<1>1. /\ rd[l] \in Offset /\ wr[l] = globalWr /\ D(rd[l]) <= D(globalWr)
      /\ globalRd \in Offset /\ globalWr \in Offset
  BY DEF OneInv, TypeOK, ListenersFollow
<1>2. D(rd[l]) \in Int /\ D(rd[l]) >= 0 /\ D(globalWr) \in Int /\ D(globalWr) <= D(End)
  BY <1>1, EndSeen
<1>3. UsedBytes(rd[l], wr[l]) = D(globalWr) - D(rd[l])
  BY <1>1, SeenFrom DEF UsedBytes, D
<1>4. Queue[l] = Bytes(rd[l], UsedBytes(rd[l], wr[l]))
  BY DEF Queue, Bytes
<1> QED BY <1>1, <1>2, <1>3, <1>4

\* The empty buffer is the empty stream.
LEMMA BroadcastInit == ASSUME Consumers = 1 PROVE Init => Stream!Init
<1> SUFFICES ASSUME Init PROVE Stream!Init
  OBVIOUS
<1>1. \A l \in Listener : UsedBytes(rd[l], wr[l]) = 0
  BY DEF Init, UsedBytes, Distance
<1>2. \A l \in Listener : Queue[l] = << >>
  <2> SUFFICES ASSUME NEW l \in Listener PROVE Queue[l] = << >>
    OBVIOUS
  <2>1. Queue[l] = [k \in 1 .. 0 |-> cell[(rd[l] + (k - 1)) % BufSize]]
    BY <1>1 DEF Queue
  <2>2. Queue[l] \in [1 .. 0 -> Byte]
    BY <2>1
  <2>3. Queue[l] \in Seq(Byte) /\ Len(Queue[l]) = 0
    <3>1. Queue[l] \in Seq(Byte)
      BY <2>2, SeqDef
    <3> QED BY <2>2, <3>1, LenProperties
  <2> QED BY <2>3, EmptySeq
<1>3. Queue = [l \in Listener |-> << >>]
  BY <1>2 DEF Queue
<1>4. PublishedBit = 1
  <2>1. globalWr \in Offset /\ Before(globalWr) \in Offset
    BY Sizes, BeforeSeen DEF Init
  <2> QED BY <2>1 DEF Init, PublishedBit, Before
<1> QED BY <1>3, <1>4 DEF Stream!Init

\* Two pieces of the buffer one behind the other.
LEMMA BytesJoin ==
  ASSUME Consumers = 1, OneInv, NEW a \in Offset, NEW b \in Offset, NEW m \in Nat, NEW n \in Nat,
         D(b) = D(a) + m, D(b) + n <= D(End)
  PROVE  Bytes(a, m) \o Bytes(b, n) = Bytes(a, m + n)
<1>1. TypeOK /\ globalRd \in Offset /\ D(a) \in Int /\ D(b) \in Int /\ D(End) \in Int
      /\ D(End) < BufSize /\ BufSize \in Nat
  BY EndSeen DEF OneInv, TypeOK
<1>2. D(a) + m <= D(End) /\ D(a) + (m + n) <= D(End) /\ m + n \in Nat
  BY <1>1
<1> DEFINE s == Bytes(a, m)
           t == Bytes(b, n)
           u == Bytes(a, m + n)
<1>3. /\ s \in Seq(Byte) /\ Len(s) = m /\ \A k \in 1 .. m : s[k] = cell[(a + (k - 1)) % BufSize]
      /\ t \in Seq(Byte) /\ Len(t) = n /\ \A k \in 1 .. n : t[k] = cell[(b + (k - 1)) % BufSize]
      /\ u \in Seq(Byte) /\ Len(u) = m + n
      /\ \A k \in 1 .. m + n : u[k] = cell[(a + (k - 1)) % BufSize]
  <2>1. s \in Seq(Byte) /\ Len(s) = m /\ \A k \in 1 .. m : s[k] = cell[(a + (k - 1)) % BufSize]
    BY <1>2, BytesAre
  <2>2. t \in Seq(Byte) /\ Len(t) = n /\ \A k \in 1 .. n : t[k] = cell[(b + (k - 1)) % BufSize]
    BY BytesAre
  <2>3. /\ u \in Seq(Byte) /\ Len(u) = m + n
        /\ \A k \in 1 .. m + n : u[k] = cell[(a + (k - 1)) % BufSize]
    BY <1>2, BytesAre
  <2> QED BY <2>1, <2>2, <2>3
<1>4. ASSUME NEW k \in m + 1 .. m + n
      PROVE  (a + (k - 1)) % BufSize = (b + ((k - m) - 1)) % BufSize
  <2> DEFINE o == (a + (k - 1)) % BufSize
             p == (b + ((k - m) - 1)) % BufSize
  <2>1. o \in Offset /\ D(o) = (D(a) + k) - 1
    <3>1. k \in 1 .. m + n /\ D(a) + (m + n) < BufSize
      BY <1>1, <1>2
    <3> QED BY <1>1, <1>2, <3>1, ByteSeen
  <2>2. p \in Offset /\ D(p) = (D(b) + (k - m)) - 1
    <3>1. k - m \in 1 .. n /\ D(b) + n < BufSize
      BY <1>1, <1>2
    <3> QED BY <1>1, <3>1, ByteSeen
  <2> HIDE DEF o, p
  <2>3. D(o) = D(p)
    BY <1>1, <2>1, <2>2
  <2>4. o = p
    BY <1>1, <2>1, <2>2, <2>3, SeenFrom DEF D
  <2> QED BY <2>4 DEF o, p
<1> HIDE DEF s, t, u
<1>5. /\ s \o t \in Seq(Byte) /\ Len(s \o t) = m + n
      /\ \A k \in 1 .. m + n : (s \o t)[k] = IF k <= m THEN s[k] ELSE t[k - m]
  BY <1>3, ConcatProperties
<1>6. ASSUME NEW k \in 1 .. m + n PROVE (s \o t)[k] = u[k]
  <2>1. CASE k <= m
    <3>1. k \in 1 .. m
      BY <2>1
    <3> QED BY <1>3, <1>5, <2>1, <3>1
  <2>2. CASE ~(k <= m)
    <3>1. k \in m + 1 .. m + n /\ k - m \in 1 .. n
      BY <2>2
    <3>2. t[k - m] = cell[(b + ((k - m) - 1)) % BufSize]
      BY <1>3, <3>1
    <3>3. u[k] = cell[(a + (k - 1)) % BufSize]
      BY <1>3
    <3> QED BY <1>4, <1>5, <2>2, <3>1, <3>2, <3>3
  <2> QED BY <2>1, <2>2
<1>7. s \o t = u
  BY <1>3, <1>5, <1>6, SeqEqual
<1> QED BY <1>7 DEF s, t, u

\* The rest of a piece.
LEMMA BytesRest ==
  ASSUME Consumers = 1, OneInv, NEW a \in Offset, NEW b \in Offset, NEW m \in Nat, NEW n \in Nat,
         D(b) = D(a) + m, D(b) + n <= D(End)
  PROVE  SubSeq(Bytes(a, m + n), m + 1, m + n) = Bytes(b, n)
<1>1. D(a) \in Int /\ D(b) \in Int /\ D(End) \in Int /\ D(a) + m <= D(End)
  BY EndSeen
<1>2. /\ Bytes(a, m) \in Seq(Byte) /\ Len(Bytes(a, m)) = m
      /\ Bytes(b, n) \in Seq(Byte) /\ Len(Bytes(b, n)) = n
  BY <1>1, BytesAre
<1>3. Bytes(a, m) \o Bytes(b, n) = Bytes(a, m + n)
  BY BytesJoin
<1>4. SubSeq(Bytes(a, m) \o Bytes(b, n), m + 1, m + n) = Bytes(b, n)
  BY <1>2, SubSeqOfConcat2
<1> QED BY <1>3, <1>4

\* A step that leaves the offsets of the listeners and the bytes they have, and
\* the one before globalWr, alone is not seen by them.
LEMMA Unseen ==
  ASSUME TypeOK, UNCHANGED <<rd, wr, globalWr>>, BitBefore(globalWr)' = BitBefore(globalWr),
         \A l \in Listener : \A o \in Unread(l) : cell'[o] = cell[o]
  PROVE  Queue' = Queue /\ PublishedBit' = PublishedBit
<1>1. \A l \in Listener : \A k \in 1 .. UsedBytes(rd[l], wr[l]) :
         cell'[(rd[l] + (k - 1)) % BufSize] = cell[(rd[l] + (k - 1)) % BufSize]
  <2> SUFFICES ASSUME NEW l \in Listener, NEW k \in 1 .. UsedBytes(rd[l], wr[l])
               PROVE  cell'[(rd[l] + (k - 1)) % BufSize] = cell[(rd[l] + (k - 1)) % BufSize]
    OBVIOUS
  <2>1. k - 1 \in 0 .. UsedBytes(rd[l], wr[l]) - 1
    <3>1. UsedBytes(rd[l], wr[l]) \in Int
      BY InBuffer, Sizes DEF UsedBytes, TypeOK
    <3> QED BY <3>1
  <2>2. (rd[l] + (k - 1)) % BufSize \in Unread(l)
    BY <2>1 DEF Unread, Region
  <2> QED BY <2>2
<1>2. \A l \in Listener :
         [k \in 1 .. UsedBytes(rd[l], wr[l]) |-> cell'[(rd[l] + (k - 1)) % BufSize]]
         = [k \in 1 .. UsedBytes(rd[l], wr[l]) |-> cell[(rd[l] + (k - 1)) % BufSize]]
  BY <1>1
<1>3. Queue' = Queue
  BY <1>2 DEF Queue
<1> QED BY <1>3 DEF PublishedBit, BitBefore, Before

\* A publication: every listener gets the same whole records behind what it has.
LEMMA Publishes ==
  ASSUME Consumers = 1, OneInv, StreamInv, PushAll(0), globalWr # Here
  PROVE  Stream!Next
<1>1. /\ globalWr' = Here /\ (\A l \in Listener : wr'[l] = Here) /\ size[0] = 0 /\ TypeOK
      /\ UNCHANGED <<globalRd, rd, cell>>
  BY PushEnds, OneThread DEF PushAll, dataVars, OneInv, SizesFit
<1>2. /\ End = Here /\ Here \in Offset /\ globalWr \in Offset /\ globalRd \in Offset
      /\ D(globalWr) \in Int /\ D(Here) \in Int /\ D(globalWr) >= 0 /\ D(Here) < BufSize
      /\ D(globalWr) <= D(Here) /\ D(globalWr) # D(Here) /\ BufSize \in Nat
  <2>1. End = Here
    BY <1>1 DEF End
  <2>2. globalWr \in Offset /\ globalRd \in Offset /\ Here \in Offset
    BY <1>1, Seen DEF TypeOK
  <2>3. D(globalWr) # D(Here)
    BY <2>2, SeenFrom DEF D
  <2>4. D(globalWr) <= D(Here)
    BY <1>1, EndSeen DEF OneInv, LastIsCopied
  <2> QED BY <2>1, <2>2, <2>3, <2>4, EndSeen
<1> DEFINE n == D(Here) - D(globalWr)
           s == Bytes(globalWr, n)
<1>3. n \in Nat /\ n > 0 /\ D(globalWr) + n <= D(End) /\ D(globalWr) + n < BufSize
      /\ D(globalWr) + n = D(Here)
  <2>1. D(End) = D(Here)
    BY <1>1, <1>2, EndSeen
  <2> QED BY <1>2, <2>1
<1> HIDE DEF n
<1>4. /\ s \in Seq(Byte) /\ Len(s) = n
      /\ \A k \in 1 .. n : /\ s[k] = cell[(globalWr + (k - 1)) % BufSize]
                           /\ s[k] \in Byte /\ s[k] # Hole
  BY <1>2, <1>3, BytesAre
<1> HIDE DEF s
<1>5. \A k \in 1 .. n : /\ (globalWr + (k - 1)) % BufSize \in Offset
                        /\ D((globalWr + (k - 1)) % BufSize) = (D(globalWr) + k) - 1
  BY <1>1, <1>2, <1>3, ByteSeen
<1>6. ASSUME NEW l \in Listener
      PROVE  /\ Queue'[l] = Queue[l] \o s
             /\ Len(Queue[l]) + Len(s) <= BufSize - 1
             /\ Stream!Added(l) = s
  <2> DEFINE m == D(globalWr) - D(rd[l])
  <2>1. /\ Queue[l] = Bytes(rd[l], m) /\ m \in Nat /\ D(rd[l]) \in Int /\ rd[l] \in Offset
        /\ D(rd[l]) >= 0 /\ D(globalWr) <= D(End)
    BY QueueIs
  <2>2. D(globalWr) = D(rd[l]) + m
    BY <1>2, <2>1
  <2>3. UsedBytes(rd[l], wr[l])' = m + n
    <3>1. UsedBytes(rd[l], wr[l])' = Distance(rd[l], Here)
      BY <1>1 DEF UsedBytes
    <3>2. Distance(rd[l], Here) = D(Here) - D(rd[l])
      BY <1>2, <2>1, SeenFrom DEF D
    <3> QED BY <1>2, <1>3, <2>1, <2>2, <3>1, <3>2
  <2> HIDE DEF m
  <2>4. Queue'[l] = Bytes(rd[l], m + n)
    <3>1. Queue'[l] = [k \in 1 .. UsedBytes(rd[l], wr[l])' |-> cell'[(rd'[l] + (k - 1)) % BufSize]]
      BY DEF Queue
    <3> QED BY <1>1, <2>3, <3>1 DEF Bytes
  <2>5. Bytes(rd[l], m) \o s = Bytes(rd[l], m + n)
    BY <1>2, <1>3, <2>1, <2>2, BytesJoin DEF s
  <2>6. Len(Bytes(rd[l], m)) = m /\ Len(Bytes(rd[l], m + n)) = m + n
    <3>1. D(rd[l]) + m <= D(End) /\ D(rd[l]) + (m + n) <= D(End) /\ m + n \in Nat
      BY <1>2, <1>3, <2>1, <2>2, EndSeen
    <3>2. Len(Bytes(rd[l], m)) = m
      BY <2>1, <3>1, BytesAre
    <3>3. Len(Bytes(rd[l], m + n)) = m + n
      BY <2>1, <3>1, BytesAre
    <3> QED BY <3>2, <3>3
  <2>7. SubSeq(Bytes(rd[l], m + n), m + 1, m + n) = s
    BY <1>2, <1>3, <2>1, <2>2, BytesRest DEF s
  <2>8. Stream!Added(l) = s
    BY <2>1, <2>4, <2>6, <2>7 DEF Stream!Added
  <2>9. m + n <= BufSize - 1
    BY <1>2, <1>3, <2>1, <2>2
  <2> QED BY <1>4, <2>1, <2>4, <2>5, <2>6, <2>8, <2>9
<1>7. PublishedBit = BitBefore(globalWr) /\ PublishedBit' = s[n][1]
  <2>1. PublishedBit = BitBefore(globalWr)
    BY DEF PublishedBit, BitBefore, Before
  <2> DEFINE o == (globalWr + (n - 1)) % BufSize
  <2>2. Before(Here) = o
    <3>1. n \in 1 .. n
      BY <1>3
    <3>2. o \in Offset /\ D(o) = (D(globalWr) + n) - 1
      BY <1>5, <3>1
    <3>3. Before(Here) \in Offset /\ D(Before(Here)) = D(Here) - 1
      BY <1>2, BeforeSeen DEF D
    <3> HIDE DEF o
    <3>4. D(Before(Here)) = D(o)
      BY <1>2, <1>3, <3>2, <3>3
    <3> QED BY <1>2, <3>2, <3>3, <3>4, SeenFrom DEF D
  <2>3. s[n] = cell[o] /\ s[n] # Hole
    BY <1>3, <1>4
  <2>4. PublishedBit' = cell[Before(Here)][1]
    <3>1. cell[Before(Here)] # Hole
      BY <2>2, <2>3
    <3> QED BY <1>1, <3>1 DEF PublishedBit, Before
  <2> QED BY <2>1, <2>2, <2>3, <2>4
<1>8. Stream!Continues(s, PublishedBit)
  <2>1. s[1][2] = TRUE
    <3>1. s[1] = cell[(globalWr + 0) % BufSize]
      BY <1>3, <1>4
    <3>2. (globalWr + 0) % BufSize = globalWr
      BY <1>2, ModOnce, Sizes DEF Offset
    <3>3. D(globalWr) < D(End)
      BY <1>2, <1>3, EndSeen
    <3> QED BY <3>1, <3>2, <3>3 DEF StreamInv
  <2>2. ASSUME NEW k \in 1 .. n
        PROVE  (s[k][1] # (IF k = 1 THEN PublishedBit ELSE s[k - 1][1])) <=> s[k][2] = TRUE
    <3> DEFINE o == (globalWr + (k - 1)) % BufSize
               p == (globalWr + ((k - 1) - 1)) % BufSize
    <3>1. o \in Offset /\ D(o) = (D(globalWr) + k) - 1 /\ s[k] = cell[o]
      BY <1>4, <1>5
    <3>2. Alternates(o)
      <4> HIDE DEF o
      <4>1. D(globalWr) <= D(o) /\ D(o) < D(End)
        BY <1>2, <1>3, <3>1, EndSeen
      <4> QED BY <3>1, <4>1 DEF StreamInv
    <3>3. CASE k = 1
      <4>1. o = globalWr
        BY <1>2, <3>3, ModOnce, Sizes DEF Offset
      <4> QED BY <1>7, <3>1, <3>2, <3>3, <4>1 DEF Alternates
    <3>4. CASE k # 1
      <4>1. k - 1 \in 1 .. n
        BY <1>3, <3>4
      <4>2. p \in Offset /\ D(p) = (D(globalWr) + (k - 1)) - 1 /\ s[k - 1] = cell[p]
            /\ s[k - 1] # Hole
        BY <1>4, <1>5, <4>1
      <4>3. Before(o) \in Offset /\ D(Before(o)) = IF D(o) > 0 THEN D(o) - 1 ELSE BufSize - 1
        BY <1>2, <3>1, BeforeSeen DEF D
      <4> HIDE DEF o, p
      <4>4. D(Before(o)) = D(p)
        BY <1>2, <3>1, <4>1, <4>2, <4>3
      <4>5. Before(o) = p
        BY <1>2, <4>2, <4>3, <4>4, SeenFrom DEF D
      <4>6. BitBefore(o) = s[k - 1][1]
        BY <4>2, <4>5 DEF BitBefore
      <4> QED BY <3>1, <3>2, <3>4, <4>6 DEF Alternates
    <3> QED BY <3>3, <3>4
  <2>3. \A k \in 1 .. n : s[k][2] \in BOOLEAN
    BY <1>4 DEF Byte
  <2>4. 1 \in 1 .. n
    BY <1>3
  <2> QED BY <1>4, <2>1, <2>2, <2>3, <2>4 DEF Stream!Continues, Stream!Byte, Byte
<1>9. Queue' = [l \in Listener |-> Queue[l] \o s]
  BY <1>6 DEF Queue
<1>10. s # << >>
  BY <1>3, <1>4, EmptySeq
<1>11. Stream!Publish(s)
  BY <1>3, <1>4, <1>6, <1>7, <1>8, <1>9, <1>10 DEF Stream!Publish
<1>12. PICK l \in Listener : TRUE
  BY BufferAssumption
<1> QED BY <1>6, <1>11, <1>12 DEF Stream!Next

\* An acknowledgement: one listener consumes, the others do not see it.
LEMMA Consumes ==
  ASSUME Consumers = 1, OneInv, NEW l \in Listener, NEW c \in 1 .. BufSize, Ack(l, c)
  PROVE  Stream!Next
<1>1. /\ rd' = [rd EXCEPT ![l] = PoppedOffset(rd[l], wr[l], c)]
      /\ UNCHANGED <<globalRd, globalWr, wr, cell>> /\ TypeOK /\ globalRd \in Offset
      /\ UsedBytes(rd[l], wr[l]) > 0
  BY DEF Ack, sharedVars, dataVars, OneInv, TypeOK
<1> DEFINE used == UsedBytes(rd[l], wr[l])
           k == IF used < c THEN used ELSE c
           n == used - k
           b == (rd[l] + k) % BufSize
<1>2. /\ Queue[l] = Bytes(rd[l], used) /\ used \in Nat /\ used = D(globalWr) - D(rd[l])
      /\ D(rd[l]) \in Int /\ rd[l] \in Offset /\ D(rd[l]) >= 0 /\ D(globalWr) <= D(End)
  BY QueueIs
<1>3. /\ D(globalWr) \in Int /\ D(globalWr) < BufSize /\ BufSize \in Nat /\ D(End) \in Int
      /\ D(End) < BufSize /\ globalWr \in Offset
  BY <1>1, EndSeen DEF TypeOK
<1>4. /\ k \in 1 .. BufSize - 1 /\ k <= used /\ n \in Nat /\ k + n = used /\ k \in Nat
      /\ D(rd[l]) + k < BufSize
  BY <1>1, <1>2, <1>3
<1>5. rd'[l] = b /\ \A r \in Listener : r # l => rd'[r] = rd[r]
  BY <1>1 DEF PoppedOffset, TypeOK
<1> HIDE DEF used, k, n
<1>6. b \in Offset /\ D(b) = D(rd[l]) + k
  BY <1>1, <1>2, <1>4, Further DEF D
<1> HIDE DEF b
<1>7. D(b) + n = D(globalWr)
  BY <1>2, <1>3, <1>4, <1>6
<1>8. Distance(b, globalWr) = n
  <2>1. Distance(b, globalWr) = D(globalWr) - D(b)
    BY <1>1, <1>2, <1>3, <1>4, <1>6, <1>7, SeenFrom DEF D
  <2> QED BY <1>2, <1>3, <1>4, <1>6, <1>7, <2>1
<1>9. Queue'[l] = Bytes(b, n)
  <2>1. wr[l] = globalWr /\ wr'[l] = globalWr
    BY <1>1 DEF OneInv, ListenersFollow
  <2>2. UsedBytes(rd[l], wr[l])' = n
    BY <1>5, <1>8, <2>1 DEF UsedBytes
  <2>3. Queue'[l] = [i \in 1 .. UsedBytes(rd[l], wr[l])' |-> cell'[(rd'[l] + (i - 1)) % BufSize]]
    BY DEF Queue
  <2> QED BY <1>1, <1>5, <2>2, <2>3 DEF Bytes
<1>10. Len(Queue[l]) = k + n /\ SubSeq(Queue[l], k + 1, k + n) = Queue'[l]
  <2>1. Queue[l] = Bytes(rd[l], k + n)
    BY <1>2, <1>4
  <2>2. D(b) + n <= D(End) /\ D(rd[l]) + (k + n) <= D(End) /\ k + n \in Nat
    BY <1>2, <1>3, <1>4, <1>6, <1>7
  <2>3. SubSeq(Bytes(rd[l], k + n), k + 1, k + n) = Bytes(b, n)
    BY <1>2, <1>4, <1>6, <2>2, BytesRest
  <2>4. Len(Bytes(rd[l], k + n)) = k + n
    BY <1>2, <2>2, BytesAre
  <2> QED BY <1>9, <2>1, <2>3, <2>4
<1>11. ASSUME NEW r \in Listener, r # l PROVE Queue'[r] = Queue[r]
  <2>1. rd'[r] = rd[r] /\ wr'[r] = wr[r] /\ cell' = cell
    BY <1>1, <1>5, <1>11
  <2>2. Queue'[r] = [i \in 1 .. UsedBytes(rd'[r], wr'[r]) |-> cell'[(rd'[r] + (i - 1)) % BufSize]]
    BY DEF Queue, UsedBytes
  <2> QED BY <2>1, <2>2 DEF Queue
<1>12. Queue' = [Queue EXCEPT ![l] = SubSeq(Queue[l], k + 1, Len(Queue[l]))]
  BY <1>10, <1>11 DEF Queue
<1>13. PublishedBit' = PublishedBit
  BY <1>1 DEF PublishedBit
<1>14. Stream!Consume(l, k)
  BY <1>4, <1>10, <1>12, <1>13 DEF Stream!Consume
<1> QED BY <1>4, <1>14 DEF Stream!Next

\* Every step of the buffer is a step of the broadcast, or is not seen there.
LEMMA BroadcastStep ==
  ASSUME Consumers = 1
  PROVE  OneInv /\ StreamInv /\ [Next]_vars => [Stream!Next]_<<Queue, PublishedBit>>
<1> SUFFICES ASSUME OneInv, StreamInv, [Next]_vars
             PROVE  Stream!Next \/ (Queue' = Queue /\ PublishedBit' = PublishedBit)
  OBVIOUS
<1>0. TypeOK /\ SizesFit /\ globalWr \in Offset /\ globalRd \in Offset /\ 0 \in Consumer
  BY OneThread DEF OneInv, TypeOK
<1>1. /\ End \in Offset /\ D(End) + size[0] = D(Here) /\ D(globalWr) <= D(End)
      /\ \A x \in {D(End), D(Here), D(globalWr)} : x \in Int /\ x >= 0 /\ x < BufSize
      /\ \A o \in Offset : D(o) \in Int /\ D(o) >= 0 /\ D(o) < BufSize
      /\ size[0] \in Nat /\ BufSize \in Nat
  BY EndSeen
<1>2. CASE UNCHANGED <<rd, wr, globalWr, cell>>
  <2>1. BitBefore(globalWr)' = BitBefore(globalWr)
    BY <1>2 DEF BitBefore
  <2> QED BY <1>0, <1>2, <2>1, Unseen
<1>3. ASSUME NEW a \in Offset, NEW n \in Nat, n > 0, D(globalWr) <= D(a), D(a) + n < BufSize,
             UNCHANGED <<rd, wr, globalWr>>,
             \A o \in Offset \ Region(a, n) : cell'[o] = cell[o]
      PROVE  Queue' = Queue /\ PublishedBit' = PublishedBit
  <2>1. BitBefore(globalWr)' = BitBefore(globalWr)
    <3>1. Before(globalWr) \in Offset \ Region(a, n)
      BY <1>0, <1>3, BeforeKept, BeforeSeen
    <3>2. cell'[Before(globalWr)] = cell[Before(globalWr)]
      BY <1>3, <3>1
    <3> QED BY <1>3, <3>2 DEF BitBefore, Before
  <2>2. ASSUME NEW l \in Listener, NEW o \in Unread(l) PROVE cell'[o] = cell[o]
    <3>1. o \in Offset /\ D(o) < D(globalWr)
      BY <2>2, UnreadBehind
    <3>2. ~(Distance(globalRd, a) <= Distance(globalRd, o))
          /\ Distance(globalRd, a) + n <= BufSize
      BY <1>1, <1>3, <3>1 DEF D
    <3>3. o \notin Region(a, n)
      BY <1>0, <1>3, <3>2, RegionFrom
    <3> QED BY <1>3, <3>1, <3>3
  <2> QED BY <1>0, <1>3, <2>1, <2>2, Unseen
<1>4. CASE StartRx(0) \/ EndRx(0) \/ PopGlobal(0) \/ UNCHANGED vars
  BY <1>2, <1>4 DEF StartRx, EndRx, PopGlobal, vars, sharedVars, lstnrVars, dataVars
<1>5. ASSUME NEW n \in Records, Reserve(0, n)
      PROVE  Queue' = Queue /\ PublishedBit' = PublishedBit
  <2>1. n \in Nat /\ n > 0 /\ D(Here) + n < BufSize /\ size[0] = 0
    BY <1>5, ReserveAdds
  <2>2. Here \in Offset /\ D(globalWr) <= D(Here)
    BY <1>0, <1>1, <2>1, Seen
  <2>3. UNCHANGED <<rd, wr, globalWr>>
        /\ \A o \in Offset \ Region(Here, n) : cell'[o] = cell[o]
    BY <1>5 DEF Reserve, lstnrVars, Here
  <2> QED BY <1>3, <2>1, <2>2, <2>3
<1>6. CASE Copy(0)
  <2>1. size[0] > 0
    BY <1>0, <1>6, Sizes DEF Copy, SizesFit
  <2>2. End = start[0]
    BY <2>1 DEF End
  <2>3. UNCHANGED <<rd, wr, globalWr>>
        /\ \A o \in Offset \ Region(End, size[0]) : cell'[o] = cell[o]
    BY <1>6, <2>2 DEF Copy, sharedVars, lstnrVars
  <2> QED BY <1>1, <1>3, <2>1, <2>3
<1>7. CASE PushAll(0)
  <2>1. CASE globalWr # Here
    BY <1>7, <2>1, Publishes
  <2>2. CASE globalWr = Here
    <3>1. Distance(globalWr, AsBufferOffset(writeOff)) = 0
      BY <1>0, <2>2, Sizes DEF Distance, Here
    <3>2. UNCHANGED <<rd, wr, globalWr, cell>>
      BY <1>7, <3>1 DEF PushAll, dataVars
    <3> QED BY <1>2, <3>2
  <2> QED BY <2>1, <2>2
<1>8. ASSUME NEW l \in Listener, NEW c \in 1 .. BufSize, Ack(l, c) PROVE Stream!Next
  BY <1>8, Consumes
<1> QED BY <1>4, <1>5, <1>6, <1>7, <1>8, OneThread DEF Next, Thread

\* With one poll thread the buffer is the broadcast of whole records: every
\* listener gets the same stream, in order and without holes, at its own pace,
\* and the thread never gets a whole buffer ahead of any (hpcap_poll).
THEOREM OneImplementsBroadcast == ASSUME Consumers = 1 PROVE Spec => ImplementsBroadcast
BY BroadcastInit, BroadcastStep, OneInit, OneStep, StreamInit, StreamStep, PTL
   DEF Spec, ImplementsBroadcast, Stream!Spec

================================================================================
