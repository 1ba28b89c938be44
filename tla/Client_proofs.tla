---------------------------- MODULE Client_proofs ----------------------------
(***************************************************************************)
(* Theorems about what a client of the library relies on.                  *)
(*                                                                         *)
(* The first part is about its handle, for every size of the buffer: from  *)
(* its first answer on it is in step with its listener in the driver, and  *)
(* nothing but reading moves its read offset, as long as the listener has  *)
(* its slot and answers, and the client reads only what there is and       *)
(* acknowledges it before it waits.  The second part is about the RAW      *)
(* stream it reads, for all sizes of files, buffer, headers and frames:    *)
(* the threads stay within the buffer, whatever their number, and with one *)
(* thread the stream is made of whole records.                             *)
(***************************************************************************)
EXTENDS ClientHandle, RawFile, TLAPS, FiniteSetTheorems, WellFoundedInduction

\* What the driver has been told of: during a call the bytes that were read are
\* popped already, if the call acknowledges.
Untold == IF pc = "idle" THEN acks ELSE 0
Told   == IF pc = "idle" THEN 0 ELSE acks

\* The handle and the listener, also in the middle of a call: from the first
\* answer on the offsets differ by what the driver was not told, and before it
\* there is nothing to read; what is available was published, and an answer is
\* about the listener's offset.
Sync ==
    /\ pc # "aborted"
    /\ acks <= avail
    /\ placed => rdoff = (rd + Untold) % BufSize
    /\ ~placed => avail = 0
    /\ avail - Told <= UsedBytes
    /\ pc # "idle" => op.ack \/ acks = 0
    /\ pc = "wait" => op.expect > 0
    /\ pc = "answered" =>
         /\ lstop.available <= UsedBytes
         /\ op.expect > 0 => lstop.offset = rd

HandleInv == TypeOK /\ (Disturbed \/ Sync)

-----------------------------------------------------------------------------
\* An offset and less than a buffer more, brought back into the buffer.
LEMMA ModOnce ==
  ASSUME NEW x \in Nat, x < 2 * BufSize
  PROVE  /\ x % BufSize \in Offset
         /\ x % BufSize = IF x < BufSize THEN x ELSE x - BufSize
<1>1. BufSize \in Nat /\ BufSize > 1
  BY ClientAssumption
<1>2. /\ x = BufSize * (x \div BufSize) + (x % BufSize)
      /\ x % BufSize \in 0 .. BufSize - 1 /\ x \div BufSize \in Int
  BY <1>1
<1> DEFINE q == x \div BufSize
<1>3. q \in {0, 1}
  <2>1. CASE q <= -1
    <3>1. BufSize * q <= BufSize * (-1)
      BY <2>1, <1>1, <1>2
    <3> QED BY <3>1, <1>1, <1>2
  <2>2. CASE q >= 2
    <3>1. BufSize * q >= BufSize * 2
      BY <2>2, <1>1, <1>2
    <3> QED BY <3>1, <1>1, <1>2
  <2> QED BY <2>1, <2>2, <1>2
<1>4. BufSize * 0 = 0 /\ BufSize * 1 = BufSize
  BY <1>1
<1> QED BY <1>1, <1>2, <1>3, <1>4 DEF Offset

\* Distance is less than a buffer.
LEMMA DistanceType ==
  ASSUME NEW r \in Offset, NEW w \in Offset PROVE Distance(r, w) \in Offset
BY ClientAssumption DEF Offset, Distance

\* Popping n of the pending bytes leaves the rest pending, and pushing n bytes
\* that fit adds them.
LEMMA PopPush ==
  ASSUME NEW r \in Offset, NEW w \in Offset, NEW n \in Nat
  PROVE  /\ n <= Distance(r, w) =>
              /\ (r + n) % BufSize \in Offset
              /\ Distance((r + n) % BufSize, w) = Distance(r, w) - n
         /\ n <= (BufSize - Distance(r, w)) - 1 =>
              /\ (w + n) % BufSize \in Offset
              /\ Distance(r, (w + n) % BufSize) = Distance(r, w) + n
<1>1. BufSize \in Nat /\ BufSize > 1 /\ r \in Nat /\ w \in Nat /\ r < BufSize /\ w < BufSize
  BY ClientAssumption DEF Offset
<1>2. ASSUME n <= Distance(r, w)
      PROVE  /\ (r + n) % BufSize \in Offset
             /\ Distance((r + n) % BufSize, w) = Distance(r, w) - n
  <2>1. r + n \in Nat /\ r + n < 2 * BufSize
    BY <1>1, <1>2 DEF Distance
  <2>2. /\ (r + n) % BufSize \in Offset
        /\ (r + n) % BufSize = IF r + n < BufSize THEN r + n ELSE r + n - BufSize
    BY <1>1, <2>1, ModOnce
  <2> QED BY <1>1, <1>2, <2>2 DEF Distance
<1>3. ASSUME n <= (BufSize - Distance(r, w)) - 1
      PROVE  /\ (w + n) % BufSize \in Offset
             /\ Distance(r, (w + n) % BufSize) = Distance(r, w) + n
  <2>1. w + n \in Nat /\ w + n < 2 * BufSize
    BY <1>1, <1>3 DEF Distance
  <2>2. /\ (w + n) % BufSize \in Offset
        /\ (w + n) % BufSize = IF w + n < BufSize THEN w + n ELSE w + n - BufSize
    BY <1>1, <2>1, ModOnce
  <2> QED BY <1>1, <1>3, <2>2 DEF Distance
<1> QED BY <1>2, <1>3

\* Reading n more bytes moves an offset that is m bytes ahead by n.
LEMMA ReadOn ==
  ASSUME NEW r \in Offset, NEW m \in Offset, NEW n \in Nat, m + n < BufSize
  PROVE  /\ (((r + m) % BufSize) + n) % BufSize = (r + (m + n)) % BufSize
         /\ (((r + m) % BufSize) + n) % BufSize \in Offset
<1>1. BufSize \in Nat /\ BufSize > 1 /\ r \in Nat /\ m \in Nat /\ r < BufSize /\ m < BufSize
  BY ClientAssumption DEF Offset
<1>2. (r + m) % BufSize = IF r + m < BufSize THEN r + m ELSE r + m - BufSize
  BY <1>1, ModOnce
<1> DEFINE x == (r + m) % BufSize
<1>3. x \in Nat /\ x < BufSize
  BY <1>1, <1>2
<1>4. /\ (x + n) % BufSize = IF x + n < BufSize THEN x + n ELSE x + n - BufSize
      /\ (x + n) % BufSize \in Offset
  BY <1>1, <1>3, ModOnce
<1>5. (r + (m + n)) % BufSize = IF r + (m + n) < BufSize THEN r + (m + n)
                                ELSE r + (m + n) - BufSize
  BY <1>1, ModOnce
<1> QED BY <1>1, <1>2, <1>3, <1>4, <1>5

\* An offset stays where it is when nothing is added.
LEMMA ModOffset == \A o \in Offset : (o + 0) % BufSize = o
<1> TAKE o \in Offset
<1>1. BufSize \in Nat /\ BufSize > 1 /\ o \in Nat /\ o < BufSize /\ o + 0 = o
  BY ClientAssumption DEF Offset
<1> QED BY <1>1, ModOnce

-----------------------------------------------------------------------------
\* A handle that was just opened has nothing to read.
LEMMA HandleInit == Init => HandleInv
<1> SUFFICES ASSUME Init PROVE HandleInv
  OBVIOUS
<1>1. 0 \in Offset /\ 0 \in 0..(Word - 1)
  BY ClientAssumption DEF Offset
<1>2. TypeOK
  BY <1>1 DEF Init, TypeOK, NoOp, NoAnswer
<1>3. Sync
  <2>1. UsedBytes \in Nat
    BY DistanceType DEF Init, UsedBytes, Offset
  <2> QED BY <2>1 DEF Init, Sync, Untold, Told
<1> QED BY <1>2, <1>3 DEF HandleInv

\* The types are kept by every step.
LEMMA HandleTypes == TypeOK /\ [Next]_vars => TypeOK'
<1> SUFFICES ASSUME TypeOK, [Next]_vars PROVE TypeOK'
  OBVIOUS
<1> USE DEF TypeOK, kernelVars, handleVars, callVars, history
<1>0. /\ BufSize \in Nat /\ BufSize > 1 /\ 0 \in Offset
      /\ Word \in Nat /\ Word > 1 /\ Offset \subseteq 0..(Word - 1)
  BY ClientAssumption DEF Offset
<1>a. \A x \in Int : x % BufSize \in Offset /\ x % Word \in 0..(Word - 1)
  BY <1>0 DEF Offset
<1>b. UsedBytes \in Offset
  BY DistanceType DEF UsedBytes
<1>1. ASSUME NEW n \in 1..(BufSize - 1), Push(n) PROVE TypeOK'
  <2>1. wr + n \in Int
    BY <1>0 DEF Offset
  <2> QED BY <1>1, <2>1, <1>a DEF Push
<1>2. ASSUME NEW n \in 1..(BufSize - 1), Read(n) PROVE TypeOK'
  <2>1. rdoff + n \in Int /\ acks + n \in 0..(Word - 1)
    BY <1>2, <1>0 DEF Read, Offset
  <2> QED BY <1>2, <2>1, <1>a DEF Read
<1>3. ASSUME NEW n \in 1..(BufSize - 1), ReadPast(n) PROVE TypeOK'
  <2>1. rdoff + n \in Int /\ acks + n \in Int
    BY <1>0 DEF Offset
  <2> QED BY <1>3, <2>1, <1>a DEF ReadPast
<1>4. ASSUME NEW o \in Ops, StartOp(o) PROVE TypeOK'
  <2>1. DriverPop(acks) \in Offset
    <3>1. rd + UsedBytes \in Int /\ rd + acks \in Int
      BY <1>0, <1>b DEF Offset
    <3>2. (rd + UsedBytes) % BufSize \in Offset /\ (rd + acks) % BufSize \in Offset
      BY <3>1, <1>a
    <3> HIDE DEF TypeOK
    <3> QED BY <3>2 DEF DriverPop
  <2>2. NoAnswer \in [offset : 0..(Word - 1), available : 0..(Word - 1)]
    BY <1>0 DEF NoAnswer
  <2> QED BY <1>4, <2>1, <2>2 DEF StartOp
<1>5. CASE WaitEnds
  BY <1>5, <1>b, <1>0 DEF WaitEnds
<1>6. CASE WaitKilled
  BY <1>6 DEF WaitKilled
<1>7. CASE Answer
  <2>1. op.ack => avail - acks \in 0..(Word - 1)
    BY <1>7, <1>0 DEF Answer
  <2>2. NoAnswer \in [offset : 0..(Word - 1), available : 0..(Word - 1)]
    BY <1>0 DEF NoAnswer
  <2>3. lstop.offset % BufSize \in Offset /\ lstop.available \in 0..(Word - 1)
    BY <1>0, <1>a
  <2> QED BY <1>7, <1>0, <2>1, <2>2, <2>3 DEF Answer
<1>8. CASE KillWait \/ Delete \/ List \/ IoctlFails \/ Abort
  BY <1>8, <1>0 DEF KillWait, Delete, List, IoctlFails, Abort
<1>9. CASE UNCHANGED vars
  BY <1>9 DEF vars
<1> QED BY <1>1, <1>2, <1>3, <1>4, <1>5, <1>6, <1>7, <1>8, <1>9 DEF Next

\* An undisturbed step keeps the handle in step.
LEMMA SyncStep == TypeOK /\ Sync /\ ~Disturbed' /\ [Next]_vars => Sync'
<1> SUFFICES ASSUME TypeOK, Sync, ~Disturbed', [Next]_vars PROVE Sync'
  OBVIOUS
<1> USE DEF kernelVars, handleVars, callVars, history
<1>0. BufSize \in Nat /\ BufSize > 1 /\ 0 \in Offset
  BY ClientAssumption DEF Offset
<1>a. /\ rd \in Offset /\ wr \in Offset /\ rdoff \in Offset /\ avail \in Nat
      /\ acks \in Nat /\ UsedBytes \in Offset /\ UsedBytes = Distance(rd, wr)
      /\ Offset \subseteq Nat
  BY ClientAssumption, DistanceType DEF TypeOK, UsedBytes, Offset
<1>b. \A o \in Offset : (o + 0) % BufSize = o
  BY ModOffset
<1>1. ASSUME NEW n \in 1..(BufSize - 1), Push(n) PROVE Sync'
  <2>1. n \in Nat /\ n <= (BufSize - Distance(rd, wr)) - 1
    BY <1>1, <1>0 DEF Push, AvailBytes, UsedBytes
  <2>2. UsedBytes' = UsedBytes + n
    BY <1>1, <1>a, <2>1, PopPush DEF Push, UsedBytes
  <2>3. /\ avail - Told <= UsedBytes + n /\ Told' = Told /\ Untold' = Untold
        /\ pc = "answered" => lstop.available <= UsedBytes + n
    <3>1. Told \in Nat
      BY <1>a DEF Told
    <3> QED BY <1>1, <1>a, <2>1, <3>1, ClientAssumption
            DEF Push, Sync, Told, Untold, TypeOK, Offset
  <2> QED BY <1>1, <2>2, <2>3 DEF Push, Sync
<1>2. ASSUME NEW n \in 1..(BufSize - 1), Read(n) PROVE Sync'
  <2>1. /\ pc = "idle" /\ pc' = "idle" /\ acks + n <= avail /\ avail <= UsedBytes
        /\ placed /\ rdoff = (rd + acks) % BufSize
    <3>1. acks + n <= avail /\ avail # 0
      BY <1>2, <1>0, <1>a DEF Read
    <3>2. pc = "idle" /\ pc' = "idle" /\ avail - 0 <= UsedBytes
      BY <1>2 DEF Read, Sync, Told
    <3> QED BY <3>1, <3>2, <1>a DEF Sync, Untold, Offset
  <2>2. rdoff' = (rd + acks') % BufSize
    <3>1. n \in Nat /\ acks + n < BufSize /\ acks \in Offset
      BY <1>0, <1>a, <2>1 DEF Offset
    <3>2. (((rd + acks) % BufSize) + n) % BufSize = (rd + (acks + n)) % BufSize
      BY <3>1, <1>a, ReadOn
    <3> QED BY <1>2, <2>1, <3>2 DEF Read
  <2>3. UsedBytes' = UsedBytes
    BY <1>2 DEF Read, UsedBytes
  <2> QED BY <1>2, <2>1, <2>2, <2>3 DEF Read, Sync, Untold, Told
<1>3. CASE KillWait
  BY <1>3 DEF KillWait, Sync, Untold, Told, UsedBytes
<1>4. ASSUME NEW o \in Ops, StartOp(o) PROVE Sync'
  <2>1. /\ pc = "idle" /\ (placed => rdoff = (rd + acks) % BufSize) /\ acks <= avail
        /\ avail <= UsedBytes /\ op' = o /\ (o.ack \/ acks = 0)
        /\ pc' \in {"wait", "answered"} /\ (pc' = "wait" <=> o.expect > 0)
        /\ lstop' = NoAnswer /\ UNCHANGED <<wr, kill, rdoff, avail, acks, placed>>
    <3>1. /\ pc = "idle" /\ (placed => rdoff = (rd + acks) % BufSize) /\ acks <= avail
          /\ avail - 0 <= UsedBytes
      BY <1>4 DEF StartOp, Sync, Untold, Told
    <3>2. o.ack \/ acks = 0
      <4>1. flaws' = {}
        BY DEF Disturbed
      <4>2. ~(~o.ack /\ acks > 0)
        BY <4>1, <1>4 DEF StartOp
      <4>3. acks \in Nat
        BY <1>a
      <4> QED BY <4>2, <4>3
    <3>3. avail <= UsedBytes
      BY <3>1, <1>a DEF Offset
    <3> QED BY <1>4, <3>1, <3>2, <3>3 DEF StartOp
  <2>2. rd' = (rd + acks) % BufSize /\ UsedBytes' = UsedBytes - acks
    <3>1. CASE o.ack /\ acks > 0
      <4>1. rd' = (rd + acks) % BufSize
        BY <1>4, <3>1, <1>a, <2>1 DEF StartOp, DriverPop, Offset
      <4>2. acks <= Distance(rd, wr)
        BY <1>a, <2>1 DEF Offset
      <4> QED BY <4>1, <4>2, <1>a, <2>1, PopPush DEF UsedBytes
    <3>2. CASE ~(o.ack /\ acks > 0)
      <4>1. acks = 0 /\ rd' = rd
        BY <1>4, <3>2, <1>a, <2>1 DEF StartOp, Offset
      <4> QED BY <4>1, <1>a, <1>b, <2>1 DEF UsedBytes, Offset
    <3> QED BY <3>1, <3>2
  <2>3. rd' \in Offset /\ (placed' => rdoff' = (rd' + 0) % BufSize)
    <3>1. rd' \in Offset
      BY <2>2, <1>0, <1>a DEF Offset
    <3> QED BY <2>1, <2>2, <3>1, <1>b
  <2>4. avail' - acks' <= UsedBytes' /\ 0 <= UsedBytes'
    BY <2>1, <2>2, <1>a DEF Offset
  <2>5. lstop'.available <= UsedBytes' /\ ~(pc' = "answered" /\ op'.expect > 0)
    BY <2>1, <2>4 DEF NoAnswer
  <2>6. ~placed' => avail' = 0
    BY <2>1 DEF Sync
  <2> QED BY <2>1, <2>3, <2>4, <2>5, <2>6 DEF Sync, Untold, Told
<1>5. CASE WaitEnds
  <2>1. /\ pc = "wait" /\ pc' = "answered"
        /\ UNCHANGED <<rd, wr, rdoff, avail, acks, op, placed>>
        /\ lstop'.offset = rd /\ lstop'.available = UsedBytes
    BY <1>5 DEF WaitEnds
  <2>2. UsedBytes' = UsedBytes
    BY <2>1 DEF UsedBytes
  <2> QED BY <2>1, <2>2, <1>a DEF Sync, Untold, Told, Offset
<1>6. CASE WaitKilled
  BY <1>6 DEF WaitKilled, Disturbed
<1>7. CASE Answer
  <2>1. /\ pc = "answered" /\ pc' = "idle" /\ UNCHANGED <<rd, wr>>
        /\ (placed => rdoff = rd) /\ acks <= avail /\ avail - acks <= UsedBytes
        /\ (op.ack \/ acks = 0) /\ lstop.available <= UsedBytes
        /\ op.expect > 0 => lstop.offset = rd
        /\ ~placed => avail = 0
    BY <1>7, <1>a, <1>b DEF Answer, Sync, Untold, Told
  <2>2. acks' = 0 /\ (placed' => rdoff' = rd)
    <3>1. rd % BufSize = rd
      BY <1>a, <1>b DEF Offset
    <3> QED BY <1>7, <2>1, <3>1 DEF Answer
  <2>3. avail' \in Nat /\ avail' <= UsedBytes /\ (~placed' => avail' = 0)
    <3>1. lstop.available \in Nat /\ UsedBytes \in Nat
      BY <1>a, ClientAssumption DEF TypeOK
    <3>2. avail - acks \in Nat /\ (acks = 0 => avail - acks = avail)
      BY <2>1, <1>a
    <3>3. CASE op.expect > 0 /\ lstop.available >= op.expect
      BY <1>7, <3>3, <3>1, <2>1 DEF Answer
    <3>4. CASE ~(op.expect > 0 /\ lstop.available >= op.expect)
      <4>1. avail' = avail - acks /\ placed' = placed
        BY <1>7, <3>4, <3>2, <2>1 DEF Answer, TypeOK
      <4>2. ~placed => avail - acks = 0
        BY <2>1, <3>2, <1>a
      <4> QED BY <4>1, <4>2, <3>2, <2>1
    <3> QED BY <3>3, <3>4
  <2>4. UsedBytes' = UsedBytes /\ (placed' => rdoff' = (rd' + 0) % BufSize)
    BY <2>1, <2>2, <1>a, <1>b DEF UsedBytes
  <2>5. avail' \in Int /\ avail' - 0 = avail'
    <3>1. avail' \in Nat
      BY <2>3
    <3>2. \A x \in Nat : x \in Int /\ x - 0 = x
      OBVIOUS
    <3> QED BY <3>1, <3>2
  <2> QED BY <2>1, <2>2, <2>3, <2>4, <2>5 DEF Sync, Untold, Told
<1>8. CASE Abort
  BY <1>8, <1>a DEF Abort, Sync
<1>9. CASE UNCHANGED vars
  BY <1>9 DEF vars, Sync, Untold, Told, UsedBytes
<1>10. ASSUME NEW n \in 1..(BufSize - 1), ReadPast(n) PROVE FALSE
  BY <1>10 DEF ReadPast, Disturbed
<1>11. CASE Delete \/ List
  BY <1>11 DEF Delete, List, Disturbed
<1>12. CASE IoctlFails
  BY <1>12 DEF IoctlFails, Disturbed
<1> QED BY <1>1, <1>2, <1>3, <1>4, <1>5, <1>6, <1>7, <1>8, <1>9, <1>10, <1>11, <1>12 DEF Next

\* A disturbed handle stays disturbed.
LEMMA DisturbedStays == Disturbed /\ [Next]_vars => Disturbed'
BY DEF Disturbed, Next, Push, Read, ReadPast, KillWait, Delete, List, StartOp, IoctlFails,
       WaitEnds, WaitKilled, Answer, Abort, vars, kernelVars, handleVars, callVars, history

\* So the invariant is kept by every step.
LEMMA HandleStep == HandleInv /\ [Next]_vars => HandleInv'
BY HandleTypes, SyncStep, DisturbedStays DEF HandleInv

-----------------------------------------------------------------------------
\* The read offset stays inside the buffer and the counts inside their 64 bits,
\* whatever the order of calls and whatever a killed wait was answered.
THEOREM ClientTypeCorrect == Spec => []TypeOK
<1>1. HandleInv => TypeOK
  BY DEF HandleInv
<1> QED BY HandleInit, HandleStep, <1>1, PTL DEF Spec

\* The handle and the listener agree between two calls, for every buffer, wherever
\* the listener was placed in it, and every order of reads, acknowledgements,
\* waits that time out, kill marks and pushes.
THEOREM HandleStaysInSync == Spec => []HandleInSync
<1>1. HandleInv => HandleInSync
  <2> SUFFICES ASSUME TypeOK, Sync PROVE HandleInSync
    BY DEF HandleInv, HandleInSync
  <2>1. avail - 0 = avail
    BY ClientAssumption DEF TypeOK
  <2> QED BY <2>1 DEF HandleInSync, Sync, Untold, Told
<1> QED BY HandleInit, HandleStep, <1>1, PTL DEF Spec

\* The first answer takes the handle to the listener's offset, and no call moves
\* the read offset after it: no byte is skipped and none is read again.
THEOREM OffsetNeverJumps == Spec => ReadOffsetNeverJumps
<1>1. HandleInv /\ [Next]_vars =>
        [~Disturbed /\ pc # "idle" => rdoff' = IF placed' /\ ~placed THEN rd ELSE rdoff]_vars
  <2> SUFFICES ASSUME HandleInv, Next, ~Disturbed, pc # "idle"
               PROVE rdoff' = IF placed' /\ ~placed THEN rd ELSE rdoff
    OBVIOUS
  <2>1. Sync /\ rd \in Offset /\ (placed => rdoff = rd) /\ rd % BufSize = rd
    <3>1. Sync /\ rd \in Offset /\ (rd + 0) % BufSize = rd
      BY ModOffset DEF HandleInv, TypeOK
    <3>2. rd + 0 = rd
      BY <3>1 DEF Offset
    <3> QED BY <3>1, <3>2 DEF Sync, Untold
  <2>2. CASE Answer
    BY <2>2, <2>1 DEF Answer, Sync
  <2>3. CASE ~Answer
    BY <2>3 DEF Next, Push, Read, ReadPast, KillWait, Delete, List, StartOp, IoctlFails,
                WaitEnds, WaitKilled, Abort, handleVars, history
  <2> QED BY <2>2, <2>3
<1> QED BY HandleInit, HandleStep, <1>1, PTL DEF Spec, ReadOffsetNeverJumps

-----------------------------------------------------------------------------
(***************************************************************************)
(* Remainders, and the running offsets of module RawFile.                  *)
(***************************************************************************)
\* A remainder and its quotient.
LEMMA Division ==
  ASSUME NEW x \in Int, NEW d \in Nat \ {0}
  PROVE  /\ x \div d \in Int /\ x % d \in 0..(d - 1)
         /\ x = d * (x \div d) + (x % d)
OBVIOUS

\* The remainder is unique.
LEMMA Remainder ==
  ASSUME NEW d \in Nat \ {0}, NEW q \in Int, NEW r \in 0..(d - 1)
  PROVE  (d * q + r) % d = r
<1> DEFINE x == d * q + r
<1>1. x \in Int /\ x \div d \in Int /\ x % d \in 0..(d - 1) /\ x = d * (x \div d) + (x % d)
  <2>1. x \in Int
    OBVIOUS
  <2> QED BY <2>1, Division
<1> DEFINE e == (x \div d) - q
           z == x % d
<1>2. e \in Int /\ z \in 0..(d - 1) /\ d * e = d * (x \div d) - d * q /\ d * e \in Int
  BY <1>1
<1>3. d * e = r - z
  BY <1>1, <1>2
<1> HIDE DEF e, z
<1>4. e = 0
  <2>1. CASE e >= 1
    <3>1. d * e >= d * 1 /\ d * 1 = d
      BY <2>1, <1>2
    <3> QED BY <3>1, <1>2, <1>3
  <2>2. CASE e <= -1
    <3>1. d * e <= d * (-1) /\ d * (-1) = -d
      BY <2>2, <1>2
    <3> QED BY <3>1, <1>2, <1>3
  <2> QED BY <2>1, <2>2, <1>2
<1>5. d * e = 0
  BY <1>4
<1>6. z = r
  BY <1>2, <1>3, <1>5
<1> QED BY <1>6 DEF z

\* Adding a multiple does not change a remainder.
LEMMA RemainderSame ==
  ASSUME NEW d \in Nat \ {0}, NEW x \in Int, NEW q \in Int
  PROVE  (x + d * q) % d = x % d
<1>1. x \div d \in Int /\ x % d \in 0..(d - 1) /\ x = d * (x \div d) + (x % d)
  BY Division
<1> DEFINE p == (x \div d) + q
<1>2. p \in Int /\ x + d * q = d * p + (x % d)
  BY <1>1
<1> HIDE DEF p
<1> QED BY <1>1, <1>2, Remainder

\* Two numbers with the same remainder that are close to each other are equal.
LEMMA RemainderNear ==
  ASSUME NEW d \in Nat \ {0}, NEW x \in Int, NEW y \in Int, x % d = y % d,
         x - y < d, y - x < d
  PROVE  x = y
<1>1. /\ x \div d \in Int /\ x % d \in 0..(d - 1) /\ x = d * (x \div d) + (x % d)
      /\ y \div d \in Int /\ y = d * (y \div d) + (y % d)
  BY Division
<1> DEFINE e == (x \div d) - (y \div d)
<1>2. e \in Int /\ d * e = x - y /\ d * e \in Int
  BY <1>1
<1> HIDE DEF e
<1>3. e = 0
  <2>1. CASE e >= 1
    <3>1. d * e >= d * 1 /\ d * 1 = d
      BY <2>1, <1>2
    <3> QED BY <3>1, <1>2
  <2>2. CASE e <= -1
    <3>1. d * e <= d * (-1) /\ d * (-1) = -d
      BY <2>2, <1>2
    <3> QED BY <3>1, <1>2
  <2> QED BY <2>1, <2>2, <1>2
<1> QED BY <1>2, <1>3

\* A remainder is kept under addition.
LEMMA RemainderAdd ==
  ASSUME NEW d \in Nat \ {0}, NEW x \in Int, NEW y \in Int, NEW z \in Int, x % d = y % d
  PROVE  (x + z) % d = (y + z) % d
<1>1. /\ x \div d \in Int /\ x % d \in 0..(d - 1) /\ x = d * (x \div d) + (x % d)
      /\ y \div d \in Int /\ y = d * (y \div d) + (y % d)
  BY Division
<1> DEFINE e == (x \div d) - (y \div d)
<1>2. e \in Int /\ x + z = (y + z) + d * e
  BY <1>1
<1> HIDE DEF e
<1>3. y + z \in Int
  OBVIOUS
<1>4. ((y + z) + d * e) % d = (y + z) % d
  BY <1>2, <1>3, RemainderSame
<1> QED BY <1>2, <1>4

\* Two numbers with the same remainder differ by a multiple.
Congruent(x, y, d) == \E e \in Int : x = y + d * e

LEMMA SameRemainder ==
  ASSUME NEW d \in Nat \ {0}, NEW x \in Int, NEW y \in Int
  PROVE  x % d = y % d <=> Congruent(x, y, d)
<1>1. ASSUME x % d = y % d PROVE Congruent(x, y, d)
  <2>1. /\ x \div d \in Int /\ x % d \in 0..(d - 1) /\ x = d * (x \div d) + (x % d)
        /\ y \div d \in Int /\ y = d * (y \div d) + (y % d)
    BY Division
  <2> DEFINE e == (x \div d) - (y \div d)
  <2>2. e \in Int /\ x = y + d * e
    BY <1>1, <2>1
  <2> HIDE DEF e
  <2> QED BY <2>2 DEF Congruent
<1>2. ASSUME Congruent(x, y, d) PROVE x % d = y % d
  <2>1. PICK e \in Int : x = y + d * e
    BY <1>2 DEF Congruent
  <2> QED BY <2>1, RemainderSame
<1> QED BY <1>1, <1>2

\* The same for two numbers at the same distance from them.
LEMMA CongruentShift ==
  ASSUME NEW d \in Nat \ {0}, NEW x \in Int, NEW y \in Int, NEW u \in Int, NEW v \in Int,
         Congruent(x, y, d), u - x = v - y
  PROVE  Congruent(u, v, d)
BY DEF Congruent

\* A number below the divisor is its own remainder.
LEMMA RemainderSmall ==
  ASSUME NEW d \in Nat \ {0}, NEW r \in 0..(d - 1) PROVE r % d = r
<1>1. d * 0 + r = r
  OBVIOUS
<1> QED BY <1>1, Remainder

\* The running offsets are whole buffers and whole files.
LEMMA RawSizes ==
  /\ FileSize \in Nat \ {0} /\ BufBytes \in Nat \ {0} /\ OffsetMod \in Nat \ {0}
  /\ BufBytes <= OffsetMod /\ FileSize <= OffsetMod /\ RawHlen <= FileSize
  /\ OffsetMod % BufBytes = 0 /\ OffsetMod % FileSize = 0
  /\ RawHlen \in Nat \ {0} /\ LenMod \in Nat \ {0} /\ Consumers \in Nat \ {0}
  /\ \A n \in Records : /\ n \in Nat /\ n > RawHlen /\ n <= LenMod
                        /\ n + RawHlen <= FileSize /\ n < BufBytes
<1>1. /\ FileSize \in Nat \ {0} /\ BufBytes \in Nat \ {0}
      /\ FileSize % BufBytes = 0 \/ BufBytes % FileSize = 0
  BY RawFileAssumption
<1>2. \A d \in Nat \ {0} : d % d = 0
  <2> TAKE d \in Nat \ {0}
  <2>1. d * 1 + 0 = d /\ 0 \in 0..(d - 1) /\ 1 \in Int
    OBVIOUS
  <2> QED BY <2>1, Remainder
<1>3. CASE FileSize > BufBytes
  <2>1. BufBytes % FileSize = BufBytes
    <3>1. BufBytes \in 0..(FileSize - 1)
      BY <1>1, <1>3
    <3> QED BY <3>1, <1>1, RemainderSmall
  <2>2. FileSize % BufBytes = 0
    BY <2>1, <1>1
  <2> QED BY <1>1, <1>2, <1>3, <2>2, RawFileAssumption DEF OffsetMod
<1>4. CASE ~(FileSize > BufBytes)
  <2>1. BufBytes % FileSize = 0
    <3>1. CASE FileSize = BufBytes
      BY <3>1, <1>1, <1>2
    <3>2. CASE FileSize # BufBytes
      <4>1. FileSize \in 0..(BufBytes - 1) /\ FileSize # 0
        BY <1>1, <1>4, <3>2
      <4>2. FileSize % BufBytes = FileSize
        BY <4>1, <1>1, RemainderSmall
      <4> QED BY <4>1, <4>2, <1>1
    <3> QED BY <3>1, <3>2
  <2> QED BY <1>1, <1>2, <1>4, <2>1, RawFileAssumption DEF OffsetMod
<1> QED BY <1>3, <1>4

\* A remainder of a running offset is that of the offset before it wrapped.
LEMMA RunningRemainder ==
  ASSUME NEW x \in Int
  PROVE  /\ AsBufferOffset(x % OffsetMod) = AsBufferOffset(x)
         /\ AsFileOffset(x % OffsetMod) = AsFileOffset(x)
<1>1. ASSUME NEW d \in Nat \ {0}, OffsetMod % d = 0 PROVE (x % OffsetMod) % d = x % d
  <2>1. OffsetMod \div d \in Int /\ OffsetMod = d * (OffsetMod \div d)
    BY <1>1, RawSizes, Division
  <2>2. x \div OffsetMod \in Int /\ x % OffsetMod \in Int
        /\ x = OffsetMod * (x \div OffsetMod) + (x % OffsetMod)
    BY RawSizes, Division
  <2> DEFINE e == OffsetMod \div d
             f == x \div OffsetMod
             r == x % OffsetMod
  <2>3. OffsetMod = d * e /\ x = (d * e) * f + r /\ e \in Int /\ f \in Int /\ r \in Int
    BY <2>1, <2>2
  <2> HIDE DEF e, f, r
  <2>4. (d * e) * f = d * (e * f) /\ e * f \in Int
    BY <2>3
  <2>5. x = r + d * (e * f)
    BY <2>3, <2>4
  <2>6. x % d = r % d
    BY <2>5, <2>4, <2>3, RemainderSame
  <2> QED BY <2>6 DEF r
<1> QED BY <1>1, RawSizes DEF AsBufferOffset, AsFileOffset

\* One running offset is ahead of another by their difference modulo OffsetMod.
LEMMA Ahead ==
  ASSUME NEW a \in RunningOffset, NEW b \in Int, NEW g \in Int, (a - b) % OffsetMod = g
  PROVE  /\ g \in RunningOffset /\ a = (b + g) % OffsetMod
         /\ AsBufferOffset(a) = AsBufferOffset(b + g)
         /\ AsFileOffset(a) = AsFileOffset(b + g)
<1>1. OffsetMod \in Nat \ {0} /\ a \in 0..(OffsetMod - 1) /\ a \in Int
  BY RawSizes DEF RunningOffset
<1>2. (a - b) \div OffsetMod \in Int /\ g \in 0..(OffsetMod - 1)
      /\ a - b = OffsetMod * ((a - b) \div OffsetMod) + g
  <2>1. a - b \in Int
    BY <1>1
  <2> QED BY <1>1, <2>1, Division
<1> DEFINE q == (a - b) \div OffsetMod
<1>3. q \in Int /\ a - b = OffsetMod * q + g
  BY <1>2
<1> HIDE DEF q
<1>4. a % OffsetMod = (b + g) % OffsetMod
  <2>1. OffsetMod * q \in Int /\ b + g \in Int
    BY <1>1, <1>3
  <2>2. a = (b + g) + OffsetMod * q
    BY <1>1, <1>3, <2>1
  <2>3. ((b + g) + OffsetMod * q) % OffsetMod = (b + g) % OffsetMod
    BY <1>1, <1>3, <2>1, RemainderSame
  <2> QED BY <2>2, <2>3
<1>5. a = (b + g) % OffsetMod
  BY <1>1, <1>4, RemainderSmall
<1> QED BY <1>1, <1>2, <1>5, RunningRemainder DEF RunningOffset

\* The distance of two running offsets after one of them moved, as long as it
\* does not reach round the whole range.
LEMMA Moved ==
  ASSUME NEW a \in Int, NEW b \in Int, NEW n \in Int,
         ((a - b) % OffsetMod) + n \in 0..(OffsetMod - 1)
  PROVE  /\ (((a + n) % OffsetMod) - b) % OffsetMod = ((a - b) % OffsetMod) + n
         /\ (a - ((b - n) % OffsetMod)) % OffsetMod = ((a - b) % OffsetMod) + n
<1>1. OffsetMod \in Nat \ {0}
  BY RawSizes
<1>2. /\ (a - b) \div OffsetMod \in Int /\ (a - b) % OffsetMod \in Int
      /\ a - b = OffsetMod * ((a - b) \div OffsetMod) + ((a - b) % OffsetMod)
      /\ (a + n) \div OffsetMod \in Int /\ (a + n) % OffsetMod \in Int
      /\ a + n = OffsetMod * ((a + n) \div OffsetMod) + ((a + n) % OffsetMod)
      /\ (b - n) \div OffsetMod \in Int /\ (b - n) % OffsetMod \in Int
      /\ b - n = OffsetMod * ((b - n) \div OffsetMod) + ((b - n) % OffsetMod)
  <2>1. a - b \in Int /\ a + n \in Int /\ b - n \in Int
    OBVIOUS
  <2> QED BY <1>1, <2>1, Division
<1> DEFINE g == (a - b) % OffsetMod
           q == (a - b) \div OffsetMod
           h == (a + n) % OffsetMod
           p == (a + n) \div OffsetMod
           i == (b - n) % OffsetMod
           o == (b - n) \div OffsetMod
<1>3. /\ g \in Int /\ q \in Int /\ h \in Int /\ p \in Int /\ i \in Int /\ o \in Int
      /\ a - b = OffsetMod * q + g /\ a + n = OffsetMod * p + h /\ b - n = OffsetMod * o + i
      /\ g + n \in 0..(OffsetMod - 1)
  BY <1>2
<1>4. (h - b) % OffsetMod = g + n
  <2> HIDE DEF g, q, h, p
  <2>1. h - b = OffsetMod * (q - p) + (g + n) /\ q - p \in Int
    BY <1>1, <1>3
  <2> QED BY <1>1, <1>3, <2>1, Remainder
<1>5. (a - i) % OffsetMod = g + n
  <2> HIDE DEF g, q, i, o
  <2>1. a - i = OffsetMod * (q + o) + (g + n) /\ q + o \in Int
    BY <1>1, <1>3
  <2> QED BY <1>1, <1>3, <2>1, Remainder
<1> QED BY <1>4, <1>5

-----------------------------------------------------------------------------
(***************************************************************************)
(* The recursive functions of module RawFile are defined.                  *)
(***************************************************************************)
Cell == [kind : {"data", "pad", "frame"}, len : Nat]

\* What a byte of the buffer holds has a length.
LEMMA CellAtType ==
  ASSUME RawTypeOK, NEW k \in Int
  PROVE  /\ AsBufferOffset(pubOff - k) \in 0..(BufBytes - 1)
         /\ CellAt(k) \in Cell
<1>1. pubOff - k \in Int
  BY RawSizes DEF RawTypeOK, RunningOffset
<1>2. AsBufferOffset(pubOff - k) \in 0..(BufBytes - 1)
  BY <1>1, RawSizes, Division DEF AsBufferOffset
<1> QED BY <1>2 DEF CellAt, RawTypeOK, Cell

\* hpcap_read_packet on k bytes, when it goes on after padding as rest says.
LeftWith(k, n, rest) ==
    LET h == CellAt(k)
    IN  IF n = 4 \/ k < RawHlen THEN {-1}
        ELSE IF IsSplit(k) THEN {-1} \cup 0..(k - RawHlen)
        ELSE IF h.kind = "data" \/ h.len > k THEN {-1}
        ELSE IF h.kind = "frame" THEN {k - h.len}
        ELSE rest[k - h.len]

\* The headers are read one by one, at most four.
LEMMA LeftUnfolds ==
  ASSUME NEW k \in 0..BufBytes, NEW n \in 0..4
  PROVE  LeftAfterPacket[n][k] = LeftWith(k, n, LeftAfterPacket[n + 1])
<1> DEFINE K == 0..BufBytes
           Level(m, g) == [j \in K |-> LeftWith(j, m, g)]
           G4 == Level(4, {})
           G3 == Level(3, G4)
           G2 == Level(2, G3)
           G1 == Level(1, G2)
           G0 == Level(0, G1)
           f == [m \in 0..4 |-> IF m = 4 THEN G4 ELSE IF m = 3 THEN G3
                                ELSE IF m = 2 THEN G2 ELSE IF m = 1 THEN G1 ELSE G0]
           Loop(F) == F = [m \in 0..4 |-> Level(m, F[m + 1])]
<1>1. \A g : Level(4, g) = G4
  BY DEF LeftWith
<1>2. Loop(f)
  <2> HIDE DEF Level
  <2>1. \A m \in 0..4 : m = 4 \/ m = 3 \/ m = 2 \/ m = 1 \/ m = 0
    OBVIOUS
  <2>2. f[4] = G4 /\ f[3] = Level(3, f[4]) /\ f[2] = Level(2, f[3])
        /\ f[1] = Level(1, f[2]) /\ f[0] = Level(0, f[1])
    OBVIOUS
  <2>3. f[4] = Level(4, f[4 + 1])
    BY <1>1, <2>2
  <2>4. f = [m \in 0..4 |-> f[m]]
    OBVIOUS
  <2> HIDE DEF f
  <2>5. \A m \in 0..4 : f[m] = Level(m, f[m + 1])
    BY <2>1, <2>2, <2>3
  <2> QED BY <2>4, <2>5
<1>3. LeftAfterPacket = CHOOSE F : Loop(F)
  BY DEF LeftAfterPacket, LeftWith
<1>4. Loop(LeftAfterPacket)
  <2> HIDE DEF Loop, f
  <2> QED BY <1>2, <1>3
<1> HIDE DEF f
<1>5. LeftAfterPacket[n] = Level(n, LeftAfterPacket[n + 1])
  <2> HIDE DEF Level
  <2> QED BY <1>4
<1> QED BY <1>5

\* Induction over the natural numbers, in the form of a set.
LEMMA NaturalInduction ==
  ASSUME NEW S, 0 \in S, \A n \in Nat : n \in S => n + 1 \in S
  PROVE  \A n \in Nat : n \in S
<1> DEFINE T == Nat \ S
           R == OpToRel(<, Nat)
<1> SUFFICES ASSUME T # {} PROVE FALSE
  OBVIOUS
<1>1. IsWellFoundedOn(R, Nat) /\ T \subseteq Nat
  BY NatLessThanWellFounded
<1> HIDE DEF T, R
<1>2. PICK x \in T : \A y \in T : ~(<<y, x>> \in R)
  BY <1>1, WFMin
<1>3. x \in Nat /\ x # 0 /\ x - 1 \in Nat
  BY <1>2 DEF T
<1>4. <<x - 1, x>> \in R
  BY <1>3 DEF R, OpToRel
<1>5. x - 1 \in S
  BY <1>2, <1>3, <1>4 DEF T
<1>6. (x - 1) + 1 \in S
  BY <1>3, <1>5
<1> QED BY <1>2, <1>3, <1>6 DEF T

\* A packet leaves no more bytes than there were.
LEMMA LeftRange ==
  ASSUME RawTypeOK, NEW k \in 0..BufBytes, NEW n \in 0..4
  PROVE  LeftAfterPacket[n][k] \subseteq {-1} \cup 0..k
<1> DEFINE Fits(m) == \A j \in 0..BufBytes : LeftAfterPacket[m][j] \subseteq {-1} \cup 0..j
           S == {m \in Nat : m <= 4 => Fits(4 - m)}
<1>1. 0 \in S
  <2>1. \A j \in 0..BufBytes : LeftAfterPacket[4][j] = {-1}
    <3> TAKE j \in 0..BufBytes
    <3>1. LeftAfterPacket[4][j] = LeftWith(j, 4, LeftAfterPacket[4 + 1])
      <4>1. 4 \in 0..4
        OBVIOUS
      <4> QED BY <4>1, LeftUnfolds
    <3> QED BY <3>1 DEF LeftWith
  <2> QED BY <2>1
<1>2. ASSUME NEW m \in Nat, m \in S PROVE m + 1 \in S
  <2> SUFFICES ASSUME m + 1 <= 4 PROVE Fits(4 - (m + 1))
    OBVIOUS
  <2> DEFINE i == 4 - (m + 1)
  <2>1. i \in 0..4 /\ i + 1 = 4 - m /\ m <= 4
    OBVIOUS
  <2>2. Fits(i + 1)
    BY <1>2, <2>1
  <2> HIDE DEF i
  <2>3. ASSUME NEW j \in 0..BufBytes PROVE LeftAfterPacket[i][j] \subseteq {-1} \cup 0..j
    <3>1. LeftAfterPacket[i][j] = LeftWith(j, i, LeftAfterPacket[i + 1])
      BY <2>1, LeftUnfolds
    <3>2. CellAt(j).len \in Nat /\ RawHlen \in Nat /\ j \in Nat /\ BufBytes \in Nat
      BY CellAtType, RawSizes DEF Cell
    <3>3. CASE ~(CellAt(j).len > j)
      <4>1. j - CellAt(j).len \in 0..BufBytes /\ 0..(j - CellAt(j).len) \subseteq 0..j
            /\ 0..(j - RawHlen) \subseteq 0..j /\ j - CellAt(j).len \in 0..j
        BY <3>2, <3>3
      <4>2. LeftAfterPacket[i + 1][j - CellAt(j).len] \subseteq {-1} \cup 0..j
        BY <2>2, <4>1
      <4> QED BY <3>1, <4>1, <4>2 DEF LeftWith
    <3>4. CASE CellAt(j).len > j
      <4>1. 0..(j - RawHlen) \subseteq 0..j
        BY <3>2
      <4> QED BY <3>1, <3>4, <4>1 DEF LeftWith
    <3> QED BY <3>3, <3>4
  <2>4. Fits(i)
    BY <2>3
  <2> QED BY <2>4 DEF i
<1> HIDE DEF S
<1>3. \A m \in Nat : m \in S
  BY <1>1, <1>2, NaturalInduction
<1>4. 4 - n \in Nat /\ 4 - n <= 4 /\ 4 - (4 - n) = n
  OBVIOUS
<1>5. Fits(4 - (4 - n))
  BY <1>3, <1>4 DEF S
<1>6. Fits(n)
  BY <1>4, <1>5
<1> QED BY <1>6

-----------------------------------------------------------------------------
(***************************************************************************)
(* The bytes in use.  The threads share what was free when it was last     *)
(* published, and a thread reserves no more than its share: share[c + 1] - *)
(* share[c] bytes, which it has counted and which leave room for a header. *)
(***************************************************************************)
Reserved == (writeOff - pubOff) % OffsetMod

SharesOf(share) ==
    /\ share[0] = 0 /\ share[Consumers] = Reserved
    /\ \A c \in Consumer :
          LET n == share[c + 1] - share[c]
          IN  /\ n >= 0 /\ n <= cnt[c] /\ n <= limit[c]
              /\ n = 0 \/ n + RawHlen <= limit[c]

InShares == \E share \in [0..Consumers -> Nat] : SharesOf(share)

LimitsFit ==
    \E l \in Nat : /\ \A c \in Consumer : limit[c] = l
                   /\ Consumers * l + Used < BufBytes

Busy == {"retry", "padTail", "padHead", "padGap", "frame"}
Idle == {"rx", "done"}

SizesKept ==
    /\ stage \in [Consumer -> Busy \cup Idle]
    /\ \A c \in Consumer : stage[c] \in Busy => size[c] \in Records

RawInv == RawTypeOK /\ InShares /\ LimitsFit /\ SizesKept

\* All the shares together are no more than that many times the largest.
LEMMA ShareBound ==
  ASSUME NEW share \in [0..Consumers -> Nat], NEW l \in Nat, share[0] = 0,
         \A c \in Consumer : share[c + 1] - share[c] <= l
  PROVE  share[Consumers] <= Consumers * l
<1>1. Consumers \in Nat \ {0}
  BY RawSizes
<1> DEFINE S == {j \in Nat : j <= Consumers => share[j] <= j * l}
<1>2. 0 \in S
  OBVIOUS
<1>3. ASSUME NEW j \in Nat, j \in S PROVE j + 1 \in S
  <2> SUFFICES ASSUME j + 1 <= Consumers PROVE share[j + 1] <= (j + 1) * l
    OBVIOUS
  <2>1. j \in Consumer /\ j \in 0..Consumers /\ j + 1 \in 0..Consumers /\ j <= Consumers
    BY <1>1 DEF Consumer
  <2>2. share[j + 1] - share[j] <= l /\ share[j] <= j * l
    BY <1>3, <2>1
  <2>3. share[j] \in Nat /\ share[j + 1] \in Nat /\ j * l \in Nat /\ (j + 1) * l = j * l + l
    BY <2>1
  <2> QED BY <2>2, <2>3
<1> HIDE DEF S
<1>4. \A j \in Nat : j \in S
  BY <1>2, <1>3, NaturalInduction
<1> QED BY <1>1, <1>4 DEF S

\* What the threads reserved, with what is unread, fits in the buffer.
LEMMA ReservedFits ==
  ASSUME RawTypeOK, InShares, LimitsFit
  PROVE  /\ Reserved \in Nat /\ Used \in Nat
         /\ Used + Reserved < BufBytes
<1>1. /\ OffsetMod \in Nat \ {0} /\ Consumers \in Nat \ {0} /\ BufBytes \in Nat \ {0}
      /\ BufBytes <= OffsetMod /\ RawHlen \in Nat
  BY RawSizes
<1>2. Reserved \in Nat /\ Used \in Nat
  <2>1. writeOff - pubOff \in Int /\ pubOff - readOff \in Int
    BY <1>1 DEF RawTypeOK, RunningOffset
  <2>2. \A x \in Int : x % OffsetMod \in Nat
    BY <1>1, Division
  <2> QED BY <2>1, <2>2 DEF Reserved, Used
<1>3. PICK l \in Nat : (\A c \in Consumer : limit[c] = l) /\ Consumers * l + Used < BufBytes
  BY DEF LimitsFit
<1>4. PICK share \in [0..Consumers -> Nat] : SharesOf(share)
  BY DEF InShares
<1>5. \A c \in Consumer : share[c + 1] - share[c] <= l
  BY <1>3, <1>4 DEF SharesOf
<1>6. share[Consumers] <= Consumers * l /\ share[Consumers] = Reserved
  BY <1>4, <1>5, ShareBound DEF SharesOf
<1>7. Consumers * l \in Nat
  BY <1>1, <1>3
<1> QED BY <1>1, <1>2, <1>3, <1>6, <1>7

\* When all is published every thread has an empty share.
AllPublished ==
    /\ writeOff \in RunningOffset /\ pubOff = writeOff /\ limit \in [Consumer -> Nat]
    /\ \A c \in Consumer : cnt[c] \in Nat

LEMMA NothingReserved == AllPublished => InShares
<1> SUFFICES ASSUME AllPublished PROVE InShares
  OBVIOUS
<1> USE DEF AllPublished
<1>1. /\ OffsetMod \in Nat \ {0} /\ Consumers \in Nat \ {0} /\ RawHlen \in Nat
  BY RawSizes
<1>2. Reserved = 0
  <2>1. writeOff - pubOff = 0 /\ 0 \in 0..(OffsetMod - 1)
    BY <1>1 DEF RunningOffset
  <2> QED BY <1>1, <2>1, RemainderSmall DEF Reserved
<1> DEFINE share == [j \in 0..Consumers |-> 0]
<1>3. share \in [0..Consumers -> Nat] /\ share[0] = 0 /\ share[Consumers] = 0
      /\ \A c \in Consumer : share[c + 1] = 0 /\ share[c] = 0
  BY <1>1 DEF Consumer
<1> HIDE DEF share
<1>4. SharesOf(share)
  BY <1>2, <1>3 DEF SharesOf
<1> QED BY <1>3, <1>4 DEF InShares

\* What is free is shared out among the threads.
LEMMA SharedOut ==
  ASSUME NEW x \in Nat
  PROVE  x \div Consumers \in 0..x /\ Consumers * (x \div Consumers) <= x
<1>1. /\ Consumers \in Nat \ {0} /\ x \div Consumers \in Int /\ x % Consumers \in 0..(Consumers - 1)
      /\ x = Consumers * (x \div Consumers) + (x % Consumers)
  BY RawSizes, Division
<1> DEFINE q == x \div Consumers
           r == x % Consumers
<1>2. Consumers \in Nat \ {0} /\ q \in Int /\ r \in 0..(Consumers - 1) /\ x = Consumers * q + r
      /\ Consumers * q \in Int
  BY <1>1
<1> HIDE DEF q, r
<1>3. q >= 0
  <2>1. CASE q <= -1
    <3>1. Consumers * q <= Consumers * (-1) /\ Consumers * (-1) = -Consumers
      BY <1>2, <2>1
    <3> QED BY <3>1, <1>2
  <2> QED BY <2>1, <1>2
<1>4. q <= Consumers * q
  <2>1. (Consumers - 1) * q >= 0 /\ (Consumers - 1) * q = Consumers * q - q
    BY <1>2, <1>3
  <2> QED BY <2>1, <1>2
<1>5. q \in 0..x /\ Consumers * q <= x
  BY <1>2, <1>3, <1>4
<1> QED BY <1>5 DEF q

LEMMA RawInitInv == RawInit => RawInv
<1> SUFFICES ASSUME RawInit PROVE RawInv
  OBVIOUS
<1>1. /\ OffsetMod \in Nat \ {0} /\ Consumers \in Nat \ {0} /\ BufBytes \in Nat \ {0}
      /\ BufBytes <= OffsetMod
  BY RawSizes
<1>2. 0 \in RunningOffset /\ Used = 0
  <2>1. 0 \in 0..(OffsetMod - 1) /\ 0 - 0 = 0
    BY <1>1
  <2> QED BY <1>1, <2>1, RemainderSmall DEF RawInit, Used, RunningOffset
<1> DEFINE l == (BufBytes - 1) \div Consumers
<1>3. l \in 0..(BufBytes - 1) /\ Consumers * l <= BufBytes - 1 /\ l \in Nat
  <2>1. BufBytes - 1 \in Nat
    BY <1>1
  <2> QED BY <2>1, <1>1, SharedOut
<1>4. limit = [c \in Consumer |-> l]
  BY DEF RawInit
<1> HIDE DEF l
<1>5. Data \in [kind : {"data", "pad", "frame"}, len : Nat]
  BY DEF Data
<1>6. cell \in [0..(BufBytes - 1) -> [kind : {"data", "pad", "frame"}, len : Nat]]
  BY <1>5 DEF RawInit
<1>7. RawTypeOK
  <2>1. /\ stage \in [Consumer -> {"rx", "retry", "padTail", "padHead", "padGap", "frame", "done"}]
        /\ size \in [Consumer -> Records \cup {0}] /\ cnt \in [Consumer -> Nat]
    BY DEF RawInit
  <2>2. dst \in [Consumer -> RunningOffset] /\ limit \in [Consumer -> 0..(BufBytes - 1)]
    BY <1>2, <1>3, <1>4 DEF RawInit
  <2>3. Used < BufBytes
    BY <1>1, <1>2
  <2> QED BY <1>2, <1>6, <2>1, <2>2, <2>3 DEF RawInit, RawTypeOK
<1>8. InShares
  BY <1>2, <1>3, <1>4, NothingReserved DEF RawInit, AllPublished
<1>9. LimitsFit
  <2>1. Consumers * l + Used < BufBytes
    BY <1>1, <1>2, <1>3
  <2> QED BY <1>3, <1>4, <2>1 DEF LimitsFit
<1>10. SizesKept
  BY DEF RawInit, SizesKept, Busy, Idle
<1> QED BY <1>7, <1>8, <1>9, <1>10 DEF RawInv

-----------------------------------------------------------------------------
\* Writing to the buffer leaves it a buffer.
LEMMA WrittenType ==
  ASSUME RawTypeOK, NEW off, NEW h \in Cell, NEW n
  PROVE  Written(off, h, n) \in [0..(BufBytes - 1) -> Cell]
<1>1. Data \in Cell /\ cell \in [0..(BufBytes - 1) -> Cell]
  BY DEF Data, RawTypeOK, Cell
<1> QED BY <1>1 DEF Written

\* The header of a padding record is one.
LEMMA PaddingHeader ==
  ASSUME NEW padlen \in Int
  PROVE  StoredLength(padlen) \in Nat /\ Header("pad", StoredLength(padlen)) \in Cell
<1>1. (padlen - RawHlen) % LenMod \in Nat /\ RawHlen \in Nat
  <2>1. padlen - RawHlen \in Int /\ LenMod \in Nat \ {0} /\ RawHlen \in Nat
    BY RawSizes
  <2>2. \A x \in Int : x % LenMod \in Nat
    BY <2>1, Division
  <2> QED BY <2>1, <2>2
<1>2. StoredLength(padlen) \in Nat
  BY <1>1 DEF StoredLength
<1> QED BY <1>2 DEF Header, Cell

LEMMA SetPaddingType ==
  ASSUME RawTypeOK, NEW off, NEW padlen \in Int, SetPadding(off, padlen)
  PROVE  cell' \in [0..(BufBytes - 1) -> Cell]
<1>1. cell \in [0..(BufBytes - 1) -> Cell]
  BY DEF RawTypeOK, Cell
<1> QED BY <1>1, PaddingHeader, WrittenType DEF SetPadding

\* The shares stay as they are when nobody reserves.
LEMMA SharesKept ==
  ASSUME InShares, UNCHANGED <<writeOff, pubOff, limit>>,
         \A c \in Consumer : cnt[c] \in Int /\ cnt'[c] \in Int /\ cnt[c] <= cnt'[c]
  PROVE  InShares'
<1>1. PICK share \in [0..Consumers -> Nat] : SharesOf(share)
  BY DEF InShares
<1>2. Reserved' = Reserved
  BY DEF Reserved
<1>3. ASSUME NEW c \in Consumer
      PROVE  LET n == share[c + 1] - share[c]
             IN  /\ n >= 0 /\ n <= cnt'[c] /\ n <= limit'[c]
                 /\ n = 0 \/ n + RawHlen <= limit'[c]
  <2>1. share[c + 1] \in Nat /\ share[c] \in Nat
    <3>1. c \in 0..Consumers /\ c + 1 \in 0..Consumers
      BY RawSizes DEF Consumer
    <3> QED BY <3>1
  <2> QED BY <1>1, <2>1 DEF SharesOf
<1>4. \E s \in [0..Consumers -> Nat] : SharesOf(s)'
  <2>1. \A s : s = share => SharesOf(s)'
    BY <1>1, <1>2, <1>3 DEF SharesOf
  <2> QED BY <2>1
<1> QED BY <1>4 DEF InShares

\* A thread takes n bytes of its share.
LEMMA ReserveShares ==
  ASSUME RawTypeOK, InShares, LimitsFit, NEW c \in Consumer, NEW n \in Records, Reserve(c, n)
  PROVE  InShares' /\ Reserved' = Reserved + n
<1>1. /\ OffsetMod \in Nat \ {0} /\ Consumers \in Nat \ {0} /\ BufBytes \in Nat \ {0}
      /\ BufBytes <= OffsetMod /\ RawHlen \in Nat /\ n \in Nat
  BY RawSizes
<1>2. PICK l \in Nat : (\A d \in Consumer : limit[d] = l) /\ Consumers * l + Used < BufBytes
  BY DEF LimitsFit
<1>3. PICK share \in [0..Consumers -> Nat] : SharesOf(share)
  BY DEF InShares
<1>4. cnt[c] \in Nat /\ limit[c] = l /\ cnt[c] + n + RawHlen <= l
  BY <1>1, <1>2 DEF Reserve, HasRoom, RawTypeOK
<1> DEFINE more == [j \in 0..Consumers |-> IF j > c THEN share[j] + n ELSE share[j]]
<1>5. more \in [0..Consumers -> Nat]
  BY <1>1
<1>6. more[0] = 0 /\ more[Consumers] = Reserved + n
  BY <1>1, <1>3 DEF Consumer, SharesOf
<1>7. ASSUME NEW d \in Consumer
      PROVE  /\ d # c => more[d + 1] - more[d] = share[d + 1] - share[d]
             /\ d = c => more[d + 1] - more[d] = (share[d + 1] - share[d]) + n
             /\ share[d + 1] \in Nat /\ share[d] \in Nat
  BY <1>1 DEF Consumer
<1> HIDE DEF more
<1>8. \A d \in Consumer : cnt'[d] = IF d = c THEN cnt[c] + n ELSE cnt[d]
  BY DEF Reserve, RawTypeOK
<1>9. ASSUME NEW d \in Consumer
      PROVE  LET m == more[d + 1] - more[d]
             IN  /\ m >= 0 /\ m <= cnt'[d] /\ m <= limit'[d]
                 /\ m = 0 \/ m + RawHlen <= limit'[d]
  <2>1. limit'[d] = l /\ cnt[d] \in Nat
    BY <1>2 DEF Reserve, RawTypeOK
  <2>2. CASE d = c
    <3>1. share[d + 1] - share[d] >= 0 /\ share[d + 1] - share[d] <= cnt[d]
      BY <1>3 DEF SharesOf
    <3>2. /\ more[d + 1] - more[d] = (share[d + 1] - share[d]) + n
          /\ share[d + 1] \in Nat /\ share[d] \in Nat /\ cnt'[d] = cnt[d] + n
      BY <1>7, <1>8, <2>2
    <3>3. cnt[d] + n + RawHlen <= limit'[d] /\ limit'[d] \in Nat
      BY <1>2, <1>4, <2>1, <2>2
    <3>4. more[d + 1] - more[d] >= 0
      BY <1>1, <3>1, <3>2
    <3>5. more[d + 1] - more[d] <= cnt'[d]
      BY <1>1, <2>1, <3>1, <3>2
    <3>6. (more[d + 1] - more[d]) + RawHlen <= cnt[d] + n + RawHlen
      BY <1>1, <2>1, <3>1, <3>2
    <3>7. (more[d + 1] - more[d]) \in Int
      BY <1>1, <3>2
    <3> DEFINE m == more[d + 1] - more[d]
    <3> HIDE DEF m
    <3>8. m + RawHlen <= limit'[d] /\ m <= limit'[d]
      BY <1>1, <2>1, <3>3, <3>6, <3>7 DEF m
    <3> QED BY <3>4, <3>5, <3>8 DEF m
  <2>3. CASE d # c
    BY <1>2, <1>3, <1>7, <1>8, <2>1, <2>3 DEF SharesOf
  <2> QED BY <2>2, <2>3
<1>10. more[Consumers] <= Consumers * l
  <2>1. \A d \in Consumer : limit'[d] = l
    BY <1>2 DEF Reserve
  <2>2. \A d \in Consumer : more[d + 1] - more[d] <= l
    BY <1>9, <2>1
  <2> QED BY <1>2, <1>5, <1>6, <2>2, ShareBound
<1>11. Used \in Nat /\ Reserved \in Nat /\ Consumers * l \in Nat
  BY <1>1, <1>2, ReservedFits
<1>12. Reserved + n \in 0..(OffsetMod - 1)
  BY <1>1, <1>2, <1>6, <1>10, <1>11
<1>13. Reserved' = Reserved + n
  <2>1. writeOff \in Int /\ pubOff \in Int
    BY <1>1 DEF RawTypeOK, RunningOffset
  <2>2. ((writeOff - pubOff) % OffsetMod) + n \in 0..(OffsetMod - 1)
    BY <1>12 DEF Reserved
  <2>3. (((writeOff + n) % OffsetMod) - pubOff) % OffsetMod = ((writeOff - pubOff) % OffsetMod) + n
    <3>1. n \in Int
      BY <1>1
    <3> QED BY <2>1, <2>2, <3>1, Moved
  <2> QED BY <2>3 DEF Reserve, Reserved, offVars
<1>14. InShares'
  <2>1. \A s : s = more => SharesOf(s)'
    BY <1>6, <1>9, <1>13 DEF SharesOf
  <2> QED BY <1>5, <2>1 DEF InShares
<1> QED BY <1>14, <1>13

LEMMA LimitsKept ==
  ASSUME LimitsFit, UNCHANGED <<limit, readOff, pubOff>> PROVE LimitsFit'
<1>1. Used' = Used
  BY DEF Used
<1> QED BY <1>1 DEF LimitsFit

\* A step of a thread on its buffer bytes: what the offsets and the shares need.
LEMMA ThreadKeeps ==
  ASSUME RawInv, UNCHANGED <<offVars, size, dst, limit>>,
         cnt' \in [Consumer -> Nat], \A d \in Consumer : cnt[d] <= cnt'[d],
         cell' \in [0..(BufBytes - 1) -> Cell], aborted' \in BOOLEAN,
         strayed' \in BOOLEAN, misread' \in BOOLEAN, SizesKept'
  PROVE  RawInv'
<1>1. RawTypeOK /\ InShares /\ LimitsFit /\ UNCHANGED <<writeOff, readOff, pubOff>>
  BY DEF RawInv, offVars
<1>2. Used' = Used
  BY <1>1 DEF Used
<1>3. RawTypeOK'
  <2>1. stage' \in [Consumer -> {"rx", "retry", "padTail", "padHead", "padGap", "frame", "done"}]
    BY DEF SizesKept, Busy, Idle
  <2> QED BY <1>1, <1>2, <2>1 DEF RawTypeOK, Cell
<1>4. InShares'
  <2>1. \A d \in Consumer : cnt[d] \in Int /\ cnt'[d] \in Int /\ cnt[d] <= cnt'[d]
    BY <1>1 DEF RawTypeOK
  <2> QED BY <1>1, <2>1, SharesKept
<1>5. LimitsFit'
  BY <1>1, LimitsKept
<1> QED BY <1>3, <1>4, <1>5 DEF RawInv

LEMMA ReserveKeeps ==
  ASSUME RawInv, NEW c \in Consumer, NEW n \in Records, Reserve(c, n) PROVE RawInv'
<1>1. RawTypeOK /\ InShares /\ LimitsFit /\ SizesKept
  BY DEF RawInv
<1>2. InShares'
  BY <1>1, ReserveShares
<1>3. LimitsFit' /\ Used' = Used /\ UNCHANGED <<readOff, pubOff, limit, cell, aborted, misread>>
  BY <1>1, LimitsKept DEF Reserve, Used, readerVars
<1>4. writeOff' \in RunningOffset
  <2>1. writeOff + n \in Int /\ OffsetMod \in Nat \ {0}
    BY <1>1, RawSizes DEF RawTypeOK, RunningOffset
  <2>2. \A x \in Int : x % OffsetMod \in 0..(OffsetMod - 1)
    BY <2>1, Division
  <2> QED BY <2>1, <2>2 DEF Reserve, RunningOffset
<1>5. strayed' \in BOOLEAN
  BY DEF Reserve
<1>6. SizesKept'
  <2>1. /\ stage' \in [Consumer -> Busy \cup Idle]
        /\ \A d \in Consumer : d # c => stage'[d] = stage[d] /\ size'[d] = size[d]
    BY <1>1 DEF Reserve, SizesKept, Busy, RawTypeOK
  <2>2. size'[c] = n
    BY <1>1 DEF Reserve, RawTypeOK
  <2> QED BY <1>1, <2>1, <2>2 DEF SizesKept
<1>7. RawTypeOK'
  <2>1. stage' \in [Consumer -> {"rx", "retry", "padTail", "padHead", "padGap", "frame", "done"}]
    BY <1>6 DEF SizesKept, Busy, Idle
  <2>2. size' \in [Consumer -> Records \cup {0}] /\ dst' \in [Consumer -> RunningOffset]
    BY <1>1 DEF Reserve, RawTypeOK
  <2>3. cnt' \in [Consumer -> Nat]
    <3>1. cnt[c] + n \in Nat
      BY <1>1, RawSizes DEF RawTypeOK
    <3> QED BY <1>1, <3>1 DEF Reserve, RawTypeOK
  <2> QED BY <1>1, <1>3, <1>4, <1>5, <2>1, <2>2, <2>3 DEF RawTypeOK
<1> QED BY <1>2, <1>3, <1>6, <1>7 DEF RawInv

LEMMA ThreadStepKeeps ==
  ASSUME RawInv, NEW c \in Consumer, Thread(c) PROVE RawInv'
<1>0. /\ RawTypeOK /\ SizesKept /\ cell \in [0..(BufBytes - 1) -> Cell]
      /\ cnt \in [Consumer -> Nat] /\ \A d \in Consumer : cnt[d] <= cnt[d]
      /\ aborted \in BOOLEAN /\ strayed \in BOOLEAN /\ misread \in BOOLEAN
  BY DEF RawInv, RawTypeOK, Cell
<1>a. /\ FileSize \in Nat \ {0} /\ dst[c] \in Int /\ AsFileOffset(dst[c]) \in Int
      /\ size[c] \in Int /\ TailLength(c) \in Int /\ FinalOffset(c) \in Int
  <2>1. FileSize \in Nat \ {0} /\ dst[c] \in Int /\ size[c] \in Int
    BY <1>0, RawSizes DEF RawTypeOK, RunningOffset
  <2>2. \A x \in Int : x % FileSize \in Int
    BY <2>1, Division
  <2>3. dst[c] + size[c] \in Int
    BY <2>1
  <2> QED BY <2>1, <2>2, <2>3 DEF TailLength, FinalOffset, AsFileOffset
<1>1. ASSUME NEW n \in Records, Reserve(c, n) PROVE RawInv'
  BY <1>1, ReserveKeeps
<1>2. CASE PadTail(c)
  <2>1. cell' \in [0..(BufBytes - 1) -> Cell]
    BY <1>0, <1>2, <1>a, SetPaddingType DEF PadTail
  <2>2. SizesKept'
    BY <1>0, <1>2 DEF PadTail, SizesKept, Busy
  <2> QED BY <1>0, <1>2, <2>1, <2>2, ThreadKeeps DEF PadTail, readerVars
<1>3. CASE PadHead(c)
  <2>1. cell' \in [0..(BufBytes - 1) -> Cell]
    BY <1>0, <1>3, <1>a, SetPaddingType DEF PadHead
  <2>2. SizesKept'
    BY <1>0, <1>3 DEF PadHead, SizesKept, Busy
  <2>3. strayed' \in BOOLEAN
    BY <1>3 DEF PadHead
  <2> QED BY <1>0, <1>3, <2>1, <2>2, <2>3, ThreadKeeps DEF PadHead, readerVars
<1>4. CASE PadGap(c)
  <2> DEFINE padlen == AsBufferOffset(dst[c] + FinalOffset(c))
  <2>1. padlen \in Int
    <3>1. dst[c] + FinalOffset(c) \in Int /\ BufBytes \in Nat \ {0}
      BY <1>a, RawSizes
    <3> QED BY <3>1, Division DEF AsBufferOffset
  <2>2. /\ SetPadding(dst[c] - AsFileOffset(dst[c]), padlen)
        /\ stage' = [stage EXCEPT ![c] = IF padlen > 0 THEN "retry" ELSE "frame"]
    BY <1>4 DEF PadGap
  <2> HIDE DEF padlen
  <2>3. cell' \in [0..(BufBytes - 1) -> Cell]
    BY <1>0, <2>1, <2>2, SetPaddingType
  <2>4. SizesKept'
    BY <1>0, <1>4, <2>2 DEF PadGap, SizesKept, Busy
  <2> QED BY <1>0, <1>4, <2>3, <2>4, ThreadKeeps DEF PadGap, readerVars
<1>5. CASE WriteFrame(c)
  <2>1. size[c] \in Records /\ size[c] \in Nat /\ size[c] - RawHlen \in Nat /\ cnt[c] \in Nat
    <3>1. size[c] \in Records
      BY <1>0, <1>5 DEF WriteFrame, SizesKept, Busy
    <3> QED BY <1>0, <3>1, RawSizes
  <2>2. Header("frame", size[c]) \in Cell
    BY <2>1 DEF Header, Cell
  <2>3. cell' \in [0..(BufBytes - 1) -> Cell]
    BY <1>0, <1>5, <2>2, WrittenType DEF WriteFrame
  <2>4. cnt' \in [Consumer -> Nat] /\ \A d \in Consumer : cnt[d] <= cnt'[d]
    <3>1. cnt[c] + (size[c] - RawHlen) \in Nat /\ cnt[c] <= cnt[c] + (size[c] - RawHlen)
      BY <2>1
    <3> QED BY <1>0, <1>5, <3>1 DEF WriteFrame
  <2>5. SizesKept'
    BY <1>0, <1>5 DEF WriteFrame, SizesKept, Busy, Idle
  <2> QED BY <1>0, <1>5, <2>3, <2>4, <2>5, ThreadKeeps DEF WriteFrame, readerVars
<1>6. CASE EndRx(c)
  <2>1. SizesKept'
    BY <1>0, <1>6 DEF EndRx, SizesKept, Busy, Idle
  <2> QED BY <1>0, <1>6, <2>1, ThreadKeeps DEF EndRx, readerVars
<1> QED BY <1>1, <1>2, <1>3, <1>4, <1>5, <1>6 DEF Thread

\* Publishing turns what was reserved into unread bytes.
LEMMA PublishedUsed ==
  ASSUME RawInv, Publish PROVE Used' = Used + Reserved
<1>1. RawTypeOK /\ Reserved \in Nat /\ Used \in Nat /\ Used + Reserved < BufBytes
  BY ReservedFits DEF RawInv
<1>2. BufBytes \in Nat /\ OffsetMod \in Nat \ {0} /\ BufBytes <= OffsetMod
      /\ pubOff \in Int /\ readOff \in Int /\ writeOff \in RunningOffset
  BY <1>1, RawSizes DEF RawTypeOK, RunningOffset
<1>3. writeOff = (pubOff + Reserved) % OffsetMod
  <2>1. Reserved \in Int /\ (writeOff - pubOff) % OffsetMod = Reserved
    BY <1>1 DEF Reserved
  <2> QED BY <1>2, <2>1, Ahead
<1>4. ((pubOff - readOff) % OffsetMod) + Reserved \in 0..(OffsetMod - 1)
  BY <1>1, <1>2 DEF Used
<1>5. (((pubOff + Reserved) % OffsetMod) - readOff) % OffsetMod
        = ((pubOff - readOff) % OffsetMod) + Reserved
  <2>1. Reserved \in Int
    BY <1>1
  <2> QED BY <1>2, <1>4, <2>1, Moved
<1> QED BY <1>3, <1>5 DEF Publish, Used

LEMMA PublishKeeps == ASSUME RawInv, Publish PROVE RawInv'
<1>1. /\ RawTypeOK /\ Reserved \in Nat /\ Used \in Nat /\ Used + Reserved < BufBytes
      /\ Used' = Used + Reserved
  BY ReservedFits, PublishedUsed DEF RawInv
<1>2. BufBytes \in Nat \ {0} /\ Consumers \in Nat \ {0}
  BY RawSizes
<1> DEFINE x == BufBytes - 1 - Used'
           l == x \div Consumers
<1>3. x \in Nat /\ x <= BufBytes - 1
  BY <1>1, <1>2
<1>4. l \in 0..x /\ Consumers * l <= x
  <2> HIDE DEF x
  <2> QED BY <1>3, SharedOut
<1>5. /\ limit' = [c \in Consumer |-> l] /\ cnt' = [c \in Consumer |-> 0]
      /\ size' = [c \in Consumer |-> 0] /\ dst' = [c \in Consumer |-> 0]
      /\ stage' = [c \in Consumer |-> "rx"]
      /\ pubOff' = writeOff /\ UNCHANGED <<writeOff, readOff, cell, aborted, misread, strayed>>
  BY DEF Publish, Used, readerVars
<1>6. l \in 0..(BufBytes - 1) /\ l \in Nat /\ Consumers * l + Used' < BufBytes
  <2>1. Consumers * l \in Int
    BY <1>2, <1>3, <1>4
  <2> HIDE DEF l
  <2> QED BY <1>1, <1>2, <1>3, <1>4, <2>1
<1> HIDE DEF l, x
<1>7. RawTypeOK'
  <2>1. stage' \in [Consumer -> {"rx", "retry", "padTail", "padHead", "padGap", "frame", "done"}]
        /\ size' \in [Consumer -> Records \cup {0}] /\ cnt' \in [Consumer -> Nat]
    BY <1>5
  <2>2. 0 \in RunningOffset /\ Used' < BufBytes
    BY <1>1, RawSizes DEF RunningOffset
  <2>3. dst' \in [Consumer -> RunningOffset] /\ limit' \in [Consumer -> 0..(BufBytes - 1)]
    BY <1>5, <1>6, <2>2
  <2>4. writeOff' \in RunningOffset /\ readOff' \in RunningOffset /\ pubOff' \in RunningOffset
    BY <1>1, <1>5 DEF RawTypeOK
  <2> QED BY <1>1, <1>5, <2>1, <2>2, <2>3, <2>4 DEF RawTypeOK
<1>8. InShares'
  <2>1. AllPublished'
    BY <1>1, <1>5, <1>6 DEF RawTypeOK, AllPublished
  <2> QED BY <2>1, NothingReserved, PTL
<1>9. LimitsFit'
  BY <1>5, <1>6 DEF LimitsFit
<1>10. SizesKept'
  BY <1>5 DEF SizesKept, Busy, Idle
<1> QED BY <1>7, <1>8, <1>9, <1>10 DEF RawInv

\* Reading leaves the unread bytes it says it leaves.
LEMMA ReadUsed ==
  ASSUME RawTypeOK, NEW left \in 0..Used
  PROVE  /\ (pubOff - left) % OffsetMod \in RunningOffset
         /\ (pubOff - ((pubOff - left) % OffsetMod)) % OffsetMod = left
<1>1. OffsetMod \in Nat \ {0} /\ pubOff \in Int /\ readOff \in Int /\ BufBytes \in Nat
      /\ BufBytes <= OffsetMod
  BY RawSizes DEF RawTypeOK, RunningOffset
<1>2. Used \in Nat /\ Used < BufBytes
  <2>1. pubOff - readOff \in Int
    BY <1>1
  <2>2. (pubOff - readOff) % OffsetMod \in Nat
    BY <1>1, <2>1, Division
  <2> QED BY <2>2 DEF RawTypeOK, Used
<1>3. left \in Int /\ left \in 0..(OffsetMod - 1)
  BY <1>1, <1>2
<1>4. (pubOff - pubOff) % OffsetMod = 0
  <2>1. pubOff - pubOff = 0 /\ 0 \in 0..(OffsetMod - 1)
    BY <1>1
  <2> QED BY <1>1, <2>1, RemainderSmall
<1>5. ((pubOff - pubOff) % OffsetMod) + left \in 0..(OffsetMod - 1)
      /\ ((pubOff - pubOff) % OffsetMod) + left = left
  BY <1>3, <1>4
<1>6. (pubOff - ((pubOff - left) % OffsetMod)) % OffsetMod = left
  BY <1>1, <1>3, <1>5, Moved
<1>7. (pubOff - left) % OffsetMod \in 0..(OffsetMod - 1)
  <2>1. pubOff - left \in Int
    BY <1>1, <1>3
  <2> QED BY <1>1, <2>1, Division
<1> QED BY <1>6, <1>7 DEF RunningOffset

LEMMA ReadKeeps == ASSUME RawInv, ReadPacket PROVE RawInv'
<1>1. RawTypeOK /\ InShares /\ LimitsFit /\ SizesKept
  BY DEF RawInv
<1>2. Used \in 0..BufBytes /\ Used \in Nat
  BY <1>1, ReservedFits, RawSizes
<1>3. PICK left \in LeftAfterNext :
          IF left = -1
          THEN aborted' = TRUE /\ UNCHANGED <<readOff, cell>>
          ELSE /\ readOff' = (pubOff - left) % OffsetMod
               /\ cell' = [o \in 0..(BufBytes - 1) |->
                             IF (o - readOff) % BufBytes < Used - left THEN Data ELSE cell[o]]
               /\ UNCHANGED aborted
  BY DEF ReadPacket
<1>4. left \in {-1} \cup 0..Used
  <2>1. 0 \in 0..4
    OBVIOUS
  <2> QED BY <1>1, <1>2, <1>3, <2>1, LeftRange DEF LeftAfterNext
<1>5. /\ UNCHANGED <<writeOff, pubOff, stage, size, dst, limit, cnt, strayed>>
      /\ misread' \in BOOLEAN
  BY DEF ReadPacket, threadVars
<1>6. readOff' \in RunningOffset /\ Used' \in 0..Used /\ aborted' \in BOOLEAN
      /\ cell' \in [0..(BufBytes - 1) -> Cell]
  <2>1. CASE left = -1
    BY <1>1, <1>2, <1>3, <1>5, <2>1 DEF RawTypeOK, Used, Cell
  <2>2. CASE left # -1
    <3>1. left \in 0..Used /\ readOff' = (pubOff - left) % OffsetMod
      BY <1>3, <1>4, <2>2
    <3>2. readOff' \in RunningOffset /\ Used' = left
      BY <1>1, <1>5, <3>1, ReadUsed DEF Used
    <3>3. Data \in Cell /\ cell \in [0..(BufBytes - 1) -> Cell]
      BY <1>1 DEF Data, RawTypeOK, Cell
    <3> QED BY <1>1, <1>3, <2>2, <3>1, <3>2, <3>3 DEF RawTypeOK
  <2> QED BY <2>1, <2>2
<1>7. RawTypeOK'
  <2>1. Used' < BufBytes
    BY <1>1, <1>2, <1>6, RawSizes DEF RawTypeOK
  <2> QED BY <1>1, <1>5, <1>6, <2>1 DEF RawTypeOK, Cell
<1>8. InShares'
  <2>1. \A d \in Consumer : cnt[d] \in Int /\ cnt'[d] \in Int /\ cnt[d] <= cnt'[d]
    BY <1>1, <1>5 DEF RawTypeOK
  <2> QED BY <1>1, <1>5, <2>1, SharesKept
<1>9. LimitsFit'
  <2>1. PICK l \in Nat : (\A c \in Consumer : limit[c] = l) /\ Consumers * l + Used < BufBytes
    BY <1>1 DEF LimitsFit
  <2>2. Consumers * l \in Nat
    BY <2>1, RawSizes
  <2>3. Consumers * l + Used' < BufBytes
    <3>1. Used' \in Nat /\ Used' <= Used /\ BufBytes \in Nat
      BY <1>2, <1>6, RawSizes
    <3> QED BY <1>2, <2>1, <2>2, <3>1
  <2> QED BY <1>5, <2>1, <2>3 DEF LimitsFit
<1>10. SizesKept'
  BY <1>1, <1>5 DEF SizesKept
<1> QED BY <1>7, <1>8, <1>9, <1>10 DEF RawInv

LEMMA RawStep == RawInv /\ [RawNext]_rawVars => RawInv'
<1> SUFFICES ASSUME RawInv, [RawNext]_rawVars PROVE RawInv'
  OBVIOUS
<1>1. CASE UNCHANGED rawVars
  <2>1. /\ UNCHANGED <<offVars, size, dst, limit, cnt, cell, aborted, strayed, misread, stage>>
    BY <1>1 DEF rawVars, threadVars, readerVars
  <2>2. /\ cnt' \in [Consumer -> Nat] /\ \A d \in Consumer : cnt[d] <= cnt'[d]
        /\ cell' \in [0..(BufBytes - 1) -> Cell]
        /\ aborted' \in BOOLEAN /\ strayed' \in BOOLEAN /\ misread' \in BOOLEAN
    BY <2>1 DEF RawInv, RawTypeOK, Cell
  <2>3. SizesKept'
    BY <2>1 DEF RawInv, SizesKept
  <2> QED BY <2>1, <2>2, <2>3, ThreadKeeps
<1> QED BY <1>1, ThreadStepKeeps, PublishKeeps, ReadKeeps DEF RawNext

\* The offsets, the counts and what is unread keep their types, for every number
\* of threads: what they reserve between two publications is never more than
\* what was free, although each only looks at its own share (hpcap_rx).
THEOREM RawTypeCorrect == RawSpec => []RawTypeOK
<1>1. RawInv => RawTypeOK
  BY DEF RawInv
<1> QED BY RawInitInv, RawStep, <1>1, PTL DEF RawSpec

-----------------------------------------------------------------------------
(***************************************************************************)
(* The records of one poll thread.  A place of the stream is named by the  *)
(* published bytes from it on, as in CellAt: 0 is where the unread bytes   *)
(* end, and what is reserved is below.  The records tile the stream from   *)
(* the read offset to the frontier, which is the end of what the thread    *)
(* has written: its reservation ends there, or inside padding that reaches *)
(* to the end of the file.                                                 *)
(***************************************************************************)
\* The bytes from off to the end of the file, if no header fits in them.
Rest(off) == IF AsFileOffset(off) + RawHlen > FileSize THEN FileSize - AsFileOffset(off) ELSE 0

Frontier ==
    IF stage[0] = "frame" THEN Reserved - size[0]
    ELSE IF stage[0] = "padTail" THEN (Reserved - size[0]) + Rest(dst[0])
    ELSE IF stage[0] = "padHead" THEN (Reserved - size[0]) + TailLength(0)
    ELSE Reserved + Rest(writeOff)

\* A reservation that is being written is the last one, and its stage is the
\* one its place in the file asks for.
Writing == stage[0] \in {"padTail", "padHead", "frame"}

AtStage ==
    /\ ~InGap(writeOff) /\ stage[0] # "padGap"
    /\ Writing => (writeOff - dst[0]) % OffsetMod = size[0] /\ size[0] <= Reserved
    /\ Writing => (NeedsPadding(dst[0], size[0]) <=> stage[0] # "frame")
    /\ stage[0] = "padHead" => FinalOffset(0) >= RawHlen

\* A whole record starts at k and ends at a start of s, in the same file.
RecordIn(s, k) ==
    LET h == CellAt(k)
    IN  /\ h.kind \in {"pad", "frame"} /\ h.len >= RawHlen /\ k - h.len \in s
        /\ AsFileOffset(pubOff - k) + h.len <= FileSize
        /\ h.kind = "frame" => /\ k - h.len >= -Reserved
                               /\ k > 0 => h.len <= k

\* s are the starts of the records, q how far they reach.
TileOf(s, q) ==
    /\ s \subseteq (-q)..Used /\ Used \in s /\ -q \in s
    /\ \A k \in s : k # -q => RecordIn(s, k)

Tiles == \E q \in Nat, s \in SUBSET Int : q = Frontier /\ TileOf(s, q)

OneInv == RawInv /\ (strayed \/ misread \/ aborted \/ (AtStage /\ Tiles))

LEMMA OneThread == ASSUME Consumers = 1 PROVE Consumer = {0}
BY DEF Consumer

\* What one thread reserved leaves room for a header.
LEMMA OneRoom ==
  ASSUME Consumers = 1, RawInv
  PROVE  /\ Reserved \in Nat /\ Used \in Nat /\ Used + Reserved < BufBytes
         /\ Reserved = 0 \/ Used + Reserved + RawHlen < BufBytes
         /\ stage[0] \in Busy \cup Idle
         /\ stage[0] \in Busy => size[0] \in Records
         /\ dst[0] \in RunningOffset
<1>1. RawTypeOK /\ InShares /\ LimitsFit /\ 0 \in Consumer
  BY OneThread DEF RawInv
<1>2. Reserved \in Nat /\ Used \in Nat /\ Used + Reserved < BufBytes
  BY <1>1, ReservedFits
<1>3. PICK share \in [0..Consumers -> Nat] : SharesOf(share)
  BY <1>1 DEF InShares
<1>4. share[0] = 0 /\ share[0 + 1] = Reserved
  BY <1>3 DEF SharesOf
<1>5. Reserved - 0 = 0 \/ (Reserved - 0) + RawHlen <= limit[0]
  BY <1>1, <1>3, <1>4 DEF SharesOf
<1>6. limit[0] + Used < BufBytes /\ limit[0] \in Nat
  <2>1. PICK l \in Nat : limit[0] = l /\ Consumers * l + Used < BufBytes
    BY <1>1 DEF LimitsFit
  <2> QED BY <2>1, <1>2
<1>7. Reserved = 0 \/ Used + Reserved + RawHlen < BufBytes
  BY <1>2, <1>5, <1>6, RawSizes
<1> QED BY <1>1, <1>2, <1>7 DEF RawInv, SizesKept, RawTypeOK

\* A place n bytes further in the file, or in the next one.
LEMMA FileStep ==
  ASSUME NEW off \in Int, NEW n \in Nat, n < FileSize
  PROVE  /\ AsFileOffset(off) \in 0..(FileSize - 1)
         /\ AsFileOffset(off + n) = IF AsFileOffset(off) + n < FileSize
                                    THEN AsFileOffset(off) + n
                                    ELSE (AsFileOffset(off) + n) - FileSize
<1>1. FileSize \in Nat \ {0} /\ off % FileSize \in 0..(FileSize - 1)
  BY RawSizes, Division
<1> DEFINE x == off % FileSize
<1>2. x \in 0..(FileSize - 1) /\ x % FileSize = off % FileSize /\ x \in Int
  <2>1. x \in 0..(FileSize - 1) /\ x \in Int
    BY <1>1
  <2> QED BY <1>1, <2>1, RemainderSmall
<1>3. (off + n) % FileSize = (x + n) % FileSize
  <2>1. n \in Int
    OBVIOUS
  <2> HIDE DEF x
  <2> QED BY <1>1, <1>2, <2>1, RemainderAdd
<1> HIDE DEF x
<1>4. CASE x + n < FileSize
  <2>1. x + n \in 0..(FileSize - 1)
    BY <1>1, <1>2, <1>4
  <2>2. (x + n) % FileSize = x + n
    BY <1>1, <2>1, RemainderSmall
  <2> QED BY <1>1, <1>3, <1>4, <2>2 DEF x, AsFileOffset
<1>5. CASE ~(x + n < FileSize)
  <2>1. (x + n) - FileSize \in 0..(FileSize - 1)
        /\ x + n = FileSize * 1 + ((x + n) - FileSize)
    BY <1>1, <1>2, <1>5
  <2>2. (FileSize * 1 + ((x + n) - FileSize)) % FileSize = (x + n) - FileSize
    <3> DEFINE e == (x + n) - FileSize
    <3>1. e \in 0..(FileSize - 1)
      BY <2>1
    <3> HIDE DEF e
    <3>2. 1 \in Int
      OBVIOUS
    <3>3. (FileSize * 1 + e) % FileSize = e
      BY <1>1, <3>1, <3>2, Remainder
    <3> QED BY <3>3 DEF e
  <2> QED BY <1>1, <1>3, <1>5, <2>1, <2>2 DEF x, AsFileOffset
<1> QED BY <1>4, <1>5

\* The reservation and its end, seen from the published bytes.
LEMMA SeenFromPublished ==
  ASSUME RawTypeOK, NEW z \in Int
  PROVE  /\ Reserved \in Int
         /\ AsBufferOffset(writeOff + z) = AsBufferOffset((pubOff + Reserved) + z)
         /\ AsFileOffset(writeOff + z) = AsFileOffset((pubOff + Reserved) + z)
         /\ Writing /\ AtStage /\ size[0] \in Int /\ dst[0] \in Int =>
              /\ AsBufferOffset(dst[0] + z) = AsBufferOffset((pubOff + (Reserved - size[0])) + z)
              /\ AsFileOffset(dst[0] + z) = AsFileOffset((pubOff + (Reserved - size[0])) + z)
              /\ AsFileOffset(writeOff) = FinalOffset(0)
<1>1. /\ writeOff \in RunningOffset /\ pubOff \in Int /\ writeOff \in Int
      /\ OffsetMod \in Nat \ {0} /\ FileSize \in Nat \ {0} /\ BufBytes \in Nat \ {0}
  BY RawSizes DEF RawTypeOK, RunningOffset
<1>2. Reserved \in Int
  <2>1. writeOff - pubOff \in Int
    BY <1>1
  <2> QED BY <1>1, <2>1, Division DEF Reserved
<1>3. /\ AsBufferOffset(writeOff) = AsBufferOffset(pubOff + Reserved)
      /\ AsFileOffset(writeOff) = AsFileOffset(pubOff + Reserved)
  <2>1. (writeOff - pubOff) % OffsetMod = Reserved
    BY DEF Reserved
  <2> QED BY <1>1, <1>2, <2>1, Ahead
<1>4. /\ AsBufferOffset(writeOff + z) = AsBufferOffset((pubOff + Reserved) + z)
      /\ AsFileOffset(writeOff + z) = AsFileOffset((pubOff + Reserved) + z)
  <2>1. pubOff + Reserved \in Int
    BY <1>1, <1>2
  <2> QED BY <1>1, <1>3, <2>1, RemainderAdd DEF AsBufferOffset, AsFileOffset
<1>5. ASSUME Writing, AtStage, size[0] \in Int, dst[0] \in Int
      PROVE  /\ AsBufferOffset(dst[0] + z) = AsBufferOffset((pubOff + (Reserved - size[0])) + z)
             /\ AsFileOffset(dst[0] + z) = AsFileOffset((pubOff + (Reserved - size[0])) + z)
             /\ AsFileOffset(writeOff) = FinalOffset(0)
  <2> DEFINE d == dst[0]
             n == size[0]
  <2>1. d \in Int /\ n \in Int /\ (writeOff - d) % OffsetMod = n
    BY <1>5 DEF AtStage
  <2>2. /\ AsBufferOffset(writeOff) = AsBufferOffset(d + n)
        /\ AsFileOffset(writeOff) = AsFileOffset(d + n)
    <3> HIDE DEF d, n
    <3> QED BY <1>1, <2>1, Ahead
  <2>3. /\ AsBufferOffset(d + n) = AsBufferOffset(pubOff + Reserved)
        /\ AsFileOffset(d + n) = AsFileOffset(pubOff + Reserved)
    BY <1>3, <2>2
  <2> HIDE DEF d, n
  <2>4. /\ d + n \in Int /\ pubOff + Reserved \in Int /\ z - n \in Int
        /\ (d + n) + (z - n) = d + z
        /\ (pubOff + Reserved) + (z - n) = (pubOff + (Reserved - n)) + z
    BY <1>1, <1>2, <2>1
  <2>5. /\ AsBufferOffset((d + n) + (z - n)) = AsBufferOffset((pubOff + Reserved) + (z - n))
        /\ AsFileOffset((d + n) + (z - n)) = AsFileOffset((pubOff + Reserved) + (z - n))
    <3> DEFINE x == d + n
               y == pubOff + Reserved
               w == z - n
    <3>1. /\ x \in Int /\ y \in Int /\ w \in Int
          /\ x % BufBytes = y % BufBytes /\ x % FileSize = y % FileSize
      BY <2>3, <2>4 DEF AsBufferOffset, AsFileOffset
    <3> DEFINE u == x + w
               v == y + w
    <3>2. u \in Int /\ v \in Int /\ u - x = v - y
      BY <3>1
    <3> HIDE DEF x, y, w, u, v
    <3>3. u % BufBytes = v % BufBytes
      <4>1. BufBytes \in Nat \ {0} /\ x % BufBytes = y % BufBytes
        BY <1>1, <3>1
      <4>2. Congruent(x, y, BufBytes)
        BY <3>1, <4>1, SameRemainder
      <4>3. Congruent(u, v, BufBytes)
        BY <3>1, <3>2, <4>1, <4>2, CongruentShift
      <4> QED BY <3>2, <4>1, <4>3, SameRemainder
    <3>4. u % FileSize = v % FileSize
      <4>1. FileSize \in Nat \ {0} /\ x % FileSize = y % FileSize
        BY <1>1, <3>1
      <4>2. Congruent(x, y, FileSize)
        BY <3>1, <4>1, SameRemainder
      <4>3. Congruent(u, v, FileSize)
        BY <3>1, <3>2, <4>1, <4>2, CongruentShift
      <4> QED BY <3>2, <4>1, <4>3, SameRemainder
    <3> QED BY <3>3, <3>4 DEF x, y, w, u, v, AsBufferOffset, AsFileOffset
  <2>6. AsBufferOffset(d + z) = AsBufferOffset((pubOff + (Reserved - n)) + z)
    BY <2>4, <2>5
  <2>7. AsFileOffset(d + z) = AsFileOffset((pubOff + (Reserved - n)) + z)
    BY <2>4, <2>5
  <2> QED BY <2>2, <2>6, <2>7 DEF d, n, FinalOffset
<1> QED BY <1>2, <1>4, <1>5

\* A write at the frontier leaves the bytes of the records behind it.
LEMMA WriteKeeps ==
  ASSUME RawTypeOK, NEW off \in Int, NEW h, NEW m \in Nat, NEW q \in Int,
         cell' = Written(off, h, m), pubOff' = pubOff,
         AsBufferOffset(off) = AsBufferOffset(pubOff + q),
         NEW k \in Int
  PROVE  /\ k = -q => CellAt(k)' = h
         /\ k > -q /\ k + q + m <= BufBytes /\ m > 0 => CellAt(k)' = CellAt(k)
<1> DEFINE o == AsBufferOffset(pubOff - k)
<1>1. /\ BufBytes \in Nat \ {0} /\ pubOff \in Int /\ o \in 0..(BufBytes - 1) /\ o \in Int
      /\ pubOff - k \in Int /\ pubOff + q \in Int
  <2>1. BufBytes \in Nat \ {0} /\ pubOff \in Int
    BY RawSizes DEF RawTypeOK, RunningOffset
  <2>2. o \in 0..(BufBytes - 1)
    BY CellAtType
  <2> HIDE DEF o
  <2> QED BY <2>1, <2>2
<1>2. CellAt(k)' = cell'[o] /\ CellAt(k) = cell[o]
  BY DEF CellAt, AsBufferOffset
<1>3. cell'[o] = IF o = AsBufferOffset(off) THEN h
                 ELSE IF (o - off) % BufBytes < m THEN Data ELSE cell[o]
  <2> HIDE DEF o
  <2> QED BY <1>1 DEF Written
<1>4. CASE k = -q
  <2>1. pubOff - k = pubOff + q
    BY <1>1, <1>4
  <2>2. o = AsBufferOffset(off)
    BY <2>1
  <2> QED BY <1>2, <1>3, <1>4, <2>2
<1>5. CASE k > -q /\ k + q + m <= BufBytes /\ m > 0
  <2>1. o # AsBufferOffset(off)
    <3> SUFFICES ASSUME o = AsBufferOffset(off) PROVE FALSE
      OBVIOUS
    <3>1. (pubOff - k) % BufBytes = (pubOff + q) % BufBytes
      BY DEF AsBufferOffset
    <3>2. (pubOff - k) - (pubOff + q) < BufBytes /\ (pubOff + q) - (pubOff - k) < BufBytes
      BY <1>1, <1>5
    <3>3. pubOff - k = pubOff + q
      BY <1>1, <3>1, <3>2, RemainderNear
    <3> QED BY <1>1, <1>5, <3>3
  <2>2. (o - off) % BufBytes = BufBytes - (k + q)
    <3>1. o % BufBytes = (pubOff - k) % BufBytes
      <4>1. o % BufBytes = o
        BY <1>1, RemainderSmall
      <4> QED BY <4>1 DEF AsBufferOffset
    <3>2. (o + (-off)) % BufBytes = ((pubOff - k) + (-off)) % BufBytes
      <4> DEFINE w == -off
                 y == pubOff - k
      <4>1. w \in Int /\ y \in Int /\ o % BufBytes = y % BufBytes
        BY <1>1, <3>1
      <4> HIDE DEF o
      <4> DEFINE u == o + w
                 v == y + w
      <4>2. u \in Int /\ v \in Int /\ u - o = v - y
        BY <1>1, <4>1
      <4> HIDE DEF w, y, u, v
      <4>3. u % BufBytes = v % BufBytes
        <5>1. Congruent(o, y, BufBytes)
          BY <1>1, <4>1, SameRemainder
        <5>2. Congruent(u, v, BufBytes)
          BY <1>1, <4>1, <4>2, <5>1, CongruentShift
        <5> QED BY <1>1, <4>2, <5>2, SameRemainder
      <4> QED BY <4>3 DEF w, y, u, v
    <3>3. (off + ((-off) - (k + q))) % BufBytes = ((pubOff + q) + ((-off) - (k + q))) % BufBytes
      <4> DEFINE w == (-off) - (k + q)
                 y == pubOff + q
      <4>1. w \in Int /\ y \in Int /\ off % BufBytes = y % BufBytes
        BY <1>1 DEF AsBufferOffset
      <4> DEFINE u == off + w
                 v == y + w
      <4>2. u \in Int /\ v \in Int /\ u - off = v - y
        BY <1>1, <4>1
      <4> HIDE DEF w, y, u, v
      <4>3. u % BufBytes = v % BufBytes
        <5>1. Congruent(off, y, BufBytes)
          BY <1>1, <4>1, SameRemainder
        <5>2. Congruent(u, v, BufBytes)
          BY <1>1, <4>1, <4>2, <5>1, CongruentShift
        <5> QED BY <1>1, <4>2, <5>2, SameRemainder
      <4> QED BY <4>3 DEF w, y, u, v
    <3>4. /\ o + (-off) = o - off /\ off + ((-off) - (k + q)) = -(k + q)
          /\ (pubOff + q) + ((-off) - (k + q)) = (pubOff - k) + (-off)
      <4> HIDE DEF o
      <4> QED BY <1>1
    <3>5. (o - off) % BufBytes = (-(k + q)) % BufBytes
      <4> HIDE DEF o
      <4> QED BY <3>2, <3>3, <3>4
    <3>6. -(k + q) = BufBytes * (-1) + (BufBytes - (k + q))
          /\ BufBytes - (k + q) \in 0..(BufBytes - 1) /\ -1 \in Int
      BY <1>1, <1>5
    <3>7. (BufBytes * (-1) + (BufBytes - (k + q))) % BufBytes = BufBytes - (k + q)
      BY <1>1, <3>6, Remainder
    <3> QED BY <3>5, <3>6, <3>7
  <2>3. ~((o - off) % BufBytes < m)
    <3>1. BufBytes - (k + q) >= m /\ BufBytes - (k + q) \in Int
      BY <1>1, <1>5
    <3> QED BY <2>2, <3>1
  <2> QED BY <1>2, <1>3, <2>1, <2>3, <1>5
<1> QED BY <1>4, <1>5

-----------------------------------------------------------------------------
\* What the place of the reservation in its file says: fd is where it starts.
LEMMA StageFacts ==
  ASSUME Consumers = 1, RawInv, AtStage, Writing
  PROVE  LET fd == AsFileOffset(dst[0])
             n  == size[0]
         IN  /\ dst[0] \in Nat /\ n \in Nat /\ n > RawHlen /\ n <= LenMod
             /\ n + RawHlen <= FileSize /\ n <= Reserved /\ fd \in 0..(FileSize - 1)
             /\ TailLength(0) = FileSize - fd
             /\ FinalOffset(0) = IF fd + n < FileSize THEN fd + n ELSE (fd + n) - FileSize
             /\ AsFileOffset(writeOff) = FinalOffset(0)
             /\ Rest(dst[0]) = IF fd + RawHlen > FileSize THEN FileSize - fd ELSE 0
             /\ Rest(writeOff) = IF fd + n < FileSize /\ fd + n + RawHlen > FileSize
                                 THEN (FileSize - fd) - n ELSE 0
             /\ FinalOffset(0) = 0 \/ FinalOffset(0) >= RawHlen
             /\ stage[0] = "frame" => fd + n + RawHlen <= FileSize
             /\ stage[0] # "frame" => fd + n + RawHlen > FileSize
             /\ stage[0] = "padHead" => FinalOffset(0) >= RawHlen
<1> DEFINE fd == AsFileOffset(dst[0])
           n  == size[0]
<1>1. /\ FileSize \in Nat \ {0} /\ RawHlen \in Nat \ {0} /\ LenMod \in Nat \ {0}
      /\ dst[0] \in Nat /\ n \in Records
  BY OneRoom, RawSizes DEF Writing, Busy, RunningOffset
<1>2. /\ n \in Nat /\ n > RawHlen /\ n <= LenMod /\ n + RawHlen <= FileSize
  BY <1>1, RawSizes
<1>3. n < FileSize
  BY <1>1, <1>2
<1>4. /\ fd \in 0..(FileSize - 1)
      /\ FinalOffset(0) = IF fd + n < FileSize THEN fd + n ELSE (fd + n) - FileSize
  <2>1. dst[0] \in Int
    BY <1>1
  <2> QED BY <1>2, <1>3, <2>1, FileStep DEF FinalOffset
<1>5. AsFileOffset(writeOff) = FinalOffset(0)
  <2>1. RawTypeOK /\ 0 \in Int /\ size[0] \in Int /\ dst[0] \in Int
    BY <1>1, <1>2 DEF RawInv
  <2> QED BY <2>1, SeenFromPublished
<1>6. FinalOffset(0) \notin 1..(RawHlen - 1)
  BY <1>5 DEF AtStage, InGap
<1>7. n <= Reserved
  BY DEF AtStage
<1>8. Rest(dst[0]) = IF fd + RawHlen > FileSize THEN FileSize - fd ELSE 0
  BY DEF Rest
<1>9. Rest(writeOff) = IF FinalOffset(0) + RawHlen > FileSize THEN FileSize - FinalOffset(0) ELSE 0
  BY <1>5 DEF Rest
<1>10. stage[0] = "frame" <=> ~(fd + n + RawHlen > FileSize)
  BY DEF AtStage, NeedsPadding, Writing
<1>11. stage[0] = "padHead" => FinalOffset(0) >= RawHlen
  BY DEF AtStage
<1>12. TailLength(0) = FileSize - fd
  BY DEF TailLength
<1> HIDE DEF fd, n
<1>13. FinalOffset(0) = 0 \/ FinalOffset(0) >= RawHlen
  BY <1>1, <1>2, <1>4, <1>6
<1>14. Rest(writeOff) = IF fd + n < FileSize /\ fd + n + RawHlen > FileSize
                        THEN (FileSize - fd) - n ELSE 0
  BY <1>1, <1>2, <1>3, <1>4, <1>9
<1> QED
  BY <1>1, <1>2, <1>4, <1>5, <1>7, <1>8, <1>10, <1>11, <1>12, <1>13, <1>14 DEF fd, n

\* What no header fits in is less than a header.
LEMMA RestRange == ASSUME NEW off \in Int PROVE Rest(off) \in 0..(RawHlen - 1)
<1>1. off % FileSize \in 0..(FileSize - 1) /\ FileSize \in Nat \ {0} /\ RawHlen \in Nat \ {0}
  BY RawSizes, Division
<1> DEFINE x == off % FileSize
<1>2. x \in 0..(FileSize - 1)
  BY <1>1
<1>3. Rest(off) = IF x + RawHlen > FileSize THEN FileSize - x ELSE 0
  BY DEF Rest, AsFileOffset
<1> HIDE DEF x
<1> QED BY <1>1, <1>2, <1>3

\* The frontier is not behind the published bytes, and less than a header ahead
\* of the reservation.
LEMMA FrontierBounds ==
  ASSUME Consumers = 1, RawInv, AtStage
  PROVE  Frontier \in Nat /\ Frontier < Reserved + RawHlen
<1>1. Reserved \in Nat /\ RawHlen \in Nat \ {0} /\ FileSize \in Nat \ {0}
  BY OneRoom, RawSizes
<1>2. CASE Writing
  <2> DEFINE fd == AsFileOffset(dst[0])
             n == size[0]
  <2>1. /\ n \in Nat /\ n > RawHlen /\ n <= Reserved /\ fd \in 0..(FileSize - 1)
        /\ n + RawHlen <= FileSize
        /\ Rest(dst[0]) = IF fd + RawHlen > FileSize THEN FileSize - fd ELSE 0
        /\ TailLength(0) = FileSize - fd
        /\ stage[0] # "frame" => fd + n + RawHlen > FileSize
    BY <1>2, StageFacts
  <2>2. Frontier = IF stage[0] = "frame" THEN Reserved - n
                   ELSE IF stage[0] = "padTail" THEN (Reserved - n) + Rest(dst[0])
                   ELSE (Reserved - n) + TailLength(0)
    BY <1>2 DEF Frontier, Writing
  <2> HIDE DEF fd, n
  <2> QED BY <1>1, <2>1, <2>2
<1>3. CASE ~Writing
  <2>1. Frontier = Reserved + Rest(writeOff)
    BY <1>3 DEF Frontier, Writing
  <2>2. Rest(writeOff) \in 0..(RawHlen - 1)
    <3>1. writeOff \in Int
      BY RawSizes DEF RawInv, RawTypeOK, RunningOffset
    <3> QED BY <3>1, RestRange
  <2> QED BY <1>1, <2>1, <2>2
<1> QED BY <1>2, <1>3

\* Records whose headers stay, and which do not lose their next one, stay.
LEMMA RecordStays ==
  ASSUME NEW s, NEW t, NEW k \in Int, RecordIn(s, k), s \subseteq t,
         CellAt(k)' = CellAt(k), pubOff' = pubOff, CellAt(k).len \in Nat,
         Reserved \in Int, Reserved' \in Int, Reserved <= Reserved'
  PROVE  RecordIn(t, k)'
BY DEF RecordIn, AsFileOffset

\* The records up to the frontier stay when nothing is written on them.
LEMMA TileStays ==
  ASSUME RawTypeOK, NEW s \in SUBSET Int, NEW q \in Nat, TileOf(s, q),
         UNCHANGED <<pubOff, readOff>>,
         Reserved \in Int, Reserved' \in Int, Reserved <= Reserved',
         \A k \in Int : k > -q /\ k <= Used => CellAt(k)' = CellAt(k)
  PROVE  TileOf(s, q)'
<1>1. Used' = Used
  BY DEF Used
<1>2. Used \in Nat
  <2>1. pubOff - readOff \in Int /\ OffsetMod \in Nat \ {0}
    BY RawSizes DEF RawTypeOK, RunningOffset
  <2> QED BY <2>1, Division DEF Used
<1>3. s \subseteq (-q)..Used /\ Used \in s /\ -q \in s
  BY DEF TileOf
<1>4. ASSUME NEW k \in s, k # -q PROVE RecordIn(s, k)'
  <2>1. k \in Int /\ k > -q /\ k <= Used
    BY <1>2, <1>3, <1>4
  <2>2. CellAt(k)' = CellAt(k) /\ CellAt(k).len \in Nat
    BY <2>1, CellAtType DEF Cell
  <2>3. RecordIn(s, k)
    BY <1>4 DEF TileOf
  <2> QED BY <2>1, <2>2, <2>3, RecordStays
<1> QED BY <1>1, <1>3, <1>4 DEF TileOf

\* A record is written at the frontier.
LEMMA TileGrows ==
  ASSUME RawTypeOK, NEW s \in SUBSET Int, NEW q \in Nat, TileOf(s, q),
         UNCHANGED <<pubOff, readOff, writeOff>>, Reserved \in Nat,
         NEW off \in Int, NEW h \in Cell, NEW m \in Nat \ {0},
         cell' = Written(off, h, m),
         AsBufferOffset(off) = AsBufferOffset(pubOff + q), Used + q + m <= BufBytes,
         h.kind \in {"pad", "frame"}, h.len >= RawHlen,
         AsFileOffset(pubOff + q) + h.len <= FileSize,
         h.kind = "frame" => q + h.len <= Reserved
  PROVE  TileOf(s \cup {-(q + h.len)}, q + h.len)'
<1> DEFINE L == h.len
           t == s \cup {-(q + L)}
<1>1. Used' = Used /\ Reserved' = Reserved /\ pubOff' = pubOff
  BY DEF Used, Reserved
<1>2. /\ Used \in Nat /\ L \in Nat /\ RawHlen \in Nat \ {0} /\ BufBytes \in Nat
      /\ pubOff \in Int
  <2>1. pubOff - readOff \in Int /\ OffsetMod \in Nat \ {0}
    BY RawSizes DEF RawTypeOK, RunningOffset
  <2> QED BY <2>1, Division, RawSizes DEF Used, Cell, RawTypeOK, RunningOffset
<1>3. s \subseteq (-q)..Used /\ Used \in s /\ -q \in s
  BY DEF TileOf
<1>4. t \subseteq (-(q + L))..Used /\ Used \in t /\ -(q + L) \in t /\ s \subseteq t
  <2>1. -(q + L) \in Int /\ -(q + L) <= -q /\ -q <= Used /\ -q \in Int
    <3> HIDE DEF L
    <3> QED BY <1>2
  <2> DEFINE b == -(q + L)
             a == -q
  <2>2. b \in Int /\ a \in Int /\ b <= a /\ a <= Used /\ s \subseteq a..Used /\ Used \in s
    BY <1>3, <2>1
  <2> HIDE DEF a, b
  <2>3. s \cup {b} \subseteq b..Used
    BY <1>2, <2>2
  <2> QED BY <2>2, <2>3 DEF b
<1>5. ASSUME NEW k \in s, k # -q PROVE RecordIn(t, k)'
  <2>1. k \in Int /\ k > -q /\ k <= Used /\ k + q + m <= BufBytes /\ m > 0
    BY <1>2, <1>3, <1>5
  <2>2. CellAt(k)' = CellAt(k)
    <3>1. q \in Int /\ m \in Nat
      OBVIOUS
    <3> QED BY <1>1, <2>1, <3>1, WriteKeeps
  <2>3. CellAt(k).len \in Nat
    BY <2>1, CellAtType DEF Cell
  <2>4. RecordIn(s, k)
    BY <1>5 DEF TileOf
  <2> HIDE DEF t
  <2>5. Reserved \in Int /\ Reserved' \in Int /\ Reserved <= Reserved'
    BY <1>1
  <2> QED BY <1>1, <1>4, <2>1, <2>2, <2>3, <2>4, <2>5, RecordStays
<1>6. \A k : k = -q => RecordIn(t, k)'
  <2> TAKE k
  <2> SUFFICES ASSUME k = -q PROVE RecordIn(t, k)'
    OBVIOUS
  <2>1. k \in Int /\ k = -q
    OBVIOUS
  <2>2. CellAt(k)' = h
    <3>1. q \in Int /\ m \in Nat
      OBVIOUS
    <3> QED BY <1>1, <2>1, <3>1, WriteKeeps
  <2>3. k - L = -(q + L) /\ pubOff - k = pubOff + q /\ ~(k > 0)
    BY <1>2, <2>1
  <2>4. AsFileOffset(pubOff' - k) + L <= FileSize
    BY <1>1, <2>3
  <2>5. k - L \in t
    BY <1>4, <2>3
  <2>6. h.kind = "frame" => k - L >= -Reserved
    BY <1>2, <2>3
  <2> HIDE DEF t
  <2> QED BY <1>1, <1>2, <2>2, <2>3, <2>4, <2>5, <2>6 DEF RecordIn, AsFileOffset
<1>7. \A k \in t : k # -(q + L) => RecordIn(t, k)'
  BY <1>5, <1>6
<1> HIDE DEF t, L
<1>8. TileOf(t, q + L)'
  BY <1>1, <1>4, <1>7 DEF TileOf
<1> QED BY <1>8 DEF t, L

\* The same two lemmas, about the frontier.
LEMMA TilesStay ==
  ASSUME RawTypeOK, Tiles, UNCHANGED <<pubOff, readOff>>,
         Reserved \in Int, Reserved' \in Int, Reserved <= Reserved',
         \A k \in Int : k > -Frontier /\ k <= Used => CellAt(k)' = CellAt(k),
         Frontier' = Frontier
  PROVE  Tiles'
<1>1. PICK q \in Nat, s \in SUBSET Int : q = Frontier /\ TileOf(s, q)
  BY DEF Tiles
<1>2. TileOf(s, q)'
  BY <1>1, TileStays
<1> QED BY <1>1, <1>2 DEF Tiles

LEMMA TilesGrow ==
  ASSUME RawTypeOK, Tiles, UNCHANGED <<pubOff, readOff, writeOff>>, Reserved \in Nat,
         NEW off \in Int, NEW h \in Cell, NEW m \in Nat \ {0},
         cell' = Written(off, h, m),
         AsBufferOffset(off) = AsBufferOffset(pubOff + Frontier),
         Used + Frontier + m <= BufBytes,
         h.kind \in {"pad", "frame"}, h.len >= RawHlen,
         AsFileOffset(pubOff + Frontier) + h.len <= FileSize,
         h.kind = "frame" => Frontier + h.len <= Reserved,
         Frontier' = Frontier + h.len
  PROVE  Tiles'
<1>1. PICK q \in Nat, s \in SUBSET Int : q = Frontier /\ TileOf(s, q)
  BY DEF Tiles
<1>2. TileOf(s \cup {-(q + h.len)}, q + h.len)'
  BY <1>1, TileGrows
<1>3. h.len \in Nat
  BY DEF Cell
<1>4. PICK r \in Nat, t \in SUBSET Int : r = q + h.len /\ t = s \cup {-(q + h.len)}
  <2> DEFINE L == h.len
  <2>1. L \in Nat
    BY <1>3
  <2> HIDE DEF L
  <2>2. q + L \in Nat /\ -(q + L) \in Int
    BY <2>1
  <2>3. s \cup {-(q + L)} \in SUBSET Int
    BY <2>2
  <2> QED BY <2>2, <2>3 DEF L
<1>5. TileOf(t, r)' /\ r = Frontier'
  BY <1>1, <1>2, <1>4
<1> QED BY <1>5 DEF Tiles

\* A thread without a reservation to write starts one at the frontier, or before
\* the bytes at the end of the file that no header fits in.
LEMMA ReserveTiles ==
  ASSUME Consumers = 1, RawInv, AtStage, Tiles, NEW n \in Records, Reserve(0, n), ~strayed'
  PROVE  AtStage' /\ Tiles'
<1>1. RawTypeOK /\ InShares /\ LimitsFit /\ RawInv' /\ Consumer = {0} /\ 0 \in Consumer
  BY OneThread, ReserveKeeps DEF RawInv
<1>2. /\ Reserved \in Nat /\ n \in Nat /\ n > RawHlen /\ OffsetMod \in Nat \ {0}
      /\ writeOff \in RunningOffset /\ writeOff \in Int /\ RawHlen \in Nat
      /\ n < BufBytes /\ BufBytes <= OffsetMod /\ BufBytes \in Nat
      /\ FileSize \in Nat
  BY <1>1, OneRoom, RawSizes DEF RawTypeOK, RunningOffset
<1>3. Reserved' = Reserved + n
  BY <1>1, ReserveShares
<1>4. /\ stage[0] \in {"rx", "retry"} /\ dst'[0] = writeOff /\ size'[0] = n
      /\ stage'[0] = IF NeedsPadding(writeOff, n) THEN "padTail"
                     ELSE IF InGap(writeOff) THEN "padGap" ELSE "frame"
      /\ writeOff' = (writeOff + n) % OffsetMod /\ ~InGap(writeOff')
      /\ UNCHANGED <<readOff, pubOff, cell>>
  BY <1>1 DEF Reserve, RawTypeOK
<1>5. ~InGap(writeOff) /\ Frontier = Reserved + Rest(writeOff)
  BY <1>4 DEF AtStage, Frontier
<1>6. (writeOff' - dst'[0]) % OffsetMod = n
  <2>1. (writeOff - writeOff) % OffsetMod = 0
    <3>1. writeOff - writeOff = 0 /\ 0 \in 0..(OffsetMod - 1)
      BY <1>2
    <3> QED BY <1>2, <3>1, RemainderSmall
  <2>2. ((writeOff - writeOff) % OffsetMod) + n \in 0..(OffsetMod - 1) /\ n \in Int
    BY <1>2, <2>1
  <2>3. (((writeOff + n) % OffsetMod) - writeOff) % OffsetMod = ((writeOff - writeOff) % OffsetMod) + n
    BY <1>2, <2>2, Moved
  <2> QED BY <1>2, <1>4, <2>1, <2>3
<1>7. AtStage'
  <2>1. NeedsPadding(writeOff, n)' <=> NeedsPadding(writeOff', n)
    BY DEF NeedsPadding, AsFileOffset
  <2>2. NeedsPadding(dst[0], size[0])' <=> NeedsPadding(writeOff, n)
    BY <1>4 DEF NeedsPadding, AsFileOffset
  <2>3. Writing' /\ (stage'[0] # "frame" <=> NeedsPadding(writeOff, n)) /\ stage'[0] # "padGap"
        /\ stage'[0] # "padHead"
    BY <1>4, <1>5 DEF Writing
  <2>4. size'[0] <= Reserved'
    BY <1>2, <1>3, <1>4
  <2> QED BY <1>4, <1>6, <2>2, <2>3, <2>4 DEF AtStage
<1>8. Frontier' = Frontier
  <2>1. CASE NeedsPadding(writeOff, n)
    <3>1. Frontier' = (Reserved' - size'[0]) + Rest(dst'[0])
      BY <1>4, <2>1 DEF Frontier, Rest, AsFileOffset
    <3>2. Rest(dst'[0]) = Rest(writeOff) /\ Rest(writeOff) \in Int
      BY <1>2, <1>4, RestRange
    <3> QED BY <1>2, <1>3, <1>4, <1>5, <3>1, <3>2
  <2>2. CASE ~NeedsPadding(writeOff, n)
    <3>1. Frontier' = Reserved' - size'[0]
      BY <1>4, <1>5, <2>2 DEF Frontier
    <3>2. Rest(writeOff) = 0
      <4>1. AsFileOffset(writeOff) \in Int
        BY <1>2, FileStep, RawSizes, Division DEF AsFileOffset
      <4>2. ~(AsFileOffset(writeOff) + n + RawHlen > FileSize)
        BY <2>2 DEF NeedsPadding
      <4>3. ~(AsFileOffset(writeOff) + RawHlen > FileSize)
        BY <1>2, <4>1, <4>2
      <4> QED BY <4>3 DEF Rest
    <3> QED BY <1>2, <1>3, <1>4, <1>5, <3>1, <3>2
  <2> QED BY <2>1, <2>2
<1>9. \A k \in Int : CellAt(k)' = CellAt(k)
  BY <1>4 DEF CellAt, AsBufferOffset
<1>10. Reserved \in Int /\ Reserved' \in Int /\ Reserved <= Reserved'
  BY <1>2, <1>3
<1>11. Tiles'
  BY <1>1, <1>4, <1>8, <1>9, <1>10, TilesStay
<1> QED BY <1>7, <1>11

\* A frame is written where it was reserved, and ends with the reservation.
LEMMA FrameTiles ==
  ASSUME Consumers = 1, RawInv, AtStage, Tiles, WriteFrame(0)
  PROVE  AtStage' /\ Tiles'
<1>1. /\ RawTypeOK /\ Consumer = {0} /\ 0 \in Consumer /\ Writing /\ stage[0] = "frame"
  BY OneThread DEF RawInv, WriteFrame, Writing
<1>2. /\ cell' = Written(dst[0], Header("frame", size[0]), size[0]) /\ stage'[0] = "rx"
      /\ UNCHANGED <<writeOff, readOff, pubOff>>
  BY <1>1 DEF WriteFrame, RawTypeOK, offVars
<1> DEFINE fd == AsFileOffset(dst[0])
           n  == size[0]
           h  == Header("frame", n)
<1>3. /\ dst[0] \in Int /\ n \in Nat \ {0} /\ n > RawHlen /\ n <= Reserved
      /\ fd \in 0..(FileSize - 1) /\ fd + n + RawHlen <= FileSize
      /\ RawHlen \in Nat /\ FileSize \in Nat
      /\ Rest(writeOff) = 0
  <2>1. /\ dst[0] \in Nat /\ n \in Nat /\ n > RawHlen /\ n <= Reserved
        /\ fd \in 0..(FileSize - 1) /\ fd + n + RawHlen <= FileSize
        /\ Rest(writeOff) = IF fd + n < FileSize /\ fd + n + RawHlen > FileSize
                            THEN (FileSize - fd) - n ELSE 0
    BY <1>1, StageFacts
  <2>2. RawHlen \in Nat \ {0} /\ FileSize \in Nat
    BY RawSizes
  <2> HIDE DEF fd, n
  <2> QED BY <2>1, <2>2
<1>4. /\ Reserved \in Nat /\ Used \in Nat /\ Used + Reserved < BufBytes /\ BufBytes \in Nat
  BY OneRoom, RawSizes
<1>5. Frontier = Reserved - n /\ Frontier' = Reserved
  <2>1. Frontier' = Reserved' + Rest(writeOff)' /\ Reserved' = Reserved
        /\ Rest(writeOff)' = Rest(writeOff)
    BY <1>2 DEF Frontier, Reserved, Rest, AsFileOffset
  <2> QED BY <1>1, <1>3, <1>4, <2>1 DEF Frontier
<1>6. /\ AsBufferOffset(dst[0]) = AsBufferOffset(pubOff + Frontier)
      /\ AsFileOffset(pubOff + Frontier) = fd
  <2> DEFINE d == dst[0]
  <2>1. /\ AsBufferOffset(d + 0) = AsBufferOffset((pubOff + (Reserved - n)) + 0)
        /\ AsFileOffset(d + 0) = AsFileOffset((pubOff + (Reserved - n)) + 0)
    <3>1. 0 \in Int /\ size[0] \in Int /\ dst[0] \in Int
      BY <1>3
    <3> QED BY <1>1, <3>1, SeenFromPublished
  <2>2. d + 0 = d /\ (pubOff + (Reserved - n)) + 0 = pubOff + Frontier
    <3>1. pubOff \in Int /\ d \in Int
      BY <1>1, <1>3, RawSizes DEF RawTypeOK, RunningOffset
    <3> HIDE DEF n, d
    <3> QED BY <1>3, <1>4, <1>5, <3>1
  <2> QED BY <2>1, <2>2
<1>7. /\ h \in Cell /\ h.kind = "frame" /\ h.len = n
  BY <1>3 DEF Header, Cell
<1>8. AtStage'
  BY <1>1, <1>2 DEF AtStage, Writing, InGap, AsFileOffset
<1>9. Tiles'
  <2> HIDE DEF n, fd, h
  <2>1. /\ Used + Frontier + n <= BufBytes /\ Frontier + h.len <= Reserved
        /\ Frontier' = Frontier + h.len /\ h.len >= RawHlen
        /\ AsFileOffset(pubOff + Frontier) + h.len <= FileSize
    BY <1>3, <1>4, <1>5, <1>6, <1>7
  <2>2. cell' = Written(dst[0], h, n)
    BY <1>2 DEF h, n
  <2> QED BY <1>1, <1>2, <1>3, <1>4, <1>6, <1>7, <2>1, <2>2, TilesGrow
<1> QED BY <1>8, <1>9

\* The stored length of padding that is not much longer than a frame.
LEMMA StoredWhole ==
  ASSUME NEW x \in Nat, x >= RawHlen, x - RawHlen < LenMod
  PROVE  StoredLength(x) = x
<1>1. RawHlen \in Nat /\ LenMod \in Nat \ {0} /\ x - RawHlen \in 0..(LenMod - 1)
  BY RawSizes
<1> DEFINE r == x - RawHlen
<1>2. r \in 0..(LenMod - 1) /\ RawHlen + r = x
  BY <1>1
<1> HIDE DEF r
<1>3. r % LenMod = r
  BY <1>1, <1>2, RemainderSmall
<1> QED BY <1>2, <1>3 DEF StoredLength, r

\* The reservation and the end of its file, seen from the published bytes.
LEMMA ReservedPlaces ==
  ASSUME Consumers = 1, RawInv, AtStage, Writing, NEW z \in Int
  PROVE  /\ AsBufferOffset(dst[0] + z) = AsBufferOffset(pubOff + ((Reserved - size[0]) + z))
         /\ AsFileOffset(dst[0] + z) = AsFileOffset(pubOff + ((Reserved - size[0]) + z))
         /\ stage[0] # "frame" => AsFileOffset(dst[0] + TailLength(0)) = 0
<1> DEFINE n == size[0]
           d == dst[0]
<1>1. /\ n \in Nat /\ d \in Int /\ Reserved \in Nat /\ pubOff \in Int /\ RawTypeOK
      /\ FileSize \in Nat \ {0} /\ RawHlen \in Nat
      /\ n + RawHlen <= FileSize /\ TailLength(0) = FileSize - AsFileOffset(d)
      /\ stage[0] # "frame" => AsFileOffset(d) + n + RawHlen > FileSize
  <2>1. RawTypeOK /\ pubOff \in Int /\ FileSize \in Nat \ {0} /\ RawHlen \in Nat
    BY RawSizes DEF RawInv, RawTypeOK, RunningOffset
  <2>2. Reserved \in Nat
    BY OneRoom
  <2>3. /\ d \in Nat /\ n \in Nat /\ n + RawHlen <= FileSize
        /\ TailLength(0) = FileSize - AsFileOffset(d)
        /\ stage[0] # "frame" => AsFileOffset(d) + n + RawHlen > FileSize
    BY StageFacts
  <2> HIDE DEF n, d
  <2> QED BY <2>1, <2>2, <2>3
<1>2. /\ AsBufferOffset(d + z) = AsBufferOffset((pubOff + (Reserved - n)) + z)
      /\ AsFileOffset(d + z) = AsFileOffset((pubOff + (Reserved - n)) + z)
  <2>1. size[0] \in Int /\ dst[0] \in Int
    BY <1>1
  <2> QED BY <1>1, <2>1, SeenFromPublished
<1> HIDE DEF n, d
<1>3. (pubOff + (Reserved - n)) + z = pubOff + ((Reserved - n) + z)
  BY <1>1
<1>4. ASSUME stage[0] # "frame" PROVE AsFileOffset(d + TailLength(0)) = 0
  <2> DEFINE t == TailLength(0)
             f == AsFileOffset(d)
  <2>1. f \in 0..(FileSize - 1)
    BY <1>1, Division DEF AsFileOffset
  <2>2. t = FileSize - f /\ f + n + RawHlen > FileSize
    BY <1>1, <1>4
  <2> HIDE DEF t
  <2>3. t \in Nat /\ t < FileSize
    <3> HIDE DEF f
    <3> QED BY <1>1, <2>1, <2>2
  <2>4. AsFileOffset(d + t) = IF f + t < FileSize THEN f + t ELSE (f + t) - FileSize
    BY <1>1, <2>3, FileStep
  <2> HIDE DEF f
  <2>5. AsFileOffset(d + t) = 0
    BY <1>1, <2>1, <2>2, <2>4
  <2> QED BY <2>5 DEF t
<1> QED BY <1>2, <1>3, <1>4 DEF n, d

\* The padding up to the end of the file is a record that ends with it.
LEMMA PadTailTiles ==
  ASSUME Consumers = 1, RawInv, AtStage, Tiles, PadTail(0)
  PROVE  AtStage' /\ Tiles'
<1>1. /\ RawTypeOK /\ Consumer = {0} /\ 0 \in Consumer /\ Writing /\ stage[0] = "padTail"
  BY OneThread DEF RawInv, PadTail, Writing
<1>2. /\ SetPadding(dst[0], TailLength(0))
      /\ stage'[0] = IF FinalOffset(0) >= RawHlen THEN "padHead" ELSE "retry"
      /\ UNCHANGED <<writeOff, readOff, pubOff, size, dst>>
  BY <1>1 DEF PadTail, RawTypeOK, offVars
<1> DEFINE fd == AsFileOffset(dst[0])
           n  == size[0]
           t  == TailLength(0)
           h  == Header("pad", StoredLength(t))
<1>3. /\ dst[0] \in Int /\ n \in Nat /\ n > RawHlen /\ n <= Reserved /\ n <= LenMod
      /\ fd \in 0..(FileSize - 1) /\ fd + n + RawHlen > FileSize /\ t = FileSize - fd
      /\ n + RawHlen <= FileSize
      /\ FinalOffset(0) = IF fd + n < FileSize THEN fd + n ELSE (fd + n) - FileSize
      /\ FinalOffset(0) = 0 \/ FinalOffset(0) >= RawHlen
      /\ Rest(dst[0]) = IF fd + RawHlen > FileSize THEN FileSize - fd ELSE 0
      /\ Rest(writeOff) = IF fd + n < FileSize /\ fd + n + RawHlen > FileSize
                          THEN (FileSize - fd) - n ELSE 0
  BY <1>1, StageFacts
<1>4. /\ Reserved \in Nat /\ Used \in Nat /\ Used + Reserved < BufBytes /\ BufBytes \in Nat
      /\ RawHlen \in Nat \ {0} /\ LenMod \in Nat \ {0} /\ FileSize \in Nat
  BY OneRoom, RawSizes
<1>5. Frontier = (Reserved - n) + Rest(dst[0])
  BY <1>1 DEF Frontier
<1>6. /\ Reserved' = Reserved /\ TailLength(0)' = t /\ Rest(writeOff)' = Rest(writeOff)
      /\ FinalOffset(0)' = FinalOffset(0)
  BY <1>2 DEF Reserved, TailLength, Rest, FinalOffset, AsFileOffset
<1>7. Frontier' = (Reserved - n) + t
  <2>1. CASE FinalOffset(0) >= RawHlen
    BY <1>2, <1>6, <2>1 DEF Frontier
  <2>2. CASE ~(FinalOffset(0) >= RawHlen)
    <3>1. Frontier' = Reserved + Rest(writeOff)
      BY <1>2, <1>6, <2>2 DEF Frontier
    <3> HIDE DEF fd, n, t
    <3> QED BY <1>3, <1>4, <2>2, <3>1
  <2> QED BY <2>1, <2>2
<1>8. AtStage'
  <2>1. /\ ~InGap(writeOff)' /\ stage'[0] # "padGap" /\ stage'[0] # "frame"
        /\ stage'[0] = "padHead" => FinalOffset(0)' >= RawHlen
    BY <1>1, <1>2, <1>6 DEF AtStage, InGap, AsFileOffset
  <2>2. (writeOff' - dst'[0]) % OffsetMod = size'[0] /\ size'[0] <= Reserved'
    BY <1>1, <1>2, <1>6 DEF AtStage
  <2>3. NeedsPadding(dst[0], size[0])' <=> NeedsPadding(dst[0], size[0])
    BY <1>2 DEF NeedsPadding, AsFileOffset
  <2>4. stage'[0] # "frame" <=> NeedsPadding(dst[0], size[0])
    BY <1>1, <1>2 DEF AtStage
  <2> QED BY <2>1, <2>2, <2>3, <2>4 DEF AtStage
<1>9. Tiles'
  <2>1. CASE t < RawHlen
    <3>1. cell' = cell
      BY <1>2, <2>1 DEF SetPadding
    <3>2. Frontier' = Frontier
      <4> HIDE DEF fd, n, t
      <4> QED BY <1>3, <1>4, <1>5, <1>7, <2>1
    <3>3. \A k \in Int : CellAt(k)' = CellAt(k)
      BY <1>2, <3>1 DEF CellAt, AsBufferOffset
    <3>4. Reserved \in Int /\ Reserved' \in Int /\ Reserved <= Reserved'
      BY <1>4, <1>6
    <3> QED BY <1>1, <1>2, <3>2, <3>3, <3>4, TilesStay
  <2>2. CASE ~(t < RawHlen)
    <3>1. cell' = Written(dst[0], h, RawHlen)
      BY <1>2, <2>2 DEF SetPadding
    <3>2. t \in Nat /\ t >= RawHlen /\ t - RawHlen < LenMod /\ Frontier = Reserved - n
          /\ Frontier' = Frontier + t /\ Used + Frontier + RawHlen <= BufBytes
      <4> HIDE DEF fd, n, t
      <4> QED BY <1>3, <1>4, <1>5, <1>7, <2>2
    <3>3. h \in Cell /\ h.kind = "pad" /\ h.len = t
      <4> HIDE DEF t
      <4> QED BY <3>2, StoredWhole DEF Header, Cell
    <3>4. /\ AsBufferOffset(dst[0]) = AsBufferOffset(pubOff + Frontier)
          /\ AsFileOffset(pubOff + Frontier) = fd
      <4> DEFINE d == dst[0]
                 z == 0
      <4>1. /\ AsBufferOffset(d + z) = AsBufferOffset(pubOff + ((Reserved - n) + z))
            /\ AsFileOffset(d + z) = AsFileOffset(pubOff + ((Reserved - n) + z))
        BY <1>1, ReservedPlaces
      <4>2. d + z = d /\ (Reserved - n) + z = Frontier
        <5> HIDE DEF n, fd, t, h
        <5> QED BY <1>3, <1>4, <3>2
      <4> QED BY <4>1, <4>2
    <3> HIDE DEF h, t, n
    <3>5. fd + t <= FileSize
      BY <1>3, <1>4
    <3> QED BY <1>1, <1>2, <1>3, <1>4, <3>1, <3>2, <3>3, <3>4, <3>5, TilesGrow
  <2> QED BY <2>1, <2>2
<1> QED BY <1>8, <1>9

\* The loop ends.
LEMMA EndRxTiles ==
  ASSUME Consumers = 1, RawInv, AtStage, Tiles, EndRx(0)
  PROVE  AtStage' /\ Tiles'
<1>1. /\ RawTypeOK /\ stage[0] \in {"rx", "retry"} /\ stage'[0] = "done"
      /\ UNCHANGED <<writeOff, readOff, pubOff, cell>>
  BY OneThread DEF RawInv, EndRx, RawTypeOK, offVars
<1>2. Frontier' = Frontier /\ Reserved' = Reserved
  BY <1>1 DEF Frontier, Reserved, Rest, AsFileOffset
<1>3. \A k \in Int : CellAt(k)' = CellAt(k)
  BY <1>1 DEF CellAt, AsBufferOffset
<1>4. AtStage'
  BY <1>1 DEF AtStage, Writing, InGap, AsFileOffset
<1>5. Reserved \in Int /\ Reserved' \in Int /\ Reserved <= Reserved'
  BY <1>2, OneRoom
<1>6. Tiles'
  BY <1>1, <1>2, <1>3, <1>5, TilesStay
<1> QED BY <1>4, <1>6

\* A header that is not written over the byte the reader is at ends before it.
LEMMA HeaderBehind ==
  ASSUME Consumers = 1, RawInv, AtStage, stage[0] = "padHead",
         Bytes(dst[0] + TailLength(0), RawHlen) \cap NotReadBefore(0) = {}
  PROVE  Used + Frontier + RawHlen <= BufBytes
<1> DEFINE n == size[0]
           t == TailLength(0)
           d == dst[0]
           w == Used + Frontier
           k == BufBytes - w
<1>1. /\ RawTypeOK /\ Writing /\ RawHlen \in Nat \ {0} /\ BufBytes \in Nat \ {0}
      /\ pubOff \in RunningOffset /\ pubOff \in Int /\ readOff \in Int /\ readOff \in Int
      /\ OffsetMod \in Nat \ {0}
  BY RawSizes DEF RawInv, RawTypeOK, RunningOffset, Writing
<1>2. /\ Reserved \in Nat /\ Used \in Nat
      /\ Reserved = 0 \/ Used + Reserved + RawHlen < BufBytes
  BY OneRoom
<1>3. Frontier \in Nat /\ Frontier < Reserved + RawHlen
  BY FrontierBounds
<1>4. /\ n \in Nat /\ n > RawHlen /\ n <= Reserved /\ d \in Nat /\ t \in Int
  <2>1. /\ n \in Nat /\ n > RawHlen /\ n <= Reserved /\ d \in Nat
        /\ TailLength(0) = FileSize - AsFileOffset(d) /\ AsFileOffset(d) \in 0..(FileSize - 1)
    BY <1>1, StageFacts
  <2>2. FileSize \in Nat
    BY RawSizes
  <2> HIDE DEF n, d
  <2> QED BY <2>1, <2>2
<1>5. Frontier = (Reserved - n) + t
  BY DEF Frontier
<1> SUFFICES ASSUME w + RawHlen > BufBytes PROVE FALSE
  <2> HIDE DEF n, t, d
  <2> QED BY <1>1, <1>2, <1>3
<1>6. k \in 0..(RawHlen - 1)
  <2> HIDE DEF n, t, d
  <2> QED BY <1>1, <1>2, <1>3, <1>4
<1>7. AsBufferOffset((d + t) + k) = AsBufferOffset(readOff)
  <2> DEFINE z == t + k
             g == Used
             u == (Reserved - n) + z
  <2>1. /\ z \in Int /\ g \in Int /\ k \in Int /\ (d + t) + k = d + z
        /\ u \in Int /\ g + u = BufBytes /\ BufBytes \in Int
    <3>1. k \in Int
      BY <1>6
    <3> HIDE DEF n, t, d
    <3>2. z \in Int /\ d + z = (d + t) + k
      <4> HIDE DEF k
      <4> QED BY <1>4, <3>1
    <3>3. u = Frontier + k
      <4> HIDE DEF k
      <4> QED BY <1>2, <1>3, <1>4, <1>5, <3>1
    <3> QED BY <1>1, <1>2, <1>3, <3>1, <3>2, <3>3
  <2>2. AsBufferOffset(d + z) = AsBufferOffset(pubOff + u)
    <3> HIDE DEF t, k, z
    <3>1. Writing /\ z \in Int
      BY <1>1, <2>1
    <3> QED BY <3>1, ReservedPlaces
  <2>3. AsBufferOffset(pubOff) = AsBufferOffset(readOff + g)
    <3>1. (pubOff - readOff) % OffsetMod = g
      BY DEF Used
    <3> HIDE DEF g
    <3> QED BY <1>1, <2>1, <3>1, Ahead
  <2> HIDE DEF g, u, z, t, k, n, d
  <2>4. AsBufferOffset(pubOff + u) = AsBufferOffset((readOff + g) + u)
    <3> DEFINE y == readOff + g
    <3>1. y \in Int /\ pubOff % BufBytes = y % BufBytes
      BY <1>1, <2>1, <2>3 DEF AsBufferOffset
    <3> HIDE DEF y
    <3> DEFINE a == pubOff + u
               b == y + u
    <3>2. a \in Int /\ b \in Int /\ a - pubOff = b - y /\ u \in Int
      BY <1>1, <2>1, <3>1
    <3> HIDE DEF a, b
    <3>3. Congruent(pubOff, y, BufBytes)
      BY <1>1, <3>1, SameRemainder
    <3>4. Congruent(a, b, BufBytes)
      BY <1>1, <3>1, <3>2, <3>3, CongruentShift
    <3>5. a % BufBytes = b % BufBytes
      BY <1>1, <3>2, <3>4, SameRemainder
    <3> QED BY <3>5 DEF y, a, b, AsBufferOffset
  <2>5. (readOff + g) + u = readOff + BufBytes * 1 /\ 1 \in Int
    BY <1>1, <2>1
  <2>6. (readOff + BufBytes * 1) % BufBytes = readOff % BufBytes
    BY <1>1, <2>5, RemainderSame
  <2>7. AsBufferOffset((readOff + g) + u) = AsBufferOffset(readOff)
    BY <2>5, <2>6 DEF AsBufferOffset
  <2>8. AsBufferOffset((d + t) + k) = AsBufferOffset(d + z)
    BY <2>1
  <2> QED BY <2>2, <2>4, <2>7, <2>8
<1>8. AsBufferOffset(readOff) \in Bytes(d + t, RawHlen)
  <2> HIDE DEF d, t, k
  <2> QED BY <1>6, <1>7 DEF Bytes
<1>9. AsBufferOffset(readOff) \in NotReadBefore(0)
  <2> DEFINE x == (d - readOff) % OffsetMod
             e == (x + 1) - 1
  <2>1. x \in Nat
    <3> DEFINE r == d - readOff
    <3>1. r \in Int
      BY <1>1, <1>4
    <3> HIDE DEF r
    <3>2. r % OffsetMod \in 0..(OffsetMod - 1)
      BY <1>1, <3>1, Division
    <3> QED BY <1>1, <3>2 DEF r
  <2>2. NotReadBefore(0) = Bytes(readOff, x + 1)
    BY DEF NotReadBefore
  <2> HIDE DEF x
  <2>3. 0 \in 0..e /\ readOff + 0 = readOff
    BY <1>1, <2>1
  <2> QED BY <2>2, <2>3 DEF Bytes
<1> QED BY <1>8, <1>9

\* The padding at the start of the next file, or the header written behind the
\* reservation when there is none.
LEMMA PadHeadTiles ==
  ASSUME Consumers = 1, RawInv, AtStage, Tiles, PadHead(0), ~strayed'
  PROVE  AtStage' /\ Tiles'
<1>1. /\ RawTypeOK /\ Consumer = {0} /\ 0 \in Consumer /\ Writing /\ stage[0] = "padHead"
  BY OneThread DEF RawInv, PadHead, Writing
<1>2. /\ SetPadding(dst[0] + TailLength(0), FinalOffset(0)) /\ stage'[0] = "retry"
      /\ UNCHANGED <<writeOff, readOff, pubOff>>
  BY <1>1 DEF PadHead, RawTypeOK, offVars
<1> DEFINE fd == AsFileOffset(dst[0])
           n  == size[0]
           t  == TailLength(0)
           f  == FinalOffset(0)
           off == dst[0] + t
           h  == Header("pad", StoredLength(f))
<1>3. /\ dst[0] \in Nat /\ n \in Nat /\ n > RawHlen /\ n <= Reserved /\ n <= LenMod
      /\ fd \in 0..(FileSize - 1) /\ fd + n + RawHlen > FileSize /\ t = FileSize - fd
      /\ n + RawHlen <= FileSize /\ f >= RawHlen
      /\ f = IF fd + n < FileSize THEN fd + n ELSE (fd + n) - FileSize
      /\ Rest(writeOff) = IF fd + n < FileSize /\ fd + n + RawHlen > FileSize
                          THEN (FileSize - fd) - n ELSE 0
  BY <1>1, StageFacts
<1>4. /\ Reserved \in Nat /\ Used \in Nat /\ Used + Reserved < BufBytes /\ BufBytes \in Nat
      /\ RawHlen \in Nat \ {0} /\ LenMod \in Nat \ {0} /\ FileSize \in Nat \ {0}
      /\ pubOff \in Int
  BY <1>1, OneRoom, RawSizes DEF RawTypeOK, RunningOffset
<1>5. Frontier = (Reserved - n) + t
  BY <1>1 DEF Frontier
<1>6. Reserved' = Reserved /\ Frontier' = Reserved + Rest(writeOff)
  BY <1>2 DEF Reserved, Frontier, Rest, AsFileOffset
<1>7. AtStage'
  BY <1>1, <1>2 DEF AtStage, Writing, InGap, AsFileOffset
<1>8. cell' = Written(off, h, RawHlen)
  <2>1. ~(f < RawHlen)
    <3> HIDE DEF fd, n, t
    <3> QED BY <1>3, <1>4
  <2> QED BY <1>2, <2>1 DEF SetPadding
<1>9. AsBufferOffset(off) = AsBufferOffset(pubOff + Frontier) /\ AsFileOffset(pubOff + Frontier) = 0
      /\ off \in Int
  <2>1. t \in Int
    <3> HIDE DEF fd, n, t
    <3> QED BY <1>3, <1>4
  <2>2. /\ AsBufferOffset(dst[0] + t) = AsBufferOffset(pubOff + ((Reserved - n) + t))
        /\ AsFileOffset(dst[0] + t) = AsFileOffset(pubOff + ((Reserved - n) + t))
        /\ AsFileOffset(dst[0] + t) = 0
    <3>1. stage[0] # "frame"
      BY <1>1
    <3> QED BY <1>1, <2>1, <3>1, ReservedPlaces
  <2>3. off \in Int
    <3> HIDE DEF t
    <3> QED BY <1>3, <2>1
  <2> QED BY <1>5, <2>2, <2>3
<1>10. h \in Cell /\ h.kind = "pad"
  <2>1. f \in Int
    <3> HIDE DEF fd, n, t
    <3> QED BY <1>3, <1>4
  <2> HIDE DEF f
  <2> QED BY <2>1, PaddingHeader DEF Header
<1>11. CASE fd + n < FileSize
  <2>1. Frontier' = Frontier
    <3> HIDE DEF fd, n, t
    <3> QED BY <1>3, <1>4, <1>5, <1>6, <1>11
  <2>2. Used + Frontier + RawHlen <= BufBytes
    <3>1. Bytes(dst[0] + TailLength(0), RawHlen) \cap NotReadBefore(0) = {}
      BY DEF PadHead
    <3> QED BY <1>1, <3>1, HeaderBehind
  <2>3. Frontier \in Nat
    BY FrontierBounds
  <2>4. ASSUME NEW k \in Int, k > -Frontier, k <= Used PROVE CellAt(k)' = CellAt(k)
    <3> DEFINE q == Frontier
    <3>1. q \in Int /\ k > -q /\ k + q + RawHlen <= BufBytes /\ RawHlen > 0 /\ RawHlen \in Nat
      BY <1>4, <2>2, <2>3, <2>4
    <3>2. AsBufferOffset(off) = AsBufferOffset(pubOff + q)
      BY <1>9
    <3> HIDE DEF q, off, h
    <3> QED BY <1>1, <1>2, <1>8, <1>9, <3>1, <3>2, WriteKeeps
  <2>5. Reserved \in Int /\ Reserved' \in Int /\ Reserved <= Reserved'
    BY <1>4, <1>6
  <2>6. Tiles'
    BY <1>1, <1>2, <2>1, <2>4, <2>5, TilesStay
  <2> QED BY <1>7, <2>6
<1>12. CASE ~(fd + n < FileSize)
  <2>1. /\ f \in Nat /\ f >= RawHlen /\ f - RawHlen < LenMod /\ f <= FileSize
        /\ Frontier' = Frontier + f /\ Used + Frontier + RawHlen <= BufBytes
    <3> HIDE DEF fd, n, t, f
    <3> QED BY <1>3, <1>4, <1>5, <1>6, <1>12
  <2>2. h.len = f
    <3> HIDE DEF f
    <3> QED BY <2>1, StoredWhole DEF Header
  <2> HIDE DEF h, off, f
  <2>3. /\ Frontier' = Frontier + h.len /\ h.len >= RawHlen
        /\ AsFileOffset(pubOff + Frontier) + h.len <= FileSize
    BY <1>9, <2>1, <2>2
  <2>4. Tiles'
    BY <1>1, <1>2, <1>4, <1>8, <1>9, <1>10, <2>1, <2>3, TilesGrow
  <2> QED BY <1>7, <2>4
<1> QED BY <1>11, <1>12

\* Publishing: the records are seen from the end of the reservation.
LEMMA PublishTiles ==
  ASSUME Consumers = 1, RawInv, AtStage, Tiles, Publish
  PROVE  AtStage' /\ Tiles'
<1>1. /\ RawTypeOK /\ 0 \in Consumer /\ stage[0] = "done" /\ stage'[0] = "rx"
      /\ pubOff' = writeOff /\ UNCHANGED <<writeOff, readOff, cell>>
  BY OneThread DEF RawInv, Publish
<1>2. PICK q \in Nat, s \in SUBSET Int : q = Frontier /\ TileOf(s, q)
  BY DEF Tiles
<1>3. PICK R \in Nat : R = Reserved
  BY OneRoom
<1>4. /\ pubOff \in Int /\ writeOff \in Int /\ OffsetMod \in Nat \ {0}
      /\ Used \in Nat /\ Used' = Used + R /\ RawHlen \in Nat \ {0}
  BY <1>1, <1>3, OneRoom, PublishedUsed, RawSizes DEF RawTypeOK, RunningOffset
<1>5. Reserved' = 0
  <2>1. writeOff - writeOff = 0 /\ 0 \in 0..(OffsetMod - 1)
    BY <1>4
  <2>2. 0 % OffsetMod = 0
    BY <1>4, <2>1, RemainderSmall
  <2> QED BY <1>1, <2>1, <2>2 DEF Reserved
<1>6. Rest(writeOff) \in Nat /\ q = R + Rest(writeOff) /\ Frontier' = 0 + Rest(writeOff)
  <2>1. Rest(writeOff) \in Nat
    BY <1>4, RestRange
  <2>2. Frontier = Reserved + Rest(writeOff)
    BY <1>1 DEF Frontier
  <2>3. Frontier' = Reserved' + Rest(writeOff)
    BY <1>1 DEF Frontier, Rest, AsFileOffset
  <2> QED BY <1>2, <1>3, <1>5, <2>1, <2>2, <2>3
<1>7. PICK r \in Nat : r = q - R
  BY <1>6
<1>8. PICK t \in SUBSET Int : t = {k + R : k \in s}
  <2>1. {k + R : k \in s} \in SUBSET Int
    OBVIOUS
  <2> QED BY <2>1
<1>9. s \subseteq (-q)..Used /\ Used \in s /\ -q \in s
  BY <1>2 DEF TileOf
<1>10. t \subseteq (-r)..Used' /\ Used' \in t /\ -r \in t
  <2>1. \A k \in s : k \in Int /\ k >= -q /\ k <= Used
    BY <1>4, <1>9
  <2>2. \A k \in s : k + R \in Int /\ k + R >= -r /\ k + R <= Used + R
    BY <1>4, <1>7, <2>1
  <2>3. t \subseteq (-r)..(Used + R)
    BY <1>8, <1>4, <2>2
  <2>4. (-q) + R = -r
    BY <1>7
  <2> QED BY <1>4, <1>8, <1>9, <2>3, <2>4
<1>11. ASSUME NEW k \in t, k # -r PROVE RecordIn(t, k)'
  <2>1. PICK j \in s : k = j + R
    BY <1>8
  <2>2. j \in Int /\ k \in Int /\ j # -q
    BY <1>7, <1>11, <2>1
  <2>3. RecordIn(s, j) /\ CellAt(j).len \in Nat
    <3>1. CellAt(j).len \in Nat
      BY <1>1, <2>2, CellAtType DEF Cell
    <3> QED BY <1>2, <2>2, <3>1 DEF TileOf
  <2>4. /\ AsBufferOffset(writeOff - k) = AsBufferOffset(pubOff - j)
        /\ AsFileOffset(writeOff - k) = AsFileOffset(pubOff - j)
    <3>1. \A z : z = -k =>
            /\ AsBufferOffset(writeOff + z) = AsBufferOffset((pubOff + R) + z)
            /\ AsFileOffset(writeOff + z) = AsFileOffset((pubOff + R) + z)
      BY <1>1, <1>3, <2>2, SeenFromPublished
    <3> DEFINE z == -k
    <3>2. writeOff + z = writeOff - k /\ (pubOff + R) + z = pubOff - j
      BY <1>4, <2>1, <2>2
    <3>3. /\ AsBufferOffset(writeOff + z) = AsBufferOffset((pubOff + R) + z)
          /\ AsFileOffset(writeOff + z) = AsFileOffset((pubOff + R) + z)
      BY <3>1
    <3> HIDE DEF z
    <3> QED BY <3>2, <3>3
  <2>5. CellAt(k)' = CellAt(j)
    <3>1. CellAt(k)' = cell[AsBufferOffset(writeOff - k)]
      BY <1>1 DEF CellAt, AsBufferOffset
    <3> QED BY <2>4, <3>1 DEF CellAt
  <2> DEFINE L == CellAt(j).len
  <2>6. /\ CellAt(j).kind \in {"pad", "frame"} /\ L >= RawHlen /\ j - L \in s /\ L \in Nat
        /\ AsFileOffset(pubOff - j) + L <= FileSize
        /\ CellAt(j).kind = "frame" => j - L >= -R
    BY <1>3, <2>3 DEF RecordIn
  <2> HIDE DEF L
  <2>7. k - L \in t
    <3>1. (j - L) + R = k - L
      BY <2>1, <2>2, <2>6
    <3> QED BY <1>8, <2>6, <3>1
  <2>8. AsFileOffset(writeOff - k)' = AsFileOffset(writeOff - k)
    BY <1>1 DEF AsFileOffset
  <2>9. CellAt(j).kind = "frame" => k - L >= 0 /\ L <= k
    BY <2>1, <2>2, <2>6
  <2>10. AsFileOffset(pubOff - k)' + L <= FileSize
    <3>1. AsFileOffset(pubOff - k)' = AsFileOffset(writeOff - k)
      BY <1>1 DEF AsFileOffset
    <3> QED BY <2>4, <2>6, <3>1
  <2>11. (CellAt(k)').len = L
    BY <2>5 DEF L
  <2>12. CellAt(j).kind = "frame" => k - L >= -Reserved' /\ (k > 0 => L <= k)
    <3>1. Reserved' \in Int /\ Reserved' >= 0 /\ k - L \in Int
      BY <1>5, <2>2, <2>6
    <3>2. \A z \in Int : z >= 0 /\ k - L >= 0 => k - L >= -z
      BY <3>1
    <3> QED BY <2>9, <3>1, <3>2
  <2> QED BY <2>5, <2>6, <2>7, <2>10, <2>11, <2>12 DEF RecordIn
<1>12. TileOf(t, r)'
  BY <1>10, <1>11 DEF TileOf
<1>13. r = Frontier'
  BY <1>6, <1>7
<1>14. Tiles'
  BY <1>12, <1>13 DEF Tiles
<1>15. AtStage'
  BY <1>1 DEF AtStage, Writing, InGap, AsFileOffset
<1> QED BY <1>14, <1>15

-----------------------------------------------------------------------------
\* The reader goes from record to record, unless a header is split.
LEMMA LeftIsStart ==
  ASSUME RawTypeOK, Used \in Nat, NEW s \in SUBSET Int, NEW q \in Nat, TileOf(s, q),
         NEW k \in s, k >= 0, NEW n \in 0..4
  PROVE  \/ {-1, 0} \subseteq LeftAfterPacket[n][k]
         \/ \A x \in LeftAfterPacket[n][k] : x = -1 \/ x \in s
<1> DEFINE Good(m) ==
             \A j \in s : j >= 0 =>
                \/ {-1, 0} \subseteq LeftAfterPacket[m][j]
                \/ \A x \in LeftAfterPacket[m][j] : x = -1 \/ x \in s
           S == {m \in Nat : m <= 4 => Good(4 - m)}
<1>0. /\ BufBytes \in Nat /\ RawHlen \in Nat \ {0} /\ Used < BufBytes
      /\ \A j \in s : j >= 0 => j \in 0..BufBytes /\ j \in Nat
  <2>1. BufBytes \in Nat /\ RawHlen \in Nat \ {0} /\ Used < BufBytes
    BY RawSizes DEF RawTypeOK
  <2>2. s \subseteq (-q)..Used
    BY DEF TileOf
  <2> QED BY <2>1, <2>2
<1>1. 0 \in S
  <2>1. \A j \in 0..BufBytes : LeftAfterPacket[4][j] = {-1}
    <3> TAKE j \in 0..BufBytes
    <3>1. LeftAfterPacket[4][j] = LeftWith(j, 4, LeftAfterPacket[4 + 1])
      <4>1. 4 \in 0..4
        OBVIOUS
      <4> QED BY <4>1, LeftUnfolds
    <3> QED BY <3>1 DEF LeftWith
  <2> QED BY <1>0, <2>1
<1>2. ASSUME NEW m \in Nat, m \in S PROVE m + 1 \in S
  <2> SUFFICES ASSUME m + 1 <= 4 PROVE Good(4 - (m + 1))
    OBVIOUS
  <2> DEFINE i == 4 - (m + 1)
  <2>1. i \in 0..4 /\ i + 1 = 4 - m /\ m <= 4 /\ i # 4
    OBVIOUS
  <2>2. Good(i + 1)
    BY <1>2, <2>1
  <2> HIDE DEF i
  <2>3. ASSUME NEW j \in s, j >= 0
        PROVE  \/ {-1, 0} \subseteq LeftAfterPacket[i][j]
               \/ \A x \in LeftAfterPacket[i][j] : x = -1 \/ x \in s
    <3>1. j \in 0..BufBytes /\ j \in Nat
      BY <1>0, <2>3
    <3>2. LeftAfterPacket[i][j] = LeftWith(j, i, LeftAfterPacket[i + 1])
      BY <2>1, <3>1, LeftUnfolds
    <3> DEFINE h == CellAt(j)
    <3>3. h.len \in Nat /\ h.kind \in {"data", "pad", "frame"}
      BY <3>1, CellAtType DEF Cell
    <3>4. CASE j < RawHlen
      BY <3>2, <3>4 DEF LeftWith
    <3>5. CASE ~(j < RawHlen) /\ IsSplit(j)
      <4>1. LeftAfterPacket[i][j] = {-1} \cup 0..(j - RawHlen)
        BY <2>1, <3>2, <3>5 DEF LeftWith
      <4>2. 0 \in 0..(j - RawHlen)
        BY <1>0, <3>1, <3>5
      <4> QED BY <4>1, <4>2
    <3>6. CASE ~(j < RawHlen) /\ ~IsSplit(j)
      <4>1. /\ h.kind \in {"pad", "frame"} /\ j - h.len \in s
        <5>1. j # -q
          BY <1>0, <3>1, <3>6
        <5> QED BY <5>1 DEF TileOf, RecordIn
      <4>2. LeftAfterPacket[i][j] = IF h.len > j THEN {-1}
                                    ELSE IF h.kind = "frame" THEN {j - h.len}
                                    ELSE LeftAfterPacket[i + 1][j - h.len]
        BY <2>1, <3>2, <3>6, <4>1 DEF LeftWith
      <4> HIDE DEF h
      <4>3. CASE h.len > j
        BY <4>2, <4>3
      <4>4. CASE ~(h.len > j) /\ h.kind = "frame"
        BY <4>1, <4>2, <4>4
      <4>5. CASE ~(h.len > j) /\ h.kind # "frame"
        <5> DEFINE e == j - h.len
        <5>1. e \in s /\ e >= 0
          BY <3>1, <3>3, <4>1, <4>5
        <5>2. LeftAfterPacket[i][j] = LeftAfterPacket[i + 1][e]
          BY <4>2, <4>5
        <5> HIDE DEF e
        <5> QED BY <2>2, <5>1, <5>2
      <4> QED BY <4>3, <4>4, <4>5
    <3> QED BY <3>4, <3>5, <3>6
  <2>4. Good(i)
    BY <2>3
  <2> QED BY <2>4 DEF i
<1> HIDE DEF S
<1>3. \A m \in Nat : m \in S
  BY <1>1, <1>2, NaturalInduction
<1>4. 4 - n \in Nat /\ 4 - n <= 4 /\ 4 - (4 - n) = n
  OBVIOUS
<1>5. Good(4 - (4 - n))
  BY <1>3, <1>4 DEF S
<1>6. Good(n)
  BY <1>4, <1>5
<1> QED BY <1>6

\* The place of an unread byte, from the read offset on.
LEMMA ReadPlace ==
  ASSUME RawTypeOK, NEW k \in Int, Used \in Int, Used - k \in 0..(BufBytes - 1)
  PROVE  (AsBufferOffset(pubOff - k) - readOff) % BufBytes = Used - k
<1> DEFINE o == AsBufferOffset(pubOff - k)
           g == Used
           x == pubOff - k
           y == readOff + g
           v == y - k
           u == o - readOff
           e == g - k
<1>1. /\ BufBytes \in Nat \ {0} /\ pubOff \in RunningOffset /\ pubOff \in Int /\ readOff \in Int
      /\ OffsetMod \in Nat \ {0}
  BY RawSizes DEF RawTypeOK, RunningOffset
<1>2. /\ x \in Int /\ y \in Int /\ v \in Int /\ g \in Int /\ e \in 0..(BufBytes - 1) /\ e \in Int
      /\ x - pubOff = v - y /\ e - v = -readOff
  BY <1>1
<1>3. o \in 0..(BufBytes - 1) /\ o \in Int /\ o % BufBytes = x % BufBytes
  <2>1. o \in 0..(BufBytes - 1)
    BY CellAtType
  <2> DEFINE w == x % BufBytes
  <2>2. w \in 0..(BufBytes - 1) /\ o = w
    BY <2>1 DEF AsBufferOffset
  <2>3. w % BufBytes = w
    <3> HIDE DEF w
    <3> QED BY <1>1, <2>2, RemainderSmall
  <2> HIDE DEF o
  <2> QED BY <2>1, <2>2, <2>3
<1>4. pubOff % BufBytes = y % BufBytes
  <2>1. (pubOff - readOff) % OffsetMod = g
    BY DEF Used
  <2>2. g \in Int
    BY <1>2
  <2> HIDE DEF o, g, x, y, v, u, e
  <2>3. AsBufferOffset(pubOff) = AsBufferOffset(readOff + g)
    BY <1>1, <2>1, <2>2, Ahead
  <2> QED BY <2>3 DEF AsBufferOffset, y
<1>5. u \in Int /\ u - o = e - v
  BY <1>1, <1>2, <1>3
<1> HIDE DEF o, g, x, y, v, u, e
<1>6. Congruent(pubOff, y, BufBytes)
  BY <1>1, <1>2, <1>4, SameRemainder
<1>7. Congruent(x, v, BufBytes)
  BY <1>1, <1>2, <1>6, CongruentShift
<1>8. o % BufBytes = v % BufBytes
  BY <1>1, <1>2, <1>3, <1>7, SameRemainder
<1>9. Congruent(o, v, BufBytes)
  BY <1>1, <1>2, <1>3, <1>8, SameRemainder
<1>10. Congruent(u, e, BufBytes)
  BY <1>1, <1>2, <1>3, <1>5, <1>9, CongruentShift
<1>11. u % BufBytes = e % BufBytes
  BY <1>1, <1>2, <1>5, <1>10, SameRemainder
<1>12. e % BufBytes = e
  BY <1>1, <1>2, RemainderSmall
<1>13. u % BufBytes = e
  BY <1>11, <1>12
<1> QED BY <1>13 DEF o, u, e, g

\* When only one outcome is possible, it is not both the end and an abort.
LEMMA OneOutcome ==
  ASSUME RawTypeOK, Used \in 0..BufBytes, ~(Cardinality(LeftAfterNext) > 1)
  PROVE  ~({-1, 0} \subseteq LeftAfterNext)
<1> SUFFICES ASSUME {-1, 0} \subseteq LeftAfterNext PROVE FALSE
  OBVIOUS
<1>1. LeftAfterNext \subseteq {-1} \cup 0..Used
  <2>1. 0 \in 0..4
    OBVIOUS
  <2> QED BY <2>1, LeftRange DEF LeftAfterNext
<1>2. IsFiniteSet(LeftAfterNext)
  <2>1. IsFiniteSet(0..Used)
    <3>1. 0 \in Int /\ Used \in Int
      OBVIOUS
    <3> QED BY <3>1, FS_Interval
  <2>2. IsFiniteSet(0..Used \cup {-1})
    BY <2>1, FS_AddElement
  <2>3. LeftAfterNext \subseteq 0..Used \cup {-1}
    BY <1>1
  <2> QED BY <2>2, <2>3, FS_Subset
<1>3. IsFiniteSet({-1, 0}) /\ Cardinality({-1, 0}) = 2
  <2>1. IsFiniteSet({-1}) /\ Cardinality({-1}) = 1
    BY FS_Singleton
  <2>2. {-1} \cup {0} = {-1, 0} /\ 0 \notin {-1}
    OBVIOUS
  <2>3. IsFiniteSet({-1} \cup {0}) /\ Cardinality({-1} \cup {0}) = 1 + 1
    BY <2>1, <2>2, FS_AddElement
  <2> QED BY <2>2, <2>3
<1>4. Cardinality({-1, 0}) <= Cardinality(LeftAfterNext)
  BY <1>2, FS_Subset
<1>5. Cardinality(LeftAfterNext) \in Nat
  BY <1>2, FS_CardinalityType
<1> QED BY <1>3, <1>4, <1>5

\* Reading a packet leaves the records behind it.
LEMMA ReadTiles ==
  ASSUME Consumers = 1, RawInv, AtStage, Tiles, ReadPacket, ~misread', ~aborted'
  PROVE  AtStage' /\ Tiles'
<1>1. /\ RawTypeOK
      /\ UNCHANGED <<writeOff, pubOff, stage, size, dst>>
  BY DEF RawInv, ReadPacket, threadVars
<1>2. PICK q \in Nat, s \in SUBSET Int : q = Frontier /\ TileOf(s, q)
  BY DEF Tiles
<1>3. PICK U \in Nat : U = Used
  BY OneRoom
<1>4. PICK R \in Nat : R = Reserved
  BY OneRoom
<1>5. /\ U + R < BufBytes /\ BufBytes \in Nat \ {0} /\ RawHlen \in Nat \ {0} /\ q < R + RawHlen
      /\ U \in 0..BufBytes
  BY <1>2, <1>3, <1>4, OneRoom, FrontierBounds, RawSizes
<1>6. s \subseteq (-q)..U /\ U \in s /\ -q \in s
  BY <1>2, <1>3 DEF TileOf
<1>7. LeftAfterNext = LeftAfterPacket[0][U]
  BY <1>3 DEF LeftAfterNext
<1>8. \A x \in LeftAfterNext : x = -1 \/ x \in s
  <2>1. ~({-1, 0} \subseteq LeftAfterNext)
    <3>1. ~(Cardinality(LeftAfterNext) > 1)
      BY DEF ReadPacket
    <3> QED BY <1>1, <1>3, <1>5, <3>1, OneOutcome
  <2>2. \/ {-1, 0} \subseteq LeftAfterPacket[0][U]
        \/ \A x \in LeftAfterPacket[0][U] : x = -1 \/ x \in s
    <3>1. 0 \in 0..4 /\ U >= 0 /\ Used \in Nat
      BY <1>3
    <3> QED BY <1>1, <1>2, <1>6, <3>1, LeftIsStart
  <2> QED BY <1>7, <2>1, <2>2
<1>9. LeftAfterNext \subseteq {-1} \cup 0..U
  <2>1. 0 \in 0..4
    OBVIOUS
  <2> QED BY <1>1, <1>5, <1>7, <2>1, LeftRange
<1>10. PICK left \in LeftAfterNext :
         /\ left # -1
         /\ readOff' = (pubOff - left) % OffsetMod
         /\ cell' = [o \in 0..(BufBytes - 1) |->
                       IF (o - readOff) % BufBytes < Used - left THEN Data ELSE cell[o]]
  <2>1. ~(aborted' = TRUE)
    OBVIOUS
  <2> QED BY <2>1 DEF ReadPacket
<1>11. left \in s /\ left \in 0..U
  BY <1>8, <1>9, <1>10
<1>12. Used' = left
  <2>1. (pubOff - ((pubOff - left) % OffsetMod)) % OffsetMod = left
    BY <1>1, <1>3, <1>11, ReadUsed
  <2> QED BY <1>1, <1>10, <2>1 DEF Used
<1>13. Reserved' = Reserved /\ Frontier' = Frontier
  BY <1>1 DEF Reserved, Frontier, Rest, TailLength, AsFileOffset
<1>14. PICK t \in SUBSET Int : t = {k \in s : k <= left}
  OBVIOUS
<1>15. t \subseteq (-q)..left /\ left \in t /\ -q \in t
  <2>1. -q <= left /\ left \in Int
    BY <1>11
  <2> QED BY <1>6, <1>11, <1>14, <2>1
<1>16. ASSUME NEW k \in t, k # -q PROVE RecordIn(t, k)'
  <2>1. k \in Int /\ k \in s /\ k <= left /\ left <= U
    BY <1>11, <1>14
  <2>2. RecordIn(s, k) /\ CellAt(k) \in Cell
    BY <1>1, <1>2, <1>16, <2>1, CellAtType DEF TileOf
  <2> DEFINE L == CellAt(k).len
  <2>3. /\ L \in Nat /\ L >= RawHlen /\ k - L \in s
    BY <2>2 DEF RecordIn, Cell
  <2> HIDE DEF L
  <2>4. k - L \in t
    BY <1>11, <1>14, <2>1, <2>3
  <2>5. U - k \in 0..(BufBytes - 1) /\ ~(U - k < U - left)
    BY <1>5, <1>6, <1>11, <2>1, <2>3
  <2>6. CellAt(k)' = CellAt(k)
    <3> DEFINE p == AsBufferOffset(pubOff - k)
    <3>1. p \in 0..(BufBytes - 1)
      BY <1>1, <2>1, CellAtType
    <3>2. (p - readOff) % BufBytes = U - k
      BY <1>1, <1>3, <2>1, <2>5, ReadPlace
    <3>3. CellAt(k)' = cell'[p] /\ CellAt(k) = cell[p]
      BY <1>1 DEF CellAt, AsBufferOffset
    <3> HIDE DEF p
    <3>4. cell'[p] = IF (p - readOff) % BufBytes < Used - left THEN Data ELSE cell[p]
      BY <1>10, <3>1
    <3> QED BY <1>3, <2>5, <3>2, <3>3, <3>4
  <2> QED BY <1>1, <1>13, <2>1, <2>2, <2>3, <2>4, <2>6 DEF RecordIn, AsFileOffset, L
<1>17. TileOf(t, q)'
  BY <1>12, <1>15, <1>16 DEF TileOf
<1>18. Tiles'
  BY <1>2, <1>13, <1>17 DEF Tiles
<1>19. AtStage'
  <2>1. NeedsPadding(dst[0], size[0])' <=> NeedsPadding(dst[0], size[0])
    BY <1>1 DEF NeedsPadding, AsFileOffset
  <2>2. /\ ~InGap(writeOff)' <=> ~InGap(writeOff)
        /\ Writing' <=> Writing
        /\ FinalOffset(0)' = FinalOffset(0)
    BY <1>1 DEF Writing, InGap, AsFileOffset, FinalOffset
  <2> QED BY <1>1, <1>13, <2>1, <2>2 DEF AtStage
<1> QED BY <1>18, <1>19

-----------------------------------------------------------------------------
\* The k bytes are records when those behind the first one, in next, are.
TiledIn(k, next) ==
    \/ k = 0
    \/ k < RawHlen /\ AsFileOffset(pubOff - k) = 0
    \/ LET h == CellAt(k)
       IN  /\ h.kind = "pad" \/ (h.kind = "frame" /\ h.len <= k)
           /\ AsFileOffset(pubOff - k) + h.len <= FileSize
           /\ h.len <= k => k - h.len \in next

\* The recursive function is defined although a length might be 0: the union of
\* the sets that are closed under TiledIn is one way to fill it.
LEMMA TiledUnfolds ==
  ASSUME RawTypeOK, NEW k \in 0..BufBytes
  PROVE  Tiled[k] = TiledIn(k, {j \in 0..BufBytes : Tiled[j]})
<1> DEFINE K == 0..BufBytes
           Closed(T) == \A j \in T : TiledIn(j, T)
           G == {j \in K : \E T \in SUBSET K : j \in T /\ Closed(T)}
           f == [j \in K |-> j \in G]
           Body(j, F) ==
              \/ j = 0
              \/ j < RawHlen /\ AsFileOffset(pubOff - j) = 0
              \/ LET h == CellAt(j)
                 IN  /\ h.kind = "pad" \/ (h.kind = "frame" /\ h.len <= j)
                     /\ AsFileOffset(pubOff - j) + h.len <= FileSize
                     /\ h.len <= j => F[j - h.len]
           Loop(F) == F = [j \in K |-> Body(j, F)]
<1>1. \A S, T, j : S \subseteq T /\ TiledIn(j, S) => TiledIn(j, T)
  BY DEF TiledIn
<1>2. \A j \in K : j \in G <=> TiledIn(j, G)
  <2> TAKE j \in K
  <2>1. ASSUME j \in G PROVE TiledIn(j, G)
    <3>1. PICK T \in SUBSET K : j \in T /\ Closed(T)
      BY <2>1
    <3>2. T \subseteq G
      BY <3>1
    <3>3. TiledIn(j, T)
      BY <3>1
    <3> HIDE DEF G
    <3> QED BY <1>1, <3>2, <3>3
  <2>2. ASSUME TiledIn(j, G) PROVE j \in G
    <3>1. PICK T : T = G \cup {j}
      OBVIOUS
    <3>2. \A i \in G : TiledIn(i, G)
      <4> TAKE i \in G
      <4>1. PICK S \in SUBSET K : i \in S /\ Closed(S)
        OBVIOUS
      <4>2. S \subseteq G
        BY <4>1
      <4>3. TiledIn(i, S)
        BY <4>1
      <4> HIDE DEF G
      <4> QED BY <1>1, <4>2, <4>3
    <3>3. G \subseteq K
      OBVIOUS
    <3>4. T \in SUBSET K /\ j \in T /\ Closed(T)
      <4> HIDE DEF G
      <4>1. G \subseteq T
        BY <3>1
      <4> QED BY <1>1, <2>2, <3>1, <3>2, <3>3, <4>1
    <3> QED BY <3>4
  <2> QED BY <2>1, <2>2
<1> HIDE DEF G
<1>3. \A j \in K : CellAt(j).len \in Nat /\ j \in Nat
  <2> TAKE j \in K
  <2>1. j \in Int /\ j \in Nat
    BY RawSizes
  <2> QED BY <2>1, CellAtType DEF Cell
<1>4. \A j \in K : CellAt(j).len <= j => j - CellAt(j).len \in K
  <2> TAKE j \in K
  <2> DEFINE L == CellAt(j).len
  <2>1. L \in Nat /\ BufBytes \in Nat
    BY <1>3, RawSizes
  <2> HIDE DEF L
  <2>2. L <= j => j - L \in K
    BY <2>1
  <2> QED BY <2>2 DEF L
<1>5. \A j \in K : Body(j, f) = TiledIn(j, G)
  <2> TAKE j \in K
  <2>1. CellAt(j).len <= j => (f[j - CellAt(j).len] <=> j - CellAt(j).len \in G)
    <3> DEFINE e == j - CellAt(j).len
    <3>1. e \in K => (f[e] <=> e \in G)
      <4> HIDE DEF e
      <4> QED OBVIOUS
    <3> QED BY <1>4, <3>1
  <2> HIDE DEF f
  <2> QED BY <2>1 DEF TiledIn
<1>6. Loop(f)
  <2>1. \A j \in K : f[j] = Body(j, f)
    <3> TAKE j \in K
    <3>1. f[j] = (j \in G)
      OBVIOUS
    <3>2. (j \in G) = TiledIn(j, G)
      <4>1. TiledIn(j, G) \in BOOLEAN /\ (j \in G) \in BOOLEAN
        BY DEF TiledIn
      <4>2. (j \in G) <=> TiledIn(j, G)
        BY <1>2
      <4> QED BY <4>1, <4>2
    <3> HIDE DEF f, Body
    <3> QED BY <1>5, <3>1, <3>2
  <2>2. f = [j \in K |-> f[j]]
    OBVIOUS
  <2> HIDE DEF f, Body
  <2> QED BY <2>1, <2>2
<1>7. Tiled = CHOOSE F : Loop(F)
  BY DEF Tiled
<1>8. Loop(Tiled)
  <2> HIDE DEF Loop, f
  <2> QED BY <1>6, <1>7
<1> HIDE DEF f
<1>9. Tiled[k] = Body(k, Tiled)
  <2> HIDE DEF Body
  <2> QED BY <1>8
<1>10. Body(k, Tiled) = TiledIn(k, {j \in K : Tiled[j]})
  <2> DEFINE e == k - CellAt(k).len
  <2>1. CellAt(k).len <= k => (Tiled[e] <=> e \in {j \in K : Tiled[j]})
    <3>1. CellAt(k).len <= k => e \in K
      BY <1>4
    <3> HIDE DEF e
    <3> QED BY <3>1
  <2> QED BY <2>1 DEF TiledIn
<1> HIDE DEF Body
<1> QED BY <1>9, <1>10

\* The records up to the frontier are those that the reader may read.
LEMMA TilesTiled ==
  ASSUME Consumers = 1, RawInv, Tiles PROVE Tiled[Used]
<1>1. PICK q \in Nat, s \in SUBSET Int : TileOf(s, q)
  BY DEF Tiles
<1>2. /\ RawTypeOK /\ Used \in Nat /\ Used < BufBytes /\ BufBytes \in Nat
      /\ RawHlen \in Nat \ {0}
  BY OneRoom, RawSizes DEF RawInv, RawTypeOK
<1>3. s \subseteq (-q)..Used /\ Used \in s
  BY <1>1 DEF TileOf
<1> DEFINE Upto(m) == \A k \in s : k >= 0 /\ k <= m => Tiled[k]
           S == {m \in Nat : Upto(m)}
           N == {j \in 0..BufBytes : Tiled[j]}
<1>4. \A k \in s : k >= 0 => k \in 0..BufBytes /\ k \in Nat
  BY <1>2, <1>3
<1>5. ASSUME NEW k \in s, k >= 0, \A j \in s : j >= 0 /\ j < k => Tiled[j]
      PROVE  Tiled[k]
  <2>1. k \in 0..BufBytes /\ k \in Nat
    BY <1>4, <1>5
  <2>2. Tiled[k] = TiledIn(k, N)
    BY <1>2, <2>1, TiledUnfolds
  <2>3. CASE k = 0
    BY <2>2, <2>3 DEF TiledIn
  <2>4. CASE k # 0
    <3> DEFINE h == CellAt(k)
               e == k - h.len
    <3>1. /\ h.kind \in {"pad", "frame"} /\ h.len >= RawHlen /\ e \in s
          /\ AsFileOffset(pubOff - k) + h.len <= FileSize
          /\ h.kind = "frame" => h.len <= k
          /\ h.len \in Nat
      <4>1. k # -q /\ k > 0
        BY <2>1, <2>4
      <4>2. RecordIn(s, k) /\ CellAt(k) \in Cell
        BY <1>1, <1>2, <2>1, <4>1, CellAtType DEF TileOf
      <4> QED BY <4>1, <4>2 DEF RecordIn, Cell
    <3>2. h.len <= k => e \in N
      <4> SUFFICES ASSUME h.len <= k PROVE e \in N
        OBVIOUS
      <4>1. e >= 0 /\ e < k /\ e \in Int
        <5> HIDE DEF h
        <5> QED BY <1>2, <2>1, <3>1
      <4> HIDE DEF e
      <4>2. Tiled[e] /\ e \in 0..BufBytes
        BY <1>4, <1>5, <3>1, <4>1
      <4> QED BY <4>2
    <3>3. TiledIn(k, N)
      <4> HIDE DEF N
      <4> QED BY <3>1, <3>2 DEF TiledIn
    <3> QED BY <2>2, <3>3
  <2> QED BY <2>3, <2>4
<1> HIDE DEF N
<1>6. 0 \in S
  <2>1. \A k \in s : k >= 0 /\ k <= 0 => Tiled[k]
    <3> TAKE k \in s
    <3> SUFFICES ASSUME k >= 0, k <= 0 PROVE Tiled[k]
      OBVIOUS
    <3>1. \A j \in s : ~(j >= 0 /\ j < k)
      BY <1>4
    <3> QED BY <1>5, <3>1
  <2> QED BY <2>1
<1>7. ASSUME NEW m \in Nat, m \in S PROVE m + 1 \in S
  <2>1. ASSUME NEW k \in s, k >= 0, k <= m + 1 PROVE Tiled[k]
    <3>1. \A j \in s : j >= 0 /\ j < k => j <= m
      BY <1>4, <2>1
    <3>2. \A j \in s : j >= 0 /\ j < k => Tiled[j]
      BY <1>7, <3>1
    <3> QED BY <1>5, <2>1, <3>2
  <2> QED BY <2>1
<1> HIDE DEF S
<1>8. \A m \in Nat : m \in S
  BY <1>6, <1>7, NaturalInduction
<1>9. Upto(Used)
  BY <1>2, <1>8 DEF S
<1> QED BY <1>2, <1>3, <1>9

-----------------------------------------------------------------------------
\* At the start there is no record, and nothing to write.
LEMMA OneInit == ASSUME Consumers = 1 PROVE RawInit => OneInv
<1> SUFFICES ASSUME RawInit PROVE OneInv
  OBVIOUS
<1>1. RawInv /\ stage[0] = "rx" /\ writeOff = 0 /\ readOff = 0 /\ pubOff = 0
  BY RawInitInv, OneThread DEF RawInit
<1>2. /\ OffsetMod \in Nat \ {0} /\ FileSize \in Nat \ {0} /\ RawHlen \in Nat \ {0}
      /\ RawHlen <= FileSize
  BY RawSizes
<1>3. 0 % OffsetMod = 0 /\ 0 % FileSize = 0
  <2>1. 0 \in 0..(OffsetMod - 1) /\ 0 \in 0..(FileSize - 1)
    BY <1>2
  <2> QED BY <1>2, <2>1, RemainderSmall
<1>4. Used = 0 /\ Reserved = 0
  <2>1. 0 - 0 = 0
    OBVIOUS
  <2> QED BY <1>1, <1>3, <2>1 DEF Used, Reserved
<1>5. Frontier = 0
  <2>1. Rest(writeOff) = 0
    BY <1>1, <1>2, <1>3 DEF Rest, AsFileOffset
  <2> QED BY <1>1, <1>4, <2>1 DEF Frontier
<1>6. TileOf({0}, 0)
  <2>1. {0} \subseteq (-0)..0 /\ 0 \in {0} /\ -0 \in {0}
    <3>1. \A z \in Int : z + 1 = 1 => -z = 0
      OBVIOUS
    <3>2. 0 \in Int /\ 0 + 1 = 1
      OBVIOUS
    <3>3. -0 = 0
      BY <3>1, <3>2, Zenon
    <3>4. {0} \subseteq 0..0
      OBVIOUS
    <3> QED BY <3>3, <3>4, Zenon
  <2>2. \A k \in {0} : ~(k # -0)
    BY <2>1
  <2> QED BY <1>4, <2>1, <2>2 DEF TileOf
<1>7. Tiles
  <2>1. {0} \in SUBSET Int /\ 0 \in Nat
    OBVIOUS
  <2> QED BY <1>5, <1>6, <2>1 DEF Tiles
<1>8. AtStage
  <2>1. ~InGap(writeOff)
    BY <1>1, <1>2, <1>3 DEF InGap, AsFileOffset
  <2> QED BY <1>1, <2>1 DEF AtStage, Writing
<1> QED BY <1>1, <1>7, <1>8 DEF OneInv

\* What is wrong stays wrong.
LEMMA FlagsStay ==
  ASSUME RawInv, [RawNext]_rawVars, strayed \/ misread \/ aborted
  PROVE  strayed' \/ misread' \/ aborted'
<1>1. CASE UNCHANGED rawVars
  BY <1>1 DEF rawVars, readerVars
<1>2. ASSUME NEW c \in Consumer, Thread(c) PROVE strayed' \/ misread' \/ aborted'
  BY <1>2 DEF Thread, Reserve, PadTail, PadHead, PadGap, WriteFrame, EndRx, readerVars
<1>3. CASE Publish
  BY <1>3 DEF Publish, readerVars
<1>4. CASE ReadPacket
  BY <1>4 DEF ReadPacket
<1> QED BY <1>1, <1>2, <1>3, <1>4 DEF RawNext

LEMMA OneStep == ASSUME Consumers = 1 PROVE OneInv /\ [RawNext]_rawVars => OneInv'
<1> SUFFICES ASSUME OneInv, [RawNext]_rawVars PROVE OneInv'
  OBVIOUS
<1>1. RawInv /\ RawInv' /\ RawTypeOK
  BY RawStep DEF OneInv, RawInv
<1>2. CASE strayed \/ misread \/ aborted
  BY <1>1, <1>2, FlagsStay DEF OneInv
<1>3. CASE strayed' \/ misread' \/ aborted'
  BY <1>1, <1>3 DEF OneInv
<1>4. ASSUME ~strayed, ~misread, ~aborted, ~strayed', ~misread', ~aborted'
      PROVE  AtStage' /\ Tiles'
  <2>1. AtStage /\ Tiles
    BY <1>4 DEF OneInv
  <2>2. CASE UNCHANGED rawVars
    <3>1. UNCHANGED <<writeOff, readOff, pubOff, stage, size, dst, cell>>
      BY <2>2 DEF rawVars, offVars, threadVars
    <3>2. Reserved' = Reserved /\ Frontier' = Frontier
      BY <3>1 DEF Reserved, Frontier, Rest, TailLength, AsFileOffset
    <3>3. \A k \in Int : CellAt(k)' = CellAt(k)
      BY <3>1 DEF CellAt, AsBufferOffset
    <3>4. Reserved \in Int /\ Reserved' \in Int /\ Reserved <= Reserved'
      BY <1>1, <3>2, OneRoom
    <3>5. Tiles'
      BY <1>1, <2>1, <3>1, <3>2, <3>3, <3>4, TilesStay
    <3>6. AtStage'
      <4>1. NeedsPadding(dst[0], size[0])' <=> NeedsPadding(dst[0], size[0])
        BY <3>1 DEF NeedsPadding, AsFileOffset
      <4>2. /\ ~InGap(writeOff)' <=> ~InGap(writeOff)
            /\ Writing' <=> Writing
            /\ FinalOffset(0)' = FinalOffset(0)
        BY <3>1 DEF Writing, InGap, AsFileOffset, FinalOffset
      <4> QED BY <2>1, <3>1, <3>2, <4>1, <4>2 DEF AtStage
    <3> QED BY <3>5, <3>6
  <2>3. ASSUME NEW c \in Consumer, Thread(c) PROVE AtStage' /\ Tiles'
    <3>1. c = 0
      BY OneThread
    <3>2. ASSUME NEW n \in Records, Reserve(0, n) PROVE AtStage' /\ Tiles'
      BY <1>1, <1>4, <2>1, <3>2, ReserveTiles
    <3>3. CASE PadTail(0)
      BY <1>1, <2>1, <3>3, PadTailTiles
    <3>4. CASE PadHead(0)
      BY <1>1, <1>4, <2>1, <3>4, PadHeadTiles
    <3>5. CASE PadGap(0)
      BY <2>1, <3>5 DEF PadGap, AtStage
    <3>6. CASE WriteFrame(0)
      BY <1>1, <2>1, <3>6, FrameTiles
    <3>7. CASE EndRx(0)
      BY <1>1, <2>1, <3>7, EndRxTiles
    <3> QED BY <2>3, <3>1, <3>2, <3>3, <3>4, <3>5, <3>6, <3>7 DEF Thread
  <2>4. CASE Publish
    BY <1>1, <2>1, <2>4, PublishTiles
  <2>5. CASE ReadPacket
    BY <1>1, <1>4, <2>1, <2>5, ReadTiles
  <2> QED BY <2>2, <2>3, <2>4, <2>5 DEF RawNext
<1> QED BY <1>1, <1>2, <1>3, <1>4 DEF OneInv

\* With one poll thread, and whatever the sizes of file, buffer and frames, what
\* the client may read are whole records and none crosses the end of a file
\* (hpcap_rx, set_padding), until a reservation ends inside the first header of
\* a file, a padding header is written on unread bytes, or a split header is read.
THEOREM RecordsStayWhole ==
  ASSUME Consumers = 1 PROVE RawSpec => []RecordsTileUntilMisread
<1>1. OneInv => RecordsTileUntilMisread
  BY TilesTiled DEF OneInv, RecordsTileUntilMisread, RecordsTile
<1> QED BY OneInit, OneStep, <1>1, PTL DEF RawSpec
===============================================================================
