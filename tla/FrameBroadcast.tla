--------------------------- MODULE FrameBroadcast ---------------------------
(***************************************************************************)
(* What the capture buffer of a queue promises: every reader gets the same *)
(* stream of records, in order and without holes, each at its own pace,    *)
(* and the writer never gets more than Capacity bytes ahead of any reader. *)
(*                                                                         *)
(* A byte is <<bit, first>>: first marks the first byte of a record (its   *)
(* RAW header) and bit alternates from one record to the next, so that a   *)
(* lost, repeated or reordered record breaks the alternation.              *)
(***************************************************************************)
EXTENDS Integers, Sequences

CONSTANTS Reader,    \* the listeners
          Capacity   \* bytes a reader may have pending

VARIABLES queue,   \* reader -> the bytes published to it that it did not consume
          lastBit  \* the bit of the last published record

Byte == {0, 1} \X BOOLEAN

\* s holds no byte that nobody wrote, and continues the stream after a record
\* with bit b: it starts a record, and the bit changes just where one starts.
Continues(s, b) ==
    /\ s \in Seq(Byte)
    /\ s[1][2]
    /\ \A k \in 1..Len(s) :
          LET before == IF k = 1 THEN b ELSE s[k - 1][1]
          IN  (s[k][1] # before) <=> s[k][2]

Init ==
    /\ queue = [r \in Reader |-> <<>>]
    /\ lastBit = 1

\* The records added since the last publication reach every reader at once.
Publish(s) ==
    /\ s # <<>>
    /\ Continues(s, lastBit)
    /\ \A r \in Reader : Len(queue[r]) + Len(s) <= Capacity
    /\ queue' = [r \in Reader |-> queue[r] \o s]
    /\ lastBit' = s[Len(s)][1]

\* A reader consumes the first k bytes it has pending.
Consume(r, k) ==
    /\ k <= Len(queue[r])
    /\ queue' = [queue EXCEPT ![r] = SubSeq(queue[r], k + 1, Len(queue[r]))]
    /\ UNCHANGED lastBit

\* What reader r sees added by the step.
Added(r) == SubSeq(queue'[r], Len(queue[r]) + 1, Len(queue'[r]))

Next ==
    \/ \E r \in Reader : Publish(Added(r))
    \/ \E r \in Reader, k \in 1..Capacity : Consume(r, k)

Spec == Init /\ [][Next]_<<queue, lastBit>>
=============================================================================
