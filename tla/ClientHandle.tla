---------------------------- MODULE ClientHandle ----------------------------
(***************************************************************************)
(* A client's handle (libhpcap.c) and its listener in the driver: the two  *)
(* sides of HPCAP_IOC_LSTOP.  The library reads the mapped buffer at rdoff *)
(* without asking the driver, counts what it read in acks, and tells the   *)
(* driver at the next call; the driver answers with the offset to read     *)
(* from and the bytes that are there.                                      *)
(*                                                                         *)
(* The client has one thread, and any client may kill the waits of all, or *)
(* this listener.  A call of the library is two steps: the ioctl with its  *)
(* wait, during which the poll thread pushes, and what                     *)
(* _hpcap_do_listener_op does with the answer.  A wait may end at any      *)
(* time, whatever its timeout, so the timeout is no part of the state.  A  *)
(* read of n bytes is hpcap_read_packet, hpcap_write_block or              *)
(* _hpcap_read_next: they advance the handle in the same way; the records  *)
(* are in module RawFile.  What a kill does to the listener's slot, step   *)
(* by step, is in module Sessions.                                         *)
(***************************************************************************)
EXTENDS Integers

CONSTANTS BufSize,   \* bytes of the buffer (handle->bufSize)
          Word       \* the values of a field of 64 bits

ASSUME ClientAssumption ==
    /\ BufSize \in Nat \ {0, 1}
    /\ Word \in Nat /\ Word >= BufSize

VARIABLES rd,     \* listener's bufferRdOffset
          wr,     \* listener's bufferWrOffset
          kill,   \* listener's kill
          slot,   \* "live", "gone" (the id has no slot), "listed" (the id is
                  \* among force_killed_listener_ids)
          rdoff,  \* handle->rdoff
          avail,  \* handle->avail
          acks,   \* handle->acks
          pc,     \* "idle", "wait" in the ioctl, "answered", "aborted"
          op,     \* the running _hpcap_do_listener_op: its arguments
          lstop,  \* the struct hpcap_listener_op the driver answers in
          placed, \* history: an answer was taken over
          flaws   \* history: "held", a wait was called with bytes that were
                  \* read and not acknowledged; "garbled", a wait ended with
                  \* no answer of this listener; "past", more was read than
                  \* was available

kernelVars == <<rd, wr, kill, slot>>
handleVars == <<rdoff, avail, acks>>
callVars   == <<pc, op, lstop>>
history    == <<placed, flaws>>
vars       == <<kernelVars, handleVars, callVars, history>>

-----------------------------------------------------------------------------
Offset == 0..(BufSize - 1)

Distance(from, to) == IF from <= to THEN to - from ELSE (BufSize - from) + to
UsedBytes  == Distance(rd, wr)
AvailBytes == (BufSize - UsedBytes) - 1

NoOp     == [expect |-> 0, ack |-> FALSE]
NoAnswer == [offset |-> 0, available |-> 0]

\* hpcap_open clears the handle, whatever offsets the driver gave the listener;
\* the slot may have been marked before it had this owner (KILLWAIT marks all).
Init ==
    /\ rd \in Offset /\ wr \in Offset /\ kill \in BOOLEAN /\ slot = "live"
    /\ rdoff = 0 /\ avail = 0 /\ acks = 0
    /\ pc = "idle" /\ op = NoOp /\ lstop = NoAnswer
    /\ placed = FALSE /\ flaws = {}

\* The poll thread publishes n bytes that fit.
Push(n) ==
    /\ slot = "live"
    /\ n <= AvailBytes
    /\ wr' = (wr + n) % BufSize
    /\ UNCHANGED <<rd, kill, slot, handleVars, callVars, history>>

KillWait ==
    /\ slot = "live" /\ ~kill
    /\ kill' = TRUE
    /\ UNCHANGED <<rd, wr, slot, handleVars, callVars, history>>

\* HPCAP_IOC_KILL_LST of this listener, which was marked, empties its slot.
Delete ==
    /\ slot = "live" /\ kill
    /\ slot' = "gone" /\ kill' = FALSE /\ rd' = 0 /\ wr' = 0
    /\ UNCHANGED <<handleVars, callVars, history>>

\* It also records the id, before or after the slot is emptied.
List ==
    /\ slot = "gone" \/ (slot = "live" /\ kill)
    /\ slot' = "listed"
    /\ UNCHANGED <<rd, wr, kill, handleVars, callVars, history>>

\* n bytes of what is left to read are read.
Read(n) ==
    /\ pc = "idle"
    /\ acks + n <= avail
    /\ rdoff' = (rdoff + n) % BufSize
    /\ acks' = acks + n
    /\ UNCHANGED <<kernelVars, avail, callVars, history>>

\* hpcap_write_block looks at avail alone, and _hpcap_read_next only for a
\* header: blocks without an acknowledgement between them, or packets read where
\* no record starts, go past what is available.
ReadPast(n) ==
    /\ pc = "idle"
    /\ acks + n > avail
    /\ n <= avail \/ acks < avail
    /\ rdoff' = (rdoff + n) % BufSize
    /\ acks' = (acks + n) % Word
    /\ flaws' = flaws \cup {"past"}
    /\ UNCHANGED <<kernelVars, avail, callVars, placed>>

\* Mutant of DriverPop: the offset does not wrap.
DriverPopNoWrap(n) == rd + (IF UsedBytes < n THEN UsedBytes ELSE n)

\* The ioctl: acknowledged bytes are popped, never more than are pending.
DriverPop(n) == (rd + (IF UsedBytes < n THEN UsedBytes ELSE n)) % BufSize

\* Mutant of StartOp: the driver is told of one byte less than was read.
StartOpShort(o) ==
    /\ pc = "idle" /\ slot = "live"
    /\ op' = o
    /\ rd' = IF o.ack /\ acks > 0 THEN DriverPop(acks - 1) ELSE rd
    /\ pc' = IF o.expect > 0 THEN "wait" ELSE "answered"
    /\ lstop' = NoAnswer
    /\ flaws' = IF ~o.ack /\ acks > 0 THEN flaws \cup {"held"} ELSE flaws
    /\ UNCHANGED <<wr, kill, slot, handleVars, placed>>

\* hpcap_wait, hpcap_ack, hpcap_ack_wait and hpcap_ack_wait_timeout.
StartOp(o) ==
    /\ pc = "idle" /\ slot = "live"
    /\ op' = o
    /\ rd' = IF o.ack /\ acks > 0 THEN DriverPop(acks) ELSE rd
    /\ pc' = IF o.expect > 0 THEN "wait" ELSE "answered"
    /\ lstop' = NoAnswer
    /\ flaws' = IF ~o.ack /\ acks > 0 THEN flaws \cup {"held"} ELSE flaws
    /\ UNCHANGED <<wr, kill, slot, handleVars, placed>>

\* The ioctl of a killed listener: -EBADF, and the library aborts, once the id
\* is recorded; -EINVAL, and the handle stays as it is, while it just has no slot.
IoctlFails ==
    /\ pc = "idle" /\ slot # "live"
    /\ pc' = IF slot = "listed" THEN "aborted" ELSE "idle"
    /\ UNCHANGED <<kernelVars, handleVars, op, lstop, history>>

\* hpcap_wait_listener_user: it waits at most timeout_ns, so that without a
\* timeout (0) it does not wait at all.
WaitEnds ==
    /\ pc = "wait" /\ ~kill /\ slot = "live"
    /\ lstop' = [offset |-> rd, available |-> UsedBytes]
    /\ pc' = "answered"
    /\ UNCHANGED <<kernelVars, handleVars, op, history>>

\* A killed listener's wait fills nothing in, and the ioctl does not fail: the
\* library reads what was on its stack.  A wait on a slot that was emptied
\* answers with whatever that slot holds by then.
WaitKilled ==
    /\ pc = "wait" /\ (kill \/ slot # "live")
    /\ lstop' \in [offset : 0..(Word - 1), available : 0..(Word - 1)]
    /\ pc' = "answered"
    /\ flaws' = flaws \cup {"garbled"}
    /\ UNCHANGED <<kernelVars, handleVars, op, placed>>

\* Mutant of Answer: avail is not reduced by what was acknowledged.
AnswerKeepsAvail ==
    /\ pc = "answered"
    /\ op.ack => avail >= acks
    /\ LET enough == op.expect > 0 /\ lstop.available >= op.expect
       IN  /\ placed' = (placed \/ enough)
           /\ avail' = IF enough THEN lstop.available ELSE avail
           /\ rdoff' = IF enough THEN lstop.offset % BufSize ELSE rdoff
           /\ acks' = IF op.ack THEN 0 ELSE acks
    /\ pc' = "idle" /\ op' = NoOp /\ lstop' = NoAnswer
    /\ UNCHANGED <<kernelVars, flaws>>

\* The answer is taken over if there is enough, and ignored if there is not;
\* _hpcap_advance_rdoff_to always ends at the offset it is given, brought back
\* into the buffer.
Answer ==
    /\ pc = "answered"
    /\ op.ack => avail >= acks
    /\ LET enough == op.expect > 0 /\ lstop.available >= op.expect
       IN  /\ placed' = (placed \/ enough)
           /\ avail' = IF enough THEN lstop.available
                       ELSE IF op.ack THEN avail - acks ELSE avail
           /\ rdoff' = IF enough THEN lstop.offset % BufSize ELSE rdoff
           /\ acks' = IF op.ack THEN 0 ELSE acks
    /\ pc' = "idle" /\ op' = NoOp /\ lstop' = NoAnswer
    /\ UNCHANGED <<kernelVars, flaws>>

\* "Trying to acknowledge more bytes than available".
Abort ==
    /\ pc = "answered" /\ op.ack /\ avail < acks
    /\ pc' = "aborted"
    /\ UNCHANGED <<kernelVars, handleVars, op, lstop, history>>

Ops == {o \in [expect : 0..(BufSize - 1), ack : BOOLEAN] : o.ack \/ o.expect > 0}

Next ==
    \/ \E n \in 1..(BufSize - 1) : Push(n) \/ Read(n) \/ ReadPast(n)
    \/ KillWait \/ Delete \/ List
    \/ \E o \in Ops : StartOp(o)
    \/ IoctlFails \/ WaitEnds \/ WaitKilled \/ Answer \/ Abort

Spec == Init /\ [][Next]_vars

-----------------------------------------------------------------------------
\* Type correctness: rdoff stays inside the buffer even after an answer that
\* nobody wrote, whose counts are any 64 bits (_hpcap_advance_rdoff_to, LSTOP).
TypeOK ==
    /\ rd \in Offset /\ wr \in Offset /\ kill \in BOOLEAN
    /\ slot \in {"live", "gone", "listed"}
    /\ rdoff \in Offset /\ avail \in 0..(Word - 1) /\ acks \in 0..(Word - 1)
    /\ pc \in {"idle", "wait", "answered", "aborted"}
    /\ op \in Ops \cup {NoOp}
    /\ lstop \in [offset : 0..(Word - 1), available : 0..(Word - 1)]
    /\ placed \in BOOLEAN /\ flaws \subseteq {"held", "garbled", "past"}

\* The client lost its slot, was answered by nobody, waited for more before it
\* acknowledged what it had read, or read past what there was.
Disturbed == flaws # {} \/ slot # "live"

\* Between two calls the client only reads bytes that were published to it and
\* that the driver still keeps for it: from its first answer on, the handle and
\* the listener agree on where the unread bytes are, across acknowledgements,
\* waits that time out, kill marks and pushes in between; before that it has
\* nothing to read, because its offset is not the listener's yet.  So it is never
\* told that it acknowledged more than it had (_hpcap_do_listener_op, LSTOP).
HandleInSync ==
    Disturbed \/
    /\ pc # "aborted"
    /\ pc = "idle" =>
        /\ acks <= avail /\ avail <= UsedBytes
        /\ IF placed THEN rdoff = (rd + acks) % BufSize ELSE avail = 0

\* No byte is read twice and none is skipped: the first answer takes the handle
\* to the listener's offset, and from then on only reading moves rdoff.
ReadOffsetNeverJumps ==
    [][~Disturbed /\ pc # "idle" => rdoff' = IF placed' /\ ~placed THEN rd ELSE rdoff]_vars
=============================================================================
