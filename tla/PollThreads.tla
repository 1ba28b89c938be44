---------------------------- MODULE PollThreads ----------------------------
(***************************************************************************)
(* Launching and stopping the poll threads of one queue: what the NIC      *)
(* drivers do when the interface goes up and down                          *)
(* (hpcap_launch_poll_threads, hpcap_stop_poll_threads, called by the      *)
(* up and down paths of ixgbe_main.c and i40e_main.c, which the kernel     *)
(* serialises), against the threads themselves (hpcap_poll) and against    *)
(* one client that opens and closes the device.                            *)
(*                                                                         *)
(* The threads start and end one at a time, and what they share (the marks *)
(* of the descriptor ring, the running offset, the global listener) is     *)
(* reset partly at the launch, thread by thread, and partly by the threads *)
(* themselves when there is no listener.  The interleaving inside hpcap_rx *)
(* is in RxRing and CaptureBuffer: here a call reserves bytes and passes   *)
(* on or takes the right to return descriptors, each in one step.  What    *)
(* thread 0 does behind the call is not: it reads the running offset, then *)
(* the global one, and pushes, while the other threads run.  The           *)
(* listener of the client and the global one move together (Listeners has  *)
(* what happens when they do not).                                         *)
(***************************************************************************)
EXTENDS Integers

CONSTANTS Consumers, \* adapter->consumers: poll threads of the queue
          BufSize,   \* bufp->bufSize
          Word       \* the values of a u64

ASSUME PollAssumption ==
    /\ Consumers \in Nat \ {0}
    /\ BufSize \in Nat \ {0, 1}
    /\ Word \in Nat /\ Word >= 2 * BufSize

VARIABLES created,    \* bufp->created
          apc,        \* where the up or down path is
          setUp,      \* threads this launch has prepared: its loop index j
          stopIdx,    \* the loop index j of hpcap_stop_poll_threads, 0 outside
          tpc,        \* where each thread is, or why there is none
          stopReq,    \* kthread_stop was called on the thread
          canFree,    \* bufp->can_free
          freedLast,  \* bufp->freed_last_rxd
          limit,      \* what is left of the limit of this hpcap_rx call; 0
                      \* also stands for rxbuf = NULL, nothing can be stored
          writeOff,   \* bufp->consumer_write_off, as an offset of the buffer
          rd, wr,     \* the global listener's offsets
          attached,   \* there is a listener
          found,      \* thread 0's new_offset, then its new_bytes, then the
                      \* write offset it is about to store
          unpublished, \* history: bytes reserved since the last reset, less
                      \* those thread 0 found and pushed, modulo BufSize
          taken,      \* history: of these, what was there when it looked
          outdated,   \* history: the last reset of writeOff was over a wr other
                      \* than 0, or in the middle of a push
          staleTaken  \* history: a mark of the previous launch was taken

adminVars  == <<created, apc, setUp, stopIdx, stopReq>>
rightVars  == <<canFree, freedLast>>
threadVars == <<tpc, limit, found>>
bufVars    == <<writeOff, rd, wr, attached>>
pushVars   == <<unpublished, taken, outdated>>
histVars   == <<pushVars, staleTaken>>
vars       == <<adminVars, rightVars, threadVars, bufVars, histVars>>

Consumer == 0..(Consumers - 1)

PreviousConsumer(c) == (c + Consumers - 1) % Consumers

\* distance and avail_bytes: a buffer is never filled to the last byte.
Distance(a, b) == (b - a) % BufSize
Avail == (rd - wr - 1) % BufSize

Pushing   == {"measure", "push", "store"}
Running   == {"test", "resetGlobal", "resetOffsets", "rx", "publish"} \cup Pushing
Resetting == {c \in Consumer : tpc[c] \in {"resetGlobal", "resetOffsets"}}
Alive(c)  == tpc[c] \in Running

Goto(c, label) == tpc' = [tpc EXCEPT ![c] = label]

-----------------------------------------------------------------------------
Init ==
    /\ created = FALSE
    /\ apc = "idle"
    /\ setUp = 0
    /\ stopIdx = 0
    /\ tpc = [c \in Consumer |-> "none"]
    /\ stopReq = [c \in Consumer |-> FALSE]
    /\ canFree = [c \in Consumer |-> FALSE]
    /\ freedLast = [c \in Consumer |-> FALSE]
    /\ limit = [c \in Consumer |-> 0]
    /\ writeOff = 0 /\ rd = 0 /\ wr = 0
    /\ attached = FALSE
    /\ found = 0
    /\ unpublished = 0 /\ taken = 0
    /\ outdated = FALSE /\ staleTaken = FALSE

\* The interface goes up.  If the threads were not created, the running
\* offset starts again at 0; the global listener's offsets stay.
BeginLaunch ==
    /\ apc = "idle"
    /\ ~created
    /\ created' = TRUE
    /\ apc' = "launch"
    /\ setUp' = 0
    /\ writeOff' = 0
    /\ unpublished' = 0 /\ taken' = 0
    /\ outdated' = (wr # 0)
    /\ staleTaken' = FALSE
    /\ UNCHANGED <<stopIdx, stopReq, rightVars, threadVars, rd, wr, attached>>

\* Mutant of SetUpSlot: can_free is only set for the first thread.
SetUpSlotKeepsRight(j) ==
    /\ freedLast' = [freedLast EXCEPT ![j] = FALSE]
    /\ canFree' = [canFree EXCEPT ![j] = canFree[j] \/ j = 0]

\* The marks of thread j.  The ring was emptied with the interface, its next
\* descriptor is 0: thread 0 is the starting consumer.
SetUpSlot(j) ==
    /\ freedLast' = [freedLast EXCEPT ![j] = FALSE]
    /\ canFree' = [canFree EXCEPT ![j] = j = 0]

\* One turn of the launch loop: thread setUp is prepared, created and woken.
LaunchThread ==
    /\ apc = "launch"
    /\ SetUpSlot(setUp)
    /\ Goto(setUp, "test")
    /\ stopReq' = [stopReq EXCEPT ![setUp] = FALSE]
    /\ setUp' = setUp + 1
    /\ apc' = IF setUp' = Consumers THEN "idle" ELSE "launch"
    /\ UNCHANGED <<created, stopIdx, limit, found, bufVars, histVars>>

\* kthread_create fails: the launch returns, with created still set, an error
\* value for this thread's pointer, and the later ones what they were before.
LaunchFails ==
    /\ apc = "launch"
    /\ SetUpSlot(setUp)
    /\ Goto(setUp, "failed")
    /\ setUp' = setUp + 1
    /\ apc' = "idle"
    /\ UNCHANGED <<created, stopIdx, stopReq, limit, found, bufVars, histVars>>

\* The interface goes down.
BeginStop ==
    /\ apc = "idle"
    /\ created
    /\ created' = FALSE
    /\ apc' = "stop"
    /\ UNCHANGED <<setUp, stopIdx, stopReq, rightVars, threadVars, bufVars, histVars>>

\* kthread_stop, its request.  On a pointer that is an error value, NULL or a
\* thread that has ended it does not come back: the kernel crashes.
RequestStop ==
    /\ apc = "stop"
    /\ stopReq' = [stopReq EXCEPT ![stopIdx] = TRUE]
    /\ apc' = IF Alive(stopIdx) THEN "join" ELSE "crashed"
    /\ UNCHANGED <<created, setUp, stopIdx, rightVars, threadVars, bufVars, histVars>>

\* Mutant of Joined: the thread is told to stop and not waited for.
JoinedEarly ==
    /\ apc = "join"
    /\ stopIdx' = (stopIdx + 1) % Consumers
    /\ apc' = IF stopIdx' = 0 THEN "idle" ELSE "stop"
    /\ UNCHANGED <<created, setUp, stopReq, rightVars, threadVars, bufVars, histVars>>

\* kthread_stop returns when the thread has left hpcap_poll; the next one.
Joined ==
    /\ apc = "join"
    /\ tpc[stopIdx] = "ended"
    /\ stopIdx' = (stopIdx + 1) % Consumers
    /\ apc' = IF stopIdx' = 0 THEN "idle" ELSE "stop"
    /\ UNCHANGED <<created, setUp, stopReq, rightVars, threadVars, bufVars, histVars>>

Admin ==
    \/ LaunchThread \/ LaunchFails \/ RequestStop \/ Joined

-----------------------------------------------------------------------------
\* Mutant of PollLoop: only a thread that finds no listener looks.
PollLoopIdleStop(c) ==
    /\ tpc[c] = "test"
    /\ IF stopReq[c] /\ ~attached
       THEN Goto(c, "ended") /\ UNCHANGED limit
       ELSE /\ Goto(c, IF attached THEN "rx" ELSE "resetGlobal")
            /\ limit' = [limit EXCEPT ![c] = IF attached THEN Avail \div Consumers ELSE 0]
    /\ UNCHANGED <<adminVars, rightVars, found, bufVars, histVars>>

\* The head of the poll loop: kthread_should_stop, then the number of
\* listeners.  With none nothing is stored.
PollLoop(c) ==
    /\ tpc[c] = "test"
    /\ IF stopReq[c]
       THEN Goto(c, "ended") /\ UNCHANGED limit
       ELSE /\ Goto(c, IF attached THEN "rx" ELSE "resetGlobal")
            /\ limit' = [limit EXCEPT ![c] = IF attached THEN Avail \div Consumers ELSE 0]
    /\ UNCHANGED <<adminVars, rightVars, found, bufVars, histVars>>

\* hpcap_global_listener_reset_offset
ResetGlobal(c) ==
    /\ tpc[c] = "resetGlobal"
    /\ Goto(c, "resetOffsets")
    /\ rd' = 0 /\ wr' = 0
    /\ UNCHANGED <<adminVars, rightVars, limit, found, writeOff, attached, histVars>>

\* A reset of the running offset: what was reserved before is forgotten, and
\* thread 0 is mistaken about it if it has looked and not pushed yet.
Forget ==
    /\ unpublished' = 0 /\ taken' = 0
    /\ outdated' = (wr # 0 \/ tpc[0] \in Pushing)

\* hpcap_reset_buffer_offsets
ResetOffsets(c) ==
    /\ tpc[c] = "resetOffsets"
    /\ Goto(c, "rx")
    /\ writeOff' = 0
    /\ Forget
    /\ UNCHANGED <<adminVars, rightVars, limit, found, rd, wr, attached, staleTaken>>

\* Mutant of Reserve: the offset is not brought back into the buffer.
ReserveNoWrap(c) ==
    /\ tpc[c] = "rx"
    /\ \E n \in 1..limit[c] :
          /\ limit' = [limit EXCEPT ![c] = limit[c] - n]
          /\ writeOff' = writeOff + n
          /\ unpublished' = (unpublished + n) % BufSize
    /\ UNCHANGED <<adminVars, rightVars, tpc, found, rd, wr, attached,
                   taken, outdated, staleTaken>>

\* hpcap_rx stores a frame of n bytes in the buffer.
Reserve(c) ==
    /\ tpc[c] = "rx"
    /\ \E n \in 1..limit[c] :
          /\ limit' = [limit EXCEPT ![c] = limit[c] - n]
          /\ writeOff' = (writeOff + n) % BufSize
          /\ unpublished' = (unpublished + n) % BufSize
    /\ UNCHANGED <<adminVars, rightVars, tpc, found, rd, wr, attached,
                   taken, outdated, staleTaken>>

\* hpcap_rx returns the last descriptor of the segment: the right goes on.
PassRight(c) ==
    /\ tpc[c] = "rx"
    /\ canFree[c]
    /\ freedLast' = [freedLast EXCEPT ![c] = TRUE]
    /\ canFree' = [canFree EXCEPT ![c] = FALSE]
    /\ UNCHANGED <<adminVars, threadVars, bufVars, histVars>>

\* hpcap_rx takes the mark of the previous consumer, be it of this launch or
\* not: the marks of the threads behind setUp are those of the previous one.
TakeRight(c) ==
    LET p == PreviousConsumer(c)
    IN  /\ tpc[c] = "rx"
        /\ ~canFree[c]
        /\ freedLast[p]
        /\ canFree' = [canFree EXCEPT ![c] = TRUE]
        /\ freedLast' = [freedLast EXCEPT ![p] = FALSE]
        /\ staleTaken' = (staleTaken \/ p >= setUp)
        /\ UNCHANGED <<adminVars, threadVars, bufVars, pushVars>>

\* hpcap_rx returns; thread 0 alone publishes.
EndRx(c) ==
    /\ tpc[c] = "rx"
    /\ Goto(c, IF c = 0 THEN "publish" ELSE "test")
    /\ limit' = [limit EXCEPT ![c] = 0]
    /\ UNCHANGED <<adminVars, rightVars, found, bufVars, histVars>>

\* Thread 0 reads the running offset...
ReadOffset(c) ==
    /\ tpc[c] = "publish"
    /\ Goto(c, "measure")
    /\ found' = writeOff
    /\ taken' = unpublished
    /\ UNCHANGED <<adminVars, rightVars, limit, bufVars, unpublished, outdated, staleTaken>>

\* What thread 0 found when it looked is published.
Published ==
    /\ unpublished' = (unpublished - taken) % BufSize
    /\ taken' = 0

\* Mutant of Measure: the distance of what is in use, not of what is new.
MeasureUsed(c) ==
    LET new == Distance(rd, found)
    IN  /\ tpc[c] = "measure"
        /\ Goto(c, IF new > 0 THEN "push" ELSE "test")
        /\ found' = new
        /\ IF new > 0 THEN UNCHANGED <<unpublished, taken>> ELSE Published
        /\ UNCHANGED <<adminVars, rightVars, limit, bufVars, outdated, staleTaken>>

\* ...then how far it is from the global write offset.  There may be nothing new.
Measure(c) ==
    LET new == Distance(wr, found)
    IN  /\ tpc[c] = "measure"
        /\ Goto(c, IF new > 0 THEN "push" ELSE "test")
        /\ found' = new
        /\ IF new > 0 THEN UNCHANGED <<unpublished, taken>> ELSE Published
        /\ UNCHANGED <<adminVars, rightVars, limit, bufVars, outdated, staleTaken>>

\* hpcap_push_listener: what was found new is added to the write offset, or one
\* byte less than the room if that is too much, without a sign.
Push(c) ==
    LET count == IF Avail < found THEN Avail - 1 ELSE found
        new   == ((wr + count) % Word) % BufSize
    IN  /\ tpc[c] = "push"
        /\ Goto(c, "store")
        /\ found' = new
        /\ taken' = IF Avail < found THEN Distance(wr, new) ELSE taken
        /\ UNCHANGED <<adminVars, rightVars, limit, bufVars, unpublished, outdated, staleTaken>>

Store(c) ==
    /\ tpc[c] = "store"
    /\ Goto(c, "test")
    /\ wr' = found
    /\ found' = 0
    /\ Published
    /\ UNCHANGED <<adminVars, rightVars, limit, writeOff, rd, attached, outdated, staleTaken>>

Thread(c) ==
    \/ PollLoop(c) \/ ResetGlobal(c) \/ ResetOffsets(c)
    \/ Reserve(c) \/ PassRight(c) \/ TakeRight(c) \/ EndRx(c)
    \/ ReadOffset(c) \/ Measure(c) \/ Push(c) \/ Store(c)

\* A client opens the device, and its listener starts at the global offsets.
Attach ==
    /\ ~attached
    /\ attached' = TRUE
    /\ UNCHANGED <<adminVars, rightVars, threadVars, writeOff, rd, wr, histVars>>

Detach ==
    /\ attached
    /\ attached' = FALSE
    /\ UNCHANGED <<adminVars, rightVars, threadVars, writeOff, rd, wr, histVars>>

\* It tells what it has read, and the global read offset follows.
Ack ==
    /\ attached
    /\ \E n \in 1..Distance(rd, wr) : rd' = (rd + n) % BufSize
    /\ UNCHANGED <<adminVars, rightVars, threadVars, writeOff, wr, attached, histVars>>

Next ==
    \/ BeginLaunch \/ BeginStop \/ Admin
    \/ \E c \in Consumer : Thread(c)
    \/ Attach \/ Detach \/ Ack

Spec == Init /\ [][Next]_vars

\* The up and down paths go on once begun, a thread is bound to a core of its
\* own, and the limit ends every call of hpcap_rx.
Fairness ==
    /\ WF_vars(Admin)
    /\ \A c \in Consumer : WF_vars(Thread(c)) /\ WF_vars(EndRx(c))

FairSpec == Spec /\ Fairness

-----------------------------------------------------------------------------
\* Type correctness.
TypeOK ==
    /\ created \in BOOLEAN
    /\ apc \in {"idle", "launch", "stop", "join", "crashed"}
    /\ setUp \in 0..Consumers
    /\ stopIdx \in Consumer
    /\ tpc \in [Consumer -> Running \cup {"none", "failed", "ended"}]
    /\ stopReq \in [Consumer -> BOOLEAN]
    /\ canFree \in [Consumer -> BOOLEAN]
    /\ freedLast \in [Consumer -> BOOLEAN]
    /\ limit \in [Consumer -> 0..(BufSize - 1)]
    /\ {writeOff, rd, wr, found, unpublished, taken} \subseteq 0..(BufSize - 1)
    /\ {attached, outdated, staleTaken} \subseteq BOOLEAN

\* No thread outlives its down path, and none is launched in the place of one
\* that still runs, however often the interface goes up and down and whichever
\* creations fail (the exchange of created in both functions, kthread_stop).
NoneRunsWhenDown ==
    /\ apc = "idle" /\ ~created => \A c \in Consumer : ~Alive(c)
    /\ apc = "launch" => \A c \in setUp..(Consumers - 1) : ~Alive(c)

\* Although the marks are reset one thread at a time while the first threads
\* already run, the threads of this launch have between them exactly one right
\* to return descriptors, unless thread 0 finished its segment so early that it
\* took the mark the last thread of the previous launch had left.
OneRightUnlessStale ==
    setUp > 0 =>
        \/ staleTaken
        \/ \E c \in 0..(setUp - 1) :
              /\ canFree[c] # freedLast[c]
              /\ \A d \in 0..(setUp - 1) : canFree[d] \/ freedLast[d] => d = c

\* What is between the global write offset and the running one are the bytes
\* that the threads reserved and thread 0 had not found yet at its last push: it
\* publishes what it found, no byte less and no byte twice, although the others
\* go on reserving between its two reads and its push, and across stops,
\* launches, clients that come and go and the resets that every thread does for
\* itself.  It fails to after a reset of the running offset over a global write
\* offset that was not 0, by a launch under a client or by a thread that found no
\* listener, and after one that falls between its reads and its push (hpcap_poll).
PublishesReservedUnlessOutdated ==
    \/ outdated \/ Resetting # {}
    \/ (wr + unpublished) % BufSize = writeOff

\* Once every thread was created, the down path comes to its end: no thread
\* makes kthread_stop wait for ever, and none is missing.
StopReturns ==
    apc = "stop" ~> (apc = "idle" \/ \E c \in Consumer : tpc[c] = "failed")
=============================================================================
