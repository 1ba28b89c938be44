------------------------------ MODULE Sessions ------------------------------
(***************************************************************************)
(* The life of an open file of the character device: the open, release,    *)
(* read and KILLWAIT / KILL_LST handlers of hpcap_cdev.c, with the slots,  *)
(* kill marks and waits of hpcap_listeners.c.                              *)
(*                                                                         *)
(* hpcap_add_listener and hpcap_del_listener are one step each here: they  *)
(* hold the lock of the listeners and what the poll thread sees of them    *)
(* half-way is in module Listeners.  The offsets of a slot are abstracted  *)
(* to the number of blocks it has pending.                                 *)
(*                                                                         *)
(* The kernel's file layer is external.  A file is named by the handle     *)
(* that hpcap_open gave it.  Release runs once per file, after the owner's *)
(* close or after a filp_close that finds it open, at once or later.  A    *)
(* filp_close of a file that has no reference left does nothing, and one   *)
(* of a file that was freed may find a younger file in its place.  A       *)
(* program whose file was closed under it makes no use of it any more.     *)
(***************************************************************************)
EXTENDS Integers, FiniteSets

CONSTANTS Proc,         \* the programs that use the device
          MaxListeners, \* slots of the queue (MAX_LISTENERS)
          MaxHandles,   \* bound: handles given before the model stops opening
          MaxPending    \* bound: blocks a slot may have pending

ASSUME SessionsAssumption ==
    /\ IsFiniteSet(Proc)
    /\ MaxListeners \in Nat \ {0}
    /\ MaxHandles \in Nat /\ MaxPending \in Nat \ {0}

VARIABLES opened,     \* bufp->opened
          lastHandle, \* bufp->last_handle
          count,      \* lstnr.listeners_count
          id,         \* listeners[i].id, 0 for HPCAP_LISTENER_EMPTY
          kill,       \* listeners[i].kill
          pending,    \* used_bytes of the slot, in blocks
          filp,       \* listeners[i].filp, which nothing clears; 0 for NULL
          killed,     \* force_killed_listener_ids, the first force_killed of them
          pc,         \* where each program is in its system call
          file,       \* its file: "none", "open", or "dropped": to be released
          handle,     \* its handle id (private_data)
          at,         \* list, or l: the slot its running read or kill uses
          want,       \* count of that read, in blocks
          got,        \* avail, what that read found
          victim      \* the handle a KILL_LST call is killing

slotVars == <<count, id, kill, pending, filp>>
bufVars  == <<opened, lastHandle, killed>>
procVars == <<pc, file, handle, at, want, got, victim>>
vars     == <<slotVars, bufVars, procVars>>

-----------------------------------------------------------------------------
Slot      == 0..(MaxListeners - 1)
MaxOpened == MaxListeners + 1
MaxForceKilled == 3 * MaxListeners

SlotsOf(h) == {s \in Slot : id[s] = h}

\* hpcap_get_listener returns the first slot with that id.
GetListener(h, s) == s \in SlotsOf(h) /\ \A t \in SlotsOf(h) : s <= t

\* hpcap_rst_listener.
ClearSlot(s) ==
    /\ id' = [id EXCEPT ![s] = 0]
    /\ kill' = [kill EXCEPT ![s] = FALSE]
    /\ pending' = [pending EXCEPT ![s] = 0]
    /\ UNCHANGED filp

\* Mutant of Del: a deletion that finds no slot is counted too.
DelAlwaysCounts(h) ==
    /\ count' = count - 1
    /\ \/ SlotsOf(h) = {} /\ UNCHANGED <<id, kill, pending, filp>>
       \/ \E s \in Slot : GetListener(h, s) /\ ClearSlot(s)

\* hpcap_del_listener: nothing (-EIDRM) when the id has no slot.
Del(h) ==
    \/ SlotsOf(h) = {} /\ UNCHANGED slotVars
    \/ \E s \in Slot : GetListener(h, s) /\ ClearSlot(s) /\ count' = count - 1

Goto(p, label) == pc' = [pc EXCEPT ![p] = label]

Init ==
    /\ opened = 0 /\ lastHandle = 0 /\ count = 0
    /\ id = [s \in Slot |-> 0]
    /\ kill = [s \in Slot |-> FALSE]
    /\ pending = [s \in Slot |-> 0]
    /\ filp = [s \in Slot |-> 0]
    /\ killed = {}
    /\ pc = [p \in Proc |-> "idle"]
    /\ file = [p \in Proc |-> "none"]
    /\ handle = [p \in Proc |-> 0]
    /\ at = [p \in Proc |-> 0]
    /\ want = [p \in Proc |-> 0]
    /\ got = [p \in Proc |-> 0]
    /\ victim = [p \in Proc |-> 0]

\* The poll thread pushes a block to every registered slot with room.
Push ==
    /\ \E s \in Slot : id[s] # 0 /\ pending[s] < MaxPending
    /\ pending' = [s \in Slot |->
                     IF id[s] # 0 /\ pending[s] < MaxPending THEN pending[s] + 1 ELSE pending[s]]
    /\ UNCHANGED <<count, id, kill, filp, bufVars, procVars>>

-----------------------------------------------------------------------------
(* hpcap_open                                                              *)

CountOpen(p) ==
    /\ pc[p] = "idle" /\ file[p] = "none" /\ lastHandle < MaxHandles
    /\ opened' = opened + 1
    /\ Goto(p, IF opened' > MaxOpened THEN "refused" ELSE "counted")
    /\ UNCHANGED <<lastHandle, killed, slotVars, file, handle, at, want, got, victim>>

\* Mutant of UncountOpen: opened stays incremented when the open fails.
UncountOpenForgotten(p) ==
    /\ pc[p] \in {"refused", "undone"}
    /\ handle' = [handle EXCEPT ![p] = 0]
    /\ Goto(p, "idle")
    /\ UNCHANGED <<bufVars, slotVars, file, at, want, got, victim>>

\* -EUSERS, or -ENOMEM after the listener was deleted.
UncountOpen(p) ==
    /\ pc[p] \in {"refused", "undone"}
    /\ opened' = opened - 1
    /\ handle' = [handle EXCEPT ![p] = 0]
    /\ Goto(p, "idle")
    /\ UNCHANGED <<lastHandle, killed, slotVars, file, at, want, got, victim>>

TakeHandle(p) ==
    /\ pc[p] = "counted" /\ lastHandle < MaxHandles
    /\ lastHandle' = lastHandle + 1
    /\ handle' = [handle EXCEPT ![p] = lastHandle']
    /\ Goto(p, "numbered")
    /\ UNCHANGED <<opened, killed, slotVars, file, at, want, got, victim>>

\* hpcap_add_listener: the first free slot, whose kill mark is left as it is.
\* With no free slot nothing happens, and its result is not looked at.  The
\* bytes behind its read offset are already pending.
AddListener(p) ==
    /\ pc[p] = "numbered"
    /\ \/ SlotsOf(0) = {} /\ UNCHANGED slotVars
       \/ \E s \in Slot, n \in 0..MaxPending :
             /\ GetListener(0, s)
             /\ id' = [id EXCEPT ![s] = handle[p]]
             /\ pending' = [pending EXCEPT ![s] = n]
             /\ count' = count + 1
             /\ UNCHANGED <<kill, filp>>
    /\ Goto(p, "added")
    /\ UNCHANGED <<bufVars, file, handle, at, want, got, victim>>

\* Mutant of SetPrivateData: the slot is not told its file.
SetPrivateDataForgetsFile(p) ==
    /\ pc[p] = "added"
    /\ IF SlotsOf(handle[p]) = {}
       THEN Goto(p, "dead") /\ UNCHANGED file
       ELSE Goto(p, "idle") /\ file' = [file EXCEPT ![p] = "open"]
    /\ UNCHANGED <<bufVars, slotVars, handle, at, want, got, victim>>

\* _hpcap_set_private_data, which looks the slot up again to tell it its file.
\* It may have none: the program dies on a NULL pointer.
SetPrivateData(p) ==
    /\ pc[p] = "added"
    /\ \/ /\ SlotsOf(handle[p]) = {}
          /\ Goto(p, "dead")
          /\ UNCHANGED <<file, filp>>
       \/ /\ \E s \in Slot : /\ GetListener(handle[p], s)
                             /\ filp' = [filp EXCEPT ![s] = handle[p]]
          /\ file' = [file EXCEPT ![p] = "open"]
          /\ Goto(p, "idle")
    /\ UNCHANGED <<bufVars, count, id, kill, pending, handle, at, want, got, victim>>

\* Its allocation fails: the listener is deleted again.
OutOfMemory(p) ==
    /\ pc[p] = "added"
    /\ Del(handle[p])
    /\ Goto(p, "undone")
    /\ UNCHANGED <<bufVars, file, handle, at, want, got, victim>>

-----------------------------------------------------------------------------
(* close() and hpcap_release                                               *)

Close(p) ==
    /\ pc[p] = "idle" /\ file[p] = "open"
    /\ file' = [file EXCEPT ![p] = "dropped"]
    /\ UNCHANGED <<slotVars, bufVars, pc, handle, at, want, got, victim>>

ReleaseListener(p) ==
    /\ file[p] = "dropped"
    /\ Del(handle[p])
    /\ file' = [file EXCEPT ![p] = "released"]
    /\ handle' = [handle EXCEPT ![p] = 0]
    /\ UNCHANGED <<bufVars, pc, at, want, got, victim>>

ReleaseOpened(p) ==
    /\ file[p] = "released"
    /\ opened' = opened - 1
    /\ file' = [file EXCEPT ![p] = "none"]
    /\ UNCHANGED <<lastHandle, killed, slotVars, pc, handle, at, want, got, victim>>

-----------------------------------------------------------------------------
(* hpcap_read                                                              *)

\* The slot is looked up once; without one read returns -1 at once.
StartRead(p, n) ==
    /\ pc[p] = "idle" /\ file[p] = "open"
    /\ \E s \in Slot : GetListener(handle[p], s) /\ at' = [at EXCEPT ![p] = s]
    /\ want' = [want EXCEPT ![p] = n]
    /\ Goto(p, "wait")
    /\ UNCHANGED <<slotVars, bufVars, file, handle, got, victim>>

\* Mutant of LeaveWait: the loop does not look at the kill mark.
LeaveWaitUnkilled(p) ==
    /\ pc[p] = "wait"
    /\ pending[at[p]] >= want[p]
    /\ got' = [got EXCEPT ![p] = pending[at[p]]]
    /\ Goto(p, "woken")
    /\ UNCHANGED <<slotVars, bufVars, file, handle, at, want, victim>>

\* hpcap_wait_listener: the loop ends when the mark is set or enough is there.
LeaveWait(p) ==
    /\ pc[p] = "wait"
    /\ kill[at[p]] \/ pending[at[p]] >= want[p]
    /\ got' = [got EXCEPT ![p] = pending[at[p]]]
    /\ Goto(p, "woken")
    /\ UNCHANGED <<slotVars, bufVars, file, handle, at, want, victim>>

\* Behind the loop the mark is read again: -1 if it is set.  minimo(count, -1)
\* compares unsigned values, so that to_copy is then the whole count.  Nothing
\* is popped if the copy to the program fails.
ReturnRead(p) ==
    /\ pc[p] = "woken"
    /\ LET least  == IF want[p] < got[p] THEN want[p] ELSE got[p]
           toCopy == IF kill[at[p]] THEN want[p] ELSE least
           left   == pending[at[p]] - toCopy
       IN  \/ pending' = [pending EXCEPT ![at[p]] = IF left < 0 THEN 0 ELSE left]
           \/ UNCHANGED pending
    /\ got' = [got EXCEPT ![p] = 0]
    /\ want' = [want EXCEPT ![p] = 0]
    /\ at' = [at EXCEPT ![p] = 0]
    /\ Goto(p, "idle")
    /\ UNCHANGED <<count, id, kill, filp, bufVars, file, handle, victim>>

-----------------------------------------------------------------------------
(* HPCAP_IOC_KILLWAIT and HPCAP_IOC_KILL_LST                               *)

\* Neither is served to a force-killed listener or to one without a slot.
MayIoctl(p) ==
    /\ pc[p] = "idle" /\ file[p] = "open"
    /\ handle[p] \notin killed
    /\ SlotsOf(handle[p]) # {}

\* hpcap_killall_listeners marks every slot, the empty ones too.
KillAll(p) ==
    /\ MayIoctl(p)
    /\ kill' = [s \in Slot |-> TRUE]
    /\ UNCHANGED <<count, id, pending, filp, bufVars, procVars>>

\* hpcap_kill_listener, of any handle that has a slot: its program may be using
\* it, closing it or still in its open.  Nobody calls it while a call of it runs
\* (hpcap_listeners.c:321).
StartKill(p, h) ==
    /\ MayIoctl(p)
    /\ \A r \in Proc : pc[r] \notin {"marked", "closing", "recorded"}
    /\ \E s \in Slot : /\ GetListener(h, s)
                       /\ kill' = [kill EXCEPT ![s] = TRUE]
                       /\ at' = [at EXCEPT ![p] = s]
    /\ victim' = [victim EXCEPT ![p] = h]
    /\ Goto(p, "marked")
    /\ UNCHANGED <<count, id, pending, filp, bufVars, file, handle, want, got>>

\* The files that a filp_close of f may drop: f, if it is open, or a younger one
\* that was given the memory of f.
Struck(f) ==
    IF \E q \in Proc : handle[q] = f
    THEN {{q \in Proc : handle[q] = f /\ file[q] = "open"}}
    ELSE {{}} \cup {{q} : q \in {r \in Proc : handle[r] > f /\ file[r] = "open"}}

\* Behind its sleep the kill closes the file its slot has by now, whosever it is.
\* If there never was one the killer dies, and the kernel closes its file.
KillClose(p) ==
    LET f == filp[at[p]]
    IN  /\ pc[p] = "marked"
        /\ \E hit \in IF f = 0 THEN {{p}} ELSE Struck(f) :
              file' = [q \in Proc |-> IF q \in hit /\ file[q] = "open" THEN "dropped" ELSE file[q]]
        /\ Goto(p, IF f = 0 THEN "crashed" ELSE "closing")
        /\ UNCHANGED <<slotVars, bufVars, handle, at, want, got, victim>>

KillRecord(p) ==
    /\ pc[p] = "closing"
    /\ killed' = IF Cardinality(killed) < MaxForceKilled THEN killed \cup {victim[p]} ELSE killed
    /\ Goto(p, "recorded")
    /\ UNCHANGED <<opened, lastHandle, slotVars, file, handle, at, want, got, victim>>

KillDelete(p) ==
    /\ pc[p] = "recorded"
    /\ Del(victim[p])
    /\ victim' = [victim EXCEPT ![p] = 0]
    /\ at' = [at EXCEPT ![p] = 0]
    /\ Goto(p, "idle")
    /\ UNCHANGED <<bufVars, file, handle, want, got>>

-----------------------------------------------------------------------------
Opening(p) ==
    \/ CountOpen(p) \/ UncountOpen(p) \/ TakeHandle(p) \/ AddListener(p)
    \/ SetPrivateData(p) \/ OutOfMemory(p)

Releasing(p) == ReleaseListener(p) \/ ReleaseOpened(p)

Reading(p) == (\E n \in 1..MaxPending : StartRead(p, n)) \/ LeaveWait(p) \/ ReturnRead(p)

Killing(p) ==
    \/ KillAll(p) \/ (\E h \in 1..lastHandle : StartKill(p, h))
    \/ KillClose(p) \/ KillRecord(p) \/ KillDelete(p)

Next ==
    \/ Push
    \/ \E p \in Proc : Opening(p) \/ Close(p) \/ Releasing(p) \/ Reading(p) \/ Killing(p)

Spec == Init /\ [][Next]_vars

\* A program inside a system call keeps running, and files are released.
Fairness ==
    \A p \in Proc :
        /\ WF_vars(LeaveWait(p)) /\ WF_vars(ReturnRead(p)) /\ WF_vars(Releasing(p))
        /\ WF_vars(UncountOpen(p) \/ TakeHandle(p) \/ AddListener(p) \/ SetPrivateData(p))
        /\ WF_vars(KillClose(p) \/ KillRecord(p) \/ KillDelete(p))

FairSpec == Spec /\ Fairness

-----------------------------------------------------------------------------
\* Type correctness.
TypeOK ==
    /\ opened \in 0..Cardinality(Proc) /\ lastHandle \in 0..MaxHandles
    /\ count \in 0..MaxListeners
    /\ id \in [Slot -> 0..MaxHandles] /\ kill \in [Slot -> BOOLEAN]
    /\ pending \in [Slot -> 0..MaxPending]
    /\ filp \in [Slot -> 0..MaxHandles]
    /\ killed \subseteq 1..MaxHandles
    /\ pc \in [Proc -> {"idle", "refused", "counted", "numbered", "added", "undone", "dead",
                        "wait", "woken", "marked", "closing", "recorded", "crashed"}]
    /\ file \in [Proc -> {"none", "open", "dropped", "released"}]
    /\ handle \in [Proc -> 0..MaxHandles] /\ victim \in [Proc -> 0..MaxHandles]
    /\ at \in [Proc -> Slot] /\ want \in [Proc -> 0..MaxPending]
    /\ got \in [Proc -> 0..MaxPending]

\* A program whose open was counted and not given back yet: one that died in it
\* never gives it back.
HoldsOpen(p) ==
    \/ pc[p] \in {"refused", "counted", "numbered", "added", "undone", "dead"}
    \/ file[p] # "none"

\* Every way out of open, close, a failed allocation and a kill gives back the
\* count of openings exactly once, whichever file a kill closes: the device lets
\* in too many never, and refuses for ever only in the place of programs that
\* died in their open (hpcap_open, hpcap_release, hpcap_kill_listener).
OpenedIsExact == opened = Cardinality({p \in Proc : HoldsOpen(p)})

\* A program that will give its slot back: its open has still to end, or its
\* file to be released.
WillDelete(p) == pc[p] = "added" \/ file[p] \in {"open", "dropped"}

\* No slot is leaked: a registered slot belongs to a program that still has
\* its handle and will delete it.
NoOrphanSlot ==
    \A s \in Slot : id[s] # 0 => \E p \in Proc : handle[p] = id[s] /\ WillDelete(p)

\* listeners_count, which tells the poll thread whether to keep the frames,
\* survives a listener deleted twice, by the release and by the kill.
CountIsExact == count = Cardinality({s \in Slot : id[s] # 0})

\* A kill that is about to close a file has that of its victim in its hands, if
\* the slot it kept over its sleep was not emptied or given away meanwhile and
\* the victim's open got as far as to store its file there.
KillAims ==
    \A p \in Proc :
        pc[p] = "marked" /\ id[at[p]] = victim[p] =>
            \/ filp[at[p]] = victim[p]
            \/ \E q \in Proc : handle[q] = victim[p] /\ pc[q] = "added"

\* The slots, their count and their files are what the programs hold, through
\* opens that fail, closes, kills of programs in any state and files closed
\* under the wrong program (hpcap_add_listener, hpcap_del_listener,
\* _hpcap_set_private_data, hpcap_kill_listener).
SlotsExact == NoOrphanSlot /\ CountIsExact /\ KillAims

\* A reader whose slot is marked gets out of its wait, unless the slot is deleted
\* meanwhile, by a kill or by the release of its file: that clears the mark
\* before the reader may have seen it (hpcap_wait_listener, hpcap_kill_listener).
KillWaitWakes ==
    \A p \in Proc :
        (pc[p] = "wait" /\ kill[at[p]]) ~> (pc[p] # "wait" \/ handle[p] = 0 \/ id[at[p]] # handle[p])
=============================================================================
