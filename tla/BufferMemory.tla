---------------------------- MODULE BufferMemory ----------------------------
(***************************************************************************)
(* The memory of one capture buffer: its replacement by hugepages and back *)
(* (hpcap_hugepages.c, called by ioctl HUGE_MAP and HUGE_UNMAP without any *)
(* lock), its mapping by clients (hpcap_mmap in hpcap_vma.c, and hpcap_map *)
(* in the library), and the poll thread that reads the pointer in          *)
(* hpcap_poll, the size in hpcap_rx, and then writes.                      *)
(*                                                                         *)
(* Memory is a set of regions: 0 is the buffer allocated when the adapter  *)
(* was registered, the others are hugetlbfs files, of which one at a time  *)
(* has the name the library uses.  Sizes are counted in a few units, and a *)
(* write is only where it could go: the region and the size the thread     *)
(* read.  A flaw of the code that has happened is remembered in flaws, so  *)
(* that the properties can say what holds without it.                      *)
(***************************************************************************)
EXTENDS Integers, FiniteSets

CONSTANTS Tools,      \* programs that replace and release the buffer (huge_map)
          Clients,    \* programs that map it
          MaxFiles,   \* bound: hugetlbfs files ever created
          KernelSize, \* size of the buffer the driver allocated
          HugeSize,   \* size hpcap_map_huge is called with
          MaxFlaws,   \* bound: kinds of flaw that happen in one behaviour
          MaxPins,    \* bound: references the driver takes to a file's pages
          None        \* no region

ASSUME MemoryAssumption ==
    /\ IsFiniteSet(Tools) /\ IsFiniteSet(Clients)
    /\ Tools \cap Clients = {}
    /\ MaxFiles \in Nat \ {0}
    /\ KernelSize \in Nat \ {0}
    /\ HugeSize \in Nat \ {0}
    /\ MaxFlaws \in Nat
    /\ MaxPins \in Nat \ {0}
    /\ None \notin 0..MaxFiles

VARIABLES buf,       \* bufp->bufferCopia
          bufSize,   \* bufp->bufSize
          oldBuf,    \* bufp->old_buffer
          huge,      \* bufp->huge_pages: the file whose pages are held
          bufsz,     \* the listeners' copy of bufSize
          len,       \* file -> how much of it vm_map_ram mapped last
          pins,      \* file -> references of the driver to its pages
          file,      \* the file that has the buffer's name, or None
          created,   \* files created so far
          mmapCount, \* bufp->mmapCount
          up,        \* the poll thread runs
          tpc,       \* where it is
          rxbuf, rxsize, \* its locals
          pc,        \* where each program is
          region,    \* its file, or the region it has mapped
          current,   \* history: the buffer has not changed since its BUFINFO
          flaws      \* history: the flaws that have happened

driverVars == <<buf, bufSize, oldBuf, huge, bufsz>>
pageVars   == <<len, pins>>
fileVars   == <<file, created>>
threadVars == <<up, tpc, rxbuf, rxsize>>
progVars   == <<pc, region>>
histVars   == <<current, flaws>>
memVars    == <<driverVars, pageVars>>
vars == <<memVars, fileVars, mmapCount, threadVars, progVars, histVars>>

Programs == Tools \cup Clients

Files   == 1..MaxFiles
Regions == 0..MaxFiles

Length(r) == IF r = 0 THEN KernelSize ELSE len[r]

Calls   == {"pin", "remap", "setPages", "put", "restore", "clear"}
InCall  == {p \in Tools : pc[p] \in Calls}
InMmap  == {p \in Clients : pc[p] \in {"spin", "inside", "leave"}}

Goto(p, label) == pc' = [pc EXCEPT ![p] = label]

-----------------------------------------------------------------------------
Init ==
    /\ buf = 0 /\ bufSize = KernelSize /\ bufsz = KernelSize
    /\ oldBuf = None /\ huge = None
    /\ len = [f \in Files |-> 0]
    /\ pins = [f \in Files |-> 0]
    /\ file = None /\ created = 0
    /\ mmapCount = 0
    /\ up = FALSE /\ tpc = "poll" /\ rxbuf = 0 /\ rxsize = 0
    /\ pc = [p \in Programs |-> "idle"]
    /\ region = [p \in Programs |-> None]
    /\ current = [p \in Clients |-> FALSE]
    /\ flaws = {}

\* open(O_CREAT) of the buffer's name: f is the file it gives.
OpenFile(f) ==
    \/ file # None /\ f = file /\ UNCHANGED fileVars
    \/ file = None /\ created < MaxFiles
         /\ f = created + 1 /\ file' = f /\ created' = f

Flaw(S) ==
    /\ flaws' = flaws \cup S
    /\ Cardinality(flaws') <= MaxFlaws

FlawIf(condition, f) == IF condition THEN {f} ELSE {}

Without(S) == flaws \cap S = {}

-----------------------------------------------------------------------------
\* hpcap_map_huge: the file is opened and mapped, HUGE_MAP is called.
MapHuge(p) ==
    /\ pc[p] = "idle"
    /\ \E f \in Files : OpenFile(f) /\ region' = [region EXCEPT ![p] = f]
    /\ Goto(p, "pin")
    /\ Flaw(FlawIf(InCall # {}, "overlapped"))
    /\ UNCHANGED <<memVars, mmapCount, threadVars, current>>

\* get_user_pages takes a reference to every page.
GetPages(p) ==
    /\ pc[p] = "pin"
    /\ pins[region[p]] < MaxPins
    /\ pins' = [pins EXCEPT ![region[p]] = @ + 1]
    /\ Goto(p, "remap")
    /\ UNCHANGED <<driverVars, len, fileVars, mmapCount, threadVars, region, histVars>>

\* It fails, and hpcap_map_huge undoes with hpcap_unmap_huge: if the driver
\* has hugepages, the name is removed, although they stay in use.
GetPagesFails(p) ==
    /\ pc[p] = "pin"
    /\ file' = IF huge # None THEN None ELSE file
    /\ Flaw(FlawIf(huge # None, "unnamed"))
    /\ region' = [region EXCEPT ![p] = None]
    /\ Goto(p, "idle")
    /\ UNCHANGED <<memVars, created, mmapCount, threadVars, current>>

\* The present buffer is saved, and vm_map_ram gives the new one, of as many
\* pages as get_user_pages gave: they may be fewer than were asked for.
Remap(p) ==
    /\ pc[p] = "remap"
    /\ oldBuf' = buf
    /\ buf' = region[p]
    /\ \E n \in 1..HugeSize :
          /\ len' = [len EXCEPT ![region[p]] = n]
          /\ Flaw(FlawIf(n < HugeSize, "short") \cup FlawIf(up, "live")
                    \cup FlawIf(huge # None, "twice"))
    /\ current' = [q \in Clients |-> FALSE]
    /\ Goto(p, "setPages")
    /\ UNCHANGED <<bufSize, huge, bufsz, pins, fileVars, mmapCount, threadVars, region>>

\* vm_map_ram fails: HUGE_MAP returns 0 and keeps the pages.
RemapFails(p) ==
    /\ pc[p] = "remap"
    /\ oldBuf' = buf
    /\ region' = [region EXCEPT ![p] = None]
    /\ Flaw({"unmapped"})
    /\ Goto(p, "idle")
    /\ UNCHANGED <<buf, bufSize, huge, bufsz, pageVars, fileVars, mmapCount, threadVars, current>>

\* The size is the one asked for, whatever get_user_pages gave; the pages are
\* remembered, and the listeners told the new size.
SetPages(p) ==
    /\ pc[p] = "setPages"
    /\ bufSize' = HugeSize
    /\ huge' = region[p]
    /\ bufsz' = bufSize'
    /\ region' = [region EXCEPT ![p] = None]
    /\ Goto(p, "idle")
    /\ UNCHANGED <<buf, oldBuf, pageVars, fileVars, mmapCount, threadVars, histVars>>

-----------------------------------------------------------------------------
\* hpcap_unmap_huge: BUFINFO tells whether there is a file to remove, then
\* HUGE_UNMAP is called.
UnmapHuge(p) ==
    /\ pc[p] = "idle"
    /\ file' = IF huge # None THEN None ELSE file
    /\ current' = [q \in Clients |-> current[q] /\ huge = None]
    /\ Flaw(FlawIf(InCall # {}, "overlapped"))
    /\ Goto(p, "put")
    /\ UNCHANGED <<memVars, created, mmapCount, threadVars, region>>

\* hpcap_huge_release without hugepages returns -EIDRM.
NothingToRelease(p) ==
    /\ pc[p] = "put"
    /\ huge = None
    /\ Goto(p, "idle")
    /\ UNCHANGED <<memVars, fileVars, mmapCount, threadVars, region, histVars>>

\* put_page of every page.
PutPages(p) ==
    /\ pc[p] = "put"
    /\ huge # None
    /\ pins' = [pins EXCEPT ![huge] = @ - 1]
    /\ Goto(p, "restore")
    /\ UNCHANGED <<driverVars, len, fileVars, mmapCount, threadVars, region, histVars>>

\* The buffer is the old one again, but its size stays.
Restore(p) ==
    /\ pc[p] = "restore"
    /\ buf' = oldBuf
    /\ current' = [q \in Clients |-> FALSE]
    /\ Flaw(FlawIf(up, "live") \cup FlawIf(bufSize # Length(oldBuf), "kept"))
    /\ Goto(p, "clear")
    /\ UNCHANGED <<bufSize, oldBuf, huge, bufsz, pageVars, fileVars, mmapCount,
                   threadVars, region>>

\* Mutant of Clear: the pages are put and still remembered.
ClearForgotten(p) ==
    /\ pc[p] = "clear"
    /\ Goto(p, "idle")
    /\ UNCHANGED <<memVars, fileVars, mmapCount, threadVars, region, histVars>>

Clear(p) ==
    /\ pc[p] = "clear"
    /\ huge' = None
    /\ Goto(p, "idle")
    /\ UNCHANGED <<buf, bufSize, oldBuf, bufsz, pageVars, fileVars, mmapCount,
                   threadVars, region, histVars>>

-----------------------------------------------------------------------------
\* Mutant of BufInfo: the library looks for the file and does not ask.
BufInfoByName(p) ==
    /\ pc[p] = "idle"
    /\ Goto(p, IF file # None THEN "open" ELSE "enter")
    /\ current' = [current EXCEPT ![p] = InCall = {}]
    /\ UNCHANGED <<memVars, fileVars, mmapCount, threadVars, region, flaws>>

\* hpcap_map: BUFINFO tells whether to map the file or the device.
BufInfo(p) ==
    /\ pc[p] = "idle"
    /\ Goto(p, IF huge # None THEN "open" ELSE "enter")
    /\ current' = [current EXCEPT ![p] = InCall = {}]
    /\ UNCHANGED <<memVars, fileVars, mmapCount, threadVars, region, flaws>>

\* The file of that name is mapped, and created if it is not there any more.
MapFile(p) ==
    /\ pc[p] = "open"
    /\ \E f \in Files : OpenFile(f) /\ region' = [region EXCEPT ![p] = f]
    /\ Goto(p, "mapped")
    /\ UNCHANGED <<memVars, mmapCount, threadVars, histVars>>

\* hpcap_mmap: one at a time goes on, a second one spins.
EnterMmap(p) ==
    /\ pc[p] = "enter"
    /\ mmapCount' = mmapCount + 1
    /\ Goto(p, IF mmapCount' = 1 THEN "inside" ELSE "spin")
    /\ Flaw(FlawIf(\E q \in Clients : pc[q] = "spin", "crowded"))
    /\ UNCHANGED <<memVars, fileVars, threadVars, region, current>>

\* Mutant of SpinEnds: the waiter does not wait for the first one to leave.
SpinEndsEarly(p) ==
    /\ pc[p] = "spin"
    /\ mmapCount > 0
    /\ Goto(p, "inside")
    /\ UNCHANGED <<memVars, fileVars, mmapCount, threadVars, region, histVars>>

SpinEnds(p) ==
    /\ pc[p] = "spin"
    /\ mmapCount = 1
    /\ Goto(p, "inside")
    /\ UNCHANGED <<memVars, fileVars, mmapCount, threadVars, region, histVars>>

\* The hugepages or the buffer are put in the program's memory.
MapDevice(p) ==
    /\ pc[p] = "inside"
    /\ region' = [region EXCEPT ![p] = IF huge # None THEN huge ELSE buf]
    /\ Goto(p, "leave")
    /\ UNCHANGED <<memVars, fileVars, mmapCount, threadVars, histVars>>

\* vm_insert_page fails: the mapping has holes, and hpcap_mmap succeeds.
InsertFails(p) ==
    /\ pc[p] = "inside"
    /\ huge = None
    /\ Goto(p, "leave")
    /\ Flaw({"holes"})
    /\ UNCHANGED <<memVars, fileVars, mmapCount, threadVars, region, current>>

\* remap_pfn_range fails: hpcap_mmap fails, and the count stays incremented.
RemapRangeFails(p) ==
    /\ pc[p] = "inside"
    /\ huge # None
    /\ Goto(p, "idle")
    /\ Flaw({"counted"})
    /\ UNCHANGED <<memVars, fileVars, mmapCount, threadVars, region, current>>

\* Mutant of LeaveMmap: the count is not decremented.
LeaveMmapCounted(p) ==
    /\ pc[p] = "leave"
    /\ Goto(p, "mapped")
    /\ UNCHANGED <<memVars, fileVars, mmapCount, threadVars, region, histVars>>

LeaveMmap(p) ==
    /\ pc[p] = "leave"
    /\ mmapCount' = mmapCount - 1
    /\ Goto(p, "mapped")
    /\ UNCHANGED <<memVars, fileVars, threadVars, region, histVars>>

\* Mutant of Unmap: the count of hpcap_mmap is taken for one of mappings.
UnmapDecrements(p) ==
    /\ pc[p] = "mapped"
    /\ Goto(p, "idle")
    /\ region' = [region EXCEPT ![p] = None]
    /\ current' = [current EXCEPT ![p] = FALSE]
    /\ mmapCount' = mmapCount - 1
    /\ UNCHANGED <<memVars, fileVars, threadVars, flaws>>

\* hpcap_unmap and the end of the program.
Unmap(p) ==
    /\ pc[p] = "mapped"
    /\ Goto(p, "idle")
    /\ region' = [region EXCEPT ![p] = None]
    /\ current' = [current EXCEPT ![p] = FALSE]
    /\ UNCHANGED <<memVars, fileVars, mmapCount, threadVars, flaws>>

Mmap(p) ==
    \/ EnterMmap(p) \/ SpinEnds(p) \/ MapDevice(p) \/ InsertFails(p)
    \/ RemapRangeFails(p) \/ LeaveMmap(p)

Tool(p) ==
    \/ MapHuge(p) \/ GetPages(p) \/ GetPagesFails(p) \/ Remap(p) \/ RemapFails(p)
    \/ SetPages(p)
    \/ UnmapHuge(p) \/ NothingToRelease(p) \/ PutPages(p) \/ Restore(p) \/ Clear(p)

Client(p) == BufInfo(p) \/ MapFile(p) \/ Mmap(p) \/ Unmap(p)

-----------------------------------------------------------------------------
\* The interface goes up, or down: PollThreads has how.
LinkUp ==
    /\ ~up
    /\ up' = TRUE
    /\ Flaw(FlawIf(InCall # {}, "live"))
    /\ UNCHANGED <<memVars, fileVars, mmapCount, tpc, rxbuf, rxsize, progVars, current>>

\* Mutant of LinkDown: the thread is not waited for.
LinkDownEarly ==
    /\ up
    /\ up' = FALSE
    /\ UNCHANGED <<memVars, fileVars, mmapCount, tpc, rxbuf, rxsize, progVars, histVars>>

LinkDown ==
    /\ up
    /\ tpc = "poll"
    /\ up' = FALSE
    /\ UNCHANGED <<memVars, fileVars, mmapCount, tpc, rxbuf, rxsize, progVars, histVars>>

\* hpcap_poll reads the pointer,
ReadBuffer ==
    /\ up
    /\ tpc = "poll"
    /\ rxbuf' = buf
    /\ tpc' = "rx"
    /\ UNCHANGED <<memVars, fileVars, mmapCount, up, rxsize, progVars, histVars>>

\* hpcap_rx the size,
ReadSize ==
    /\ tpc = "rx"
    /\ rxsize' = bufSize
    /\ tpc' = "write"
    /\ UNCHANGED <<memVars, fileVars, mmapCount, up, rxbuf, progVars, histVars>>

\* and frames are stored anywhere below that size.
EndRx ==
    /\ tpc = "write"
    /\ tpc' = "poll"
    /\ rxbuf' = 0 /\ rxsize' = 0
    /\ UNCHANGED <<memVars, fileVars, mmapCount, up, progVars, histVars>>

Thread == ReadBuffer \/ ReadSize \/ EndRx

Next ==
    \/ \E p \in Tools : Tool(p)
    \/ \E p \in Clients : Client(p)
    \/ LinkUp \/ LinkDown \/ Thread

Spec == Init /\ [][Next]_vars

-----------------------------------------------------------------------------
Flaws == {"overlapped", "short", "live", "twice", "unmapped", "unnamed", "kept",
          "holes", "counted", "crowded"}

\* Type correctness.
TypeOK ==
    /\ buf \in Regions
    /\ {bufSize, bufsz} \subseteq {HugeSize, KernelSize}
    /\ oldBuf \in Regions \cup {None}
    /\ huge \in Files \cup {None}
    /\ len \in [Files -> Nat]
    /\ pins \in [Files -> Int]
    /\ file \in Files \cup {None}
    /\ created \in 0..MaxFiles
    /\ mmapCount \in Nat
    /\ up \in BOOLEAN
    /\ tpc \in {"poll", "rx", "write"}
    /\ rxbuf \in Regions
    /\ rxsize \in {HugeSize, KernelSize, 0}
    /\ pc \in [Programs -> Calls \cup {"idle", "open", "enter", "spin", "inside", "leave", "mapped"}]
    /\ region \in [Programs -> Regions \cup {None}]
    /\ current \in [Clients -> BOOLEAN]
    /\ flaws \subseteq Flaws

\* However many programs map the device at a time, none is inside hpcap_mmap
\* together with another, although they only look at one counter, which those
\* that wait have incremented too.
MmapExclusive ==
    \A p, q \in Clients :
        pc[p] \in {"inside", "leave"} /\ pc[q] \in {"inside", "leave"} => p = q

\* And one that waits, when no other is inside, can go in, unless another came
\* while it waited or an earlier mapping failed: then the counter never reads
\* 1 again, and everybody spins for ever.
WaiterCanEnter ==
    InMmap # {} /\ Without({"crowded", "counted"})
        => mmapCount = 1 \/ \E p \in Clients : pc[p] \in {"inside", "leave"}

\* Between two calls the driver holds one reference to the pages of the file
\* it uses and none to any other, the buffer is in that file, or the one it
\* allocated, and the listeners know its size: unless two calls of HUGE_MAP
\* and HUGE_UNMAP overlapped, a second HUGE_MAP came over the first, or
\* vm_map_ram failed (hpcap_huge_use, hpcap_huge_release).
HugepagesAccounted ==
    InCall = {} /\ Without({"overlapped", "twice", "unmapped"}) =>
        /\ \A f \in Files : pins[f] = IF f = huge THEN 1 ELSE 0
        /\ buf = IF huge = None THEN 0 ELSE huge
        /\ bufsz = bufSize

\* The poll thread, which reads the buffer's address and then its size, never
\* writes beyond the end of its memory if the buffer is replaced with the
\* interface down, by as many pages as asked for, and not given back at
\* another size.
WritesInside ==
    tpc = "write" /\ Without({"overlapped", "twice", "live", "short", "kept"})
        => rxsize <= Length(rxbuf)

\* A client that has mapped the buffer reads the memory the poll thread
\* writes, if the buffer was not replaced since it asked for it, by whichever
\* of the two ways BUFINFO told it to map.
MappedIsBuffer ==
    \A p \in Clients :
        pc[p] = "mapped" /\ current[p] /\ Without({"overlapped", "twice", "holes", "unnamed"})
            => region[p] = buf
=============================================================================
