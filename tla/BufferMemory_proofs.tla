-------------------------- MODULE BufferMemory_proofs --------------------------
(***************************************************************************)
(* Theorems about the memory of the buffer, for any number of programs and *)
(* files: its types; the gate of hpcap_mmap, the counter mmapCount that    *)
(* lets one mapping at a time go on; and what a replacement keeps: the     *)
(* references to the hugepages, the size the thread writes with, and that  *)
(* a client has mapped what the thread writes.                             *)
(***************************************************************************)
EXTENDS BufferMemory, FiniteSetTheorems, TLAPS

\* A tool in HUGE_MAP has its file, and the release of hugepages has a buffer
\* to give back.
MemoryFits ==
    /\ \A p \in Tools : pc[p] \in {"pin", "remap", "setPages"} => region[p] \in Files
    /\ huge # None => oldBuf # None
    /\ \A p \in Tools : pc[p] \in {"setPages", "restore"} => oldBuf # None

\* Where a program is.
Labels == Calls \cup {"idle", "open", "enter", "spin", "inside", "leave", "mapped"}

\* The counter of hpcap_mmap against the programs it is about.
GateCounts ==
    /\ mmapCount >= Cardinality(InMmap)
    /\ "counted" \notin flaws => mmapCount = Cardinality(InMmap)
    /\ "crowded" \notin flaws =>
           \A p, q \in Clients : pc[p] = "spin" /\ pc[q] = "spin" => p = q

-----------------------------------------------------------------------------
\* The programs in hpcap_mmap are finitely many.
LEMMA InMmapFinite == IsFiniteSet(InMmap) /\ Cardinality(InMmap) \in Nat
<1>1. InMmap \subseteq Clients /\ IsFiniteSet(Clients)
  BY MemoryAssumption DEF InMmap
<1> QED BY <1>1, FS_Subset, FS_CardinalityType

\* One comes in, one goes out, or they are the same ones.
LEMMA OneEnters ==
  ASSUME NEW p \in Clients, pc[p] = "enter", NEW l \in {"inside", "spin"}, Goto(p, l),
         pc \in [Programs -> Labels]
  PROVE  Cardinality(InMmap') = Cardinality(InMmap) + 1
<1>1. InMmap' = InMmap \cup {p} /\ p \notin InMmap
  BY DEF InMmap, Goto, Programs
<1> QED BY <1>1, InMmapFinite, FS_AddElement

LEMMA OneLeaves ==
  ASSUME NEW p \in Clients, p \in InMmap, NEW l \in {"idle", "mapped"}, Goto(p, l),
         pc \in [Programs -> Labels]
  PROVE  Cardinality(InMmap') = Cardinality(InMmap) - 1
<1>1. InMmap' = InMmap \ {p}
  BY DEF InMmap, Goto, Programs
<1> QED BY <1>1, InMmapFinite, FS_RemoveElement

LEMMA NoneMoves ==
  ASSUME \A q \in Clients : pc'[q] \in {"spin", "inside", "leave"}
                            <=> pc[q] \in {"spin", "inside", "leave"}
  PROVE  InMmap' = InMmap
BY DEF InMmap

\* A counter of 0 means nobody is in hpcap_mmap, one of 1 nobody else.
LEMMA GateAlone ==
  ASSUME GateCounts, mmapCount \in Nat
  PROVE  /\ mmapCount = 0 => InMmap = {}
         /\ mmapCount = 1 => \A p, q \in InMmap : p = q
<1>1. CASE mmapCount = 0
  BY <1>1, InMmapFinite, FS_EmptySet DEF GateCounts
<1>2. CASE mmapCount = 1
  <2> SUFFICES ASSUME NEW p \in InMmap, NEW q \in InMmap, p # q PROVE FALSE
    BY <1>2
  <2>1. {p, q} \subseteq InMmap
    OBVIOUS
  <2>2. Cardinality({p}) = 1 /\ IsFiniteSet({p})
    BY FS_Singleton
  <2>3. Cardinality({p} \cup {q}) = 2
    BY <2>2, FS_AddElement
  <2>4. {p} \cup {q} = {p, q}
    OBVIOUS
  <2> QED BY <2>1, <2>3, <2>4, <1>2, InMmapFinite, FS_Subset DEF GateCounts
<1> QED BY <1>1, <1>2

-----------------------------------------------------------------------------
\* The types, with what Remap, SetPages and Restore rely on.
LEMMA MemoryInit == Init => TypeOK /\ MemoryFits /\ GateCounts /\ MmapExclusive
<1> SUFFICES ASSUME Init PROVE TypeOK /\ MemoryFits /\ GateCounts /\ MmapExclusive
  OBVIOUS
<1>1. InMmap = {}
  BY DEF Init, InMmap, Programs
<1>2. Cardinality(InMmap) = 0
  BY <1>1, FS_EmptySet
<1>3. TypeOK
  <2>1. 0 \in Regions /\ 0 \in 0 .. MaxFiles
    BY MemoryAssumption DEF Regions
  <2>2. /\ len \in [Files -> Nat] /\ pins \in [Files -> Int]
        /\ region \in [Programs -> Regions \cup {None}] /\ current \in [Clients -> BOOLEAN]
        /\ pc \in [Programs -> {"idle"}]
    BY DEF Init
  <2>3. /\ buf \in Regions /\ {bufSize, bufsz} \subseteq {HugeSize, KernelSize}
        /\ oldBuf \in Regions \cup {None} /\ huge \in Files \cup {None}
        /\ file \in Files \cup {None} /\ created \in 0 .. MaxFiles /\ mmapCount \in Nat
        /\ up \in BOOLEAN /\ tpc \in {"poll", "rx", "write"} /\ rxbuf \in Regions
        /\ rxsize \in {HugeSize, KernelSize, 0} /\ flaws \subseteq Flaws
    BY <2>1 DEF Init
  <2>4. pc \in [Programs -> Calls \cup {"idle", "open", "enter", "spin", "inside", "leave", "mapped"}]
    BY <2>2
  <2> QED BY <2>2, <2>3, <2>4 DEF TypeOK
<1>4. MemoryFits /\ MmapExclusive
  BY DEF Init, MemoryFits, MmapExclusive, Programs
<1>5. GateCounts
  BY <1>2 DEF Init, GateCounts, Programs
<1> QED BY <1>3, <1>4, <1>5

\* What was a flaw of the list stays in it.
LEMMA FlawsListed ==
  ASSUME TypeOK, NEW S, S \subseteq Flaws, Flaw(S) PROVE flaws' \subseteq Flaws
BY DEF TypeOK, Flaw

LEMMA MemoryStep ==
  TypeOK /\ MemoryFits /\ GateCounts /\ [Next]_vars => TypeOK' /\ MemoryFits'
<1> SUFFICES ASSUME TypeOK, MemoryFits, GateCounts, [Next]_vars
             PROVE  TypeOK' /\ MemoryFits'
  OBVIOUS
<1> USE DEF TypeOK, driverVars, pageVars, memVars, fileVars, threadVars, progVars, histVars
<1>0. /\ Files \subseteq Regions /\ None \notin Files /\ None \notin Regions
      /\ 0 \in Regions /\ MaxFiles \in Nat /\ Files = 1 .. MaxFiles
      /\ KernelSize \in Nat /\ HugeSize \in Nat /\ Tools \subseteq Programs /\ Clients \subseteq Programs
      /\ \A p \in Clients : p \notin Tools
  BY MemoryAssumption DEF Files, Regions, Programs
<1>1. ASSUME NEW p \in Tools, Tool(p) PROVE TypeOK' /\ MemoryFits'
  <2>1. CASE MapHuge(p)
    <3>1. PICK f \in Files : OpenFile(f) /\ region' = [region EXCEPT ![p] = f]
      BY <2>1 DEF MapHuge
    <3>2. file' \in Files \cup {None} /\ created' \in 0 .. MaxFiles
      BY <3>1, <1>0 DEF OpenFile
    <3>3. flaws' \subseteq Flaws
      BY <2>1, FlawsListed DEF MapHuge, FlawIf, Flaws
    <3> QED BY <2>1, <3>1, <3>2, <3>3, <1>0 DEF MapHuge, Goto, MemoryFits, Calls
  <2>2. CASE GetPages(p)
    <3>1. region[p] \in Files /\ pins' = [pins EXCEPT ![region[p]] = pins[region[p]] + 1]
      BY <2>2 DEF GetPages, MemoryFits
    <3>2. pins' \in [Files -> Int]
      BY <3>1
    <3> QED BY <2>2, <3>2, <1>0 DEF GetPages, Goto, MemoryFits, Calls
  <2>3. CASE GetPagesFails(p)
    <3>1. flaws' \subseteq Flaws
      BY <2>3, FlawsListed DEF GetPagesFails, FlawIf, Flaws
    <3> QED BY <2>3, <3>1, <1>0 DEF GetPagesFails, Goto, MemoryFits, Calls
  <2>4. CASE Remap(p)
    <3>1. PICK n \in 1 .. HugeSize :
             /\ len' = [len EXCEPT ![region[p]] = n]
             /\ Flaw(FlawIf(n < HugeSize, "short") \cup FlawIf(up, "live")
                       \cup FlawIf(huge # None, "twice"))
      BY <2>4 DEF Remap
    <3>2. flaws' \subseteq Flaws
      BY <3>1, FlawsListed DEF FlawIf, Flaws
    <3>0. region[p] \in Files
      BY <2>4 DEF Remap, MemoryFits
    <3>3. len' \in [Files -> Nat]
      BY <3>0, <3>1, <1>0
    <3>4. /\ oldBuf' = buf /\ buf' = region[p] /\ pc' = [pc EXCEPT ![p] = "setPages"]
          /\ current' = [q \in Clients |-> FALSE]
          /\ UNCHANGED <<bufSize, huge, bufsz, pins, file, created, mmapCount,
                         up, tpc, rxbuf, rxsize, region>>
      BY <2>4 DEF Remap, Goto
    <3>5. current' \in [Clients -> BOOLEAN]
      BY <3>4
    <3>6. TypeOK'
      BY <3>0, <3>2, <3>3, <3>4, <3>5, <1>0 DEF Calls
    <3>7. MemoryFits'
      BY <3>0, <3>4, <1>0 DEF MemoryFits
    <3> QED BY <3>6, <3>7
  <2>5. CASE RemapFails(p)
    <3>1. flaws' \subseteq Flaws
      BY <2>5, FlawsListed DEF RemapFails, Flaws
    <3> QED BY <2>5, <3>1, <1>0 DEF RemapFails, Goto, MemoryFits, Calls
  <2>6. CASE SetPages(p)
    BY <2>6, <1>0 DEF SetPages, Goto, MemoryFits, Calls
  <2>7. CASE UnmapHuge(p)
    <3>1. flaws' \subseteq Flaws
      BY <2>7, FlawsListed DEF UnmapHuge, FlawIf, Flaws
    <3>2. current' \in [Clients -> BOOLEAN]
      BY <2>7 DEF UnmapHuge
    <3> QED BY <2>7, <3>1, <3>2, <1>0 DEF UnmapHuge, Goto, MemoryFits, Calls
  <2>8. CASE NothingToRelease(p)
    BY <2>8, <1>0 DEF NothingToRelease, Goto, MemoryFits, Calls
  <2>9. CASE PutPages(p)
    <3>1. huge \in Files /\ pins' = [pins EXCEPT ![huge] = pins[huge] - 1]
      BY <2>9 DEF PutPages
    <3>2. pins' \in [Files -> Int]
      BY <3>1
    <3> QED BY <2>9, <3>2, <1>0 DEF PutPages, Goto, MemoryFits, Calls
  <2>10. CASE Restore(p)
    <3>1. flaws' \subseteq Flaws
      BY <2>10, FlawsListed DEF Restore, FlawIf, Flaws
    <3> QED BY <2>10, <3>1, <1>0 DEF Restore, Goto, MemoryFits, Calls
  <2>11. CASE Clear(p)
    BY <2>11, <1>0 DEF Clear, Goto, MemoryFits, Calls
  <2> QED BY <1>1, <2>1, <2>2, <2>3, <2>4, <2>5, <2>6, <2>7, <2>8, <2>9, <2>10, <2>11 DEF Tool
<1>2. ASSUME NEW p \in Clients, Client(p) PROVE TypeOK' /\ MemoryFits'
  <2>1. CASE BufInfo(p)
    <3>1. current' \in [Clients -> BOOLEAN]
      BY <2>1 DEF BufInfo
    <3> QED BY <2>1, <3>1, <1>0 DEF BufInfo, Goto, MemoryFits, Calls
  <2>2. CASE MapFile(p)
    <3>1. PICK f \in Files : OpenFile(f) /\ region' = [region EXCEPT ![p] = f]
      BY <2>2 DEF MapFile
    <3>2. file' \in Files \cup {None} /\ created' \in 0 .. MaxFiles
      BY <3>1, <1>0 DEF OpenFile
    <3> QED BY <2>2, <3>1, <3>2, <1>0 DEF MapFile, Goto, MemoryFits, Calls
  <2>3. CASE EnterMmap(p)
    <3>1. flaws' \subseteq Flaws
      BY <2>3, FlawsListed DEF EnterMmap, FlawIf, Flaws
    <3> QED BY <2>3, <3>1, <1>0 DEF EnterMmap, Goto, MemoryFits, Calls
  <2>4. CASE SpinEnds(p)
    BY <2>4, <1>0 DEF SpinEnds, Goto, MemoryFits, Calls
  <2>5. CASE MapDevice(p)
    BY <2>5, <1>0 DEF MapDevice, Goto, MemoryFits, Calls
  <2>6. CASE InsertFails(p)
    <3>1. flaws' \subseteq Flaws
      BY <2>6, FlawsListed DEF InsertFails, Flaws
    <3> QED BY <2>6, <3>1, <1>0 DEF InsertFails, Goto, MemoryFits, Calls
  <2>7. CASE RemapRangeFails(p)
    <3>1. flaws' \subseteq Flaws
      BY <2>7, FlawsListed DEF RemapRangeFails, Flaws
    <3> QED BY <2>7, <3>1, <1>0 DEF RemapRangeFails, Goto, MemoryFits, Calls
  <2>8. CASE LeaveMmap(p)
    <3>1. p \in InMmap
      BY <2>8 DEF LeaveMmap, InMmap
    <3>2. mmapCount # 0
      BY <3>1, GateAlone
    <3>3. mmapCount' \in Nat
      BY <2>8, <3>2 DEF LeaveMmap
    <3> QED BY <2>8, <3>3, <1>0 DEF LeaveMmap, Goto, MemoryFits, Calls
  <2>9. CASE Unmap(p)
    BY <2>9, <1>0 DEF Unmap, Goto, MemoryFits, Calls
  <2> QED BY <1>2, <2>1, <2>2, <2>3, <2>4, <2>5, <2>6, <2>7, <2>8, <2>9 DEF Client, Mmap
<1>3. CASE LinkUp
  <2>1. flaws' \subseteq Flaws
    BY <1>3, FlawsListed DEF LinkUp, FlawIf, Flaws
  <2> QED BY <1>3, <2>1 DEF LinkUp, MemoryFits
<1>4. CASE LinkDown
  BY <1>4 DEF LinkDown, MemoryFits
<1>5. CASE Thread
  BY <1>5, <1>0 DEF Thread, ReadBuffer, ReadSize, EndRx, MemoryFits
<1>6. CASE UNCHANGED vars
  BY <1>6 DEF vars, MemoryFits
<1> QED BY <1>1, <1>2, <1>3, <1>4, <1>5, <1>6 DEF Next

-----------------------------------------------------------------------------
\* The gate: what a program that comes or goes does to the counter.
LEMMA GateStep ==
  /\ TypeOK /\ GateCounts /\ MmapExclusive
  /\ [Next]_vars
  => GateCounts' /\ MmapExclusive'
<1> SUFFICES ASSUME TypeOK, GateCounts, MmapExclusive, [Next]_vars
             PROVE  GateCounts' /\ MmapExclusive'
  OBVIOUS
<1>0. /\ mmapCount \in Nat /\ Tools \subseteq Programs /\ Clients \subseteq Programs
      /\ \A p \in Clients : p \notin Tools
      /\ pc \in [Programs -> Labels]
  <2>1. pc \in [Programs -> Labels]
    BY DEF TypeOK, Labels
  <2>2. mmapCount \in Nat
    BY DEF TypeOK
  <2>3. \A p \in Clients : p \notin Tools
    BY MemoryAssumption
  <2> QED BY <2>1, <2>2, <2>3 DEF Programs
<1>1. Cardinality(InMmap) \in Nat
  BY InMmapFinite
<1>2. flaws \subseteq flaws'
  BY DEF Next, Tool, MapHuge, GetPages, GetPagesFails, Remap, RemapFails, SetPages,
         UnmapHuge, NothingToRelease, PutPages, Restore, Clear,
         Client, BufInfo, MapFile, Mmap, EnterMmap, SpinEnds, MapDevice, InsertFails,
         RemapRangeFails, LeaveMmap, Unmap, LinkUp, LinkDown, Thread, ReadBuffer,
         ReadSize, EndRx, vars, histVars, Flaw
<1>3. ASSUME mmapCount' = mmapCount, InMmap' = InMmap,
             \A p \in Clients : pc'[p] \in {"spin", "inside", "leave"} =>
                 pc'[p] = pc[p] \/ (pc[p] = "inside" /\ pc'[p] = "leave")
      PROVE  GateCounts' /\ MmapExclusive'
  BY <1>2, <1>3 DEF GateCounts, MmapExclusive
<1>4. ASSUME mmapCount' = mmapCount, pc' = pc PROVE GateCounts' /\ MmapExclusive'
  BY <1>3, <1>4 DEF InMmap
<1>5. ASSUME NEW p \in Tools, Tool(p) PROVE GateCounts' /\ MmapExclusive'
  <2>1. mmapCount' = mmapCount
    BY <1>5 DEF Tool, MapHuge, GetPages, GetPagesFails, Remap, RemapFails, SetPages,
                UnmapHuge, NothingToRelease, PutPages, Restore, Clear
  <2>4. \A q \in Clients : pc'[q] = pc[q]
    BY <1>0, <1>5 DEF Tool, MapHuge, GetPages, GetPagesFails, Remap, RemapFails, SetPages,
                UnmapHuge, NothingToRelease, PutPages, Restore, Clear, Goto
  <2> QED BY <2>1, <2>4, <1>3, NoneMoves
<1>6. ASSUME NEW p \in Clients, Client(p) PROVE GateCounts' /\ MmapExclusive'
  <2>1. ASSUME NEW l \in {"idle", "open", "enter", "mapped"}, Goto(p, l), p \notin InMmap,
               mmapCount' = mmapCount
        PROVE  GateCounts' /\ MmapExclusive'
    <3>1. /\ pc'[p] \notin {"spin", "inside", "leave"}
          /\ pc[p] \notin {"spin", "inside", "leave"}
      BY <2>1, <1>0 DEF Goto, InMmap
    <3>2. \A q \in Clients : q # p => pc'[q] = pc[q]
      BY <2>1, <1>0 DEF Goto
    <3>3. InMmap' = InMmap
      BY <3>1, <3>2, NoneMoves
    <3> QED BY <2>1, <3>1, <3>2, <3>3, <1>3
  <2>2. CASE BufInfo(p) \/ MapFile(p) \/ Unmap(p)
    BY <2>1, <2>2 DEF BufInfo, MapFile, Unmap, InMmap
  <2>3. CASE MapDevice(p) \/ InsertFails(p)
    <3>1. Goto(p, "leave") /\ pc[p] = "inside" /\ p \in InMmap /\ mmapCount' = mmapCount
      BY <2>3 DEF MapDevice, InsertFails, InMmap
    <3>3. \A q \in Clients : pc'[q] = pc[q] \/ (q = p /\ pc'[q] = "leave")
      BY <3>1, <1>0 DEF Goto
    <3>2. InMmap' = InMmap
      BY <3>1, <3>3, NoneMoves
    <3> QED BY <3>1, <3>2, <3>3, <1>3
  <2>4. CASE EnterMmap(p)
    <3>1. /\ pc[p] = "enter" /\ mmapCount' = mmapCount + 1
          /\ Goto(p, IF mmapCount' = 1 THEN "inside" ELSE "spin")
          /\ (\E q \in Clients : pc[q] = "spin") => "crowded" \in flaws'
      BY <2>4 DEF EnterMmap, Flaw, FlawIf
    <3>2. Cardinality(InMmap') = Cardinality(InMmap) + 1
      BY <3>1, <1>0, OneEnters
    <3>3. \A q \in Clients : q # p => pc'[q] = pc[q]
      BY <3>1, <1>0 DEF Goto
    <3>4. pc'[p] = IF mmapCount' = 1 THEN "inside" ELSE "spin"
      BY <3>1, <1>0 DEF Goto
    <3>5. mmapCount' = 1 => \A q \in Clients : pc[q] \notin {"inside", "leave"}
      BY <3>1, <1>0, GateAlone DEF InMmap
    <3>6. MmapExclusive'
      BY <3>3, <3>4, <3>5 DEF MmapExclusive
    <3>7. GateCounts'
      <4>1. "crowded" \notin flaws' =>
               \A q, r \in Clients : pc'[q] = "spin" /\ pc'[r] = "spin" => q = r
        BY <3>1, <3>3
      <4>2. /\ mmapCount' >= Cardinality(InMmap')
            /\ "counted" \notin flaws' => mmapCount' = Cardinality(InMmap')
        BY <3>1, <3>2, <1>0, <1>1, <1>2 DEF GateCounts
      <4> QED BY <4>1, <4>2 DEF GateCounts
    <3> QED BY <3>6, <3>7
  <2>5. CASE SpinEnds(p)
    <3>1. pc[p] = "spin" /\ mmapCount = 1 /\ mmapCount' = 1 /\ Goto(p, "inside") /\ p \in InMmap
      BY <2>5 DEF SpinEnds, InMmap
    <3>0. \A q \in Clients : pc'[q] = pc[q] \/ (q = p /\ pc'[q] = "inside")
      BY <3>1, <1>0 DEF Goto
    <3>2. InMmap' = InMmap
      BY <3>0, <3>1, NoneMoves
    <3>3. \A q \in InMmap : q = p
      BY <3>1, <1>0, GateAlone
    <3>4. \A q \in Clients : pc'[q] \in {"spin", "inside", "leave"} => q = p
      BY <3>2, <3>3 DEF InMmap
    <3>5. /\ mmapCount' >= Cardinality(InMmap')
          /\ "counted" \notin flaws' => mmapCount' = Cardinality(InMmap')
      BY <3>1, <3>2, <1>2 DEF GateCounts
    <3> QED BY <3>4, <3>5 DEF GateCounts, MmapExclusive
  <2>6. CASE RemapRangeFails(p) \/ LeaveMmap(p)
    <3>1. /\ p \in InMmap
          /\ \/ Goto(p, "idle") /\ mmapCount' = mmapCount /\ "counted" \in flaws'
             \/ Goto(p, "mapped") /\ mmapCount' = mmapCount - 1
      BY <2>6 DEF RemapRangeFails, LeaveMmap, InMmap, Flaw
    <3>2. Cardinality(InMmap') = Cardinality(InMmap) - 1
      BY <3>1, <1>0, OneLeaves
    <3>3. \A q \in Clients : pc'[q] \in {"spin", "inside", "leave"} => pc'[q] = pc[q]
      BY <3>1, <1>0 DEF Goto
    <3>4. /\ mmapCount' >= Cardinality(InMmap')
          /\ "counted" \notin flaws' => mmapCount' = Cardinality(InMmap')
      BY <3>1, <3>2, <1>0, <1>1, <1>2 DEF GateCounts
    <3> QED BY <3>3, <3>4, <1>2 DEF GateCounts, MmapExclusive
  <2> QED BY <1>6, <2>2, <2>3, <2>4, <2>5, <2>6 DEF Client, Mmap
<1>7. CASE LinkUp \/ LinkDown \/ Thread \/ UNCHANGED vars
  BY <1>7, <1>4 DEF LinkUp, LinkDown, Thread, ReadBuffer, ReadSize, EndRx, vars, progVars
<1> QED BY <1>5, <1>6, <1>7 DEF Next

-----------------------------------------------------------------------------
(* The replacement of the buffer.                                          *)

\* Calls of HUGE_MAP and HUGE_UNMAP come one at a time, unless they overlapped.
OneCaller ==
    "overlapped" \notin flaws =>
        \A p, q \in Tools : pc[p] \in Calls /\ pc[q] \in Calls => p = q

\* A reference to f if the condition holds.
One(condition) == IF condition THEN 1 ELSE 0

\* The driver uses hugepages, or the buffer it allocated.
BufferAtRest ==
    /\ buf = IF huge = None THEN 0 ELSE huge
    /\ huge # None => oldBuf = 0

AtRest == BufferAtRest /\ \A f \in Files : pins[f] = One(f = huge)

\* What a call has done to the buffer and the references when it is at l, with
\* the file r; nothing yet, or everything, at the other places.
CallAt(l, r) ==
    /\ l \notin {"remap", "setPages", "restore", "clear"} => AtRest
    /\ l = "remap" =>
         BufferAtRest /\ \A f \in Files : pins[f] = One(f = huge) + One(f = r)
    /\ l = "setPages" =>
         /\ huge = None /\ oldBuf = 0 /\ buf = r
         /\ \A f \in Files : pins[f] = One(f = r)
    /\ l = "restore" =>
         huge # None /\ buf = huge /\ oldBuf = 0 /\ \A f \in Files : pins[f] = 0
    /\ l = "clear" => buf = 0 /\ \A f \in Files : pins[f] = 0

Accounts ==
    /\ bufsz = bufSize
    /\ Without({"overlapped", "twice", "unmapped"}) =>
         /\ InCall = {} => AtRest
         /\ \A p \in InCall : CallAt(pc[p], region[p])

\* The size the thread reads is the one of the buffer it uses.
SizeKnown ==
    /\ tpc # "poll" => rxbuf = buf
    /\ tpc = "write" => rxsize = bufSize
    /\ up => \A p \in Tools : pc[p] \notin {"setPages", "clear"}
    /\ \A p \in Tools : pc[p] = "setPages" => Length(buf) = HugeSize
    /\ (\A p \in Tools : pc[p] # "setPages") => bufSize = Length(buf)

Sizes ==
    /\ tpc # "poll" => up
    /\ Without({"overlapped", "twice", "live", "short", "kept"}) => SizeKnown

NoneIn(labels) == \A p \in Tools : pc[p] \notin labels
NoneCurrent == \A q \in Clients : ~current[q]

\* The name, the hugepages and the buffer are one file, and a client that asked
\* since the last replacement has been told of the way to it.
ToolNames(p) ==
    /\ pc[p] \in {"pin", "remap", "setPages"} => file = region[p]
    /\ pc[p] = "setPages" => huge = None /\ buf = region[p]
    /\ pc[p] \in {"restore", "clear"} => huge # None
    /\ pc[p] \in {"setPages", "clear"} => NoneCurrent
    /\ pc[p] \in {"put", "restore", "clear"} => huge = None \/ NoneCurrent

ClientNames(q) ==
    current[q] =>
        /\ pc[q] = "open" => huge # None
        /\ pc[q] \in {"leave", "mapped"} => region[q] = buf

NamesFit ==
    /\ \A p \in Tools : ToolNames(p)
    /\ huge # None /\ NoneIn({"clear"}) => buf = huge
    /\ huge # None /\ NoneIn({"put", "restore", "clear"}) => file = huge
    /\ \A q \in Clients : ClientNames(q)

Mappings == Without({"overlapped", "twice", "holes", "unnamed"}) => NamesFit

-----------------------------------------------------------------------------
\* A flaw that has happened is remembered.
LEMMA FlawsGrow ==
  ASSUME [Next]_vars PROVE flaws \subseteq flaws' /\ \A S : Without(S)' => Without(S)
<1>1. flaws \subseteq flaws'
  BY DEF Next, Tool, MapHuge, GetPages, GetPagesFails, Remap, RemapFails, SetPages,
         UnmapHuge, NothingToRelease, PutPages, Restore, Clear,
         Client, BufInfo, MapFile, Mmap, EnterMmap, SpinEnds, MapDevice, InsertFails,
         RemapRangeFails, LeaveMmap, Unmap, LinkUp, LinkDown, Thread, ReadBuffer,
         ReadSize, EndRx, vars, histVars, Flaw
<1> QED BY <1>1 DEF Without

\* What a step of one tool leaves alone, and how a call begins.
LEMMA ToolMoves ==
  ASSUME TypeOK, NEW p \in Tools, Tool(p)
  PROVE  /\ \A q \in Programs : q # p => pc'[q] = pc[q] /\ region'[q] = region[q]
         /\ pc'[p] \in Calls /\ pc[p] \notin Calls =>
                InCall = {} \/ "overlapped" \in flaws'
         /\ UNCHANGED <<mmapCount, threadVars>>
<1>0. /\ pc \in [Programs -> Labels] /\ p \in Programs
      /\ region \in [Programs -> Regions \cup {None}]
  BY DEF TypeOK, Labels, Programs
<1>1. /\ \A q \in Programs : q # p => pc'[q] = pc[q] /\ region'[q] = region[q]
      /\ UNCHANGED <<mmapCount, threadVars>>
  BY <1>0 DEF Tool, MapHuge, GetPages, GetPagesFails, Remap, RemapFails, SetPages,
              UnmapHuge, NothingToRelease, PutPages, Restore, Clear, Goto
<1>2. CASE MapHuge(p) \/ UnmapHuge(p)
  BY <1>1, <1>2 DEF MapHuge, UnmapHuge, Flaw, FlawIf
<1>3. CASE ~(MapHuge(p) \/ UnmapHuge(p))
  BY <1>1, <1>3 DEF Tool, GetPages, GetPagesFails, Remap, RemapFails, SetPages,
              NothingToRelease, PutPages, Restore, Clear, Calls
<1> QED BY <1>1, <1>2, <1>3

\* The other steps are none of a tool, and leave the memory alone.
LEMMA OthersMove ==
  ASSUME TypeOK, [Next]_vars, \A p \in Tools : ~Tool(p)
  PROVE  /\ \A q \in Tools : pc'[q] = pc[q] /\ region'[q] = region[q]
         /\ InCall' = InCall /\ UNCHANGED memVars
<1>0. /\ pc \in [Programs -> Labels] /\ Tools \subseteq Programs
      /\ region \in [Programs -> Regions \cup {None}]
  BY DEF TypeOK, Labels, Programs
<1>1. ASSUME NEW p \in Clients, Client(p)
      PROVE  /\ \A q \in Tools : pc'[q] = pc[q] /\ region'[q] = region[q]
             /\ UNCHANGED memVars
  <2>1. p \notin Tools /\ p \in Programs
    BY MemoryAssumption DEF Programs
  <2> QED BY <1>0, <1>1, <2>1 DEF Client, BufInfo, MapFile, Mmap, EnterMmap, SpinEnds,
               MapDevice, InsertFails, RemapRangeFails, LeaveMmap, Unmap, Goto
<1>2. ASSUME LinkUp \/ LinkDown \/ Thread \/ UNCHANGED vars
      PROVE  /\ \A q \in Tools : pc'[q] = pc[q] /\ region'[q] = region[q]
             /\ UNCHANGED memVars
  <2>1. UNCHANGED progVars /\ UNCHANGED memVars
    BY <1>2 DEF LinkUp, LinkDown, Thread, ReadBuffer, ReadSize, EndRx, vars
  <2>2. pc' = pc /\ region' = region
    BY <2>1 DEF progVars
  <2>3. \A q \in Tools : pc'[q] = pc[q] /\ region'[q] = region[q]
    BY <2>2
  <2> QED BY <2>1, <2>3
<1>3. /\ \A q \in Tools : pc'[q] = pc[q] /\ region'[q] = region[q]
      /\ UNCHANGED memVars
  BY <1>1, <1>2 DEF Next
<1> QED BY <1>3 DEF InCall

\* One call at a time, unless one began over another.
LEMMA CallerStep == TypeOK /\ OneCaller /\ [Next]_vars => OneCaller'
<1> SUFFICES ASSUME TypeOK, OneCaller, [Next]_vars, "overlapped" \notin flaws'
             PROVE  \A p, q \in Tools : pc'[p] \in Calls /\ pc'[q] \in Calls => p = q
  BY DEF OneCaller
<1>1. "overlapped" \notin flaws
  BY FlawsGrow
<1>2. ASSUME NEW t \in Tools, Tool(t)
      PROVE  \A p, q \in Tools : pc'[p] \in Calls /\ pc'[q] \in Calls => p = q
  <2>1. \A q \in Tools : q # t => pc'[q] = pc[q]
    BY <1>2, ToolMoves DEF Programs
  <2>2. pc'[t] \in Calls /\ pc[t] \notin Calls => InCall = {}
    BY <1>2, ToolMoves
  <2> QED BY <1>1, <2>1, <2>2 DEF OneCaller, InCall
<1>3. CASE \A t \in Tools : ~Tool(t)
  BY <1>1, <1>3, OthersMove DEF OneCaller
<1> QED BY <1>2, <1>3

\* With one call at a time, what is said of all tools is said of the one.
LEMMA CallAlone ==
  ASSUME TypeOK, OneCaller, [Next]_vars, NEW p \in Tools, Tool(p), "overlapped" \notin flaws'
  PROVE  \A q \in Tools : q # p => pc'[q] = pc[q] /\ pc[q] \notin Calls
<1>1. "overlapped" \notin flaws
  BY FlawsGrow
<1>2. \A q \in Tools : q # p => pc'[q] = pc[q]
  BY ToolMoves DEF Programs
<1>3. pc[p] \in Calls \/ InCall = {}
  <2>1. CASE pc[p] \notin Calls
    <3>1. pc'[p] \in Calls
      <4>1. pc[p] = "idle" /\ (MapHuge(p) \/ UnmapHuge(p))
        BY <2>1 DEF Tool, MapHuge, GetPages, GetPagesFails, Remap, RemapFails, SetPages,
                    UnmapHuge, NothingToRelease, PutPages, Restore, Clear, Calls
      <4>2. pc \in [Programs -> Labels] /\ p \in Programs
        BY DEF TypeOK, Labels, Programs
      <4> QED BY <4>1, <4>2 DEF MapHuge, UnmapHuge, Goto, Calls
    <3> QED BY <2>1, <3>1, ToolMoves
  <2> QED BY <2>1
<1> QED BY <1>1, <1>2, <1>3 DEF OneCaller, InCall

\* Nothing replaced yet.
LEMMA ReplaceInit == Init => OneCaller /\ Accounts /\ Sizes /\ Mappings
<1> SUFFICES ASSUME Init PROVE OneCaller /\ Accounts /\ Sizes /\ Mappings
  OBVIOUS
<1>1. InCall = {} /\ \A p \in Tools : pc[p] = "idle"
  BY DEF Init, InCall, Calls, Programs
<1>2. None \notin Files
  BY MemoryAssumption DEF Files
<1>3. AtRest /\ bufsz = bufSize
  BY <1>2 DEF Init, AtRest, BufferAtRest, One
<1>4. Sizes
  BY <1>1 DEF Init, Sizes, SizeKnown, Length
<1>5. Mappings
  BY <1>1 DEF Init, Mappings, NamesFit, ToolNames, ClientNames
<1> QED BY <1>1, <1>3, <1>4, <1>5 DEF OneCaller, Accounts, Calls

\* The references and the buffer, call by call: what the acting tool knew, and
\* what it leaves.
LEMMA AccountsStep ==
  TypeOK /\ MemoryFits /\ OneCaller /\ Accounts /\ [Next]_vars => Accounts'
<1> SUFFICES ASSUME TypeOK, MemoryFits, OneCaller, Accounts, [Next]_vars PROVE Accounts'
  OBVIOUS
<1> DEFINE Clean == Without({"overlapped", "twice", "unmapped"})
<1>0. /\ pc \in [Programs -> Labels] /\ Tools \subseteq Programs
      /\ region \in [Programs -> Regions \cup {None}]
      /\ pins \in [Files -> Int] /\ None \notin Files /\ 0 \notin Files
      /\ huge \in Files \cup {None}
  BY MemoryAssumption DEF TypeOK, Labels, Programs, Files
<1>1. CASE \A p \in Tools : ~Tool(p)
  <2>1. /\ \A q \in Tools : pc'[q] = pc[q] /\ region'[q] = region[q]
        /\ InCall' = InCall /\ InCall \subseteq Tools
        /\ UNCHANGED <<buf, bufSize, oldBuf, huge, bufsz, pins>>
    BY <1>1, OthersMove DEF InCall, memVars, driverVars, pageVars
  <2>2. Clean' => Clean
    BY FlawsGrow
  <2> QED BY <2>1, <2>2 DEF Accounts, CallAt, AtRest, BufferAtRest
<1>2. ASSUME NEW p \in Tools, Tool(p) PROVE Accounts'
  <2>1. bufsz' = bufSize'
    BY <1>2 DEF Accounts, Tool, MapHuge, GetPages, GetPagesFails, Remap, RemapFails, SetPages,
                UnmapHuge, NothingToRelease, PutPages, Restore, Clear, memVars, driverVars
  <2> SUFFICES ASSUME Clean'
               PROVE  /\ InCall' = {} => AtRest'
                      /\ \A q \in InCall' : CallAt(pc[q], region[q])'
    BY <2>1 DEF Accounts
  <2>2. Clean
    BY FlawsGrow
  <2>3. "overlapped" \notin flaws'
    BY DEF Without
  <2>4. \A q \in Tools : q # p => pc'[q] = pc[q] /\ pc[q] \notin Calls
    BY <1>2, <2>3, CallAlone
  <2>5. CallAt(pc[p], region[p])
    <3>1. CASE p \in InCall
      BY <2>2, <3>1 DEF Accounts
    <3>2. CASE p \notin InCall
      <4>1. InCall = {} /\ pc[p] \notin Calls
        BY <2>4, <3>2 DEF InCall
      <4> QED BY <2>2, <4>1 DEF Accounts, CallAt, Calls
    <3> QED BY <3>1, <3>2
  <2>6. SUFFICES CallAt(pc[p], region[p])'
    <3>1. InCall' = {} => AtRest'
      BY <2>6 DEF CallAt, InCall, Calls
    <3>2. \A q \in InCall' : q = p
      BY <2>4 DEF InCall
    <3> QED BY <2>6, <3>1, <3>2
  <2>7. /\ p \in Programs /\ pc[p] \in Labels /\ pc' = [pc EXCEPT ![p] = pc'[p]]
        /\ pc'[p] \in Labels
    BY <1>0, <1>2 DEF Tool, MapHuge, GetPages, GetPagesFails, Remap, RemapFails, SetPages,
                UnmapHuge, NothingToRelease, PutPages, Restore, Clear, Goto, Labels, Calls
  <2> USE DEF CallAt, AtRest, BufferAtRest, One
  <2>8. CASE MapHuge(p) \/ UnmapHuge(p) \/ GetPagesFails(p) \/ NothingToRelease(p)
    <3>1. /\ pc[p] \in {"idle", "pin", "put"} /\ pc'[p] \in {"idle", "pin", "put"}
          /\ UNCHANGED <<buf, oldBuf, huge, pins>>
      BY <1>0, <2>7, <2>8 DEF MapHuge, UnmapHuge, GetPagesFails, NothingToRelease, Goto,
                              memVars, driverVars, pageVars
    <3> QED BY <2>5, <3>1
  <2>9. CASE GetPages(p)
    <3>1. /\ pc[p] = "pin" /\ pc'[p] = "remap" /\ region[p] \in Files
          /\ pins' = [pins EXCEPT ![region[p]] = pins[region[p]] + 1]
          /\ region' = region /\ UNCHANGED <<buf, oldBuf, huge>>
      BY <1>0, <2>7, <2>9 DEF GetPages, Goto, MemoryFits, driverVars
    <3> QED BY <1>0, <2>5, <3>1
  <2>10. CASE Remap(p)
    <3>1. /\ pc[p] = "remap" /\ pc'[p] = "setPages" /\ region[p] \in Files
          /\ buf' = region[p] /\ oldBuf' = buf /\ huge = None
          /\ region' = region /\ UNCHANGED <<huge, pins>>
      BY <1>0, <2>7, <2>10 DEF Remap, Goto, MemoryFits, Flaw, FlawIf, Without
    <3> QED BY <1>0, <2>5, <3>1
  <2>11. CASE RemapFails(p)
    BY <2>11 DEF RemapFails, Flaw, Without
  <2>12. CASE SetPages(p)
    <3>1. /\ pc[p] = "setPages" /\ pc'[p] = "idle" /\ region[p] \in Files
          /\ huge' = region[p] /\ UNCHANGED <<buf, oldBuf, pins>>
      BY <1>0, <2>7, <2>12 DEF SetPages, Goto, MemoryFits, pageVars
    <3> QED BY <1>0, <2>5, <3>1
  <2>13. CASE PutPages(p)
    <3>1. /\ pc[p] = "put" /\ pc'[p] = "restore" /\ huge \in Files
          /\ pins' = [pins EXCEPT ![huge] = pins[huge] - 1]
          /\ UNCHANGED <<buf, oldBuf, huge>>
      BY <1>0, <2>7, <2>13 DEF PutPages, Goto, driverVars
    <3> QED BY <1>0, <2>5, <3>1
  <2>14. CASE Restore(p)
    <3>1. /\ pc[p] = "restore" /\ pc'[p] = "clear" /\ buf' = oldBuf
          /\ UNCHANGED <<oldBuf, huge, pins>>
      BY <1>0, <2>7, <2>14 DEF Restore, Goto, pageVars
    <3> QED BY <2>5, <3>1
  <2>15. CASE Clear(p)
    <3>1. /\ pc[p] = "clear" /\ pc'[p] = "idle" /\ huge' = None
          /\ UNCHANGED <<buf, oldBuf, pins>>
      BY <1>0, <2>7, <2>15 DEF Clear, Goto, pageVars
    <3> QED BY <1>0, <2>5, <3>1
  <2> QED BY <1>2, <2>8, <2>9, <2>10, <2>11, <2>12, <2>13, <2>14, <2>15 DEF Tool
<1> QED BY <1>1, <1>2

\* The thread and the size of its buffer.
LEMMA SizeKnownStep ==
  ASSUME TypeOK, MemoryFits, OneCaller, [Next]_vars, tpc # "poll" => up, SizeKnown,
         Without({"overlapped", "twice", "live", "short", "kept"})'
  PROVE  SizeKnown'
<1>0. /\ pc \in [Programs -> Labels] /\ Tools \subseteq Programs /\ 0 \notin Files
      /\ len \in [Files -> Nat]
  BY MemoryAssumption DEF TypeOK, Labels, Programs, Files
<1>a. tpc # "poll" => up
  OBVIOUS
<1>1. CASE \A p \in Tools : ~Tool(p)
  <2>1. /\ \A q \in Tools : pc'[q] = pc[q]
        /\ UNCHANGED <<buf, bufSize, len>>
    BY <1>1, OthersMove DEF memVars, driverVars, pageVars
  <2>2. Length(buf)' = Length(buf)
    BY <2>1 DEF Length
  <2>3. CASE UNCHANGED <<up, tpc, rxbuf, rxsize>>
    BY <1>0, <1>a, <2>1, <2>2, <2>3 DEF SizeKnown
  <2>4. CASE LinkUp
    <3>1. ~up /\ up' /\ UNCHANGED <<tpc, rxbuf, rxsize>>
          /\ (InCall # {} => "live" \in flaws')
      BY <2>4 DEF LinkUp, Flaw, FlawIf
    <3>2. \A q \in Tools : pc[q] \notin Calls
      BY <3>1 DEF Without, InCall
    <3>3. \A q \in Tools : pc[q] \notin Calls => pc'[q] \notin {"setPages", "clear"}
      BY <2>1 DEF Calls
    <3> QED BY <1>0, <1>a, <2>1, <2>2, <3>1, <3>2, <3>3 DEF SizeKnown
  <2>5. CASE LinkDown
    BY <1>0, <1>a, <2>1, <2>2, <2>5 DEF LinkDown, SizeKnown
  <2>6. CASE Thread
    BY <1>0, <1>a, <2>1, <2>2, <2>6 DEF Thread, ReadBuffer, ReadSize, EndRx, SizeKnown
  <2>7. ASSUME NEW p \in Clients, Client(p) PROVE UNCHANGED <<up, tpc, rxbuf, rxsize>>
    BY <2>7 DEF Client, BufInfo, MapFile, Mmap, EnterMmap, SpinEnds, MapDevice, InsertFails,
                RemapRangeFails, LeaveMmap, Unmap, threadVars
  <2>8. CASE UNCHANGED vars
    BY <2>3, <2>8 DEF vars, threadVars
  <2> QED BY <1>1, <2>3, <2>4, <2>5, <2>6, <2>7, <2>8 DEF Next
<1>2. ASSUME NEW p \in Tools, Tool(p) PROVE SizeKnown'
  <2>1. UNCHANGED <<up, tpc, rxbuf, rxsize>>
    BY <1>2, ToolMoves DEF threadVars
  <2>4. \A q \in Tools : q # p => pc'[q] = pc[q] /\ pc[q] \notin Calls
    BY <1>2, CallAlone DEF Without
  <2>5. \A q \in Tools : q # p => pc'[q] \notin {"setPages", "clear"}
                               /\ pc[q] \notin {"setPages", "clear"}
    BY <2>4 DEF Calls
  <2>6. p \in Programs
    BY <1>0
  <2>7. CASE \/ MapHuge(p) \/ UnmapHuge(p) \/ GetPages(p) \/ GetPagesFails(p) \/ RemapFails(p)
             \/ NothingToRelease(p) \/ PutPages(p) \/ Clear(p)
    <3>1. /\ pc[p] # "setPages" /\ pc'[p] \notin {"setPages", "clear"}
          /\ UNCHANGED <<buf, bufSize, len>>
      BY <1>0, <2>6, <2>7 DEF MapHuge, UnmapHuge, GetPages, GetPagesFails, RemapFails,
            NothingToRelease, PutPages, Clear, Goto, memVars, driverVars, pageVars
    <3>2. Length(buf)' = Length(buf)
      BY <3>1 DEF Length
    <3> QED BY <1>a, <2>1, <2>5, <3>1, <3>2 DEF SizeKnown
  <2>8. CASE Remap(p)
    <3>1. PICK n \in 1 .. HugeSize :
             /\ len' = [len EXCEPT ![region[p]] = n]
             /\ Flaw(FlawIf(n < HugeSize, "short") \cup FlawIf(up, "live")
                       \cup FlawIf(huge # None, "twice"))
      BY <2>8 DEF Remap
    <3>2. ~(n < HugeSize) /\ ~up
      BY <3>1 DEF Flaw, FlawIf, Without
    <3>3. n = HugeSize
      BY <3>1, <3>2, MemoryAssumption
    <3>4. pc[p] = "remap" /\ pc'[p] = "setPages" /\ buf' = region[p] /\ region[p] \in Files
      BY <1>0, <2>6, <2>8 DEF Remap, Goto, MemoryFits
    <3>5. Length(buf)' = HugeSize
      BY <1>0, <3>1, <3>3, <3>4 DEF Length
    <3>6. tpc = "poll"
      BY <1>a, <3>2
    <3> QED BY <1>a, <2>1, <2>5, <3>2, <3>4, <3>5, <3>6 DEF SizeKnown
  <2>9. CASE SetPages(p)
    <3>1. /\ pc[p] = "setPages" /\ pc'[p] = "idle" /\ bufSize' = HugeSize
          /\ UNCHANGED <<buf, len>>
      BY <1>0, <2>6, <2>9 DEF SetPages, Goto, pageVars
    <3>2. Length(buf)' = HugeSize
      BY <1>a, <3>1 DEF Length, SizeKnown
    <3>3. tpc = "poll" /\ ~up
      BY <1>a, <3>1 DEF SizeKnown
    <3> QED BY <1>a, <2>1, <2>5, <3>1, <3>2, <3>3 DEF SizeKnown
  <2>10. CASE Restore(p)
    <3>1. /\ pc[p] = "restore" /\ pc'[p] = "clear" /\ buf' = oldBuf
          /\ UNCHANGED <<bufSize, len>> /\ ~up /\ bufSize = Length(oldBuf)
      BY <1>0, <2>6, <2>10 DEF Restore, Goto, pageVars, Flaw, FlawIf, Without
    <3>2. Length(buf)' = bufSize'
      BY <3>1 DEF Length
    <3>3. tpc = "poll"
      BY <1>a, <3>1
    <3> QED BY <1>a, <2>1, <2>5, <3>1, <3>2, <3>3 DEF SizeKnown
  <2> QED BY <1>2, <2>7, <2>8, <2>9, <2>10 DEF Tool
<1> QED BY <1>1, <1>2

\* So the size the thread has read is right, unless a flaw made it wrong.
LEMMA SizesStep ==
  TypeOK /\ MemoryFits /\ OneCaller /\ Sizes /\ [Next]_vars => Sizes'
<1> SUFFICES ASSUME TypeOK, MemoryFits, OneCaller, Sizes, [Next]_vars PROVE Sizes'
  OBVIOUS
<1>1. tpc' # "poll" => up'
  <2>1. tpc # "poll" => up
    BY DEF Sizes
  <2>2. ASSUME NEW p \in Tools, Tool(p) PROVE UNCHANGED <<up, tpc>>
    BY <2>2, ToolMoves DEF threadVars
  <2>3. ASSUME NEW p \in Clients, Client(p) PROVE UNCHANGED <<up, tpc>>
    BY <2>3 DEF Client, BufInfo, MapFile, Mmap, EnterMmap, SpinEnds, MapDevice, InsertFails,
                RemapRangeFails, LeaveMmap, Unmap, threadVars
  <2>4. CASE LinkUp \/ LinkDown \/ Thread
    BY <2>1, <2>4 DEF LinkUp, LinkDown, Thread, ReadBuffer, ReadSize, EndRx
  <2>5. CASE UNCHANGED vars
    BY <2>1, <2>5 DEF vars, threadVars
  <2> QED BY <2>1, <2>2, <2>3, <2>4, <2>5 DEF Next
<1>2. ASSUME Without({"overlapped", "twice", "live", "short", "kept"})' PROVE SizeKnown'
  <2>1. SizeKnown /\ (tpc # "poll" => up)
    BY <1>2, FlawsGrow DEF Sizes
  <2> QED BY <1>2, <2>1, SizeKnownStep
<1> QED BY <1>1, <1>2 DEF Sizes

\* What a tool does to the names, with the others outside their calls.
LEMMA ToolNamesStep ==
  ASSUME TypeOK, MemoryFits, OneCaller, [Next]_vars, NamesFit,
         Without({"overlapped", "twice", "holes", "unnamed"})',
         NEW p \in Tools, Tool(p)
  PROVE  NamesFit'
<1>0. /\ pc \in [Programs -> Labels] /\ p \in Programs /\ Clients \subseteq Programs
      /\ None \notin Files /\ \A q \in Clients : q # p
      /\ current \in [Clients -> BOOLEAN]
  BY MemoryAssumption DEF TypeOK, Labels, Programs, Files
<1>1. \A q \in Tools : q # p => pc'[q] = pc[q] /\ pc[q] \notin Calls
  BY CallAlone DEF Without
<1>2. \A q \in Clients : pc'[q] = pc[q] /\ region'[q] = region[q]
  BY <1>0, ToolMoves
<1>3. /\ \A q \in Tools : q # p => ToolNames(q)'
      /\ \A S \in SUBSET Calls : NoneIn(S) <=> pc[p] \notin S
      /\ \A S \in SUBSET Calls : NoneIn(S)' <=> pc'[p] \notin S
  BY <1>1 DEF ToolNames, NoneIn, Calls
<1>4. /\ {"clear"} \in SUBSET Calls /\ {"put", "restore", "clear"} \in SUBSET Calls
  BY DEF Calls
<1>5. /\ ToolNames(p) /\ \A q \in Clients : ClientNames(q)
      /\ huge # None /\ pc[p] # "clear" => buf = huge
      /\ huge # None /\ pc[p] \notin {"put", "restore", "clear"} => file = huge
  BY <1>3, <1>4 DEF NamesFit
<1>6. SUFFICES /\ ToolNames(p)' /\ \A q \in Clients : ClientNames(q)'
               /\ huge' # None /\ pc'[p] # "clear" => buf' = huge'
               /\ huge' # None /\ pc'[p] \notin {"put", "restore", "clear"} => file' = huge'
  BY <1>3, <1>4, <1>6 DEF NamesFit
<1> USE DEF ToolNames, ClientNames, NoneCurrent
<1>7. CASE MapHuge(p)
  <2>1. PICK f \in Files : OpenFile(f) /\ region' = [region EXCEPT ![p] = f]
    BY <1>7 DEF MapHuge
  <2>2. /\ pc[p] = "idle" /\ pc'[p] = "pin" /\ UNCHANGED <<buf, huge, current>>
    BY <1>0, <1>7 DEF MapHuge, Goto, memVars, driverVars
  <2>3. region'[p] = f /\ file' = f /\ (file # None => file' = file)
    BY <1>0, <2>1 DEF OpenFile, TypeOK, fileVars
  <2> QED BY <1>2, <1>5, <2>2, <2>3
<1>8. CASE GetPages(p) \/ RemapFails(p) \/ NothingToRelease(p) \/ PutPages(p)
  <2>1. /\ UNCHANGED <<buf, huge, current, file>>
        /\ \/ pc[p] = "pin" /\ pc'[p] = "remap" /\ region'[p] = region[p]
           \/ pc[p] = "remap" /\ pc'[p] = "idle"
           \/ pc[p] = "put" /\ pc'[p] = "idle" /\ huge = None
           \/ pc[p] = "put" /\ pc'[p] = "restore" /\ huge # None
    BY <1>0, <1>8 DEF GetPages, RemapFails, NothingToRelease, PutPages, Goto, memVars,
                      driverVars, fileVars, histVars
  <2> QED BY <1>2, <1>5, <2>1
<1>9. CASE GetPagesFails(p)
  <2>1. /\ pc[p] = "pin" /\ pc'[p] = "idle" /\ UNCHANGED <<buf, huge, current>>
        /\ huge = None /\ file' = file
    BY <1>0, <1>9 DEF GetPagesFails, Goto, memVars, driverVars, Flaw, FlawIf, Without
  <2> QED BY <1>2, <1>5, <2>1
<1>10. CASE Remap(p)
  <2>1. /\ pc[p] = "remap" /\ pc'[p] = "setPages" /\ UNCHANGED <<huge, file, region>>
        /\ buf' = region[p] /\ huge = None /\ \A q \in Clients : ~current'[q]
    BY <1>0, <1>10 DEF Remap, Goto, fileVars, Flaw, FlawIf, Without
  <2> QED BY <1>5, <2>1
<1>11. CASE SetPages(p)
  <2>1. /\ pc[p] = "setPages" /\ pc'[p] = "idle" /\ UNCHANGED <<buf, file, current>>
        /\ huge' = region[p] /\ region[p] \in Files
    BY <1>0, <1>11 DEF SetPages, Goto, fileVars, histVars, MemoryFits
  <2> QED BY <1>0, <1>2, <1>5, <2>1
<1>12. CASE UnmapHuge(p)
  <2>1. /\ pc[p] = "idle" /\ pc'[p] = "put" /\ UNCHANGED <<buf, huge>>
        /\ \A q \in Clients : current'[q] = (current[q] /\ huge = None)
    BY <1>0, <1>12 DEF UnmapHuge, Goto, memVars, driverVars
  <2> QED BY <1>2, <1>5, <2>1
<1>13. CASE Restore(p)
  <2>1. /\ pc[p] = "restore" /\ pc'[p] = "clear" /\ UNCHANGED huge
        /\ \A q \in Clients : ~current'[q]
    BY <1>0, <1>13 DEF Restore, Goto
  <2> QED BY <1>5, <2>1
<1>14. CASE Clear(p)
  <2>1. /\ pc[p] = "clear" /\ pc'[p] = "idle" /\ huge' = None /\ UNCHANGED <<buf, current>>
    BY <1>0, <1>14 DEF Clear, Goto, histVars
  <2> QED BY <1>2, <1>5, <2>1
<1> QED BY <1>7, <1>8, <1>9, <1>10, <1>11, <1>12, <1>13, <1>14 DEF Tool

\* And what a client does.
LEMMA ClientNamesStep ==
  ASSUME TypeOK, MemoryFits, [Next]_vars, NamesFit,
         Without({"overlapped", "twice", "holes", "unnamed"})',
         \A p \in Tools : ~Tool(p)
  PROVE  NamesFit'
<1>0. /\ pc \in [Programs -> Labels] /\ Clients \subseteq Programs
      /\ region \in [Programs -> Regions \cup {None}]
      /\ current \in [Clients -> BOOLEAN] /\ None \notin Files /\ Files = 1 .. MaxFiles
  BY MemoryAssumption DEF TypeOK, Labels, Programs, Files
<1>1. /\ \A q \in Tools : pc'[q] = pc[q] /\ region'[q] = region[q]
      /\ InCall' = InCall /\ UNCHANGED <<buf, huge>>
  BY OthersMove DEF memVars, driverVars
<1>2. \A S : NoneIn(S)' <=> NoneIn(S)
  BY <1>1 DEF NoneIn
<1>3. ASSUME file' = file \/ file = None,
             InCall = {} \/ (NoneCurrent => NoneCurrent'),
             \A q \in Clients : ClientNames(q)'
      PROVE  NamesFit'
  <2>1. ASSUME NEW p \in Tools PROVE ToolNames(p)'
    <3>1. ToolNames(p)
      BY DEF NamesFit
    <3>2. pc[p] \in {"pin", "remap", "setPages"} => region[p] \in Files
      BY DEF MemoryFits
    <3>3. pc[p] \in {"setPages", "clear", "put", "restore"} => InCall # {}
      BY DEF InCall, Calls
    <3> QED BY <1>0, <1>1, <1>3, <3>1, <3>2, <3>3 DEF ToolNames
  <2>2. huge' # None /\ NoneIn({"put", "restore", "clear"})' => file' = huge'
    <3>1. huge # None => huge \in Files
      BY DEF TypeOK
    <3> QED BY <1>0, <1>1, <1>2, <1>3, <3>1 DEF NamesFit
  <2>3. huge' # None /\ NoneIn({"clear"})' => buf' = huge'
    BY <1>1, <1>2 DEF NamesFit
  <2> QED BY <1>3, <2>1, <2>2, <2>3 DEF NamesFit
<1>4. \A q \in Clients : ClientNames(q)
  BY DEF NamesFit
<1>5. ASSUME NEW q \in Clients, current[q], huge # None
      PROVE  file = huge /\ buf = huge
  <2>1. NoneIn({"put", "restore", "clear"}) /\ NoneIn({"clear"})
    BY <1>5 DEF NamesFit, ToolNames, NoneCurrent, NoneIn
  <2> QED BY <1>5, <2>1 DEF NamesFit
<1>6. ASSUME NEW q \in Clients, Client(q) PROVE NamesFit'
  <2>0. q \in Programs
    BY <1>0
  <2>1. CASE BufInfo(q)
    <3>1. /\ UNCHANGED <<file, region>> /\ current' = [current EXCEPT ![q] = InCall = {}]
          /\ pc' = [pc EXCEPT ![q] = IF huge # None THEN "open" ELSE "enter"]
      BY <2>1 DEF BufInfo, Goto, fileVars
    <3>2. InCall = {} \/ (NoneCurrent => NoneCurrent')
      BY <1>0, <3>1 DEF NoneCurrent
    <3>3. \A r \in Clients : ClientNames(r)'
      BY <1>0, <1>1, <1>4, <2>0, <3>1 DEF ClientNames
    <3> QED BY <1>3, <3>1, <3>2, <3>3
  <2>2. CASE MapFile(q)
    <3>1. PICK f \in Files : OpenFile(f) /\ region' = [region EXCEPT ![q] = f]
      BY <2>2 DEF MapFile
    <3>2. /\ pc[q] = "open" /\ pc' = [pc EXCEPT ![q] = "mapped"] /\ current' = current
      BY <2>2 DEF MapFile, Goto, histVars
    <3>3. (file' = file \/ file = None) /\ (file # None => f = file)
      BY <3>1 DEF OpenFile, fileVars
    <3>4. huge # None => huge \in Files
      BY DEF TypeOK
    <3>5. ClientNames(q)'
      <4>1. current[q] => huge # None
        BY <1>4, <3>2 DEF ClientNames
      <4>2. current[q] => f = buf
        BY <4>1, <1>0, <1>5, <3>3, <3>4
      <4> QED BY <1>0, <1>1, <2>0, <3>1, <3>2, <4>2 DEF ClientNames
    <3>6. \A r \in Clients : r # q => ClientNames(r)'
      BY <1>0, <1>1, <1>4, <3>1, <3>2 DEF ClientNames
    <3> QED BY <1>3, <3>2, <3>3, <3>5, <3>6 DEF NoneCurrent
  <2>3. CASE MapDevice(q)
    <3>1. /\ pc' = [pc EXCEPT ![q] = "leave"] /\ UNCHANGED <<file, current>>
          /\ region' = [region EXCEPT ![q] = IF huge # None THEN huge ELSE buf]
      BY <2>3 DEF MapDevice, Goto, fileVars, histVars
    <3>2. current[q] => (IF huge # None THEN huge ELSE buf) = buf
      BY <1>5
    <3>3. \A r \in Clients : ClientNames(r)'
      BY <1>0, <1>1, <1>4, <2>0, <3>1, <3>2 DEF ClientNames
    <3> QED BY <1>3, <3>1, <3>3 DEF NoneCurrent
  <2>4. CASE InsertFails(q)
    BY <2>4 DEF InsertFails, Flaw, Without
  <2>5. CASE \/ EnterMmap(q) \/ SpinEnds(q) \/ RemapRangeFails(q) \/ LeaveMmap(q)
    <3>1. /\ UNCHANGED <<file, region, current>>
          /\ \A r \in Clients : r # q => pc'[r] = pc[r]
          /\ pc'[q] \in {"leave", "mapped"} => pc[q] \in {"leave", "mapped"}
          /\ pc'[q] # "open"
      BY <1>0, <2>0, <2>5 DEF EnterMmap, SpinEnds, RemapRangeFails, LeaveMmap, Goto, fileVars,
                              histVars
    <3>2. \A r \in Clients : ClientNames(r)'
      BY <1>1, <1>4, <3>1 DEF ClientNames
    <3> QED BY <1>3, <3>1, <3>2 DEF NoneCurrent
  <2>6. CASE Unmap(q)
    <3>1. /\ UNCHANGED file /\ \A r \in Clients : r # q => /\ pc'[r] = pc[r]
                                                           /\ region'[r] = region[r]
                                                           /\ current'[r] = current[r]
          /\ ~current'[q]
      BY <1>0, <2>0, <2>6 DEF Unmap, Goto, fileVars
    <3>2. \A r \in Clients : ClientNames(r)'
      BY <1>1, <1>4, <3>1 DEF ClientNames
    <3> QED BY <1>3, <3>1, <3>2 DEF NoneCurrent
  <2> QED BY <1>6, <2>1, <2>2, <2>3, <2>4, <2>5, <2>6 DEF Client, Mmap
<1>7. CASE LinkUp \/ LinkDown \/ Thread \/ UNCHANGED vars
  <2>1. UNCHANGED <<file, current, pc, region>>
    <3>1. UNCHANGED <<fileVars, progVars, current>>
      BY <1>7 DEF LinkUp, LinkDown, Thread, ReadBuffer, ReadSize, EndRx, vars, histVars
    <3> QED BY <3>1 DEF fileVars, progVars
  <2>2. \A r \in Clients : ClientNames(r)'
    BY <1>1, <1>4, <2>1 DEF ClientNames
  <2> QED BY <1>3, <2>1, <2>2 DEF NoneCurrent
<1> QED BY <1>6, <1>7 DEF Next

\* So the names fit, unless a flaw separated them.
LEMMA MappingsStep ==
  TypeOK /\ MemoryFits /\ OneCaller /\ Mappings /\ [Next]_vars => Mappings'
<1> SUFFICES ASSUME TypeOK, MemoryFits, OneCaller, Mappings, [Next]_vars,
                    Without({"overlapped", "twice", "holes", "unnamed"})'
             PROVE  NamesFit'
  BY DEF Mappings
<1>1. NamesFit
  BY FlawsGrow DEF Mappings
<1> QED BY <1>1, ToolNamesStep, ClientNamesStep

-----------------------------------------------------------------------------
\* Every variable of hpcap_hugepages.c, hpcap_vma.c and the programs keeps its
\* type, mmapCount above 0 while one maps, for any number of programs and files.
THEOREM MemoryTypeCorrect == Spec => []TypeOK
BY MemoryInit, MemoryStep, GateStep, PTL DEF Spec

\* One at a time is inside hpcap_mmap, however many spin at its gate.
THEOREM OneMapsAtATime == Spec => []MmapExclusive
BY MemoryInit, MemoryStep, GateStep, PTL DEF Spec

\* Whoever waits at the gate of hpcap_mmap can go in when nobody is inside,
\* unless two waited at a time or a mapping failed.
THEOREM TheGateOpens == Spec => []WaiterCanEnter
<1>1. TypeOK /\ GateCounts => WaiterCanEnter
  <2> SUFFICES ASSUME TypeOK, GateCounts, InMmap # {}, Without({"crowded", "counted"}),
                      \A p \in Clients : pc[p] \notin {"inside", "leave"}
               PROVE  mmapCount = 1
    BY DEF WaiterCanEnter
  <2>1. PICK p \in InMmap : TRUE
    OBVIOUS
  <2>2. InMmap = {p}
    BY <2>1 DEF InMmap, GateCounts, Without
  <2>3. Cardinality({p}) = 1
    BY FS_Singleton
  <2> QED BY <2>2, <2>3 DEF GateCounts, Without
<1> QED BY MemoryInit, MemoryStep, GateStep, <1>1, PTL DEF Spec

-----------------------------------------------------------------------------
\* The invariant of the whole module.
ReplaceInv == TypeOK /\ MemoryFits /\ GateCounts /\ MmapExclusive
              /\ OneCaller /\ Accounts /\ Sizes /\ Mappings

\* All of it together is inductive.
LEMMA ReplaceStep == ReplaceInv /\ [Next]_vars => ReplaceInv'
BY MemoryStep, GateStep, CallerStep, AccountsStep, SizesStep, MappingsStep DEF ReplaceInv

\* And it holds before anything was replaced.
LEMMA ReplaceStart == Init => ReplaceInv
BY MemoryInit, ReplaceInit DEF ReplaceInv

\* Between two calls of HUGE_MAP and HUGE_UNMAP the driver holds one reference
\* to the pages of the file it uses and none to any other, and the listeners
\* know the size of its buffer, unless calls overlapped, came twice or failed.
THEOREM PagesAccounted == Spec => []HugepagesAccounted
<1>1. ReplaceInv => HugepagesAccounted
  BY DEF ReplaceInv, Accounts, AtRest, BufferAtRest, One, HugepagesAccounted
<1> QED BY ReplaceStart, ReplaceStep, <1>1, PTL DEF Spec

\* The poll thread does not write behind the end of the buffer it read the
\* address of, unless one of the flaws the property names has happened.
THEOREM ThreadWritesInside == Spec => []WritesInside
<1>1. ReplaceInv => WritesInside
  <2> SUFFICES ASSUME TypeOK, tpc = "write", Sizes,
                      Without({"overlapped", "twice", "live", "short", "kept"})
               PROVE  rxsize <= Length(rxbuf)
    BY DEF ReplaceInv, WritesInside
  <2>1. SizeKnown /\ up
    BY DEF Sizes
  <2>2. rxsize = bufSize /\ rxbuf = buf /\ bufSize = Length(buf)
    BY <2>1 DEF SizeKnown
  <2>3. bufSize \in Nat
    BY MemoryAssumption DEF TypeOK
  <2> QED BY <2>2, <2>3
<1> QED BY ReplaceStart, ReplaceStep, <1>1, PTL DEF Spec

\* What a client has mapped is the buffer the thread writes, as long as it was
\* not replaced since the client asked, by either way of mapping it.
THEOREM ClientsMapTheBuffer == Spec => []MappedIsBuffer
<1>1. ReplaceInv => MappedIsBuffer
  <2> SUFFICES ASSUME Mappings, NEW q \in Clients, pc[q] = "mapped", current[q],
                      Without({"overlapped", "twice", "holes", "unnamed"})
               PROVE  region[q] = buf
    BY DEF ReplaceInv, MappedIsBuffer
  <2> QED BY DEF Mappings, NamesFit, ClientNames
<1> QED BY ReplaceStart, ReplaceStep, <1>1, PTL DEF Spec
===============================================================================
