-------------------------- MODULE Sessions_proofs --------------------------
(***************************************************************************)
(* Theorems about the open files of the character device, for any number   *)
(* of programs and of slots: no slot is leaked, and the count of listeners *)
(* and the count of openings are exact, although a killed listener is      *)
(* deleted twice and a kill may close the file of any program; and a kill  *)
(* whose slot nobody else touched has the right file.                      *)
(***************************************************************************)
EXTENDS Sessions, FiniteSetTheorems, TLAPS

Labels == {"idle", "refused", "counted", "numbered", "added", "undone",
           "dead", "wait", "woken", "marked", "closing", "recorded", "crashed"}
Opens  == {"refused", "counted", "numbered", "added", "undone", "dead"}
Kills  == {"marked", "closing", "recorded"}

\* The types, without the bounds that the counts need.
Shape ==
    /\ opened \in Int /\ lastHandle \in 0..MaxHandles /\ count \in Int
    /\ id \in [Slot -> 0..MaxHandles] /\ kill \in [Slot -> BOOLEAN]
    /\ pending \in [Slot -> 0..MaxPending] /\ filp \in [Slot -> 0..MaxHandles]
    /\ killed \subseteq 1..MaxHandles
    /\ pc \in [Proc -> Labels]
    /\ file \in [Proc -> {"none", "open", "dropped", "released"}]
    /\ handle \in [Proc -> 0..MaxHandles] /\ victim \in [Proc -> 0..MaxHandles]
    /\ at \in [Proc -> Slot] /\ want \in [Proc -> 0..MaxPending]
    /\ got \in [Proc -> 0..MaxPending]

\* A handle is given once, and a program has one exactly while it may own a
\* slot or is about to: from TakeHandle to the release or the failure.
HandlesFit ==
    /\ \A p \in Proc : handle[p] <= lastHandle
    /\ \A p, q \in Proc : handle[p] = handle[q] /\ handle[p] # 0 => p = q
    /\ \A p \in Proc : pc[p] \in Opens => file[p] = "none"
    /\ \A p \in Proc :
         handle[p] # 0 <=> \/ pc[p] \in {"numbered", "added", "undone", "dead"}
                           \/ file[p] \in {"open", "dropped"}
    /\ \A p \in Proc : pc[p] \in Kills => victim[p] # 0

\* A handle has one slot at most, and every slot an owner.
SlotsFit ==
    /\ \A s, t \in Slot : id[s] = id[t] /\ id[s] # 0 => s = t
    /\ \A s \in Slot : id[s] # 0 => \E p \in Proc : handle[p] = id[s] /\ WillDelete(p)

\* The slot of an open file, or of one that waits to be released, knows it.
FilesFit ==
    \A s \in Slot, p \in Proc :
        id[s] # 0 /\ handle[p] = id[s] /\ file[p] \in {"open", "dropped"} => filp[s] = id[s]

Holders == {p \in Proc : HoldsOpen(p)}

SessionsInv ==
    /\ Shape
    /\ HandlesFit
    /\ SlotsFit
    /\ FilesFit
    /\ CountIsExact
    /\ OpenedIsExact

-----------------------------------------------------------------------------
\* The slots (the listeners array of hpcap_buf) are finitely many.
LEMMA SlotsFinite == IsFiniteSet(Slot) /\ Cardinality(Slot) = MaxListeners
<1>1. MaxListeners - 1 \in Int /\ 0 \in Int /\ 0 <= MaxListeners - 1
  BY SessionsAssumption
<1>2. IsFiniteSet(0..(MaxListeners - 1))
  BY <1>1, FS_Interval
<1>3. Cardinality(0..(MaxListeners - 1)) = (MaxListeners - 1) - 0 + 1
  BY <1>1, FS_Interval
<1> QED BY <1>2, <1>3, SessionsAssumption DEF Slot

\* What hpcap_del_listener does to the ids and to the count: nothing, or one
\* slot of that id is emptied.
LEMMA DelEffect ==
  ASSUME NEW h, Shape, Del(h)
  PROVE  \/ SlotsOf(h) = {} /\ UNCHANGED slotVars
         \/ \E s \in Slot : /\ id[s] = h
                           /\ id' = [id EXCEPT ![s] = 0]
                           /\ kill' = [kill EXCEPT ![s] = FALSE]
                           /\ pending' = [pending EXCEPT ![s] = 0]
                           /\ count' = count - 1
                           /\ filp' = filp
BY DEF Del, GetListener, ClearSlot, SlotsOf

\* The types after hpcap_del_listener.
LEMMA DelShape ==
  ASSUME NEW h, Shape, Del(h)
  PROVE  /\ id' \in [Slot -> 0..MaxHandles] /\ kill' \in [Slot -> BOOLEAN]
         /\ pending' \in [Slot -> 0..MaxPending] /\ count' \in Int
         /\ filp' = filp
<1>1. CASE UNCHANGED slotVars
  BY <1>1 DEF Shape, slotVars
<1>2. ASSUME NEW s \in Slot, id' = [id EXCEPT ![s] = 0], kill' = [kill EXCEPT ![s] = FALSE],
             pending' = [pending EXCEPT ![s] = 0], count' = count - 1
      PROVE  /\ id' \in [Slot -> 0..MaxHandles] /\ kill' \in [Slot -> BOOLEAN]
             /\ pending' \in [Slot -> 0..MaxPending] /\ count' \in Int
  BY <1>2, SessionsAssumption DEF Shape
<1> QED BY <1>1, <1>2, DelEffect

\* What filp_close does to the files, whichever it is given: some that were
\* open wait for their release now.
LEMMA KillCloseEffect ==
  ASSUME NEW p \in Proc, Shape, KillClose(p)
  PROVE  /\ pc[p] = "marked"
         /\ pc' = [pc EXCEPT ![p] = pc'[p]] /\ pc'[p] \in {"closing", "crashed"}
         /\ \A q \in Proc : file'[q] = file[q] \/ (file[q] = "open" /\ file'[q] = "dropped")
         /\ UNCHANGED <<id, count, filp, opened, lastHandle, killed, handle, victim>>
<1>1. PICK hit : file' = [q \in Proc |->
                     IF q \in hit /\ file[q] = "open" THEN "dropped" ELSE file[q]]
  BY DEF KillClose
<1>2. PICK l \in {"closing", "crashed"} : pc' = [pc EXCEPT ![p] = l]
  BY DEF KillClose, Goto
<1>3. /\ pc[p] = "marked"
      /\ UNCHANGED <<id, count, filp, opened, lastHandle, killed, handle, victim>>
  BY DEF KillClose, slotVars, bufVars
<1> QED BY <1>1, <1>2, <1>3 DEF Shape

-----------------------------------------------------------------------------
\* The device as hpcap_buf_init leaves it satisfies the types.
LEMMA ShapeInit == Init => Shape
<1> SUFFICES ASSUME Init PROVE Shape
  OBVIOUS
<1>1. 0 \in Slot /\ 0 \in 0..MaxHandles /\ 0 \in 0..MaxPending
  BY SessionsAssumption DEF Slot
<1>2. "idle" \in Labels
  BY DEF Labels
<1>3. /\ opened \in Int /\ lastHandle \in 0..MaxHandles /\ count \in Int
      /\ killed \subseteq 1..MaxHandles
  BY <1>1, SMT DEF Init
<1>4. /\ id \in [Slot -> 0..MaxHandles] /\ kill \in [Slot -> BOOLEAN]
      /\ pending \in [Slot -> 0..MaxPending] /\ filp \in [Slot -> 0..MaxHandles]
  BY <1>1 DEF Init
<1>5. /\ pc \in [Proc -> Labels]
      /\ file \in [Proc -> {"none", "open", "dropped", "released"}]
  BY <1>2 DEF Init
<1>6. /\ handle \in [Proc -> 0..MaxHandles] /\ victim \in [Proc -> 0..MaxHandles]
      /\ at \in [Proc -> Slot] /\ want \in [Proc -> 0..MaxPending]
      /\ got \in [Proc -> 0..MaxPending]
  BY <1>1 DEF Init
<1> QED BY <1>3, <1>4, <1>5, <1>6 DEF Shape

\* Every handler preserves the types.
LEMMA ShapeStep == Shape /\ HandlesFit /\ [Next]_vars => Shape'
<1> SUFFICES ASSUME Shape, HandlesFit, [Next]_vars PROVE Shape'
  OBVIOUS
<1> USE SessionsAssumption DEF Shape
<1>1. CASE Push
  BY <1>1 DEF Push, bufVars, procVars
<1>2. CASE UNCHANGED vars
  BY <1>2 DEF vars, slotVars, bufVars, procVars
<1>3. ASSUME NEW p \in Proc, Opening(p) PROVE Shape'
  <2>1. CASE CountOpen(p)
    BY <2>1 DEF CountOpen, Goto, Labels, slotVars
  <2>2. CASE UncountOpen(p)
    BY <2>2 DEF UncountOpen, Goto, Labels, slotVars
  <2>3. CASE TakeHandle(p)
    BY <2>3 DEF TakeHandle, Goto, Labels, slotVars
  <2>4. CASE AddListener(p)
    BY <2>4 DEF AddListener, Goto, Labels, slotVars, bufVars
  <2>5. CASE SetPrivateData(p)
    <3>1. UNCHANGED <<bufVars, count, id, kill, pending, handle, at, want, got, victim>>
      BY <2>5 DEF SetPrivateData
    <3>2. CASE UNCHANGED <<file, filp>> /\ Goto(p, "dead")
      BY <3>1, <3>2 DEF Goto, Labels, bufVars
    <3>3. ASSUME NEW s \in Slot, filp' = [filp EXCEPT ![s] = handle[p]],
                 file' = [file EXCEPT ![p] = "open"], Goto(p, "idle")
          PROVE  Shape'
      BY <3>1, <3>3 DEF Goto, Labels, bufVars
    <3> QED BY <2>5, <3>2, <3>3 DEF SetPrivateData
  <2>6. CASE OutOfMemory(p)
    BY <2>6, DelShape DEF OutOfMemory, Goto, Labels, bufVars
  <2> QED BY <1>3, <2>1, <2>2, <2>3, <2>4, <2>5, <2>6 DEF Opening
<1>4. ASSUME NEW p \in Proc, Close(p) PROVE Shape'
  BY <1>4 DEF Close, slotVars, bufVars
<1>5. ASSUME NEW p \in Proc, Releasing(p) PROVE Shape'
  <2>1. CASE ReleaseListener(p)
    BY <2>1, DelShape DEF ReleaseListener, bufVars
  <2>2. CASE ReleaseOpened(p)
    BY <2>2 DEF ReleaseOpened, slotVars
  <2> QED BY <1>5, <2>1, <2>2 DEF Releasing
<1>6. ASSUME NEW p \in Proc, Reading(p) PROVE Shape'
  <2>1. ASSUME NEW n \in 1..MaxPending, StartRead(p, n) PROVE Shape'
    BY <2>1 DEF StartRead, Goto, Labels, slotVars, bufVars
  <2>2. CASE LeaveWait(p)
    BY <2>2 DEF LeaveWait, Goto, Labels, slotVars, bufVars
  <2>3. CASE ReturnRead(p)
    <3> DEFINE least  == IF want[p] < got[p] THEN want[p] ELSE got[p]
               toCopy == IF kill[at[p]] THEN want[p] ELSE least
               left   == pending[at[p]] - toCopy
    <3>1. toCopy \in 0..MaxPending /\ (IF left < 0 THEN 0 ELSE left) \in 0..MaxPending
      OBVIOUS
    <3>2. pending' \in [Slot -> 0..MaxPending] /\ got' \in [Proc -> 0..MaxPending]
      BY <2>3, <3>1 DEF ReturnRead
    <3>3. 0 \in Slot
      BY DEF Slot
    <3> QED BY <2>3, <3>2, <3>3 DEF ReturnRead, Goto, Labels, bufVars
  <2> QED BY <1>6, <2>1, <2>2, <2>3 DEF Reading
<1>7. ASSUME NEW p \in Proc, Killing(p) PROVE Shape'
  <2>1. CASE KillAll(p)
    BY <2>1 DEF KillAll, bufVars, procVars
  <2>2. ASSUME NEW h \in 1..lastHandle, StartKill(p, h) PROVE Shape'
    BY <2>2 DEF StartKill, Goto, Labels, bufVars
  <2>3. CASE KillClose(p)
    <3>1. /\ file' \in [Proc -> {"none", "open", "dropped", "released"}]
          /\ \E l \in {"closing", "crashed"} : Goto(p, l)
          /\ UNCHANGED <<slotVars, bufVars, handle, at, want, got, victim>>
      BY <2>3 DEF KillClose
    <3> QED BY <3>1 DEF Goto, Labels, slotVars, bufVars
  <2>4. CASE KillRecord(p)
    <3>1. victim[p] \in 1..MaxHandles
      BY <2>4 DEF KillRecord, HandlesFit, Kills
    <3> QED BY <2>4, <3>1 DEF KillRecord, Goto, Labels, slotVars
  <2>5. CASE KillDelete(p)
    <3>1. 0 \in Slot
      BY DEF Slot
    <3> QED BY <2>5, <3>1, DelShape DEF KillDelete, Goto, Labels, bufVars
  <2> QED BY <1>7, <2>1, <2>2, <2>3, <2>4, <2>5 DEF Killing
<1> QED BY <1>1, <1>2, <1>3, <1>4, <1>5, <1>6, <1>7 DEF Next

-----------------------------------------------------------------------------
\* Nobody has a handle before the first open.
LEMMA HandlesInit == Init => HandlesFit
BY DEF Init, HandlesFit, Opens, Kills

\* Handles stay unique, and are held exactly as long as HandlesFit says, across
\* failing opens, releases and files closed by a kill.
LEMMA HandlesStep == Shape /\ HandlesFit /\ [Next]_vars => HandlesFit'
<1> SUFFICES ASSUME Shape, HandlesFit, [Next]_vars PROVE HandlesFit'
  OBVIOUS
<1> USE SessionsAssumption DEF HandlesFit, Opens, Kills
<1>1. CASE Push
  BY <1>1 DEF Push, bufVars, procVars
<1>2. CASE UNCHANGED vars
  BY <1>2 DEF vars, slotVars, bufVars, procVars
<1>3. ASSUME NEW p \in Proc, Opening(p) PROVE HandlesFit'
  <2> USE DEF Shape
  <2>1. CASE CountOpen(p)
    BY <2>1 DEF CountOpen, Goto
  <2>2. CASE UncountOpen(p)
    BY <2>2 DEF UncountOpen, Goto
  <2>3. CASE TakeHandle(p)
    BY <2>3 DEF TakeHandle, Goto
  <2>4. CASE AddListener(p)
    BY <2>4 DEF AddListener, Goto, bufVars
  <2>5. CASE SetPrivateData(p)
    <3>1. pc[p] = "added" /\ UNCHANGED <<lastHandle, handle, victim>>
      BY <2>5 DEF SetPrivateData, bufVars
    <3>2. CASE file' = file /\ Goto(p, "dead")
      BY <3>1, <3>2 DEF Goto
    <3>3. CASE file' = [file EXCEPT ![p] = "open"] /\ Goto(p, "idle")
      BY <3>1, <3>3 DEF Goto
    <3> QED BY <2>5, <3>2, <3>3 DEF SetPrivateData
  <2>6. CASE OutOfMemory(p)
    BY <2>6 DEF OutOfMemory, Goto, bufVars
  <2> QED BY <1>3, <2>1, <2>2, <2>3, <2>4, <2>5, <2>6 DEF Opening
<1>4. ASSUME NEW p \in Proc, Close(p) PROVE HandlesFit'
  BY <1>4 DEF Close, bufVars, Shape
<1>5. ASSUME NEW p \in Proc, Releasing(p) PROVE HandlesFit'
  <2>1. CASE ReleaseListener(p)
    BY <2>1 DEF ReleaseListener, bufVars, Shape
  <2>2. CASE ReleaseOpened(p)
    BY <2>2 DEF ReleaseOpened, Shape
  <2> QED BY <1>5, <2>1, <2>2 DEF Releasing
<1>6. ASSUME NEW p \in Proc, Reading(p) PROVE HandlesFit'
  <2>1. ASSUME NEW n \in 1..MaxPending, StartRead(p, n) PROVE HandlesFit'
    BY <2>1 DEF StartRead, Goto, bufVars, Shape
  <2>2. CASE LeaveWait(p)
    BY <2>2 DEF LeaveWait, Goto, bufVars, Shape
  <2>3. CASE ReturnRead(p)
    BY <2>3 DEF ReturnRead, Goto, bufVars, Shape
  <2> QED BY <1>6, <2>1, <2>2, <2>3 DEF Reading
<1>7. ASSUME NEW p \in Proc, Killing(p) PROVE HandlesFit'
  <2>1. CASE KillAll(p)
    BY <2>1 DEF KillAll, bufVars, procVars
  <2>2. ASSUME NEW h \in 1..lastHandle, StartKill(p, h) PROVE HandlesFit'
    BY <2>2 DEF StartKill, MayIoctl, Goto, bufVars, Shape
  <2>3. CASE KillClose(p)
    BY <2>3, KillCloseEffect DEF Shape
  <2>4. CASE KillRecord(p)
    BY <2>4 DEF KillRecord, Goto, Shape
  <2>5. CASE KillDelete(p)
    BY <2>5 DEF KillDelete, Goto, bufVars, Shape
  <2> QED BY <1>7, <2>1, <2>2, <2>3, <2>4, <2>5 DEF Killing
<1> QED BY <1>1, <1>2, <1>3, <1>4, <1>5, <1>6, <1>7 DEF Next

-----------------------------------------------------------------------------
\* No slot is used before the first open.
LEMMA SlotsInit == Init => SlotsFit
BY DEF Init, SlotsFit

\* Nobody but its owner stops owning a slot: a step after which every program
\* that owned one still does, with the same handle, and that adds no id.
LEMMA SlotsFrame ==
  ASSUME SlotsFit,
         \A s \in Slot : id'[s] = id[s] \/ id'[s] = 0,
         \A p \in Proc : WillDelete(p) => WillDelete(p)' /\ handle'[p] = handle[p]
  PROVE  SlotsFit'
BY DEF SlotsFit

\* hpcap_del_listener leaves no slot with that id, and adds none.
LEMMA DelSlots ==
  ASSUME NEW h, h # 0, Shape, SlotsFit, Del(h)
  PROVE  /\ \A s \in Slot : id'[s] = id[s] \/ id'[s] = 0
         /\ \A s \in Slot : id'[s] # h
<1>1. CASE SlotsOf(h) = {} /\ UNCHANGED slotVars
  BY <1>1 DEF SlotsOf, slotVars
<1>2. ASSUME NEW s \in Slot, id[s] = h, id' = [id EXCEPT ![s] = 0]
      PROVE  /\ \A t \in Slot : id'[t] = id[t] \/ id'[t] = 0
             /\ \A t \in Slot : id'[t] # h
  BY <1>2 DEF Shape, SlotsFit
<1> QED BY <1>1, <1>2, DelEffect

\* A program that gives up its handle right behind the deletion of its slot
\* leaves no slot without an owner.
LEMMA SlotsGiveUp ==
  ASSUME NEW p \in Proc, Shape, HandlesFit, SlotsFit,
         \A s \in Slot : id'[s] = id[s] \/ id'[s] = 0,
         \A s \in Slot : id'[s] # handle[p],
         \A q \in Proc \ {p} : WillDelete(q) => WillDelete(q)' /\ handle'[q] = handle[q]
  PROVE  SlotsFit'
BY DEF SlotsFit

\* Every handler keeps one owner per slot and one slot per handle.
LEMMA SlotsStep == Shape /\ HandlesFit /\ SlotsFit /\ [Next]_vars => SlotsFit'
<1> SUFFICES ASSUME Shape, HandlesFit, SlotsFit, [Next]_vars PROVE SlotsFit'
  OBVIOUS
<1>1. CASE Push
  BY <1>1, SlotsFrame DEF Push, bufVars, procVars, WillDelete
<1>2. CASE UNCHANGED vars
  BY <1>2, SlotsFrame DEF vars, slotVars, bufVars, procVars, WillDelete
<1>3. ASSUME NEW p \in Proc, Opening(p) PROVE SlotsFit'
  <2>1. CASE CountOpen(p)
    BY <2>1, SlotsFrame DEF CountOpen, Goto, slotVars, WillDelete, Shape
  <2>2. CASE UncountOpen(p)
    <3>1. ~WillDelete(p)
      BY <2>2 DEF UncountOpen, HandlesFit, Opens, WillDelete
    <3> QED BY <2>2, <3>1, SlotsFrame DEF UncountOpen, Goto, slotVars, WillDelete, Shape
  <2>3. CASE TakeHandle(p)
    <3>1. ~WillDelete(p)
      BY <2>3 DEF TakeHandle, HandlesFit, Opens, WillDelete
    <3> QED BY <2>3, <3>1, SlotsFrame DEF TakeHandle, Goto, slotVars, WillDelete, Shape
  <2>4. CASE AddListener(p)
    <3>1. handle' = handle /\ file' = file /\ pc' = [pc EXCEPT ![p] = "added"]
      BY <2>4 DEF AddListener, Goto
    <3>2. \A q \in Proc : WillDelete(q) => WillDelete(q)'
      BY <3>1 DEF WillDelete, Shape
    <3>3. CASE id' = id
      BY <3>1, <3>2, <3>3, SlotsFrame
    <3>4. ASSUME NEW s \in Slot, id[s] = 0, id' = [id EXCEPT ![s] = handle[p]]
          PROVE  SlotsFit'
      <4>1. handle[p] # 0 /\ ~WillDelete(p)
        BY <2>4 DEF AddListener, HandlesFit, Opens, WillDelete
      <4>2. \A t \in Slot : id[t] # handle[p]
        BY <4>1 DEF SlotsFit, HandlesFit
      <4>3. WillDelete(p)'
        BY <3>1 DEF WillDelete, Shape
      <4> QED BY <3>1, <3>2, <3>4, <4>1, <4>2, <4>3 DEF SlotsFit, Shape
    <3> QED BY <2>4, <3>3, <3>4 DEF AddListener, slotVars, GetListener, SlotsOf
  <2>5. CASE SetPrivateData(p)
    <3>1. CASE SlotsOf(handle[p]) = {}
      <4>1. \A s \in Slot : id[s] # handle[p]
        BY <3>1 DEF SlotsOf
      <4> QED BY <2>5, <3>1, <4>1, SlotsGiveUp DEF SetPrivateData, Goto, slotVars, WillDelete, Shape
    <3>2. CASE SlotsOf(handle[p]) # {}
      BY <2>5, <3>2, SlotsFrame DEF SetPrivateData, Goto, slotVars, WillDelete, Shape
    <3> QED BY <3>1, <3>2
  <2>6. CASE OutOfMemory(p)
    <3>1. handle[p] # 0
      BY <2>6 DEF OutOfMemory, HandlesFit
    <3> QED BY <2>6, <3>1, DelSlots, SlotsGiveUp DEF OutOfMemory, Goto, WillDelete, Shape
  <2> QED BY <1>3, <2>1, <2>2, <2>3, <2>4, <2>5, <2>6 DEF Opening
<1>4. ASSUME NEW p \in Proc, Close(p) PROVE SlotsFit'
  BY <1>4, SlotsFrame DEF Close, slotVars, bufVars, WillDelete, Shape
<1>5. ASSUME NEW p \in Proc, Releasing(p) PROVE SlotsFit'
  <2>1. CASE ReleaseListener(p)
    <3>1. handle[p] # 0
      BY <2>1 DEF ReleaseListener, HandlesFit
    <3> QED BY <2>1, <3>1, DelSlots, SlotsGiveUp DEF ReleaseListener, WillDelete, Shape
  <2>2. CASE ReleaseOpened(p)
    <3>1. ~WillDelete(p)
      BY <2>2 DEF ReleaseOpened, HandlesFit, Opens, WillDelete
    <3> QED BY <2>2, <3>1, SlotsFrame DEF ReleaseOpened, slotVars, WillDelete, Shape
  <2> QED BY <1>5, <2>1, <2>2 DEF Releasing
<1>6. ASSUME NEW p \in Proc, Reading(p) PROVE SlotsFit'
  <2>1. UNCHANGED <<id, handle, file>> /\ \E l \in {"wait", "woken", "idle"} : pc' = [pc EXCEPT ![p] = l]
    BY <1>6 DEF Reading, StartRead, LeaveWait, ReturnRead, Goto, slotVars
  <2>2. pc[p] # "added"
    BY <1>6 DEF Reading, StartRead, LeaveWait, ReturnRead
  <2> QED BY <2>1, <2>2, SlotsFrame DEF WillDelete, Shape
<1>7. ASSUME NEW p \in Proc, Killing(p) PROVE SlotsFit'
  <2>1. CASE KillAll(p)
    BY <2>1, SlotsFrame DEF KillAll, bufVars, procVars, WillDelete
  <2>2. ASSUME NEW h \in 1..lastHandle, StartKill(p, h) PROVE SlotsFit'
    BY <2>2, SlotsFrame DEF StartKill, MayIoctl, Goto, WillDelete, Shape
  <2>3. CASE KillClose(p)
    BY <2>3, KillCloseEffect, SlotsFrame DEF WillDelete, Shape
  <2>4. CASE KillRecord(p)
    BY <2>4, SlotsFrame DEF KillRecord, Goto, slotVars, WillDelete, Shape
  <2>5. CASE KillDelete(p)
    <3>1. victim[p] # 0
      BY <2>5 DEF KillDelete, HandlesFit, Kills
    <3> QED BY <2>5, <3>1, DelSlots, SlotsFrame DEF KillDelete, Goto, WillDelete, Shape
  <2> QED BY <1>7, <2>1, <2>2, <2>3, <2>4, <2>5 DEF Killing
<1> QED BY <1>1, <1>2, <1>3, <1>4, <1>5, <1>6, <1>7 DEF Next

-----------------------------------------------------------------------------
\* A step that stores no file, registers no slot and opens no file keeps it.
LEMMA FilesFrame ==
  ASSUME FilesFit, filp' = filp,
         \A s \in Slot : id'[s] = id[s] \/ id'[s] = 0,
         \A p \in Proc : file'[p] \in {"open", "dropped"} =>
             file[p] \in {"open", "dropped"} /\ handle'[p] = handle[p]
  PROVE  FilesFit'
BY DEF FilesFit

\* hpcap_del_listener empties a slot or does nothing, and leaves the files.
LEMMA DelIds ==
  ASSUME NEW h, Shape, Del(h)
  PROVE  filp' = filp /\ \A s \in Slot : id'[s] = id[s] \/ id'[s] = 0
BY DelEffect DEF Shape, slotVars

\* Every handler leaves the slot of an open file with that file, the kills that
\* close the wrong one included.
LEMMA FilesStep == Shape /\ HandlesFit /\ SlotsFit /\ FilesFit /\ [Next]_vars => FilesFit'
<1> SUFFICES ASSUME Shape, HandlesFit, SlotsFit, FilesFit, [Next]_vars PROVE FilesFit'
  OBVIOUS
<1>1. CASE Push \/ UNCHANGED vars
  BY <1>1, FilesFrame DEF Push, vars, slotVars, bufVars, procVars
<1>2. ASSUME NEW p \in Proc, Opening(p) PROVE FilesFit'
  <2>1. CASE CountOpen(p) \/ UncountOpen(p) \/ TakeHandle(p)
    <3>1. file[p] = "none"
      BY <2>1 DEF CountOpen, UncountOpen, TakeHandle, HandlesFit, Opens
    <3> QED BY <2>1, <3>1, FilesFrame DEF CountOpen, UncountOpen, TakeHandle, slotVars, Shape
  <2>2. CASE AddListener(p)
    <3>1. file[p] = "none" /\ UNCHANGED <<file, handle, filp>>
      BY <2>2 DEF AddListener, HandlesFit, Opens, slotVars
    <3>2. CASE id' = id
      BY <3>1, <3>2, FilesFrame
    <3>3. ASSUME NEW s \in Slot, id' = [id EXCEPT ![s] = handle[p]] PROVE FilesFit'
      <4> SUFFICES ASSUME NEW t \in Slot, NEW q \in Proc, id'[t] # 0, handle[q] = id'[t],
                          file[q] \in {"open", "dropped"}
                   PROVE  filp[t] = id'[t]
        BY <3>1 DEF FilesFit
      <4>1. q # p
        BY <3>1
      <4>2. t # s
        BY <3>3, <4>1 DEF HandlesFit, Shape
      <4> QED BY <3>3, <4>2 DEF FilesFit, Shape
    <3> QED BY <2>2, <3>2, <3>3 DEF AddListener, slotVars
  <2>3. CASE SetPrivateData(p)
    <3>1. CASE UNCHANGED <<file, filp>>
      BY <2>3, <3>1, FilesFrame DEF SetPrivateData
    <3>2. ASSUME NEW s \in Slot, id[s] = handle[p], filp' = [filp EXCEPT ![s] = handle[p]],
                 file' = [file EXCEPT ![p] = "open"]
          PROVE  FilesFit'
      <4>1. UNCHANGED <<id, handle>> /\ handle[p] # 0
        BY <2>3 DEF SetPrivateData, HandlesFit
      <4> SUFFICES ASSUME NEW t \in Slot, NEW q \in Proc, id[t] # 0, handle[q] = id[t],
                          file'[q] \in {"open", "dropped"}
                   PROVE  filp'[t] = id[t]
        BY <4>1 DEF FilesFit
      <4>2. CASE t = s
        BY <3>2, <4>2 DEF Shape
      <4>3. CASE t # s
        <5>1. q # p
          BY <3>2, <4>3 DEF SlotsFit
        <5> QED BY <3>2, <4>3, <5>1 DEF FilesFit, Shape
      <4> QED BY <4>2, <4>3
    <3> QED BY <2>3, <3>1, <3>2 DEF SetPrivateData, GetListener, SlotsOf
  <2>4. CASE OutOfMemory(p)
    BY <2>4, DelIds, FilesFrame DEF OutOfMemory
  <2> QED BY <1>2, <2>1, <2>2, <2>3, <2>4 DEF Opening
<1>3. ASSUME NEW p \in Proc, Close(p) \/ Reading(p) PROVE FilesFit'
  BY <1>3, FilesFrame DEF Close, Reading, StartRead, LeaveWait, ReturnRead, slotVars, Shape
<1>4. ASSUME NEW p \in Proc, Releasing(p) PROVE FilesFit'
  <2>1. CASE ReleaseListener(p)
    BY <2>1, DelIds, FilesFrame DEF ReleaseListener, Shape
  <2>2. CASE ReleaseOpened(p)
    BY <2>2, FilesFrame DEF ReleaseOpened, slotVars, Shape
  <2> QED BY <1>4, <2>1, <2>2 DEF Releasing
<1>5. ASSUME NEW p \in Proc, Killing(p) PROVE FilesFit'
  <2>1. CASE KillClose(p)
    BY <2>1, KillCloseEffect, FilesFrame
  <2>2. CASE KillDelete(p)
    BY <2>2, DelIds, FilesFrame DEF KillDelete
  <2>3. CASE ~KillClose(p) /\ ~KillDelete(p)
    BY <1>5, <2>3, FilesFrame DEF Killing, KillAll, StartKill, KillRecord, slotVars, procVars
  <2> QED BY <2>1, <2>2, <2>3
<1> QED BY <1>1, <1>2, <1>3, <1>4, <1>5 DEF Next

-----------------------------------------------------------------------------
\* The slots hpcap_get_listener finds by a handle.
Registered == {s \in Slot : id[s] # 0}

\* The registered slots are finitely many, at most all of them.
LEMMA RegisteredFinite ==
  IsFiniteSet(Registered) /\ Cardinality(Registered) \in 0..MaxListeners
<1>1. Registered \subseteq Slot
  BY DEF Registered
<1>2. IsFiniteSet(Registered) /\ Cardinality(Registered) <= MaxListeners
  BY <1>1, SlotsFinite, FS_Subset
<1> QED BY <1>2, FS_CardinalityType, SessionsAssumption

\* hpcap_del_listener decrements the count exactly when it empties a slot.
LEMMA DelCount ==
  ASSUME NEW h, h # 0, Shape, CountIsExact, Del(h)
  PROVE  CountIsExact'
<1>1. count = Cardinality(Registered)
  BY DEF CountIsExact, Registered
<1>2. CASE UNCHANGED slotVars
  BY <1>2 DEF CountIsExact, slotVars
<1>3. ASSUME NEW s \in Slot, id[s] = h, id' = [id EXCEPT ![s] = 0], count' = count - 1
      PROVE  CountIsExact'
  <2>1. Registered' = Registered \ {s} /\ s \in Registered
    BY <1>3 DEF Registered, Shape
  <2>2. Cardinality(Registered') = Cardinality(Registered) - 1
    BY <2>1, RegisteredFinite, FS_RemoveElement
  <2> QED BY <1>1, <1>3, <2>2 DEF CountIsExact, Registered
<1> QED BY <1>2, <1>3, DelEffect

\* listeners_count is exact after every handler.
LEMMA CountStep == Shape /\ HandlesFit /\ CountIsExact /\ [Next]_vars => CountIsExact'
<1> SUFFICES ASSUME Shape, HandlesFit, CountIsExact, [Next]_vars PROVE CountIsExact'
  OBVIOUS
<1>1. ASSUME UNCHANGED <<id, count>> PROVE CountIsExact'
  BY <1>1 DEF CountIsExact
<1>2. CASE Push \/ UNCHANGED vars
  BY <1>1, <1>2 DEF Push, vars, slotVars
<1>3. ASSUME NEW p \in Proc, Opening(p) PROVE CountIsExact'
  <2>1. CASE AddListener(p)
    <3>1. CASE UNCHANGED slotVars
      BY <1>1, <3>1 DEF slotVars
    <3>2. ASSUME NEW s \in Slot, id[s] = 0, id' = [id EXCEPT ![s] = handle[p]], count' = count + 1
          PROVE  CountIsExact'
      <4>1. handle[p] # 0
        BY <2>1 DEF AddListener, HandlesFit
      <4>2. Registered' = Registered \cup {s} /\ s \notin Registered
        BY <3>2, <4>1 DEF Registered, Shape
      <4>3. Cardinality(Registered') = Cardinality(Registered) + 1
        BY <4>2, RegisteredFinite, FS_AddElement
      <4> QED BY <3>2, <4>3 DEF CountIsExact, Registered
    <3> QED BY <2>1, <3>1, <3>2 DEF AddListener, GetListener, SlotsOf
  <2>2. CASE OutOfMemory(p)
    <3>1. handle[p] # 0 /\ Del(handle[p])
      BY <2>2 DEF OutOfMemory, HandlesFit
    <3> QED BY <3>1, DelCount
  <2>3. CASE CountOpen(p) \/ UncountOpen(p) \/ TakeHandle(p) \/ SetPrivateData(p)
    BY <1>1, <2>3 DEF CountOpen, UncountOpen, TakeHandle, SetPrivateData, slotVars
  <2> QED BY <1>3, <2>1, <2>2, <2>3 DEF Opening
<1>4. ASSUME NEW p \in Proc, Releasing(p) PROVE CountIsExact'
  <2>1. CASE ReleaseListener(p)
    <3>1. handle[p] # 0 /\ Del(handle[p])
      BY <2>1 DEF ReleaseListener, HandlesFit
    <3> QED BY <3>1, DelCount
  <2>2. CASE ReleaseOpened(p)
    BY <1>1, <2>2 DEF ReleaseOpened, slotVars
  <2> QED BY <1>4, <2>1, <2>2 DEF Releasing
<1>5. ASSUME NEW p \in Proc, Close(p) \/ Reading(p) PROVE CountIsExact'
  BY <1>1, <1>5 DEF Close, Reading, StartRead, LeaveWait, ReturnRead, slotVars
<1>6. ASSUME NEW p \in Proc, Killing(p) PROVE CountIsExact'
  <2>1. CASE KillDelete(p)
    <3>1. victim[p] # 0 /\ Del(victim[p])
      BY <2>1 DEF KillDelete, HandlesFit, Kills
    <3> QED BY <3>1, DelCount
  <2>2. CASE ~KillDelete(p)
    BY <1>1, <1>6, <2>2 DEF Killing, KillAll, StartKill, KillClose, KillRecord, slotVars
  <2> QED BY <2>1, <2>2
<1> QED BY <1>2, <1>3, <1>4, <1>5, <1>6 DEF Next

-----------------------------------------------------------------------------
\* opened counts the programs inside or behind a successful CountOpen: every
\* way out of open and close gives it back once.
LEMMA OpenedStep == Shape /\ HandlesFit /\ OpenedIsExact /\ [Next]_vars => OpenedIsExact'
<1> SUFFICES ASSUME Shape, HandlesFit, OpenedIsExact, [Next]_vars PROVE OpenedIsExact'
  OBVIOUS
<1> USE DEF Holders, HoldsOpen
<1>1. IsFiniteSet(Holders)
  BY SessionsAssumption, FS_Subset
<1>2. ASSUME UNCHANGED opened, Holders' = Holders PROVE OpenedIsExact'
  BY <1>2 DEF OpenedIsExact
<1>3. CASE Push \/ UNCHANGED vars
  BY <1>2, <1>3 DEF Push, vars, bufVars, procVars
<1>4. ASSUME NEW p \in Proc, Opening(p) PROVE OpenedIsExact'
  <2>1. CASE CountOpen(p)
    <3>1. Holders' = Holders \cup {p} /\ p \notin Holders
      BY <2>1 DEF CountOpen, Goto, Shape
    <3>2. Cardinality(Holders') = Cardinality(Holders) + 1
      BY <1>1, <3>1, FS_AddElement
    <3> QED BY <2>1, <3>2 DEF CountOpen, OpenedIsExact
  <2>2. CASE UncountOpen(p)
    <3>1. Holders' = Holders \ {p} /\ p \in Holders
      BY <2>2 DEF UncountOpen, Goto, Shape, HandlesFit, Opens
    <3>2. Cardinality(Holders') = Cardinality(Holders) - 1
      BY <1>1, <3>1, FS_RemoveElement
    <3> QED BY <2>2, <3>2 DEF UncountOpen, OpenedIsExact
  <2>3. CASE TakeHandle(p) \/ AddListener(p) \/ SetPrivateData(p) \/ OutOfMemory(p)
    BY <1>2, <2>3 DEF TakeHandle, AddListener, SetPrivateData, OutOfMemory, Goto, bufVars, Shape
  <2> QED BY <1>4, <2>1, <2>2, <2>3 DEF Opening
<1>5. ASSUME NEW p \in Proc, Close(p) PROVE OpenedIsExact'
  BY <1>2, <1>5 DEF Close, bufVars, Shape
<1>6. ASSUME NEW p \in Proc, Releasing(p) PROVE OpenedIsExact'
  <2>1. CASE ReleaseListener(p)
    BY <1>2, <2>1 DEF ReleaseListener, bufVars, Shape
  <2>2. CASE ReleaseOpened(p)
    <3>1. Holders' = Holders \ {p} /\ p \in Holders
      BY <2>2 DEF ReleaseOpened, Shape, HandlesFit, Opens
    <3>2. Cardinality(Holders') = Cardinality(Holders) - 1
      BY <1>1, <3>1, FS_RemoveElement
    <3> QED BY <2>2, <3>2 DEF ReleaseOpened, OpenedIsExact
  <2> QED BY <1>6, <2>1, <2>2 DEF Releasing
<1>7. ASSUME NEW p \in Proc, Reading(p) PROVE OpenedIsExact'
  BY <1>2, <1>7 DEF Reading, StartRead, LeaveWait, ReturnRead, Goto, bufVars, Shape
<1>8. ASSUME NEW p \in Proc, Killing(p) PROVE OpenedIsExact'
  <2>1. CASE KillClose(p)
    BY <1>2, <2>1, KillCloseEffect DEF Shape
  <2>2. CASE ~KillClose(p)
    BY <1>2, <1>8, <2>2 DEF Killing, KillAll, StartKill, MayIoctl, KillRecord, KillDelete,
                            Goto, bufVars, procVars, Shape
  <2> QED BY <2>1, <2>2
<1> QED BY <1>3, <1>4, <1>5, <1>6, <1>7, <1>8 DEF Next

-----------------------------------------------------------------------------
\* The device as hpcap_buf_init leaves it satisfies the invariant.
LEMMA SessionsInit == Init => SessionsInv
<1> SUFFICES ASSUME Init PROVE SessionsInv
  OBVIOUS
<1>1. Registered = {} /\ Holders = {}
  BY DEF Init, Registered, Holders, HoldsOpen
<1>2. CountIsExact /\ OpenedIsExact
  BY <1>1, FS_EmptySet DEF Init, CountIsExact, Registered, OpenedIsExact, Holders
<1>3. FilesFit
  BY DEF Init, FilesFit
<1> QED BY <1>2, <1>3, ShapeInit, HandlesInit, SlotsInit DEF SessionsInv

\* Every handler (open, release, read, the kill ioctls) and the poll thread's
\* push preserve it.
LEMMA SessionsStep == SessionsInv /\ [Next]_vars => SessionsInv'
BY ShapeStep, HandlesStep, SlotsStep, FilesStep, CountStep, OpenedStep DEF SessionsInv

\* The invariant holds however the handlers of any number of programs interleave.
LEMMA SessionsSafe == Spec => []SessionsInv
BY SessionsInit, SessionsStep, PTL DEF Spec

\* Every field of the device and of its slots keeps its type, the count of
\* listeners stays within the slots and opened within the programs, although
\* neither is ever checked when it is decremented.
THEOREM SessionsTypeCorrect == Spec => []TypeOK
<1>1. SessionsInv => TypeOK
  <2> SUFFICES ASSUME SessionsInv PROVE TypeOK
    OBVIOUS
  <2>1. count \in 0..MaxListeners
    BY RegisteredFinite DEF SessionsInv, CountIsExact, Registered
  <2>2. Cardinality(Holders) \in 0..Cardinality(Proc)
    BY SessionsAssumption, FS_Subset, FS_CardinalityType DEF Holders
  <2>3. opened \in 0..Cardinality(Proc)
    BY <2>2 DEF SessionsInv, OpenedIsExact, Holders
  <2> QED BY <2>1, <2>3 DEF SessionsInv, Shape, Labels, TypeOK
<1> QED BY SessionsSafe, <1>1, PTL

\* No slot is leaked, however opens, failures, closes and kills of programs in
\* any state interleave, whichever files the kills close: its owner still has the
\* handle and will delete it (hpcap_open, hpcap_release).  listeners_count is the
\* number of registered slots, although KILL_LST and the release it causes both
\* delete the listener (hpcap_del_listener).  And a kill whose slot was neither
\* emptied nor given away has the file of its victim (hpcap_kill_listener).
THEOREM SlotsStayExact == Spec => []SlotsExact
<1>1. SessionsInv => NoOrphanSlot
  BY DEF SessionsInv, SlotsFit, NoOrphanSlot
<1>2. SessionsInv => KillAims
  <2> SUFFICES ASSUME SessionsInv, NEW p \in Proc, pc[p] = "marked", id[at[p]] = victim[p]
               PROVE  \/ filp[at[p]] = victim[p]
                      \/ \E q \in Proc : handle[q] = victim[p] /\ pc[q] = "added"
    BY DEF KillAims
  <2>1. victim[p] # 0 /\ at[p] \in Slot
    BY DEF SessionsInv, Shape, HandlesFit, Kills
  <2>2. PICK q \in Proc : handle[q] = victim[p] /\ WillDelete(q)
    BY <2>1 DEF SessionsInv, SlotsFit
  <2> QED BY <2>1, <2>2 DEF SessionsInv, FilesFit, WillDelete
<1>3. SessionsInv => SlotsExact
  BY <1>1, <1>2 DEF SessionsInv, SlotsExact
<1> QED BY SessionsSafe, <1>3, PTL

\* opened is the number of programs that hold the device or died in their open,
\* whichever way they leave it (hpcap_open, hpcap_release).
THEOREM OpenedExact == Spec => []OpenedIsExact
<1>1. SessionsInv => OpenedIsExact
  BY DEF SessionsInv
<1> QED BY SessionsSafe, <1>1, PTL
=============================================================================
