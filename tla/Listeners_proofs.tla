--------------------------- MODULE Listeners_proofs ---------------------------
(***************************************************************************)
(* Theorems about the listener slots, for any number of clients and slots  *)
(* and any sizes of the buffer and of the records: a slot has one owner,   *)
(* the count is exact whenever the lock is free, and the offsets, which    *)
(* the poll thread and the clients write without the lock, stay inside the *)
(* buffer; and as long as no open overlaps the poll thread's unlocked      *)
(* updates, the offsets of all the listeners agree with the global ones,   *)
(* no frame is stored over unread bytes, and a client starts at a frame.   *)
(***************************************************************************)
EXTENDS Listeners, FiniteSetTheorems, TLAPS

Labels == {"closed", "open", "acking"} \cup Adding \cup Deleting

\* The slots hpcap_add_listener has given a name.
Named == {s \in Slot : Registered(s)}

\* A client whose slot has its name: from SetId to ClearId.
Owns(c) == cpc[c] \in {"named", "open", "acking"}

\* One client at a time holds the lock.
LockHeldOnce ==
    \A c, d \in Client :
        cpc[c] \in Adding \cup Deleting /\ cpc[d] \in Adding \cup Deleting => c = d

\* Names and owners agree, and the slot of a client being added stays free.
SlotsFit ==
    /\ \A c \in Client : Owns(c) => id[slot[c]] = c
    /\ \A s \in Slot : Registered(s) => Owns(id[s]) /\ slot[id[s]] = s
    /\ \A c \in Client : cpc[c] \in {"adding", "placed"} => ~Registered(slot[c])

\* The count follows a name that was set, and one that was cleared.
Behind == \E c \in Client : cpc[c] = "named"
Ahead  == \E c \in Client : cpc[c] \in Deleting

CountFits ==
    count = Cardinality(Named) + (IF Ahead THEN 1 ELSE 0) - (IF Behind THEN 1 ELSE 0)

ListenersInv ==
    /\ TypeOK
    /\ ppc = "scanRd" => idx \in Slot
    /\ LockHeldOnce
    /\ SlotsFit
    /\ CountFits

-----------------------------------------------------------------------------
\* There is a slot, a buffer, and finitely many of the former.
LEMMA Sizes ==
  /\ BufSize \in Nat /\ BufSize > 1 /\ MaxListeners \in Nat /\ MaxListeners > 0
  /\ FrameLen \in Nat /\ RawHlen \in Nat
  /\ 0 \in Slot /\ 0 \in Offset
  /\ IsFiniteSet(Slot) /\ Cardinality(Slot) = MaxListeners
<1>1. /\ BufSize \in Nat /\ BufSize > 1 /\ MaxListeners \in Nat
      /\ FrameLen \in Nat /\ RawHlen \in Nat
  BY ListenersAssumption
<1>2. MaxListeners > 0
  BY ListenersAssumption
<1>3. IsFiniteSet(0 .. (MaxListeners - 1))
      /\ Cardinality(0 .. (MaxListeners - 1)) = (MaxListeners - 1) - 0 + 1
  BY <1>1, <1>2, FS_Interval
<1>4. (MaxListeners - 1) - 0 + 1 = MaxListeners
  BY <1>1
<1> QED BY <1>1, <1>2, <1>3, <1>4 DEF Slot, Offset

\* The named slots are finitely many, and no more than there are slots.
LEMMA NamedFinite ==
  /\ IsFiniteSet(Named) /\ Cardinality(Named) \in Nat
  /\ Cardinality(Named) <= MaxListeners
<1>1. Named \subseteq Slot
  BY DEF Named
<1> QED BY <1>1, Sizes, FS_Subset, FS_CardinalityType

\* Offsets, wherever they are moved to, stay in the buffer.
LEMMA InBuffer ==
  /\ \A x \in Int : x % BufSize \in Offset
  /\ \A r, w \in Offset : Distance(r, w) \in Offset
<1>1. BufSize \in Nat /\ BufSize > 1
  BY Sizes
<1>2. \A x \in Int : x % BufSize \in Offset
  BY <1>1 DEF Offset
<1>3. \A r, w \in Offset : Distance(r, w) \in Offset
  BY <1>1 DEF Offset, Distance
<1> QED BY <1>2, <1>3

\* hpcap_push_listener keeps the offset in the buffer.
LEMMA PushedInBuffer ==
  ASSUME NEW r \in Offset, NEW w \in Offset, NEW n \in Offset PROVE Pushed(r, w, n) \in Offset
<1>1. Distance(r, w) \in Int /\ BufSize \in Int /\ w \in Int /\ n \in Int
  BY Sizes, InBuffer DEF Offset
<1>2. AvailBytes(r, w) \in Int
  BY <1>1 DEF AvailBytes, UsedBytes
<1>3. w + (IF AvailBytes(r, w) < n THEN AvailBytes(r, w) - 1 ELSE n) \in Int
  BY <1>1, <1>2
<1> QED BY <1>3, InBuffer DEF Pushed

-----------------------------------------------------------------------------
\* Nobody listens at first.
LEMMA ListenersInit == Init => ListenersInv
<1> SUFFICES ASSUME Init PROVE ListenersInv
  OBVIOUS
<1>1. TypeOK
  <2>1. /\ id \in [Slot -> Client \cup {NoClient}] /\ rd \in [Slot -> Offset]
        /\ wr \in [Slot -> Offset] /\ slot \in [Client -> Slot]
        /\ cpc \in [Client -> {"closed", "open", "acking"} \cup Adding \cup Deleting]
    BY Sizes DEF Init
  <2>2. /\ writeOff \in Offset /\ globalRd \in Offset /\ globalWr \in Offset
        /\ count \in 0 .. MaxListeners /\ budget \in Int /\ idx \in 0 .. MaxListeners
        /\ minDist \in 0 .. (BufSize + 1) /\ newBytes \in Offset
    BY Sizes DEF Init
  <2>3. popped \in BOOLEAN /\ raced \in BOOLEAN /\ unreset \in BOOLEAN
    BY DEF Init
  <2> QED BY <2>1, <2>2, <2>3 DEF Init, TypeOK
<1>2. LockHeldOnce /\ SlotsFit /\ ppc # "scanRd"
  BY DEF Init, LockHeldOnce, SlotsFit, Owns, Registered, Adding, Deleting
<1>3. CountFits
  <2>1. Named = {}
    BY DEF Init, Named, Registered
  <2>2. ~Ahead /\ ~Behind
    BY DEF Init, Ahead, Behind, Deleting
  <2>3. count = 0
    BY DEF Init
  <2> QED BY <2>1, <2>2, <2>3, FS_EmptySet DEF CountFits
<1> QED BY <1>1, <1>2, <1>3 DEF ListenersInv

\* The poll thread takes no slot, gives none, and does not count.
LEMMA PollStep == ListenersInv /\ Poll /\ RememberOverlap => ListenersInv'
<1> SUFFICES ASSUME ListenersInv, Poll, RememberOverlap PROVE ListenersInv'
  OBVIOUS
<1> USE DEF TypeOK, bufVars, slotVars, pollVars, clientVars
<1>0. /\ TypeOK /\ (ppc = "scanRd" => idx \in Slot) /\ LockHeldOnce /\ SlotsFit /\ CountFits
      /\ Slot = 0 .. (MaxListeners - 1) /\ Offset = 0 .. (BufSize - 1)
  BY DEF ListenersInv, Slot, Offset
<1>a. /\ BufSize \in Nat /\ BufSize > 1 /\ MaxListeners \in Nat /\ FrameLen \in Nat
      /\ globalRd \in Offset /\ globalWr \in Offset /\ writeOff \in Offset
      /\ globalRd \in Int /\ writeOff \in Int /\ minDist \in Int /\ Offset \subseteq Int
      /\ 0 \in Offset /\ 0 \in Slot
  BY <1>0, Sizes
<1>1. id' = id /\ cpc' = cpc /\ slot' = slot /\ count' = count /\ unreset' = unreset
  BY DEF Poll, ReadCount, ResetWr, ResetRd, ResetPopped, RxFrame, EndRx, ScanId, ScanRd,
         PopGlobal, PushGlobal, PushSlot
<1>2. LockHeldOnce' /\ SlotsFit' /\ CountFits'
  BY <1>0, <1>1 DEF LockHeldOnce, SlotsFit, CountFits, Owns, Registered, Named, Ahead, Behind
<1>3. raced' \in BOOLEAN
  BY <1>0 DEF RememberOverlap
<1>4. /\ writeOff' \in Offset /\ globalRd' \in Offset /\ globalWr' \in Offset
      /\ popped' \in BOOLEAN /\ rd' \in [Slot -> Offset] /\ wr' \in [Slot -> Offset]
      /\ ppc' \in {"count", "resetWr", "resetRd", "resetPopped", "rx", "scan", "scanRd",
                   "pushGlobal", "push"}
      /\ budget' \in Int /\ idx' \in 0 .. MaxListeners
      /\ minDist' \in 0 .. (BufSize + 1) /\ newBytes' \in Offset
      /\ ppc' = "scanRd" => idx' \in Slot
  <2>1. CASE ReadCount
    <3>2. Distance(globalRd, globalWr) \in Offset
      BY <1>a, InBuffer
    <3>3. Distance(globalRd, globalWr) \in Int
      BY <3>2, <1>a
    <3>0. Distance(globalRd, globalWr) \in Int /\ BufSize \in Int
      BY <3>3, <1>a
    <3>1. AvailBytes(globalRd, globalWr) \in Int
      BY <3>0 DEF AvailBytes, UsedBytes
    <3> QED BY <1>0, <2>1, <3>1 DEF ReadCount
  <2>2. CASE ResetWr \/ ResetRd
    BY <1>0, <2>2, Sizes DEF ResetWr, ResetRd
  <2>3. CASE ResetPopped \/ EndRx
    <3>1. BufSize + 1 \in 0 .. (BufSize + 1)
      BY <1>a
    <3> QED BY <1>0, <1>a, <2>3, <3>1 DEF ResetPopped, EndRx
  <2>4. CASE RxFrame
    <3>0. writeOff + FrameLen \in Int
      BY <1>a
    <3>1. (writeOff + FrameLen) % BufSize \in Offset
      BY <3>0, InBuffer
    <3> QED BY <1>0, <1>a, <2>4, <3>1 DEF RxFrame
  <2>5. CASE ScanId
    BY <1>0, <2>5, Sizes DEF ScanId
  <2>6. CASE ScanRd
    <3>0. rd[idx] \in Offset /\ idx \in Slot
      BY <1>0, <2>6 DEF ScanRd
    <3>1. Distance(globalRd, rd[idx]) \in Offset
      BY <3>0, <1>a, InBuffer
    <3>2. minDist' \in 0 .. (BufSize + 1) /\ idx' \in 0 .. MaxListeners
      BY <3>0, <3>1, <1>0, <1>a, <2>6 DEF ScanRd
    <3> QED BY <1>0, <2>6, <3>2 DEF ScanRd
  <2>7. CASE PopGlobal
    <3>0. globalRd + minDist \in Int
      BY <1>a
    <3>1. (globalRd + minDist) % BufSize \in Offset /\ Distance(globalWr, writeOff) \in Offset
      BY <3>0, <1>a, InBuffer
    <3> QED BY <1>0, <1>a, <2>7, <3>1 DEF PopGlobal
  <2>8. CASE PushGlobal
    BY <1>0, <2>8, PushedInBuffer DEF PushGlobal
  <2>9. CASE PushSlot
    <3>1. Pushed(rd[idx], wr[idx], newBytes) \in Offset
      BY <1>0, <2>9, PushedInBuffer DEF PushSlot
    <3> QED BY <1>0, <2>9, <3>1, Sizes DEF PushSlot
  <2> QED BY <2>1, <2>2, <2>3, <2>4, <2>5, <2>6, <2>7, <2>8, <2>9 DEF Poll
<1>5. TypeOK'
  BY <1>0, <1>1, <1>3, <1>4
<1> QED BY <1>2, <1>4, <1>5 DEF ListenersInv

-----------------------------------------------------------------------------
\* A step of a client that leaves the names and the count alone, and does not
\* come to or go from the steps where they are behind each other.
LEMMA NamesAlone ==
  ASSUME ListenersInv, NEW c \in Client, NEW l \in Labels,
         id' = id, count' = count, slot' = slot, cpc' = [cpc EXCEPT ![c] = l],
         \/ cpc[c] = "adding" /\ l = "placed"
         \/ cpc[c] \in {"open", "acking"} /\ l \in {"open", "acking"}
  PROVE  LockHeldOnce' /\ SlotsFit' /\ CountFits'
<1>1. /\ LockHeldOnce /\ SlotsFit /\ CountFits /\ id \in [Slot -> Client \cup {NoClient}]
      /\ cpc \in [Client -> Labels] /\ slot \in [Client -> Slot]
  BY DEF ListenersInv, TypeOK, Labels
<1>2. cpc'[c] = l /\ \A d \in Client : d # c => cpc'[d] = cpc[d]
  BY <1>1
<1>3. LockHeldOnce'
  BY <1>1, <1>2 DEF LockHeldOnce, Adding, Deleting
<1>4. SlotsFit'
  BY <1>1, <1>2 DEF SlotsFit, Owns, Registered
<1>5. Named' = Named /\ Ahead' = Ahead /\ Behind' = Behind
  BY <1>1, <1>2 DEF Named, Registered, Ahead, Behind, Deleting
<1> QED BY <1>1, <1>3, <1>4, <1>5 DEF CountFits

\* A client that adds or deletes a listener keeps names, owners and the count.
LEMMA ClientNames ==
  ASSUME ListenersInv, NEW c \in Client, ClientStep(c)
  PROVE  LockHeldOnce' /\ SlotsFit' /\ CountFits'
<1>1. /\ LockHeldOnce /\ SlotsFit /\ CountFits /\ id \in [Slot -> Client \cup {NoClient}]
      /\ cpc \in [Client -> Labels] /\ slot \in [Client -> Slot] /\ count \in Int
  BY DEF ListenersInv, TypeOK, Labels
<1>2. NoClient \notin Client
  BY ListenersAssumption
<1>3. IsFiniteSet(Named) /\ Cardinality(Named) \in Nat
  BY NamedFinite
<1> USE DEF LockHeldOnce, Adding, Deleting
<1>4. CASE Open(c)
  <2>1. PICK s \in Slot : ~Registered(s) /\ slot' = [slot EXCEPT ![c] = s]
    BY <1>4 DEF Open
  <2>2. /\ cpc[c] = "closed" /\ LockFree /\ cpc' = [cpc EXCEPT ![c] = "adding"]
        /\ id' = id /\ count' = count
    BY <1>4 DEF Open
  <2>3. /\ cpc'[c] = "adding" /\ slot'[c] = s
        /\ \A d \in Client : d # c => cpc'[d] = cpc[d] /\ slot'[d] = slot[d]
    BY <1>1, <2>1, <2>2
  <2>4. LockHeldOnce'
    BY <2>2, <2>3 DEF LockFree
  <2>5. SlotsFit'
    BY <1>1, <2>1, <2>2, <2>3 DEF SlotsFit, Owns, Registered, LockFree
  <2>6. Named' = Named /\ ~Ahead' /\ ~Behind' /\ ~Ahead /\ ~Behind
    BY <2>2, <2>3 DEF Named, Registered, Ahead, Behind, LockFree
  <2> QED BY <1>1, <2>2, <2>4, <2>5, <2>6 DEF CountFits
<1>5. CASE PlaceRd(c)
  BY <1>5, NamesAlone DEF PlaceRd, Labels, slotVars
<1>6. CASE SetId(c)
  <2>1. /\ cpc[c] = "placed" /\ cpc' = [cpc EXCEPT ![c] = "named"]
        /\ id' = [id EXCEPT ![slot[c]] = c] /\ slot' = slot /\ count' = count
    BY <1>6 DEF SetId
  <2>2. cpc'[c] = "named" /\ \A d \in Client : d # c => cpc'[d] = cpc[d]
    BY <1>1, <2>1
  <2>3. slot[c] \in Slot /\ ~Registered(slot[c])
    BY <1>1, <2>1 DEF SlotsFit
  <2>4. id'[slot[c]] = c /\ \A s \in Slot : s # slot[c] => id'[s] = id[s]
    BY <1>1, <2>1, <2>3
  <2>5. LockHeldOnce'
    BY <1>1, <2>1, <2>2
  <2>a. \A d \in Client : d # c => cpc[d] \notin Adding \cup Deleting
    BY <1>1, <2>1
  <2>6. SlotsFit'
    <3>1. ASSUME NEW d \in Client, Owns(d)' PROVE id'[slot[d]] = d
      <4>1. CASE d = c
        BY <4>1, <2>4
      <4>2. CASE d # c
        <5>1. id[slot[d]] = d /\ slot[d] \in Slot
          BY <1>1, <2>2, <3>1, <4>2 DEF SlotsFit, Owns
        <5>2. slot[d] # slot[c]
          BY <5>1, <1>2, <2>3 DEF Registered
        <5> QED BY <5>1, <5>2, <2>4
      <4> QED BY <4>1, <4>2
    <3>2. ASSUME NEW s \in Slot, Registered(s)' PROVE Owns(id[s])' /\ slot[id'[s]] = s
      <4>1. CASE s = slot[c]
        BY <4>1, <2>2, <2>4 DEF Owns
      <4>2. CASE s # slot[c]
        <5>1. id'[s] = id[s] /\ id[s] \in Client /\ Owns(id[s]) /\ slot[id[s]] = s
          BY <1>1, <2>4, <3>2, <4>2 DEF SlotsFit, Registered
        <5> QED BY <5>1, <2>1, <2>2, <4>2 DEF Owns
      <4> QED BY <4>1, <4>2
    <3>3. \A d \in Client : cpc'[d] \notin {"adding", "placed"}
      BY <2>2, <2>a
    <3> QED BY <2>1, <2>2, <2>4, <1>1, <1>2, <3>1, <3>2, <3>3 DEF SlotsFit, Owns, Registered
  <2>7. Named' = Named \cup {slot[c]} /\ slot[c] \notin Named
    BY <1>2, <2>3, <2>4 DEF Named, Registered
  <2>8. Cardinality(Named') = Cardinality(Named) + 1
    BY <2>7, <1>3, FS_AddElement
  <2>9. ~Ahead /\ ~Behind /\ ~Ahead' /\ Behind'
    BY <2>1, <2>2, <2>a DEF Ahead, Behind
  <2> QED BY <1>1, <1>3, <2>1, <2>5, <2>6, <2>8, <2>9 DEF CountFits
<1>7. CASE IncCount(c) \/ DecCount(c)
  <2>1. /\ cpc[c] \in {"named", "cleared"} /\ id' = id /\ slot' = slot
        /\ cpc' = [cpc EXCEPT ![c] = IF cpc[c] = "named" THEN "open" ELSE "closed"]
        /\ count' = IF cpc[c] = "named" THEN count + 1 ELSE count - 1
    BY <1>7 DEF IncCount, DecCount, slotVars
  <2>2. /\ cpc'[c] = IF cpc[c] = "named" THEN "open" ELSE "closed"
        /\ \A d \in Client : d # c => cpc'[d] = cpc[d]
    BY <1>1, <2>1
  <2>a. \A d \in Client : d # c => cpc[d] \notin Adding \cup Deleting
    BY <1>1, <2>1
  <2>3. LockHeldOnce'
    BY <1>1, <2>2
  <2>4. SlotsFit'
    <3>1. \A d \in Client : Owns(d)' <=> Owns(d)
      BY <2>1, <2>2 DEF Owns
    <3>2. \A d \in Client : cpc'[d] \notin {"adding", "placed"}
      BY <2>1, <2>2, <2>a
    <3> QED BY <1>1, <2>1, <3>1, <3>2 DEF SlotsFit, Registered
  <2>5. Named' = Named /\ ~Ahead' /\ ~Behind'
    BY <2>1, <2>2, <2>a DEF Named, Registered, Ahead, Behind
  <2>6. /\ cpc[c] = "named" => Behind /\ ~Ahead
        /\ cpc[c] = "cleared" => Ahead /\ ~Behind
    BY <2>a DEF Ahead, Behind
  <2> QED BY <1>1, <1>3, <2>1, <2>3, <2>4, <2>5, <2>6 DEF CountFits
<1>8. CASE MarkPopped(c) \/ \E n \in 1 .. BufSize : Pop(c, n)
  BY <1>8, NamesAlone DEF MarkPopped, Pop, Labels, slotVars
<1>9. CASE ClearId(c)
  <2>1. /\ cpc[c] = "open" /\ LockFree /\ cpc' = [cpc EXCEPT ![c] = "unnamed"]
        /\ id' = [id EXCEPT ![slot[c]] = NoClient] /\ slot' = slot /\ count' = count
    BY <1>9 DEF ClearId
  <2>2. cpc'[c] = "unnamed" /\ \A d \in Client : d # c => cpc'[d] = cpc[d]
    BY <1>1, <2>1
  <2>3. slot[c] \in Slot /\ id[slot[c]] = c
    BY <1>1, <2>1 DEF SlotsFit, Owns
  <2>4. id'[slot[c]] = NoClient /\ \A s \in Slot : s # slot[c] => id'[s] = id[s]
    BY <1>1, <2>1, <2>3
  <2>5. LockHeldOnce'
    BY <2>1, <2>2 DEF LockFree
  <2>6. SlotsFit'
    <3>1. ASSUME NEW d \in Client, Owns(d)' PROVE id'[slot[d]] = d
      <4>1. d # c /\ id[slot[d]] = d /\ slot[d] # slot[c] /\ slot[d] \in Slot
        BY <1>1, <2>2, <2>3, <3>1 DEF SlotsFit, Owns
      <4> QED BY <4>1, <2>4
    <3>2. ASSUME NEW s \in Slot, Registered(s)' PROVE Owns(id[s])' /\ slot[id'[s]] = s
      <4>1. s # slot[c] /\ id'[s] = id[s] /\ id[s] \in Client /\ Owns(id[s]) /\ slot[id[s]] = s
        BY <1>1, <2>4, <3>2 DEF SlotsFit, Registered
      <4> QED BY <4>1, <2>1, <2>2 DEF Owns
    <3>3. \A d \in Client : cpc'[d] \notin {"adding", "placed"}
      BY <2>1, <2>2 DEF LockFree
    <3> QED BY <2>1, <3>1, <3>2, <3>3 DEF SlotsFit
  <2>7. Named' = Named \ {slot[c]} /\ slot[c] \in Named
    BY <1>2, <2>3, <2>4 DEF Named, Registered
  <2>8. Cardinality(Named') = Cardinality(Named) - 1
    BY <2>7, <1>3, FS_RemoveElement
  <2>9. ~Ahead /\ ~Behind /\ Ahead' /\ ~Behind'
    BY <2>1, <2>2 DEF Ahead, Behind, LockFree
  <2> QED BY <1>1, <1>3, <2>1, <2>5, <2>6, <2>8, <2>9 DEF CountFits
<1>10. CASE ClearOffsets(c)
  <2>1. /\ cpc[c] = "unnamed" /\ cpc' = [cpc EXCEPT ![c] = "cleared"]
        /\ id' = id /\ slot' = [slot EXCEPT ![c] = 0] /\ count' = count
    BY <1>10 DEF ClearOffsets
  <2>2. /\ cpc'[c] = "cleared"
        /\ \A d \in Client : d # c => cpc'[d] = cpc[d] /\ slot'[d] = slot[d]
    BY <1>1, <2>1
  <2>3. LockHeldOnce'
    BY <1>1, <2>1, <2>2
  <2>4. SlotsFit'
    <3>1. ~Owns(c) /\ ~Owns(c)'
      BY <2>1, <2>2 DEF Owns
    <3>2. \A s \in Slot : id[s] # c
      BY <1>1, <1>2, <3>1 DEF SlotsFit, Registered
    <3> QED BY <1>1, <2>1, <2>2, <3>1, <3>2 DEF SlotsFit, Owns, Registered
  <2>5. Named' = Named /\ Ahead' /\ Ahead /\ Behind' = Behind
    BY <2>1, <2>2 DEF Named, Registered, Ahead, Behind
  <2> QED BY <1>1, <2>1, <2>3, <2>4, <2>5 DEF CountFits
<1> QED BY <1>4, <1>5, <1>6, <1>7, <1>8, <1>9, <1>10 DEF ClientStep

\* The types of what a client writes.
LEMMA ClientTypes ==
  ASSUME ListenersInv, NEW c \in Client, ClientStep(c), RememberOverlap, CountFits'
  PROVE  TypeOK'
<1> USE DEF TypeOK, bufVars, slotVars, pollVars, clientVars
<1>1. TypeOK
  BY DEF ListenersInv
<1>2. /\ BufSize \in Nat /\ BufSize > 1 /\ MaxListeners \in Nat /\ 0 \in Offset /\ 0 \in Slot
      /\ Offset = 0 .. (BufSize - 1)
  BY Sizes DEF Offset
<1>3. raced' \in BOOLEAN
  BY <1>1 DEF RememberOverlap
<1> USE DEF Adding, Deleting
<1>4. CASE Open(c)
  BY <1>1, <1>3, <1>4 DEF Open
<1>5. CASE PlaceRd(c)
  BY <1>1, <1>3, <1>5 DEF PlaceRd
<1>6. CASE SetId(c)
  BY <1>1, <1>3, <1>6 DEF SetId
<1>7. CASE IncCount(c) \/ DecCount(c)
  <2>1. /\ cpc[c] \in {"named", "cleared"} /\ cpc' = [cpc EXCEPT ![c] = cpc'[c]]
        /\ cpc'[c] \in {"open", "closed"} /\ count' \in Int
        /\ UNCHANGED <<bufVars, popped, slotVars, pollVars, slot, unreset>>
    BY <1>1, <1>7 DEF IncCount, DecCount
  <2>2. \A d \in Client : cpc'[d] \notin Adding \cup Deleting
    BY <1>1, <2>1 DEF ListenersInv, LockHeldOnce
  <2>3. ~Ahead' /\ ~Behind'
    BY <2>2 DEF Ahead, Behind
  <2>4. Named' = Named
    BY <2>1 DEF Named, Registered
  <2>5. count' = Cardinality(Named)
    BY <2>3, <2>4, NamedFinite DEF CountFits
  <2>6. count' \in 0 .. MaxListeners
    BY <1>2, <2>5, NamedFinite
  <2> QED BY <1>1, <1>3, <2>1, <2>6
<1>8. CASE MarkPopped(c)
  BY <1>1, <1>3, <1>8 DEF MarkPopped
<1>9. ASSUME NEW n \in 1 .. BufSize, Pop(c, n) PROVE TypeOK'
  <2> DEFINE used == UsedBytes(rd[slot[c]], wr[slot[c]])
  <2>1. rd[slot[c]] \in Offset /\ used \in Offset
    BY <1>1, InBuffer DEF UsedBytes
  <2>2. rd[slot[c]] + (IF used < n THEN used ELSE n) \in Int
    BY <1>2, <2>1
  <2>3. (rd[slot[c]] + (IF used < n THEN used ELSE n)) % BufSize \in Offset
    BY <2>2, InBuffer
  <2> QED BY <1>1, <1>3, <1>9, <2>3 DEF Pop
<1>10. CASE ClearId(c)
  BY <1>1, <1>3, <1>10 DEF ClearId
<1>11. CASE ClearOffsets(c)
  BY <1>1, <1>2, <1>3, <1>11 DEF ClearOffsets
<1> QED BY <1>4, <1>5, <1>6, <1>7, <1>8, <1>9, <1>10, <1>11 DEF ClientStep

\* Every step of the poll thread and of the clients keeps the invariant.
LEMMA ListenersStep == ListenersInv /\ [Next]_vars => ListenersInv'
<1> SUFFICES ASSUME ListenersInv, [Next]_vars PROVE ListenersInv'
  OBVIOUS
<1>1. CASE Poll /\ RememberOverlap
  BY <1>1, PollStep
<1>2. ASSUME NEW c \in Client, ClientStep(c), RememberOverlap PROVE ListenersInv'
  <2>1. LockHeldOnce' /\ SlotsFit' /\ CountFits'
    BY <1>2, ClientNames
  <2>2. TypeOK'
    BY <1>2, <2>1, ClientTypes
  <2>3. ppc' = ppc /\ idx' = idx
    BY <1>2 DEF ClientStep, Open, PlaceRd, SetId, IncCount, MarkPopped, Pop, ClearId,
                ClearOffsets, DecCount, pollVars
  <2> QED BY <2>1, <2>2, <2>3 DEF ListenersInv, Slot
<1>3. CASE UNCHANGED vars
  BY <1>3 DEF vars, bufVars, slotVars, pollVars, clientVars, ListenersInv, TypeOK,
              LockHeldOnce, SlotsFit, CountFits, Owns, Registered, Named, Ahead, Behind
<1> QED BY <1>1, <1>2, <1>3 DEF Next

-----------------------------------------------------------------------------
\* The offsets stay inside the buffer and the count between 0 and the number of
\* slots, however opens and closes interleave with the poll thread.
THEOREM ListenersTypeCorrect == Spec => []TypeOK
<1>1. ListenersInv => TypeOK
  BY DEF ListenersInv
<1> QED BY ListenersInit, ListenersStep, <1>1, PTL DEF Spec

\* A slot has one owner, and the count that makes the poll thread store or
\* discard is the number of registered slots whenever the lock is free.
THEOREM SlotsStayCounted == Spec => []SlotsCounted
<1>1. ListenersInv => SlotsCounted
  <2> SUFFICES ASSUME TypeOK, SlotsFit, CountFits PROVE SlotsCounted
    BY DEF ListenersInv
  <2>1. \A c \in Client : IsOpen(c) => id[slot[c]] = c
    BY DEF SlotsFit, IsOpen, Owns
  <2>2. LockFree => ~Ahead /\ ~Behind
    BY DEF LockFree, Ahead, Behind, Adding, Deleting
  <2>3. LockFree => count = Cardinality({s \in Slot : Registered(s)})
    BY <2>2, NamedFinite DEF CountFits, Named
  <2> QED BY <2>1, <2>3 DEF SlotsCounted
<1> QED BY ListenersInit, ListenersStep, <1>1, PTL DEF Spec

-----------------------------------------------------------------------------
(* The offsets, seen from the global read offset.                          *)

\* The remainder of what is at most one buffer outside the buffer.
LEMMA ModOnce ==
  ASSUME NEW x \in Int, -BufSize <= x, x < 2 * BufSize
  PROVE  /\ x % BufSize \in Offset
         /\ x % BufSize = IF x < 0 THEN x + BufSize
                          ELSE IF x < BufSize THEN x ELSE x - BufSize
<1>1. BufSize \in Nat /\ BufSize > 1
  BY Sizes
<1>2. /\ x = BufSize * (x \div BufSize) + (x % BufSize)
      /\ x % BufSize \in 0 .. BufSize - 1 /\ x \div BufSize \in Int
  BY <1>1
<1> DEFINE q == x \div BufSize
<1>3. q \in {-1, 0, 1}
  <2>1. CASE q <= -2
    <3>1. BufSize * q <= BufSize * (-2)
      BY <2>1, <1>1, <1>2
    <3> QED BY <3>1, <1>1, <1>2
  <2>2. CASE q >= 2
    <3>1. BufSize * q >= BufSize * 2
      BY <2>2, <1>1, <1>2
    <3> QED BY <3>1, <1>1, <1>2
  <2> QED BY <2>1, <2>2, <1>2
<1>4. BufSize * (-1) = -BufSize /\ BufSize * 0 = 0 /\ BufSize * 1 = BufSize
  BY <1>1
<1> QED BY <1>1, <1>2, <1>3, <1>4 DEF Offset

\* Going on by a distance.
LEMMA GoOn ==
  ASSUME NEW a \in Offset, NEW b \in Offset PROVE (a + Distance(a, b)) % BufSize = b
<1>1. BufSize \in Nat /\ BufSize > 1 /\ a \in Int /\ b \in Int
  BY Sizes DEF Offset
<1>2. CASE a <= b
  <2>1. a + Distance(a, b) = b
    BY <1>1, <1>2 DEF Distance
  <2>2. b % BufSize = b
    BY <1>1, ModOnce DEF Offset
  <2> QED BY <2>1, <2>2
<1>3. CASE ~(a <= b)
  <2>1. a + Distance(a, b) = BufSize + b
    BY <1>1, <1>3 DEF Distance
  <2>2. (BufSize + b) % BufSize = b
    BY <1>1, ModOnce DEF Offset
  <2> QED BY <2>1, <2>2
<1> QED BY <1>2, <1>3

\* Distances from g: equal ones are of one offset, and that of two offsets is
\* their difference.
LEMMA SeenFrom ==
  ASSUME NEW g \in Offset, NEW a \in Offset, NEW b \in Offset
  PROVE  /\ Distance(g, a) \in Offset
         /\ Distance(g, a) = Distance(g, b) => a = b
         /\ Distance(g, a) <= Distance(g, b)
              => Distance(a, b) = Distance(g, b) - Distance(g, a)
         /\ Distance(g, b) < Distance(g, a)
              => Distance(a, b) = (Distance(g, b) - Distance(g, a)) + BufSize
BY Sizes DEF Offset, Distance

\* Going on n bytes without going past g adds n to the distance.
LEMMA Further ==
  ASSUME NEW g \in Offset, NEW a \in Offset, NEW n \in Nat,
         Distance(g, a) + n < BufSize
  PROVE  /\ (a + n) % BufSize \in Offset
         /\ Distance(g, (a + n) % BufSize) = Distance(g, a) + n
<1>1. BufSize \in Nat /\ BufSize > 1 /\ a \in 0 .. BufSize - 1 /\ g \in 0 .. BufSize - 1
  BY Sizes DEF Offset
<1>2. Distance(g, a) = IF g <= a THEN a - g ELSE (BufSize - g) + a
  BY DEF Distance
<1>3. n < BufSize
  BY <1>1, <1>2
<1> DEFINE m == (a + n) % BufSize
<1>4. m \in Offset /\ m = IF a + n < BufSize THEN a + n ELSE (a + n) - BufSize
  BY <1>1, <1>3, ModOnce
<1> HIDE DEF m
<1>5. Distance(g, m) = IF g <= m THEN m - g ELSE (BufSize - g) + m
  BY DEF Distance
<1>6. Distance(g, m) = Distance(g, a) + n
  BY <1>1, <1>2, <1>4, <1>5
<1> QED BY <1>4, <1>6 DEF m


\* How far an offset is from the global read offset.
Seen(o) == Distance(globalRd, o)

\* A client with both offsets, and one with at least the write offset.
Live(c)  == cpc[c] \in {"placed", "named", "open", "acking"}
Holds(c) == Live(c) \/ cpc[c] = "adding"

Resetting == ppc \in {"resetWr", "resetRd", "resetPopped"}
Scanning  == ppc \in {"scan", "scanRd"}

\* What the push of this round still has to add to a slot.
Pending(s) == IF ppc = "push" /\ s >= idx THEN newBytes ELSE 0

\* The slot of a client that is being deleted is nobody else's.
UnnamedFree == \A c \in Client : cpc[c] = "unnamed" => ~Registered(slot[c])

\* The poll thread's own offsets, from the read offset on: what is published,
\* what is stored, what may be stored.
RoundFits ==
    /\ ppc \notin {"scan", "scanRd", "push"} => idx = 0
    /\ ppc = "resetRd" => globalWr = 0
    /\ ppc = "resetPopped" => globalWr = 0 /\ globalRd = 0
    /\ ppc # "resetRd" => Seen(globalWr) <= Seen(writeOff)
    /\ ppc \in {"count", "push"} => globalWr = writeOff
    /\ ppc = "rx" => budget + Seen(writeOff) <= BufSize - 1
    /\ ppc = "pushGlobal" => Seen(globalWr) + newBytes = Seen(writeOff)
    /\ Scanning => minDist = BufSize + 1 \/ minDist <= Seen(globalWr)

\* The listeners' offsets lie between the global ones, and the minimum of the
\* pop is at most the distance to each listener it has seen.
ListenersFit ==
    /\ Resetting => \A c \in Client : ~Holds(c)
    /\ \A c \in Client : Holds(c) => Seen(wr[slot[c]]) + Pending(slot[c]) = Seen(globalWr)
    /\ \A c \in Client : Live(c) => Seen(rd[slot[c]]) <= Seen(wr[slot[c]])
    /\ ppc = "scanRd" => Registered(idx)
    /\ Scanning => \A c \in Client : Live(c) /\ slot[c] < idx => minDist <= Seen(rd[slot[c]])

OffsetsInv ==
    /\ ListenersInv
    /\ UnnamedFree
    /\ ~raced => ~Overlap /\ RoundFits /\ ListenersFit

\* Two clients never have the same slot.
LEMMA HeldOnce ==
  ASSUME ListenersInv, NEW c \in Client, NEW d \in Client, Holds(c), Holds(d), slot[c] = slot[d]
  PROVE  c = d
<1>1. LockHeldOnce /\ SlotsFit
  BY DEF ListenersInv
<1>2. NoClient \notin Client
  BY ListenersAssumption
<1> QED BY <1>1, <1>2 DEF LockHeldOnce, SlotsFit, Owns, Registered, Holds, Live, Adding

\* Outside the reception, a client with offsets has its slot registered.
LEMMA LiveOwns ==
  ASSUME ListenersInv, ~Overlap, ppc \notin {"count", "rx"}, NEW c \in Client, Holds(c)
  PROVE  Live(c) /\ Owns(c) /\ id[slot[c]] = c /\ Registered(slot[c])
<1>1. SlotsFit /\ cpc[c] \notin Adding
  BY DEF ListenersInv, Overlap
<1>2. NoClient \notin Client
  BY ListenersAssumption
<1> QED BY <1>1, <1>2 DEF SlotsFit, Owns, Registered, Holds, Live, Adding

\* Where the offsets are, seen from the global read offset.
LEMMA SeenTypes ==
  ASSUME TypeOK
  PROVE  /\ \A o \in Offset : Seen(o) \in Offset
         /\ Offset \subseteq Int /\ BufSize \in Int
         /\ \A o \in Offset : 0 <= Seen(o) /\ Seen(o) <= BufSize - 1
         /\ \A c \in Client : slot[c] \in Slot /\ slot[c] \in Int
         /\ \A s \in Slot : rd[s] \in Offset /\ wr[s] \in Offset
         /\ idx \in Int /\ newBytes \in Int /\ newBytes >= 0 /\ minDist \in Int /\ minDist >= 0
<1>1. globalRd \in Offset
  BY DEF TypeOK
<1>2. \A o \in Offset : Seen(o) \in Offset
  BY <1>1, InBuffer DEF Seen
<1> QED BY <1>2, Sizes DEF TypeOK, Offset, Slot

\* Nobody listens and every offset is 0.
LEMMA OffsetsInit == Init => OffsetsInv
<1> SUFFICES ASSUME Init PROVE OffsetsInv
  OBVIOUS
<1>1. ListenersInv
  BY ListenersInit
<1>2. UnnamedFree
  BY DEF Init, UnnamedFree
<1>3. \A c \in Client : ~Holds(c) /\ ~Live(c) /\ cpc[c] \notin Adding
  BY DEF Init, Holds, Live, Adding
<1>4. ~Overlap
  BY <1>3 DEF Init, Overlap
<1>5. RoundFits
  <2>1. BufSize \in Nat /\ Seen(0) \in Int /\ Distance(0, 0) = 0
    BY Sizes DEF Init, Seen, Distance
  <2> QED BY <2>1 DEF Init, RoundFits, Seen, Scanning
<1>6. ListenersFit
  BY <1>3 DEF Init, ListenersFit, Resetting, Scanning
<1> QED BY <1>1, <1>2, <1>4, <1>5, <1>6 DEF OffsetsInv

\* As long as nobody is added during them, the reset, the reception, the pop and
\* the pushes of a round keep every offset in its place.
LEMMA PollKeepsOffsets ==
  ASSUME OffsetsInv, Poll, RememberOverlap, ~raced'
  PROVE  ~Overlap' /\ RoundFits' /\ ListenersFit'
<1>1. ~raced /\ ~Overlap' /\ ~Overlap /\ RoundFits /\ ListenersFit /\ ListenersInv
  BY DEF OffsetsInv, RememberOverlap
<1>2. TypeOK /\ SlotsFit /\ CountFits /\ (ppc = "scanRd" => idx \in Slot)
  BY <1>1 DEF ListenersInv
<1>3. id' = id /\ cpc' = cpc /\ slot' = slot /\ rd' = rd /\ count' = count
  BY DEF Poll, ReadCount, ResetWr, ResetRd, ResetPopped, RxFrame, EndRx, ScanId, ScanRd,
         PopGlobal, PushGlobal, PushSlot, bufVars, slotVars, pollVars, clientVars
<1>4. \A c \in Client : (Live(c)' <=> Live(c)) /\ (Holds(c)' <=> Holds(c)) /\ (Live(c) => Holds(c))
  BY <1>3 DEF Live, Holds
<1>5. /\ \A o \in Offset : Seen(o) \in Offset
      /\ Offset \subseteq Int /\ BufSize \in Int
      /\ \A o \in Offset : 0 <= Seen(o) /\ Seen(o) <= BufSize - 1
      /\ \A c \in Client : slot[c] \in Slot /\ slot[c] \in Int
      /\ \A s \in Slot : rd[s] \in Offset /\ wr[s] \in Offset
      /\ idx \in Int /\ newBytes \in Int /\ newBytes >= 0 /\ minDist \in Int /\ minDist >= 0
  BY <1>2, SeenTypes
<1>6. /\ globalRd \in Offset /\ globalWr \in Offset /\ writeOff \in Offset /\ budget \in Int
      /\ MaxListeners \in Int /\ 0 \in Offset /\ FrameLen \in Nat /\ RawHlen \in Nat
      /\ RawHlen < FrameLen /\ FrameLen < BufSize
  BY <1>2, Sizes, ListenersAssumption DEF TypeOK
<1>7. /\ Seen(globalWr) \in Int /\ Seen(globalWr) >= 0 /\ Seen(globalWr) <= BufSize - 1
      /\ Seen(writeOff) \in Int /\ Seen(writeOff) >= 0 /\ Seen(writeOff) <= BufSize - 1
  BY <1>5, <1>6
<1>8. \A c \in Client : /\ slot[c] >= 0 /\ slot[c] < MaxListeners
                        /\ Seen(rd[slot[c]]) \in Int /\ Seen(rd[slot[c]]) >= 0
                        /\ Seen(wr[slot[c]]) \in Int /\ Seen(wr[slot[c]]) >= 0
  <2> SUFFICES ASSUME NEW c \in Client
               PROVE  /\ slot[c] >= 0 /\ slot[c] < MaxListeners
                      /\ Seen(rd[slot[c]]) \in Int /\ Seen(rd[slot[c]]) >= 0
                      /\ Seen(wr[slot[c]]) \in Int /\ Seen(wr[slot[c]]) >= 0
    OBVIOUS
  <2>1. slot[c] \in Slot
    BY <1>5
  <2>2. slot[c] >= 0 /\ slot[c] < MaxListeners
    BY <1>6, <2>1 DEF Slot
  <2>3. rd[slot[c]] \in Offset /\ wr[slot[c]] \in Offset
    BY <1>5, <2>1
  <2>4. Seen(rd[slot[c]]) \in Offset /\ Seen(wr[slot[c]]) \in Offset
    BY <1>5, <2>3
  <2> QED BY <1>5, <2>2, <2>3, <2>4
<1>10. CASE ReadCount
  <2>1. /\ ppc = "count" /\ UNCHANGED <<bufVars, slotVars, idx, minDist, newBytes>>
        /\ \/ count = 0 /\ ppc' = "resetWr" /\ budget' = budget
           \/ ppc' = "rx" /\ budget' = AvailBytes(globalRd, globalWr)
    BY <1>10 DEF ReadCount
  <2>2. /\ writeOff' = writeOff /\ globalRd' = globalRd /\ globalWr' = globalWr /\ wr' = wr
        /\ \A o : Seen(o)' = Seen(o')
    BY <2>1 DEF bufVars, slotVars, Seen
  <2>3. Seen(writeOff)' = Seen(writeOff) /\ Seen(globalWr)' = Seen(globalWr)
    BY <2>2 DEF Seen
  <2>4. ppc' = "resetWr" => \A c \in Client : ~Holds(c)
    <3> SUFFICES ASSUME ppc' = "resetWr" PROVE \A c \in Client : ~Holds(c)
      OBVIOUS
    <3>1. \A c \in Client : cpc[c] \notin Adding
      BY <1>1, <1>3 DEF Overlap
    <3>2. ~Behind /\ count = 0
      BY <2>1, <3>1 DEF Behind, Adding
    <3>3. Cardinality(Named) = 0
      BY <1>2, <3>2, NamedFinite DEF CountFits
    <3>4. Named = {}
      BY <3>3, NamedFinite, FS_EmptySet
    <3>5. ASSUME NEW c \in Client, Holds(c) PROVE FALSE
      <4>1. Owns(c) /\ id[slot[c]] = c
        BY <1>2, <3>1, <3>5 DEF Holds, Live, Owns, SlotsFit, Adding
      <4>2. slot[c] \in Named
        BY <1>5, <4>1, ListenersAssumption DEF Named, Registered
      <4> QED BY <3>4, <4>2
    <3> QED BY <3>5
  <2>5. RoundFits'
    <3>1. ppc' = "rx" => budget' = (BufSize - Seen(globalWr)) - 1
      BY <2>1 DEF AvailBytes, UsedBytes, Seen
    <3>2. Seen(globalWr) = Seen(writeOff) /\ idx = 0
      BY <1>1, <2>1 DEF RoundFits
    <3>3. ppc' = "rx" => budget' + Seen(writeOff) <= BufSize - 1
      BY <1>5, <1>7, <3>1, <3>2
    <3>4. Seen(globalWr)' <= Seen(writeOff)'
      BY <1>7, <2>3, <3>2
    <3> QED BY <2>1, <2>2, <2>3, <3>2, <3>3, <3>4 DEF RoundFits, Scanning
  <2>6. ListenersFit'
    <3>1. \A s : Pending(s)' = Pending(s)
      BY <2>1 DEF Pending
    <3>2. ASSUME NEW c \in Client
          PROVE  /\ Seen(wr[slot[c]])' = Seen(wr[slot[c]])
                 /\ Seen(rd[slot[c]])' = Seen(rd[slot[c]]) /\ Pending(slot[c])' = Pending(slot[c])
      BY <1>3, <2>1, <2>2 DEF Seen, Pending
    <3> QED BY <1>1, <1>4, <2>1, <2>3, <2>4, <3>2 DEF ListenersFit, Resetting, Scanning
  <2> QED BY <1>1, <2>5, <2>6
<1>11. CASE ResetWr
  <2>1. /\ ppc = "resetWr" /\ ppc' = "resetRd" /\ globalWr' = 0 /\ idx' = idx
    BY <1>11 DEF ResetWr
  <2>2. \A c \in Client : ~Holds(c)' /\ ~Live(c)'
    BY <1>1, <1>4, <2>1 DEF ListenersFit, Resetting
  <2> QED BY <1>1, <2>1, <2>2 DEF RoundFits, ListenersFit, Scanning
<1>12. CASE ResetRd
  <2>1. /\ ppc = "resetRd" /\ ppc' = "resetPopped" /\ globalRd' = 0 /\ idx' = idx
        /\ globalWr' = globalWr /\ writeOff' = writeOff
    BY <1>12 DEF ResetRd
  <2>2. \A c \in Client : ~Holds(c)' /\ ~Live(c)'
    BY <1>1, <1>4, <2>1 DEF ListenersFit, Resetting
  <2>3. globalWr = 0 /\ idx = 0
    BY <1>1, <2>1 DEF RoundFits
  <2>4. Distance(0, 0) = 0 /\ Distance(0, writeOff) >= 0
    BY <1>6, Sizes DEF Distance, Offset
  <2>5. Seen(globalWr)' <= Seen(writeOff)'
    BY <2>1, <2>3, <2>4 DEF Seen
  <2> QED BY <1>1, <2>1, <2>2, <2>3, <2>5 DEF RoundFits, ListenersFit, Scanning
<1>13. CASE ResetPopped
  <2>1. /\ ppc = "resetPopped" /\ ppc' = "scan" /\ globalRd' = globalRd /\ idx' = idx
        /\ globalWr' = globalWr /\ writeOff' = 0 /\ minDist' = BufSize + 1
    BY <1>13 DEF ResetPopped
  <2>2. \A c \in Client : ~Holds(c)' /\ ~Live(c)'
    BY <1>1, <1>4, <2>1 DEF ListenersFit, Resetting
  <2>3. globalWr = 0 /\ globalRd = 0
    BY <1>1, <2>1 DEF RoundFits
  <2>4. Distance(0, 0) = 0
    BY <1>6, Sizes DEF Distance, Offset
  <2>5. Seen(globalWr)' <= Seen(writeOff)'
    BY <2>1, <2>3, <2>4 DEF Seen
  <2> QED BY <1>1, <2>1, <2>2, <2>5 DEF RoundFits, ListenersFit, Scanning
<1>14. CASE RxFrame
  <2>1. /\ ppc = "rx" /\ ppc' = "rx" /\ budget >= FrameLen + RawHlen
        /\ writeOff' = (writeOff + FrameLen) % BufSize
        /\ budget' = budget - FrameLen - (FrameLen - RawHlen)
        /\ globalRd' = globalRd /\ globalWr' = globalWr /\ wr' = wr /\ idx' = idx
    BY <1>14 DEF RxFrame, slotVars
  <2>2. budget + Seen(writeOff) <= BufSize - 1 /\ Seen(globalWr) <= Seen(writeOff) /\ idx = 0
    BY <1>1, <2>1 DEF RoundFits
  <2>3. Distance(globalRd, writeOff) = Seen(writeOff) /\ Seen(writeOff) + FrameLen < BufSize
    BY <1>5, <1>6, <1>7, <2>1, <2>2 DEF Seen
  <2>4. Seen(writeOff)' = Seen(writeOff) + FrameLen
    BY <1>6, <2>1, <2>3, Further DEF Seen
  <2>5. Seen(globalWr)' = Seen(globalWr)
    BY <2>1 DEF Seen
  <2>6. budget' + Seen(writeOff)' <= BufSize - 1 /\ Seen(globalWr)' <= Seen(writeOff)'
    BY <1>5, <1>6, <1>7, <2>1, <2>2, <2>4, <2>5
  <2>7. RoundFits'
    BY <2>1, <2>2, <2>6 DEF RoundFits, Scanning
  <2>8. ASSUME NEW c \in Client
        PROVE  /\ Seen(wr[slot[c]])' = Seen(wr[slot[c]])
               /\ Seen(rd[slot[c]])' = Seen(rd[slot[c]]) /\ Pending(slot[c])' = Pending(slot[c])
    BY <1>3, <2>1 DEF Seen, Pending
  <2>9. ListenersFit'
    BY <1>1, <1>4, <2>1, <2>5, <2>8 DEF ListenersFit, Resetting, Scanning
  <2> QED BY <1>1, <2>7, <2>9
<1>15. CASE EndRx
  <2>1. /\ ppc = "rx" /\ ppc' = "scan" /\ minDist' = BufSize + 1
        /\ writeOff' = writeOff /\ globalRd' = globalRd /\ globalWr' = globalWr
        /\ wr' = wr /\ idx' = idx
    BY <1>15 DEF EndRx, slotVars, bufVars
  <2>2. Seen(globalWr)' = Seen(globalWr) /\ Seen(writeOff)' = Seen(writeOff) /\ idx = 0
    BY <1>1, <2>1 DEF Seen, RoundFits
  <2>3. RoundFits'
    BY <1>1, <2>1, <2>2 DEF RoundFits, Scanning
  <2>4. ASSUME NEW c \in Client
        PROVE  /\ Seen(wr[slot[c]])' = Seen(wr[slot[c]])
               /\ Seen(rd[slot[c]])' = Seen(rd[slot[c]]) /\ Pending(slot[c])' = Pending(slot[c])
               /\ ~(slot[c] < idx')
    <3>1. slot[c] \in Int /\ slot[c] >= 0
      BY <1>5, <1>8
    <3>2. ~(slot[c] < idx')
      BY <2>1, <2>2, <3>1
    <3> QED BY <1>3, <2>1, <3>2 DEF Seen, Pending
  <2>5. ListenersFit'
    BY <1>1, <1>3, <1>4, <2>1, <2>2, <2>4 DEF ListenersFit, Resetting, Scanning
  <2> QED BY <1>1, <2>3, <2>5
<1>16. CASE ScanId
  <2>1. /\ ppc = "scan" /\ idx \in Slot
        /\ \/ Registered(idx) /\ ppc' = "scanRd" /\ idx' = idx
           \/ ~Registered(idx) /\ ppc' = "scan" /\ idx' = idx + 1
        /\ writeOff' = writeOff /\ globalRd' = globalRd /\ globalWr' = globalWr
        /\ wr' = wr /\ minDist' = minDist
    BY <1>16 DEF ScanId, slotVars, bufVars
  <2>2. Seen(globalWr)' = Seen(globalWr) /\ Seen(writeOff)' = Seen(writeOff)
    BY <2>1 DEF Seen
  <2>3. RoundFits'
    BY <1>1, <2>1, <2>2 DEF RoundFits, Scanning
  <2>4. ASSUME NEW c \in Client
        PROVE  /\ Seen(wr[slot[c]])' = Seen(wr[slot[c]])
               /\ Seen(rd[slot[c]])' = Seen(rd[slot[c]]) /\ Pending(slot[c])' = Pending(slot[c])
    BY <1>3, <2>1 DEF Seen, Pending
  <2>5. ASSUME NEW c \in Client, Live(c), slot[c] < idx' PROVE minDist' <= Seen(rd[slot[c]])'
    <3>1. Registered(slot[c])
      BY <1>1, <1>4, <2>1, <2>5, LiveOwns
    <3>2. slot[c] < idx
      BY <1>5, <2>1, <2>5, <3>1
    <3>3. minDist <= Seen(rd[slot[c]])
      BY <1>1, <2>1, <2>5, <3>2 DEF ListenersFit, Scanning
    <3> QED BY <2>1, <2>4, <3>3
  <2>6. ppc' = "scanRd" => Registered(idx)'
    BY <1>3, <2>1 DEF Registered
  <2>7. ListenersFit'
    BY <1>1, <1>3, <1>4, <2>1, <2>2, <2>4, <2>5, <2>6 DEF ListenersFit, Resetting, Scanning
  <2> QED BY <1>1, <2>3, <2>7
<1>17. CASE ScanRd
  <2> DEFINE dist == Seen(rd[idx])
  <2>1. /\ ppc = "scanRd" /\ ppc' = "scan" /\ idx' = idx + 1
        /\ minDist' = IF dist < minDist THEN dist ELSE minDist
        /\ writeOff' = writeOff /\ globalRd' = globalRd /\ globalWr' = globalWr /\ wr' = wr
    BY <1>17 DEF ScanRd, slotVars, bufVars, Seen
  <2>2. Seen(globalWr)' = Seen(globalWr) /\ Seen(writeOff)' = Seen(writeOff)
    BY <2>1 DEF Seen
  <2>3. dist <= Seen(globalWr) /\ dist \in Int
    <3>1. Registered(idx) /\ idx \in Slot
      BY <1>1, <1>2, <2>1 DEF ListenersFit
    <3>2. id[idx] \in Client /\ Owns(id[idx]) /\ slot[id[idx]] = idx
      BY <1>2, <3>1 DEF SlotsFit, TypeOK, Registered
    <3>3. Live(id[idx])
      BY <3>2 DEF Owns, Live
    <3>4. Seen(rd[idx]) <= Seen(wr[idx]) /\ Seen(wr[idx]) + Pending(idx) = Seen(globalWr)
      BY <1>1, <1>4, <3>2, <3>3 DEF ListenersFit
    <3>5. Pending(idx) = 0 /\ Seen(wr[idx]) \in Int /\ Seen(rd[idx]) \in Int
      BY <1>5, <2>1, <3>1 DEF Pending
    <3> QED BY <3>4, <3>5
  <2> HIDE DEF dist
  <2>4. /\ minDist' = BufSize + 1 \/ minDist' <= Seen(globalWr)'
        /\ minDist' <= minDist /\ minDist' <= dist /\ minDist' \in Int
    BY <1>1, <1>5, <2>1, <2>2, <2>3 DEF RoundFits, Scanning
  <2>5. RoundFits'
    BY <1>1, <2>1, <2>2, <2>4 DEF RoundFits, Scanning
  <2>6. ASSUME NEW c \in Client
        PROVE  /\ Seen(wr[slot[c]])' = Seen(wr[slot[c]])
               /\ Seen(rd[slot[c]])' = Seen(rd[slot[c]]) /\ Pending(slot[c])' = Pending(slot[c])
    BY <1>3, <2>1 DEF Seen, Pending
  <2>7. ASSUME NEW c \in Client, Live(c), slot[c] < idx' PROVE minDist' <= Seen(rd[slot[c]])'
    <3>1. CASE slot[c] = idx
      BY <2>4, <2>6, <3>1 DEF dist
    <3>2. CASE slot[c] # idx
      <4>1. slot[c] < idx
        BY <1>5, <2>1, <2>7, <3>2
      <4>2. minDist <= Seen(rd[slot[c]])
        BY <1>1, <2>1, <2>7, <4>1 DEF ListenersFit, Scanning
      <4> QED BY <1>5, <1>8, <2>4, <2>6, <4>2
    <3> QED BY <3>1, <3>2
  <2>8. ListenersFit'
    BY <1>1, <1>3, <1>4, <2>1, <2>2, <2>6, <2>7 DEF ListenersFit, Resetting, Scanning
  <2> QED BY <1>1, <2>5, <2>8
<1>18. CASE PopGlobal
  <2>1. /\ ppc = "scan" /\ idx = MaxListeners /\ idx' = 0 /\ minDist' = 0
        /\ globalRd' = IF minDist <= BufSize THEN (globalRd + minDist) % BufSize ELSE globalRd
        /\ newBytes' = Distance(globalWr, writeOff)
        /\ ppc' = IF newBytes' > 0 THEN "pushGlobal" ELSE "count"
        /\ writeOff' = writeOff /\ globalWr' = globalWr /\ wr' = wr
    BY <1>18 DEF PopGlobal, slotVars
  <2> DEFINE d == IF minDist <= BufSize THEN minDist ELSE 0
  <2>2. d \in Int /\ 0 <= d /\ d <= Seen(globalWr)
    BY <1>1, <1>5, <1>7, <2>1 DEF RoundFits, Scanning
  <2>3. \A c \in Client : Live(c) => d <= Seen(rd[slot[c]])
    BY <1>1, <1>5, <1>8, <2>1 DEF ListenersFit, Scanning
  <2>4. ASSUME NEW o \in Offset, d <= Seen(o) PROVE Distance(globalRd', o) = Seen(o) - d
    <3>1. CASE minDist <= BufSize
      <4>1. Distance(globalRd, globalRd) = 0
        BY <1>6, Sizes DEF Distance, Offset
      <4>2. d \in Nat /\ Distance(globalRd, globalRd) + d < BufSize /\ d = minDist
        BY <1>5, <1>7, <2>2, <3>1, <4>1
      <4>3. globalRd' \in Offset /\ Distance(globalRd, globalRd') = d
        BY <1>6, <2>1, <3>1, <4>1, <4>2, Further
      <4>4. Distance(globalRd, globalRd') <= Distance(globalRd, o)
        BY <2>4, <4>3 DEF Seen
      <4>5. Distance(globalRd', o) = Distance(globalRd, o) - Distance(globalRd, globalRd')
        BY <1>6, <4>3, <4>4, SeenFrom
      <4> QED BY <4>3, <4>5 DEF Seen
    <3>2. CASE ~(minDist <= BufSize)
      <4>1. globalRd' = globalRd /\ d = 0
        BY <2>1, <3>2
      <4>2. Seen(o) \in Int
        BY <1>5
      <4> QED BY <4>1, <4>2 DEF Seen
    <3> QED BY <3>1, <3>2
  <2> HIDE DEF d
  <2>5. Seen(globalWr) <= Seen(writeOff)
    BY <1>1, <2>1 DEF RoundFits
  <2>6. Seen(globalWr)' = Seen(globalWr) - d /\ Seen(writeOff)' = Seen(writeOff) - d
    <3>1. d <= Seen(writeOff)
      BY <1>7, <2>2, <2>5
    <3> QED BY <1>6, <2>1, <2>2, <2>4, <3>1 DEF Seen
  <2>7. newBytes' = Seen(writeOff) - Seen(globalWr)
    BY <1>6, <2>1, <2>5, SeenFrom DEF Seen
  <2>8. ppc' = "count" => globalWr = writeOff
    <3> SUFFICES ASSUME ppc' = "count" PROVE globalWr = writeOff
      OBVIOUS
    <3>1. Seen(writeOff) = Seen(globalWr)
      BY <1>7, <2>1, <2>5, <2>7
    <3> QED BY <1>6, <3>1, SeenFrom DEF Seen
  <2>9. RoundFits'
    <3>1. Seen(globalWr)' <= Seen(writeOff)' /\ Seen(globalWr)' + newBytes' = Seen(writeOff)'
      BY <1>7, <2>2, <2>5, <2>6, <2>7
    <3> QED BY <2>1, <2>8, <3>1 DEF RoundFits, Scanning
  <2>10. ASSUME NEW c \in Client, Holds(c)
         PROVE  /\ Live(c) /\ Pending(slot[c])' = 0
                /\ Seen(wr[slot[c]])' = Seen(wr[slot[c]]) - d
                /\ Seen(rd[slot[c]])' = Seen(rd[slot[c]]) - d
                /\ Seen(wr[slot[c]]) = Seen(globalWr)
                /\ Seen(rd[slot[c]]) <= Seen(wr[slot[c]])
    <3>1. Live(c)
      BY <1>1, <2>1, <2>10, LiveOwns
    <3>2. Pending(slot[c])' = 0 /\ Pending(slot[c]) = 0
      BY <2>1 DEF Pending
    <3>3. Seen(wr[slot[c]]) = Seen(globalWr) /\ Seen(rd[slot[c]]) <= Seen(wr[slot[c]])
      BY <1>1, <1>8, <2>10, <3>1, <3>2 DEF ListenersFit
    <3>4. wr[slot[c]] \in Offset /\ rd[slot[c]] \in Offset
      BY <1>5
    <3>5. d <= Seen(rd[slot[c]]) /\ d <= Seen(wr[slot[c]])
      BY <2>2, <2>3, <3>1, <3>3
    <3>6. Seen(wr[slot[c]])' = Distance(globalRd', wr[slot[c]])
          /\ Seen(rd[slot[c]])' = Distance(globalRd', rd[slot[c]])
      BY <1>3, <2>1 DEF Seen
    <3> QED BY <2>4, <3>1, <3>2, <3>3, <3>4, <3>5, <3>6
  <2>11. ListenersFit'
    <3>1. ASSUME NEW c \in Client, Holds(c)
          PROVE  /\ Seen(wr[slot[c]])' + Pending(slot[c])' = Seen(globalWr)'
                 /\ Seen(rd[slot[c]])' <= Seen(wr[slot[c]])'
      BY <1>7, <1>8, <2>2, <2>6, <2>10, <3>1
    <3> QED BY <1>4, <2>1, <3>1 DEF ListenersFit, Resetting, Scanning
  <2> QED BY <1>1, <2>9, <2>11
<1>19. CASE PushGlobal
  <2>1. /\ ppc = "pushGlobal" /\ ppc' = "push" /\ idx' = idx /\ newBytes' = newBytes
        /\ globalWr' = Pushed(globalRd, globalWr, newBytes)
        /\ writeOff' = writeOff /\ globalRd' = globalRd /\ wr' = wr
    BY <1>19 DEF PushGlobal, slotVars
  <2>2. Seen(globalWr) + newBytes = Seen(writeOff) /\ idx = 0
    BY <1>1, <2>1 DEF RoundFits
  <2>3. AvailBytes(globalRd, globalWr) = (BufSize - Seen(globalWr)) - 1
    BY DEF AvailBytes, UsedBytes, Seen
  <2>4. ~(AvailBytes(globalRd, globalWr) < newBytes)
    BY <1>5, <1>7, <2>2, <2>3
  <2>5. globalWr' = (globalWr + newBytes) % BufSize
    BY <2>1, <2>4 DEF Pushed
  <2>6. newBytes \in Nat /\ Distance(globalRd, globalWr) + newBytes < BufSize
    BY <1>5, <1>7, <2>2 DEF Seen
  <2>7. globalWr' \in Offset /\ Seen(globalWr') = Seen(globalWr) + newBytes
    BY <1>6, <2>5, <2>6, Further DEF Seen
  <2>8. globalWr' = writeOff
    BY <1>6, <2>2, <2>7, SeenFrom DEF Seen
  <2>9. Seen(globalWr)' = Seen(writeOff) /\ Seen(writeOff)' = Seen(writeOff)
    BY <2>1, <2>8 DEF Seen
  <2>10. RoundFits'
    BY <1>7, <2>1, <2>8, <2>9 DEF RoundFits, Scanning
  <2>11. ASSUME NEW c \in Client
         PROVE  /\ Seen(wr[slot[c]])' = Seen(wr[slot[c]]) /\ Seen(rd[slot[c]])' = Seen(rd[slot[c]])
                /\ Pending(slot[c])' = newBytes /\ Pending(slot[c]) = 0
    BY <1>3, <1>8, <2>1, <2>2 DEF Seen, Pending
  <2>12. ASSUME NEW c \in Client, Holds(c)
         PROVE  Seen(wr[slot[c]])' + Pending(slot[c])' = Seen(globalWr)'
    <3>1. Seen(wr[slot[c]]) = Seen(globalWr)
      BY <1>1, <1>8, <2>11, <2>12 DEF ListenersFit
    <3> QED BY <2>2, <2>9, <2>11, <3>1
  <2>13. ListenersFit'
    BY <1>1, <1>4, <2>1, <2>11, <2>12 DEF ListenersFit, Resetting, Scanning
  <2> QED BY <1>1, <2>10, <2>13
<1>20. CASE PushSlot
  <2>1. /\ ppc = "push" /\ idx \in Slot
        /\ wr' = IF Registered(idx)
                 THEN [wr EXCEPT ![idx] = Pushed(rd[idx], wr[idx], newBytes)] ELSE wr
        /\ \/ idx + 1 = MaxListeners /\ ppc' = "count" /\ idx' = 0 /\ newBytes' = 0
           \/ idx + 1 # MaxListeners /\ ppc' = "push" /\ idx' = idx + 1 /\ newBytes' = newBytes
        /\ writeOff' = writeOff /\ globalRd' = globalRd /\ globalWr' = globalWr
    BY <1>20 DEF PushSlot, bufVars
  <2>2. globalWr = writeOff /\ Seen(globalWr) <= Seen(writeOff)
    BY <1>1, <2>1 DEF RoundFits
  <2>3. Seen(globalWr)' = Seen(globalWr) /\ Seen(writeOff)' = Seen(writeOff)
    BY <2>1 DEF Seen
  <2>4. RoundFits'
    BY <2>1, <2>2, <2>3 DEF RoundFits, Scanning
  <2>5. ASSUME NEW c \in Client, Holds(c)
        PROVE  /\ Seen(wr[slot[c]])' + Pending(slot[c])' = Seen(globalWr)'
               /\ Seen(rd[slot[c]])' <= Seen(wr[slot[c]])'
    <3>1. Live(c) /\ Registered(slot[c])
      BY <1>1, <2>1, <2>5, LiveOwns
    <3>2. /\ Seen(wr[slot[c]]) + Pending(slot[c]) = Seen(globalWr)
          /\ Seen(rd[slot[c]]) <= Seen(wr[slot[c]])
      BY <1>1, <2>5, <3>1 DEF ListenersFit
    <3>3. Seen(rd[slot[c]])' = Seen(rd[slot[c]])
      BY <1>3, <2>1 DEF Seen
    <3>4. CASE slot[c] = idx
      <4> DEFINE r == rd[idx]
                 w == wr[idx]
      <4>1. Pending(slot[c]) = newBytes /\ Pending(slot[c])' = 0
        BY <1>3, <1>5, <2>1, <3>4, Sizes DEF Pending
      <4>2. r \in Offset /\ w \in Offset /\ Seen(w) + newBytes = Seen(globalWr) /\ Seen(r) <= Seen(w)
        BY <1>5, <2>1, <3>2, <3>4, <4>1
      <4>3. wr'[idx] = Pushed(r, w, newBytes)
        BY <1>2, <2>1, <3>1, <3>4 DEF TypeOK
      <4> HIDE DEF r, w
      <4>4. Distance(r, w) = Seen(w) - Seen(r) /\ Seen(w) \in Int /\ Seen(r) \in Int /\ Seen(r) >= 0
        <5>1. Seen(w) \in Offset /\ Seen(r) \in Offset
          BY <1>5, <4>2
        <5>2. Seen(w) \in Int /\ Seen(r) \in Int /\ Seen(r) >= 0
          BY <1>5, <4>2, <5>1
        <5>3. Distance(globalRd, r) <= Distance(globalRd, w)
          BY <4>2 DEF Seen
        <5>4. Distance(r, w) = Distance(globalRd, w) - Distance(globalRd, r)
          BY <1>6, <4>2, <5>3, SeenFrom
        <5> QED BY <5>2, <5>4 DEF Seen
      <4>5. AvailBytes(r, w) = (BufSize - (Seen(w) - Seen(r))) - 1
        BY <4>4 DEF AvailBytes, UsedBytes
      <4>6. ~(AvailBytes(r, w) < newBytes)
        BY <1>5, <1>7, <4>2, <4>4, <4>5
      <4>7. wr'[idx] = (w + newBytes) % BufSize
        BY <4>3, <4>6 DEF Pushed
      <4>8. newBytes \in Nat /\ Distance(globalRd, w) + newBytes < BufSize
        BY <1>5, <1>7, <4>2, <4>4 DEF Seen
      <4>9. Seen(wr'[idx]) = Seen(w) + newBytes
        BY <1>6, <4>2, <4>7, <4>8, Further DEF Seen
      <4>10. Seen(wr[slot[c]])' = Seen(wr'[idx])
        BY <1>3, <2>1, <3>4 DEF Seen
      <4> QED BY <1>5, <1>7, <2>3, <3>3, <3>4, <4>1, <4>2, <4>4, <4>9, <4>10 DEF r
    <3>5. CASE slot[c] # idx
      <4>1. wr'[slot[c]] = wr[slot[c]]
        BY <1>2, <1>5, <2>1, <3>5 DEF TypeOK
      <4>2. Seen(wr[slot[c]])' = Seen(wr[slot[c]])
        BY <1>3, <2>1, <4>1 DEF Seen
      <4>3. Pending(slot[c])' = Pending(slot[c])
        BY <1>3, <1>5, <1>6, <1>8, <2>1, <3>5 DEF Pending
      <4> QED BY <2>3, <3>2, <3>3, <4>2, <4>3
    <3> QED BY <3>4, <3>5
  <2>6. ListenersFit'
    BY <1>4, <2>1, <2>5 DEF ListenersFit, Resetting, Scanning
  <2> QED BY <1>1, <2>4, <2>6
<1> QED BY <1>10, <1>11, <1>12, <1>13, <1>14, <1>15, <1>16, <1>17, <1>18, <1>19, <1>20 DEF Poll

\* A slot that is given up is not taken before its client is gone.
LEMMA UnnamedKept ==
  ASSUME ListenersInv, UnnamedFree, NEW c \in Client, ClientStep(c)
  PROVE  UnnamedFree'
<1>1. /\ LockHeldOnce /\ SlotsFit /\ id \in [Slot -> Client \cup {NoClient}]
      /\ cpc \in [Client -> Labels] /\ slot \in [Client -> Slot] /\ NoClient \notin Client
  BY ListenersAssumption DEF ListenersInv, TypeOK, Labels
<1> SUFFICES ASSUME NEW d \in Client, cpc'[d] = "unnamed" PROVE ~Registered(slot[d])'
  BY DEF UnnamedFree
<1> USE DEF slotVars
<1>2. CASE ClearId(c) /\ d = c
  BY <1>1, <1>2 DEF ClearId, Registered
<1>3. CASE ~(ClearId(c) /\ d = c)
  <2>1. cpc[d] = "unnamed" /\ d # c
    BY <1>1, <1>3 DEF ClientStep, Open, PlaceRd, SetId, IncCount, MarkPopped, Pop, ClearId,
                      ClearOffsets, DecCount
  <2>2. cpc[c] \notin Adding \cup Deleting /\ cpc[c] # "placed"
    BY <1>1, <2>1 DEF LockHeldOnce, Adding, Deleting
  <2>3. slot'[d] = slot[d] /\ \A s \in Slot : id'[s] = id[s] \/ id'[s] = NoClient
    BY <1>1, <2>1, <2>2 DEF ClientStep, Open, PlaceRd, SetId, IncCount, MarkPopped, Pop, ClearId,
                      ClearOffsets, DecCount, Adding, Deleting
  <2>4. ~Registered(slot[d]) /\ slot[d] \in Slot
    BY <1>1, <2>1 DEF UnnamedFree
  <2> QED BY <2>3, <2>4 DEF Registered
<1> QED BY <1>2, <1>3

\* What a client that opens, acknowledges or closes leaves of its own offsets,
\* and that it touches nobody else's.
LEMMA ClientKeepsOffsets ==
  ASSUME OffsetsInv, NEW c \in Client, ClientStep(c), RememberOverlap, ~raced'
  PROVE  ~Overlap' /\ RoundFits' /\ ListenersFit'
<1>1. ~raced /\ ~Overlap' /\ ~Overlap /\ RoundFits /\ ListenersFit /\ ListenersInv /\ UnnamedFree
  BY DEF OffsetsInv, RememberOverlap
<1>2. /\ TypeOK /\ SlotsFit /\ LockHeldOnce /\ NoClient \notin Client
      /\ id \in [Slot -> Client \cup {NoClient}] /\ cpc \in [Client -> Labels]
      /\ slot \in [Client -> Slot] /\ rd \in [Slot -> Offset] /\ wr \in [Slot -> Offset]
      /\ globalRd \in Offset /\ globalWr \in Offset
  BY <1>1, ListenersAssumption DEF ListenersInv, TypeOK, Labels
<1>3. /\ writeOff' = writeOff /\ globalRd' = globalRd /\ globalWr' = globalWr /\ ppc' = ppc
      /\ budget' = budget /\ idx' = idx /\ minDist' = minDist /\ newBytes' = newBytes
  BY DEF ClientStep, Open, PlaceRd, SetId, IncCount, MarkPopped, Pop, ClearId,
         ClearOffsets, DecCount, bufVars, pollVars
<1>4. /\ \A o \in Offset : Seen(o) \in Offset
      /\ Offset \subseteq Int /\ BufSize \in Int
      /\ \A o \in Offset : 0 <= Seen(o) /\ Seen(o) <= BufSize - 1
  BY <1>2, SeenTypes
<1>5. RoundFits'
  <2>1. Seen(globalWr)' = Seen(globalWr) /\ Seen(writeOff)' = Seen(writeOff)
    BY <1>3 DEF Seen
  <2> QED BY <1>1, <1>3, <2>1 DEF RoundFits, Scanning
<1> DEFINE Fits(d) ==
      /\ Resetting => ~Holds(d)
      /\ Holds(d) => Seen(wr[slot[d]]) + Pending(slot[d]) = Seen(globalWr)
      /\ Live(d) => Seen(rd[slot[d]]) <= Seen(wr[slot[d]])
      /\ Scanning /\ Live(d) /\ slot[d] < idx => minDist <= Seen(rd[slot[d]])
<1>6. \A d \in Client : Fits(d)
  BY <1>1 DEF ListenersFit
<1>7. ASSUME NEW d \in Client,
             Holds(d)' => /\ Holds(d) /\ (Live(d)' => Live(d)) /\ slot'[d] = slot[d]
                          /\ rd'[slot[d]] = rd[slot[d]] /\ wr'[slot[d]] = wr[slot[d]]
      PROVE  Fits(d)'
  <2>1. CASE ~Holds(d)'
    BY <2>1 DEF Holds
  <2>2. CASE Holds(d)'
    <3>1. /\ Holds(d) /\ (Live(d)' => Live(d)) /\ slot'[d] = slot[d]
          /\ rd'[slot[d]] = rd[slot[d]] /\ wr'[slot[d]] = wr[slot[d]]
      BY <1>7, <2>2
    <3>2. /\ Seen(wr[slot[d]])' = Seen(wr[slot[d]]) /\ Seen(rd[slot[d]])' = Seen(rd[slot[d]])
          /\ Pending(slot[d])' = Pending(slot[d]) /\ Seen(globalWr)' = Seen(globalWr)
          /\ (Resetting' <=> Resetting) /\ (Scanning' <=> Scanning)
      BY <1>3, <3>1 DEF Seen, Pending, Resetting, Scanning
    <3>3. Fits(d)
      BY <1>6
    <3> QED BY <1>3, <3>1, <3>2, <3>3
  <2> QED BY <2>1, <2>2
<1>8. \A d \in Client : Live(d) => Holds(d)
  BY DEF Holds
<1>9. ppc \notin {"count", "rx"} => cpc'[c] \notin Adding
  BY <1>1, <1>3 DEF Overlap
<1>10. ppc = "scanRd" => cpc'[c] \notin Deleting
  BY <1>1, <1>3 DEF Overlap
<1>11. /\ ppc = "scanRd" => Registered(idx) /\ idx \in Slot
       /\ \A s \in Slot : Pending(s) \in Int
  BY <1>1, <1>2, SeenTypes DEF ListenersFit, ListenersInv, Pending
<1> HIDE DEF Fits
<1> SUFFICES (\A d \in Client : Fits(d)') /\ (ppc = "scanRd" => Registered(idx)')
  BY <1>1, <1>3, <1>5 DEF ListenersFit, Fits
<1>20. CASE Open(c)
  <2>1. PICK s \in Slot : /\ ~Registered(s) /\ slot' = [slot EXCEPT ![c] = s]
                          /\ wr' = [wr EXCEPT ![s] = globalWr]
    BY <1>20 DEF Open
  <2>2. /\ cpc[c] = "closed" /\ LockFree /\ cpc' = [cpc EXCEPT ![c] = "adding"]
        /\ id' = id /\ rd' = rd
    BY <1>20 DEF Open
  <2>3. cpc'[c] = "adding" /\ slot'[c] = s /\ wr'[s] = globalWr
    BY <1>2, <2>1, <2>2
  <2>4. ASSUME NEW d \in Client, d # c PROVE Fits(d)'
    <3>1. cpc'[d] = cpc[d] /\ slot'[d] = slot[d] /\ cpc[d] \notin Adding
      BY <1>2, <2>1, <2>2, <2>4 DEF LockFree
    <3>2. Holds(d) => slot[d] # s
      BY <1>2, <2>1, <3>1 DEF SlotsFit, Owns, Registered, Holds, Live, Adding
    <3>3. Holds(d) => wr'[slot[d]] = wr[slot[d]]
      BY <1>2, <2>1, <3>2
    <3> QED BY <1>7, <2>2, <3>1, <3>3 DEF Holds, Live
  <2>5. Fits(c)'
    <3>1. ppc \in {"count", "rx"}
      BY <1>9, <2>3 DEF Adding
    <3>2. ~Live(c)' /\ Pending(slot[c])' = 0
      BY <1>3, <2>3, <3>1 DEF Live, Pending
    <3>3. Seen(wr[slot[c]])' = Seen(globalWr)' /\ Seen(globalWr)' \in Int
      BY <1>2, <1>3, <1>4, <2>3 DEF Seen
    <3> QED BY <1>3, <3>1, <3>2, <3>3 DEF Fits, Resetting
  <2>6. Registered(idx)' <=> Registered(idx)
    BY <1>3, <2>2 DEF Registered
  <2> QED BY <1>11, <2>4, <2>5, <2>6
<1>21. CASE PlaceRd(c)
  <2>1. /\ cpc[c] = "adding" /\ cpc' = [cpc EXCEPT ![c] = "placed"]
        /\ id' = id /\ wr' = wr /\ slot' = slot
        /\ rd' = [rd EXCEPT ![slot[c]] = IF count = 0 \/ ~popped THEN globalRd ELSE globalWr]
    BY <1>21 DEF PlaceRd
  <2>2. cpc'[c] = "placed" /\ slot[c] \in Slot /\ rd'[slot[c]] \in {globalRd, globalWr}
    BY <1>2, <2>1
  <2>3. ASSUME NEW d \in Client, d # c PROVE Fits(d)'
    <3>1. cpc'[d] = cpc[d]
      BY <1>2, <2>1, <2>3
    <3>2. Holds(c)
      BY <2>1 DEF Holds
    <3>3. Holds(d) => slot[d] # slot[c]
      BY <1>1, <2>3, <3>2, HeldOnce
    <3>4. Holds(d) => rd'[slot[d]] = rd[slot[d]]
      BY <1>2, <2>1, <3>3
    <3> QED BY <1>7, <2>1, <3>1, <3>4 DEF Holds, Live
  <2>4. Fits(c)'
    <3>1. ppc \in {"count", "rx"}
      BY <1>9, <2>2 DEF Adding
    <3>2. Pending(slot[c])' = 0 /\ Pending(slot[c]) = 0
      BY <1>3, <3>1 DEF Pending
    <3>3. Holds(c) /\ Fits(c)
      BY <1>6, <2>1 DEF Holds
    <3>a. wr[slot[c]] \in Offset /\ Seen(wr[slot[c]]) \in Int
      BY <1>2, <1>4, <2>2
    <3>b. Seen(globalWr) \in Int /\ Seen(globalWr) >= 0
      BY <1>2, <1>4
    <3>4. Seen(wr[slot[c]]) = Seen(globalWr)
      <4>1. Seen(wr[slot[c]]) + 0 = Seen(globalWr)
        BY <3>2, <3>3 DEF Fits
      <4> QED BY <3>a, <4>1
    <3>5. Distance(globalRd, globalRd) = 0
      BY <1>2, Sizes DEF Distance, Offset
    <3>6. Seen(rd'[slot[c]]) <= Seen(globalWr)
      <4>1. Seen(globalRd) = 0
        BY <3>5 DEF Seen
      <4> QED BY <2>2, <3>b, <4>1
    <3>7. /\ Seen(wr[slot[c]])' = Seen(globalWr) /\ Seen(globalWr)' = Seen(globalWr)
          /\ Seen(rd[slot[c]])' = Seen(rd'[slot[c]])
      BY <1>3, <2>1, <3>4 DEF Seen
    <3>8. ~Resetting' /\ ~Scanning'
      BY <1>3, <3>1 DEF Resetting, Scanning
    <3>9. Seen(wr[slot[c]])' + Pending(slot[c])' = Seen(globalWr)'
      BY <3>2, <3>7, <3>b
    <3>10. Seen(rd[slot[c]])' <= Seen(wr[slot[c]])'
      BY <3>6, <3>7
    <3> QED BY <3>8, <3>9, <3>10 DEF Fits
  <2>5. Registered(idx)' <=> Registered(idx)
    BY <1>3, <2>1 DEF Registered
  <2> QED BY <1>11, <2>3, <2>4, <2>5
<1>22. CASE SetId(c) \/ IncCount(c) \/ MarkPopped(c) \/ ClearId(c) \/ DecCount(c)
  <2>1. /\ rd' = rd /\ wr' = wr /\ slot' = slot
        /\ \A d \in Client : (Live(d)' => Live(d)) /\ (Holds(d)' => Holds(d))
    <3>1. rd' = rd /\ wr' = wr /\ slot' = slot
      BY <1>22 DEF SetId, IncCount, MarkPopped, ClearId, DecCount, slotVars
    <3>2. ASSUME NEW d \in Client PROVE (Live(d)' => Live(d)) /\ (Holds(d)' => Holds(d))
      <4>1. \/ cpc'[d] = cpc[d]
            \/ cpc[d] \in {"placed", "named", "open"} /\ cpc'[d] \in Labels \ {"adding"}
            \/ cpc'[d] = "closed"
        BY <1>2, <1>22 DEF SetId, IncCount, MarkPopped, ClearId, DecCount, Labels, Adding, Deleting
      <4> QED BY <4>1 DEF Live, Holds
    <3> QED BY <3>1, <3>2
  <2>2. \A d \in Client : Fits(d)'
    BY <1>7, <2>1
  <2>3. ppc = "scanRd" => Registered(idx)'
    <3> SUFFICES ASSUME ppc = "scanRd" PROVE Registered(idx)'
      OBVIOUS
    <3>1. ~ClearId(c)
      BY <1>2, <1>10 DEF ClearId, Deleting
    <3>2. id' = id \/ id' = [id EXCEPT ![slot[c]] = c]
      BY <1>22, <3>1 DEF SetId, IncCount, MarkPopped, DecCount, slotVars
    <3> QED BY <1>2, <1>3, <1>11, <3>2 DEF Registered
  <2> QED BY <2>2, <2>3
<1>23. ASSUME NEW n \in 1 .. BufSize, Pop(c, n)
       PROVE  (\A d \in Client : Fits(d)') /\ (ppc = "scanRd" => Registered(idx)')
  <2> DEFINE s == slot[c]
             used == UsedBytes(rd[s], wr[s])
             k == IF used < n THEN used ELSE n
  <2>1. /\ cpc[c] \in {"open", "acking"} /\ cpc' = [cpc EXCEPT ![c] = "open"]
        /\ id' = id /\ wr' = wr /\ slot' = slot
        /\ rd' = [rd EXCEPT ![s] = (rd[s] + k) % BufSize]
    BY <1>23 DEF Pop
  <2>2. cpc'[c] = "open" /\ s \in Slot /\ rd'[s] = (rd[s] + k) % BufSize /\ Live(c) /\ Holds(c)
    BY <1>2, <2>1 DEF Live, Holds
  <2>3. rd[s] \in Offset /\ wr[s] \in Offset /\ Seen(rd[s]) <= Seen(wr[s])
    BY <1>2, <1>6, <2>2 DEF Fits
  <2>4. ASSUME NEW d \in Client, d # c PROVE Fits(d)'
    <3>1. cpc'[d] = cpc[d]
      BY <1>2, <2>1, <2>4
    <3>2. Holds(d) => slot[d] # s
      BY <1>1, <2>2, <2>4, HeldOnce
    <3>3. Holds(d) => rd'[slot[d]] = rd[slot[d]]
      BY <1>2, <2>1, <3>2
    <3> QED BY <1>7, <2>1, <3>1, <3>3 DEF Holds, Live
  <2>5. used = Seen(wr[s]) - Seen(rd[s])
    BY <1>2, <2>3, SeenFrom DEF UsedBytes, Seen
  <2>6. /\ Seen(wr[s]) \in Int /\ Seen(rd[s]) \in Int /\ Seen(rd[s]) >= 0
        /\ Seen(wr[s]) <= BufSize - 1
    BY <1>4, <2>3
  <2> HIDE DEF used
  <2>7. k \in Nat /\ Seen(rd[s]) + k <= Seen(wr[s])
    BY <1>4, <2>3, <2>5, <2>6
  <2> HIDE DEF k
  <2>8. Seen(rd'[s]) = Seen(rd[s]) + k
    <3>1. Distance(globalRd, rd[s]) + k < BufSize
      BY <1>4, <2>6, <2>7 DEF Seen
    <3> QED BY <1>2, <2>2, <2>3, <2>7, <3>1, Further DEF Seen
  <2>9. Fits(c)'
    <3>1. Fits(c)
      BY <1>6
    <3>2. /\ Seen(wr[slot[c]])' = Seen(wr[s]) /\ Seen(globalWr)' = Seen(globalWr)
          /\ Seen(rd[slot[c]])' = Seen(rd[s]) + k /\ Pending(slot[c])' = Pending(s)
          /\ slot'[c] = s
      BY <1>3, <2>1, <2>8 DEF Seen, Pending
    <3>3. /\ Resetting' <=> Resetting
          /\ Scanning' <=> Scanning
      BY <1>3 DEF Resetting, Scanning
    <3>4. Seen(rd[s]) <= Seen(rd[s]) + k
      BY <2>6, <2>7
    <3>5. minDist \in Int
      BY <1>2, SeenTypes
    <3>6. minDist <= Seen(rd[s]) => minDist <= Seen(rd[s]) + k
      BY <2>6, <2>7, <3>5
    <3> QED BY <1>3, <2>2, <2>7, <3>1, <3>2, <3>3, <3>6 DEF Fits
  <2>10. Registered(idx)' <=> Registered(idx)
    BY <1>3, <2>1 DEF Registered
  <2> QED BY <1>11, <2>4, <2>9, <2>10
<1>24. CASE ClearOffsets(c)
  <2>1. /\ cpc[c] = "unnamed" /\ cpc' = [cpc EXCEPT ![c] = "cleared"] /\ id' = id
        /\ slot' = [slot EXCEPT ![c] = 0] /\ wr' = [wr EXCEPT ![slot[c]] = 0]
        /\ rd' = [rd EXCEPT ![slot[c]] = 0]
    BY <1>24 DEF ClearOffsets
  <2>2. cpc'[c] = "cleared" /\ ~Registered(slot[c])
    BY <1>1, <1>2, <2>1 DEF UnnamedFree
  <2>3. ASSUME NEW d \in Client, d # c PROVE Fits(d)'
    <3>1. cpc'[d] = cpc[d] /\ slot'[d] = slot[d] /\ cpc[d] \notin Adding
      BY <1>2, <2>1, <2>3 DEF LockHeldOnce, Adding, Deleting
    <3>2. Holds(d) => slot[d] # slot[c]
      BY <1>2, <2>2, <3>1 DEF SlotsFit, Owns, Registered, Holds, Live, Adding
    <3>3. Holds(d) => wr'[slot[d]] = wr[slot[d]] /\ rd'[slot[d]] = rd[slot[d]]
      BY <1>2, <2>1, <3>2
    <3> QED BY <1>7, <3>1, <3>3 DEF Holds, Live
  <2>4. ~Holds(c)'
    BY <2>2 DEF Holds, Live
  <2>5. Fits(c)'
    BY <1>7, <2>4
  <2>6. Registered(idx)' <=> Registered(idx)
    BY <1>3, <2>1 DEF Registered
  <2> QED BY <1>11, <2>3, <2>5, <2>6
<1> QED BY <1>20, <1>21, <1>22, <1>23, <1>24 DEF ClientStep

\* Every step keeps the offsets in their place unless it overlaps.
LEMMA OffsetsStep == OffsetsInv /\ [Next]_vars => OffsetsInv'
<1> SUFFICES ASSUME OffsetsInv, [Next]_vars PROVE OffsetsInv'
  OBVIOUS
<1>1. ListenersInv /\ UnnamedFree /\ ListenersInv'
  BY ListenersStep DEF OffsetsInv
<1>2. CASE Poll /\ RememberOverlap
  <2>1. id' = id /\ cpc' = cpc /\ slot' = slot
    BY <1>2 DEF Poll, ReadCount, ResetWr, ResetRd, ResetPopped, RxFrame, EndRx, ScanId, ScanRd,
                PopGlobal, PushGlobal, PushSlot, slotVars, clientVars
  <2>2. UnnamedFree'
    BY <1>1, <2>1 DEF UnnamedFree, Registered
  <2> QED BY <1>1, <1>2, <2>2, PollKeepsOffsets DEF OffsetsInv
<1>3. ASSUME NEW c \in Client, ClientStep(c), RememberOverlap PROVE OffsetsInv'
  BY <1>1, <1>3, UnnamedKept, ClientKeepsOffsets DEF OffsetsInv
<1>4. CASE UNCHANGED vars
  <2>1. UnnamedFree'
    BY <1>1, <1>4 DEF vars, slotVars, clientVars, UnnamedFree, Registered
  <2>2. ~raced' => ~Overlap' /\ RoundFits' /\ ListenersFit'
    BY <1>4 DEF OffsetsInv, vars, bufVars, slotVars, pollVars, clientVars, Overlap, RoundFits,
                ListenersFit, Seen, Pending, Live, Holds, Resetting, Scanning, Registered
  <2> QED BY <1>1, <2>1, <2>2 DEF OffsetsInv
<1> QED BY <1>2, <1>3, <1>4 DEF Next

-----------------------------------------------------------------------------
\* Between two rounds every reading client has the global write offset, and the
\* global read offset is not ahead of any, for any number of clients, unless one
\* was added or deleted in the middle of the unlocked updates.
THEOREM OffsetsStayInStep == Spec => []OffsetsAgreeUnlessRaced
<1>1. OffsetsInv => OffsetsAgreeUnlessRaced
  <2> SUFFICES ASSUME OffsetsInv, ~raced, ppc \in {"count", "rx"}, NEW c \in Client, IsOpen(c)
               PROVE  /\ wr[slot[c]] = globalWr
                      /\ Distance(globalRd, rd[slot[c]]) <= Distance(globalRd, globalWr)
    BY DEF OffsetsAgreeUnlessRaced, FollowsGlobal, GlobalNotAhead, Reading
  <2>1. Live(c) /\ Holds(c) /\ ListenersFit /\ TypeOK
    BY DEF IsOpen, Live, Holds, OffsetsInv, ListenersInv
  <2>2. Pending(slot[c]) = 0
    BY DEF Pending
  <2>3. /\ Seen(wr[slot[c]]) + 0 = Seen(globalWr)
        /\ Seen(rd[slot[c]]) <= Seen(wr[slot[c]])
    BY <2>1, <2>2 DEF ListenersFit
  <2>4. globalRd \in Offset /\ globalWr \in Offset /\ wr[slot[c]] \in Offset
    BY <2>1 DEF TypeOK
  <2>5. Seen(wr[slot[c]]) \in Int
    BY <2>1, <2>4, SeenTypes
  <2>6. Seen(wr[slot[c]]) = Seen(globalWr)
    BY <2>3, <2>5
  <2>7. wr[slot[c]] = globalWr
    BY <2>4, <2>6, SeenFrom DEF Seen
  <2> QED BY <2>3, <2>6, <2>7 DEF Seen
<1> QED BY OffsetsInit, OffsetsStep, <1>1, PTL DEF Spec

\* Then no frame is stored over bytes that some client may still read: the
\* stored bytes are past the global write offset, the unread ones before it.
THEOREM FramesSpareUnread == Spec => NoOverwriteUnlessRaced
<1>1. OffsetsInv /\ RxFrame /\ ~raced
        => \A s \in Slot : Reading(s) => Region(writeOff, FrameLen) \cap Unread(s) = {}
  <2> SUFFICES ASSUME OffsetsInv, RxFrame, ~raced, NEW c \in Client, IsOpen(c),
                      NEW o \in Region(writeOff, FrameLen), o \in Unread(slot[c])
               PROVE  FALSE
    BY DEF Reading
  <2>1. Live(c) /\ Holds(c) /\ ListenersFit /\ RoundFits /\ TypeOK /\ ppc = "rx"
    BY DEF IsOpen, Live, Holds, OffsetsInv, ListenersInv, RxFrame
  <2> DEFINE r == rd[slot[c]]
             w == wr[slot[c]]
  <2>2. /\ globalRd \in Offset /\ globalWr \in Offset /\ writeOff \in Offset
        /\ r \in Offset /\ w \in Offset /\ budget \in Int
    BY <2>1 DEF TypeOK
  <2>3. Pending(slot[c]) = 0
    BY <2>1 DEF Pending
  <2>4. /\ Seen(w) + 0 = Seen(globalWr) /\ Seen(r) <= Seen(w)
        /\ Seen(globalWr) <= Seen(writeOff) /\ budget + Seen(writeOff) <= BufSize - 1
    BY <2>1, <2>3 DEF ListenersFit, RoundFits
  <2>5. budget >= FrameLen + RawHlen /\ FrameLen \in Nat /\ RawHlen \in Nat /\ BufSize \in Nat
    BY Sizes DEF RxFrame
  <2> HIDE DEF r, w
  <2>6. /\ Seen(r) \in Int /\ Seen(r) >= 0 /\ Seen(w) \in Int
        /\ Seen(writeOff) \in Int /\ Seen(globalWr) \in Int /\ Seen(w) <= BufSize - 1
    BY <2>1, <2>2, SeenTypes
  <2>7. PICK i \in 0 .. (FrameLen - 1) : o = (writeOff + i) % BufSize
    BY DEF Region
  <2>8. PICK j \in 0 .. (UsedBytes(r, w) - 1) : o = (r + j) % BufSize
    BY DEF Unread, Region, r, w
  <2>9. UsedBytes(r, w) = Seen(w) - Seen(r)
    BY <2>2, <2>4, SeenFrom DEF UsedBytes, Seen
  <2>10. i \in Nat /\ j \in Nat /\ Seen(writeOff) + i < BufSize /\ Seen(r) + j < Seen(w)
    <3>1. i \in Int /\ 0 <= i /\ i <= FrameLen - 1
      BY <2>5
    <3>2. j \in Int /\ 0 <= j /\ j <= (Seen(w) - Seen(r)) - 1
      BY <2>6, <2>9
    <3> QED BY <2>2, <2>4, <2>5, <2>6, <3>1, <3>2
  <2>11. Seen(o) = Seen(writeOff) + i
    BY <2>2, <2>7, <2>10, Further DEF Seen
  <2>12. Seen(o) = Seen(r) + j
    <3>1. Distance(globalRd, r) + j < BufSize
      BY <2>5, <2>6, <2>10 DEF Seen
    <3> QED BY <2>2, <2>8, <2>10, <3>1, Further DEF Seen
  <2> QED BY <2>4, <2>6, <2>10, <2>11, <2>12
<1> QED BY OffsetsInit, OffsetsStep, <1>1, PTL DEF Spec, NoOverwriteUnlessRaced

-----------------------------------------------------------------------------
(* Where frames start.                                                     *)

\* A multiple of the record size leaves no remainder.
LEMMA WholeFrames == ASSUME NEW k \in Int PROVE FrameLen * k \in Int /\ AtFrameStart(FrameLen * k)
<1>1. FrameLen \in Nat /\ FrameLen > 0
  BY ListenersAssumption
<1> DEFINE x == FrameLen * k
           q == x \div FrameLen
           r == x % FrameLen
<1>2. x \in Int /\ q \in Int /\ r \in Int /\ 0 <= r /\ r < FrameLen /\ x = FrameLen * q + r
  BY <1>1
<1> DEFINE d == k - q
<1>3. d \in Int /\ FrameLen * q + FrameLen * d = FrameLen * k /\ FrameLen * d \in Int
      /\ FrameLen * q \in Int
  BY <1>1, <1>2
<1> HIDE DEF d, r, q
<1>4. FrameLen * d = r
  <2> DEFINE m == FrameLen * q
             n == FrameLen * d
  <2>1. m + n = x /\ x = m + r /\ m \in Int /\ n \in Int /\ r \in Int
    BY <1>2, <1>3
  <2> HIDE DEF m, n, x
  <2>2. n = r
    BY <2>1
  <2> QED BY <2>2 DEF n
<1>5. d = 0
  <2>1. CASE d >= 1
    <3>1. FrameLen * d >= FrameLen * 1 /\ FrameLen * 1 = FrameLen
      BY <2>1, <1>1, <1>3
    <3> QED BY <3>1, <1>1, <1>2, <1>4
  <2>2. CASE d <= -1
    <3>1. FrameLen * d <= FrameLen * (-1) /\ FrameLen * (-1) = -FrameLen
      BY <2>2, <1>1, <1>3
    <3> QED BY <3>1, <1>1, <1>2, <1>4
  <2> QED BY <2>1, <2>2, <1>3
<1>6. r = 0
  BY <1>1, <1>4, <1>5
<1> QED BY <1>2, <1>6 DEF r, AtFrameStart

\* Sums and differences of frame starts are frame starts.
LEMMA FramesAdd ==
  ASSUME NEW x \in Int, NEW y \in Int, AtFrameStart(x), AtFrameStart(y)
  PROVE  AtFrameStart(x + y) /\ AtFrameStart(x - y)
<1>1. FrameLen \in Nat /\ FrameLen > 0
  BY ListenersAssumption
<1>2. PICK i \in Int : x = FrameLen * i
  <2>1. x = FrameLen * (x \div FrameLen) + (x % FrameLen) /\ x \div FrameLen \in Int
    BY <1>1
  <2>2. x % FrameLen = 0 /\ FrameLen * (x \div FrameLen) \in Int
    BY <1>1, <2>1 DEF AtFrameStart
  <2> QED BY <2>1, <2>2
<1>3. PICK j \in Int : y = FrameLen * j
  <2>1. y = FrameLen * (y \div FrameLen) + (y % FrameLen) /\ y \div FrameLen \in Int
    BY <1>1
  <2>2. y % FrameLen = 0 /\ FrameLen * (y \div FrameLen) \in Int
    BY <1>1, <2>1 DEF AtFrameStart
  <2> QED BY <2>1, <2>2
<1>4. x + y = FrameLen * (i + j) /\ x - y = FrameLen * (i - j)
  BY <1>1, <1>2, <1>3
<1>5. i + j \in Int /\ i - j \in Int
  OBVIOUS
<1> QED BY <1>4, <1>5, WholeFrames

\* The sizes and the start of the buffer.
LEMMA FrameSizes ==
  /\ AtFrameStart(0) /\ AtFrameStart(FrameLen) /\ AtFrameStart(BufSize)
  /\ FrameLen \in Nat /\ BufSize \in Nat /\ FrameLen < BufSize /\ Offset \subseteq Int
<1>1. /\ FrameLen \in Nat /\ BufSize \in Nat /\ FrameLen < BufSize /\ Offset \subseteq Int
      /\ AtFrameStart(BufSize)
  BY ListenersAssumption DEF AtFrameStart, Offset
<1>2. FrameLen * 0 = 0 /\ FrameLen * 1 = FrameLen
  BY <1>1
<1>3. AtFrameStart(FrameLen * 0) /\ AtFrameStart(FrameLen * 1)
  BY WholeFrames
<1> QED BY <1>1, <1>2, <1>3

\* The distance between two frame starts, and going on from one by whole frames.
LEMMA FramesApart ==
  ASSUME NEW a \in Offset, NEW b \in Offset, AtFrameStart(a), AtFrameStart(b)
  PROVE  AtFrameStart(Distance(a, b))
<1>1. a \in Int /\ b \in Int /\ BufSize \in Int /\ AtFrameStart(BufSize)
  BY FrameSizes
<1>2. AtFrameStart(b - a) /\ AtFrameStart(BufSize - a)
  BY <1>1, FramesAdd
<1>3. AtFrameStart((BufSize - a) + b)
  <2>1. BufSize - a \in Int
    BY <1>1
  <2> QED BY <1>1, <1>2, <2>1, FramesAdd
<1> QED BY <1>2, <1>3 DEF Distance

LEMMA FramesOn ==
  ASSUME NEW a \in Offset, NEW n \in Nat, n < BufSize, AtFrameStart(a), AtFrameStart(n)
  PROVE  AtFrameStart((a + n) % BufSize)
<1>1. a \in Int /\ n \in Int /\ BufSize \in Int /\ 0 <= a /\ a < BufSize /\ AtFrameStart(BufSize)
  BY FrameSizes DEF Offset
<1>2. AtFrameStart(a + n) /\ a + n \in Int
  BY <1>1, FramesAdd
<1>3. AtFrameStart((a + n) - BufSize)
  BY <1>1, <1>2, FramesAdd
<1> DEFINE x == a + n
<1>4. x \in Int /\ -BufSize <= x /\ x < 2 * BufSize /\ ~(x < 0)
  BY <1>1
<1> HIDE DEF x
<1>5. x % BufSize = IF x < BufSize THEN x ELSE x - BufSize
  BY <1>4, ModOnce
<1> QED BY <1>2, <1>3, <1>5 DEF x

\* What is published and stored is whole frames; so is what was read, as long
\* as nobody acknowledged anything.
FramesFit ==
    /\ AtFrameStart(globalWr) /\ AtFrameStart(writeOff) /\ AtFrameStart(newBytes)
    /\ ~popped => /\ AtFrameStart(globalRd)
                  /\ \A c \in Client : Live(c) => AtFrameStart(rd[slot[c]]) /\ cpc[c] # "acking"
                  /\ Scanning => minDist = BufSize + 1 \/ AtFrameStart(minDist)
    /\ \A c \in Client : cpc[c] \in {"placed", "named"} => AtFrameStart(rd[slot[c]])

FramesInv == OffsetsInv /\ (raced \/ unreset \/ FramesFit)

LEMMA FramesInit == Init => FramesInv
<1> SUFFICES ASSUME Init PROVE FramesFit
  BY OffsetsInit DEF FramesInv
<1>1. AtFrameStart(0)
  BY FrameSizes
<1> QED BY <1>1 DEF Init, FramesFit, Live, Scanning

\* The poll thread moves the global offsets by whole frames.
LEMMA PollKeepsFrames ==
  ASSUME FramesInv, Poll, OffsetsInv', ~raced, ~raced', ~unreset PROVE FramesFit'
<1>1. /\ FramesFit /\ RoundFits /\ ListenersFit /\ RoundFits' /\ ListenersFit'
      /\ OffsetsInv /\ ListenersInv /\ TypeOK /\ SlotsFit
  BY DEF FramesInv, OffsetsInv, ListenersInv
<1>2. /\ cpc' = cpc /\ slot' = slot /\ rd' = rd
      /\ \A c \in Client : Live(c)' <=> Live(c)
  BY DEF Poll, ReadCount, ResetWr, ResetRd, ResetPopped, RxFrame, EndRx, ScanId, ScanRd,
         PopGlobal, PushGlobal, PushSlot, bufVars, slotVars, pollVars, clientVars, Live
<1>3. /\ globalRd \in Offset /\ globalWr \in Offset /\ writeOff \in Offset
      /\ minDist \in Int /\ minDist >= 0 /\ rd \in [Slot -> Offset]
  BY <1>1, SeenTypes DEF TypeOK
<1>4. AtFrameStart(0) /\ AtFrameStart(FrameLen) /\ FrameLen \in Nat /\ FrameLen < BufSize
      /\ BufSize \in Nat
  BY FrameSizes
<1>5. \A c \in Client : cpc'[c] \in {"placed", "named"} => AtFrameStart(rd'[slot'[c]])
  BY <1>1, <1>2 DEF FramesFit
<1> USE DEF bufVars, slotVars, pollVars
<1>10. CASE ReadCount \/ ScanId
  BY <1>1, <1>2, <1>5, <1>10 DEF ReadCount, ScanId, FramesFit, Scanning
<1>11. CASE ResetWr \/ ResetRd
  BY <1>1, <1>2, <1>4, <1>5, <1>11 DEF ResetWr, ResetRd, FramesFit, Scanning
<1>12. CASE ResetPopped
  <2>1. globalRd' = 0 /\ globalWr' = 0 /\ writeOff' = 0 /\ newBytes' = newBytes
        /\ minDist' = BufSize + 1 /\ \A c \in Client : ~Live(c)'
    BY <1>1, <1>2, <1>12 DEF ResetPopped, RoundFits, ListenersFit, Resetting, Holds
  <2> QED BY <1>1, <1>4, <1>5, <2>1 DEF FramesFit
<1>13. CASE RxFrame
  <2>1. AtFrameStart(writeOff')
    BY <1>1, <1>3, <1>4, <1>13, FramesOn DEF RxFrame, FramesFit
  <2> QED BY <1>1, <1>2, <1>5, <1>13, <2>1 DEF RxFrame, FramesFit, Scanning
<1>14. CASE EndRx
  BY <1>1, <1>2, <1>5, <1>14 DEF EndRx, FramesFit
<1>15. CASE ScanRd
  <2>1. idx \in Slot /\ Registered(idx)
    BY <1>1, <1>15 DEF ScanRd, ListenersInv, ListenersFit
  <2>2. id[idx] \in Client /\ Live(id[idx]) /\ slot[id[idx]] = idx
    BY <1>1, <2>1 DEF SlotsFit, TypeOK, Registered, Owns, Live
  <2>3. ~popped => AtFrameStart(globalRd) /\ AtFrameStart(rd[idx])
    BY <1>1, <2>2 DEF FramesFit
  <2>4. ~popped => AtFrameStart(Distance(globalRd, rd[idx]))
    BY <1>3, <2>1, <2>3, FramesApart
  <2>5. ~popped => minDist' = BufSize + 1 \/ AtFrameStart(minDist')
    BY <1>1, <1>15, <2>4 DEF ScanRd, FramesFit, Scanning
  <2> QED BY <1>1, <1>2, <1>5, <1>15, <2>5 DEF ScanRd, FramesFit
<1>16. CASE PopGlobal
  <2>1. /\ ppc = "scan" /\ UNCHANGED <<writeOff, globalWr, popped>>
        /\ globalRd' = IF minDist <= BufSize THEN (globalRd + minDist) % BufSize ELSE globalRd
        /\ newBytes' = Distance(globalWr, writeOff) /\ ~Scanning'
    BY <1>16 DEF PopGlobal, Scanning
  <2>2. AtFrameStart(newBytes')
    BY <1>1, <1>3, <2>1, FramesApart DEF FramesFit
  <2>3. ~popped => AtFrameStart(globalRd')
    <3> SUFFICES ASSUME ~popped PROVE AtFrameStart(globalRd')
      OBVIOUS
    <3>1. CASE minDist <= BufSize
      <4>1. minDist <= Seen(globalWr) /\ AtFrameStart(minDist)
        BY <1>1, <1>3, <1>4, <2>1, <3>1 DEF RoundFits, Scanning, FramesFit
      <4>2. Seen(globalWr) \in Int /\ Seen(globalWr) <= BufSize - 1
        BY <1>1, <1>3, SeenTypes
      <4>3. minDist \in Nat /\ minDist < BufSize
        BY <1>3, <1>4, <4>1, <4>2
      <4> QED BY <1>1, <1>3, <2>1, <3>1, <4>1, <4>3, FramesOn DEF FramesFit
    <3>2. CASE ~(minDist <= BufSize)
      BY <1>1, <2>1, <3>2 DEF FramesFit
    <3> QED BY <3>1, <3>2
  <2> QED BY <1>1, <1>2, <1>5, <2>1, <2>2, <2>3 DEF FramesFit
<1>17. CASE PushGlobal
  <2>1. globalWr' = writeOff' /\ writeOff' = writeOff /\ ~Scanning'
    BY <1>1, <1>17 DEF PushGlobal, RoundFits, Scanning
  <2> QED BY <1>1, <1>2, <1>5, <1>17, <2>1 DEF PushGlobal, FramesFit
<1>18. CASE PushSlot
  <2>1. newBytes' \in {newBytes, 0} /\ ~Scanning'
    BY <1>18 DEF PushSlot, Scanning
  <2> QED BY <1>1, <1>2, <1>4, <1>5, <1>18, <2>1 DEF PushSlot, FramesFit
<1> QED BY <1>10, <1>11, <1>12, <1>13, <1>14, <1>15, <1>16, <1>17, <1>18 DEF Poll

\* A client that acknowledges with the ioctl tells so before it moves.
LEMMA ClientKeepsFrames ==
  ASSUME "read" \notin AckBy, FramesInv, NEW c \in Client, ClientStep(c),
         ~raced, ~unreset, ~unreset'
  PROVE  FramesFit'
<1>1. FramesFit /\ OffsetsInv /\ ListenersInv /\ UnnamedFree /\ ListenersFit
  BY DEF FramesInv, OffsetsInv
<1>2. /\ SlotsFit /\ LockHeldOnce /\ NoClient \notin Client
      /\ id \in [Slot -> Client \cup {NoClient}] /\ cpc \in [Client -> Labels]
      /\ slot \in [Client -> Slot] /\ rd \in [Slot -> Offset] /\ globalRd \in Offset
  BY <1>1, ListenersAssumption DEF ListenersInv, TypeOK, Labels
<1>3. /\ writeOff' = writeOff /\ globalRd' = globalRd /\ globalWr' = globalWr /\ ppc' = ppc
      /\ minDist' = minDist /\ newBytes' = newBytes
  BY DEF ClientStep, Open, PlaceRd, SetId, IncCount, MarkPopped, Pop, ClearId,
         ClearOffsets, DecCount, bufVars, pollVars
<1>4. popped' \in {popped, TRUE}
  BY DEF ClientStep, Open, PlaceRd, SetId, IncCount, MarkPopped, Pop, ClearId,
         ClearOffsets, DecCount, bufVars, pollVars
\* Of each client: what FramesFit asks of its read offset.
<1> DEFINE Starts(d) ==
      /\ ~popped /\ Live(d) => AtFrameStart(rd[slot[d]]) /\ cpc[d] # "acking"
      /\ cpc[d] \in {"placed", "named"} => AtFrameStart(rd[slot[d]])
<1>5. \A d \in Client : Starts(d)
  BY <1>1 DEF FramesFit
<1>6. SUFFICES \A d \in Client : Starts(d)'
  BY <1>1, <1>3, <1>4 DEF FramesFit, Scanning
<1>7. ASSUME NEW d \in Client, popped' = popped,
             Live(d)' => /\ cpc'[d] = cpc[d] /\ slot'[d] = slot[d]
                         /\ rd'[slot[d]] = rd[slot[d]]
      PROVE  Starts(d)'
  <2>1. CASE ~Live(d)'
    BY <2>1 DEF Live
  <2>2. CASE Live(d)'
    <3>1. cpc'[d] = cpc[d] /\ (rd[slot[d]])' = rd[slot[d]] /\ Live(d) /\ Starts(d)
      BY <1>5, <1>7, <2>2 DEF Live
    <3> QED BY <1>7, <3>1
  <2> QED BY <2>1, <2>2
<1>8. \A d \in Client : Live(d) => Holds(d)
  BY DEF Holds
<1> HIDE DEF Starts
<1>20. CASE Open(c)
  <2>1. /\ cpc[c] = "closed" /\ cpc' = [cpc EXCEPT ![c] = "adding"] /\ rd' = rd
        /\ popped' = popped
    BY <1>20 DEF Open
  <2>2. PICK s \in Slot : slot' = [slot EXCEPT ![c] = s]
    BY <1>20 DEF Open
  <2>3. /\ ~Live(c)'
        /\ \A d \in Client : d # c => cpc'[d] = cpc[d] /\ slot'[d] = slot[d]
    BY <1>2, <2>1, <2>2 DEF Live
  <2> QED BY <1>7, <2>1, <2>3
<1>21. CASE PlaceRd(c)
  <2>1. /\ cpc[c] = "adding" /\ cpc' = [cpc EXCEPT ![c] = "placed"]
        /\ slot' = slot /\ popped' = popped
        /\ rd' = [rd EXCEPT ![slot[c]] = IF count = 0 \/ ~popped THEN globalRd ELSE globalWr]
        /\ unreset' = (unreset \/ (count = 0 /\ globalRd # 0))
    BY <1>21 DEF PlaceRd
  <2>2. cpc'[c] = "placed" /\ Holds(c) /\ slot[c] \in Slot
    BY <1>2, <2>1 DEF Holds
  <2>3. ASSUME NEW d \in Client, d # c PROVE Starts(d)'
    <3>1. cpc'[d] = cpc[d]
      BY <1>2, <2>1, <2>3
    <3>2. Live(d) => slot[d] # slot[c]
      BY <1>1, <1>8, <2>2, <2>3, HeldOnce
    <3>3. Live(d) => rd'[slot[d]] = rd[slot[d]]
      BY <1>2, <2>1, <3>2
    <3> QED BY <1>7, <2>1, <3>1, <3>3 DEF Live
  <2>4. Starts(c)'
    <3>1. rd'[slot[c]] = IF count = 0 \/ ~popped THEN globalRd ELSE globalWr
      BY <1>2, <2>1, <2>2
    <3>2. count = 0 => globalRd = 0
      BY <2>1
    <3>3. AtFrameStart(rd'[slot[c]])
      BY <1>1, <3>1, <3>2, FrameSizes DEF FramesFit
    <3> QED BY <2>1, <2>2, <3>3 DEF Starts
  <2> QED BY <2>3, <2>4
<1>22. CASE SetId(c)
  <2>1. /\ cpc[c] = "placed" /\ cpc' = [cpc EXCEPT ![c] = "named"]
        /\ slot' = slot /\ rd' = rd /\ popped' = popped
    BY <1>22 DEF SetId
  <2>2. cpc'[c] = "named" /\ \A d \in Client : d # c => cpc'[d] = cpc[d]
    BY <1>2, <2>1
  <2>3. Starts(c)'
    BY <1>5, <2>1, <2>2 DEF Starts
  <2> QED BY <1>7, <2>1, <2>2, <2>3
<1>23. CASE IncCount(c)
  <2>1. /\ cpc[c] = "named" /\ cpc' = [cpc EXCEPT ![c] = "open"]
        /\ slot' = slot /\ rd' = rd /\ popped' = popped
    BY <1>23 DEF IncCount, slotVars
  <2>2. cpc'[c] = "open" /\ \A d \in Client : d # c => cpc'[d] = cpc[d]
    BY <1>2, <2>1
  <2>3. Starts(c)'
    BY <1>5, <2>1, <2>2 DEF Starts
  <2> QED BY <1>7, <2>1, <2>2, <2>3
<1>24. CASE MarkPopped(c)
  <2>1. /\ cpc[c] = "open" /\ cpc' = [cpc EXCEPT ![c] = "acking"]
        /\ slot' = slot /\ rd' = rd /\ popped' = TRUE
    BY <1>24 DEF MarkPopped, slotVars
  <2>2. cpc'[c] = "acking" /\ \A d \in Client : d # c => cpc'[d] = cpc[d]
    BY <1>2, <2>1
  <2> QED BY <1>5, <2>1, <2>2 DEF Starts
<1>25. ASSUME NEW n \in 1 .. BufSize, Pop(c, n) PROVE \A d \in Client : Starts(d)'
  <2>1. /\ cpc[c] = "acking" /\ cpc' = [cpc EXCEPT ![c] = "open"]
        /\ slot' = slot /\ popped' = popped
        /\ \E o : rd' = [rd EXCEPT ![slot[c]] = o]
    BY <1>25 DEF Pop
  <2>2. cpc'[c] = "open" /\ Live(c) /\ popped' /\ slot[c] \in Slot
    BY <1>1, <1>2, <2>1 DEF FramesFit, Live
  <2>3. Starts(c)'
    BY <2>2 DEF Starts
  <2>4. ASSUME NEW d \in Client, d # c PROVE Starts(d)'
    <3>1. cpc'[d] = cpc[d]
      BY <1>2, <2>1, <2>4
    <3>2. Live(d) => slot[d] # slot[c]
      BY <1>1, <1>8, <2>2, <2>4, HeldOnce
    <3>3. Live(d) => rd'[slot[d]] = rd[slot[d]]
      BY <1>2, <2>1, <3>2
    <3> QED BY <1>7, <2>1, <3>1, <3>3 DEF Live
  <2> QED BY <2>3, <2>4
<1>26. CASE ClearId(c) \/ DecCount(c)
  <2>1. /\ cpc' = [cpc EXCEPT ![c] = IF ClearId(c) THEN "unnamed" ELSE "closed"]
        /\ slot' = slot /\ rd' = rd /\ popped' = popped
    BY <1>26 DEF ClearId, DecCount, slotVars
  <2>2. ~Live(c)' /\ \A d \in Client : d # c => cpc'[d] = cpc[d]
    BY <1>2, <2>1 DEF Live
  <2> QED BY <1>7, <2>1, <2>2
<1>27. CASE ClearOffsets(c)
  <2>1. /\ cpc[c] = "unnamed" /\ cpc' = [cpc EXCEPT ![c] = "cleared"] /\ popped' = popped
        /\ slot' = [slot EXCEPT ![c] = 0] /\ rd' = [rd EXCEPT ![slot[c]] = 0]
    BY <1>27 DEF ClearOffsets
  <2>2. ~Live(c)' /\ ~Registered(slot[c])
    BY <1>1, <1>2, <2>1 DEF Live, UnnamedFree
  <2>3. ASSUME NEW d \in Client, d # c PROVE Starts(d)'
    <3>1. cpc'[d] = cpc[d] /\ slot'[d] = slot[d] /\ cpc[d] \notin Adding
      BY <1>2, <2>1, <2>3 DEF LockHeldOnce, Adding, Deleting
    <3>2. Live(d) => slot[d] # slot[c]
      BY <1>2, <2>2, <3>1 DEF SlotsFit, Owns, Registered, Live, Adding
    <3>3. Live(d) => rd'[slot[d]] = rd[slot[d]]
      BY <1>2, <2>1, <3>2
    <3> QED BY <1>7, <2>1, <3>1, <3>3 DEF Live
  <2>4. Starts(c)'
    BY <1>7, <2>1, <2>2
  <2> QED BY <2>3, <2>4
<1> QED BY <1>20, <1>21, <1>22, <1>23, <1>24, <1>25, <1>26, <1>27 DEF ClientStep

LEMMA FramesStep ==
  ASSUME "read" \notin AckBy PROVE FramesInv /\ [Next]_vars => FramesInv'
<1> SUFFICES ASSUME FramesInv, [Next]_vars PROVE FramesInv'
  OBVIOUS
<1>1. OffsetsInv'
  BY OffsetsStep DEF FramesInv
<1>2. CASE UNCHANGED vars
  <2>1. raced' = raced /\ unreset' = unreset /\ (FramesFit => FramesFit')
    BY <1>2 DEF vars, bufVars, slotVars, pollVars, clientVars, FramesFit, Live, Scanning
  <2> QED BY <1>1, <2>1 DEF FramesInv
<1>3. CASE Next
  <2>1. SUFFICES ASSUME ~raced', ~unreset' PROVE FramesFit'
    BY <1>1 DEF FramesInv
  <2>2. ~raced
    BY <1>3, <2>1 DEF Next, RememberOverlap
  <2>3. CASE Poll
    <3>1. ~unreset
      BY <2>1, <2>3 DEF Poll
    <3> QED BY <1>1, <2>1, <2>2, <2>3, <3>1, PollKeepsFrames
  <2>4. ASSUME NEW c \in Client, ClientStep(c) PROVE FramesFit'
    <3>1. ~unreset
      BY <2>1, <2>4 DEF ClientStep, Open, PlaceRd, SetId, IncCount, MarkPopped, Pop, ClearId,
                        ClearOffsets, DecCount
    <3> QED BY <2>1, <2>2, <2>4, <3>1, ClientKeepsFrames
  <2> QED BY <1>3, <2>3, <2>4 DEF Next
<1> QED BY <1>2, <1>3

\* Where clients acknowledge with HPCAP_IOC_LSTOP, which sets already_popped, a
\* new client starts to read at the first byte of a frame, for any number of
\* clients, unless it came in the middle of the unlocked updates or before the
\* offsets were reset.
THEOREM ClientsStartAtFrames ==
  ASSUME "read" \notin AckBy PROVE Spec => []StartsAtFrameUnlessRaced
<1>1. FramesInv => StartsAtFrameUnlessRaced
  BY DEF FramesInv, FramesFit, StartsAtFrameUnlessRaced, StartsAtFrame
<1> QED BY FramesInit, FramesStep, <1>1, PTL DEF Spec
===============================================================================
