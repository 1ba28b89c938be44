------------------------- MODULE Registration_proofs -------------------------
(***************************************************************************)
(* Theorems about the life of the module: the types, the numbers of the    *)
(* interfaces, the places of the buffers and the device regions, for any   *)
(* cards, parameters, number of queues and pool.                           *)
(***************************************************************************)
EXTENDS Registration, FiniteSetTheorems, SequenceTheorems, WellFoundedInduction, TLAPS

\* What is assumed of the constants, in the form the steps below use.
LEMMA Constants ==
  /\ Queues \in Nat /\ Queues >= 1 /\ PageSize \in Nat /\ PageSize >= 1 /\ Pool \in Nat
  /\ MaxNic \in Nat /\ DefaultPages \in Nat /\ IsFiniteSet(Cards)
  /\ \A c \in Cards : Id[c] \in Nat /\ Id[c] \in Range(Id)
  /\ Range(Id) \subseteq Nat
  /\ None \notin Cards /\ None \notin Nat /\ None \notin [offset : Nat, size : Nat]
BY RegistrationAssumption DEF Range

\* hpcap_get_iface_number_for finds the first entry of an identifier, or returns
\* -1 if there is none.
LEMMA NumberForFirst ==
  ASSUME NEW id, Len(table) \in Nat
  PROVE  /\ (\E j \in 1 .. Len(table) : table[j] = id) =>
              /\ NumberFor(id) \in Nat /\ NumberFor(id) + 1 \in 1 .. Len(table)
              /\ table[NumberFor(id) + 1] = id
              /\ \A j \in 1 .. Len(table) : j <= NumberFor(id) => table[j] # id
         /\ ~(\E j \in 1 .. Len(table) : table[j] = id) => NumberFor(id) = -1
<1> DEFINE I == {j \in 1 .. Len(table) : table[j] = id}
           R == OpToRel(<, Nat)
<1>1. NumberFor(id) = (IF I # {} THEN Min(I) ELSE 0) - 1
  BY DEF NumberFor, SelectInSeq
<1>2. ASSUME I # {}
      PROVE  Min(I) \in I /\ \A j \in I : Min(I) <= j
  <2>0. I \subseteq Nat
    OBVIOUS
  <2>1. IsWellFoundedOn(R, Nat)
    BY NatLessThanWellFounded
  <2> HIDE DEF I, R
  <2>2. PICK x \in I : \A y \in I : ~(<<y, x>> \in R)
    BY <1>2, <2>0, <2>1, WFMin
  <2>3. \A y \in I : x <= y
    <3> SUFFICES ASSUME NEW y \in I PROVE x <= y
      OBVIOUS
    <3>1. x \in Nat /\ y \in Nat
      BY <2>0
    <3>2. ~(y < x)
      BY <2>2, <3>1 DEF R, OpToRel
    <3> QED BY <3>1, <3>2
  <2> QED BY <2>3 DEF Min
<1>3. CASE I # {}
  <2>1. Min(I) \in 1 .. Len(table) /\ table[Min(I)] = id
    BY <1>2, <1>3
  <2>2. NumberFor(id) = Min(I) - 1
    BY <1>1, <1>3
  <2>3. \A j \in 1 .. Len(table) : table[j] = id => Min(I) <= j
    BY <1>2, <1>3
  <2> HIDE DEF I
  <2> QED BY <2>1, <2>2, <2>3
<1>4. CASE I = {}
  BY <1>1, <1>4
<1> QED BY <1>3, <1>4

-----------------------------------------------------------------------------
(***************************************************************************)
(* The invariant.  Numbered: a card has the number of the first entry with *)
(* its identifier, the entries of the cards found at the load are sorted,  *)
(* and the table has at most one entry per card.  Placed: buffers below    *)
(* the offset belong to adapters already gone past, the one being          *)
(* registered is the only other one, and fits.  Claimed regions name live  *)
(* adapters, or adapters unbound since.                                    *)
(***************************************************************************)
Known == {c \in Cards : number[c] # None}

Numbered ==
    /\ \A c \in Known :
          /\ number[c] + 1 \in 1 .. Len(table)
          /\ table[number[c] + 1] = Id[c]
          /\ \A j \in 1 .. Len(table) : j <= number[c] => table[j] # Id[c]
    /\ Cardinality(present) <= Len(table)
    /\ \A c \in present : \E j \in 1 .. Cardinality(present) : table[j] = Id[c]
    /\ \A j, k \in 1 .. Cardinality(present) : j < k => table[j] <= table[k]
    /\ Len(table) <= Cardinality(present \cup Known)

Entered ==
    /\ \A j, k \in DOMAIN adapters : adapters[j] = adapters[k] /\ adapters[j] # None => j = k
    /\ Live \subseteq Known
    /\ phase = "unloaded" => adapters = <<>> /\ Known = {} /\ table = <<>> /\ present = {}
    /\ phase \in {"unloaded", "probing"} => queue = None /\ index = 1

\* c is the adapter being registered.
Current(c) == queue # None /\ Card = c

Placed ==
    /\ queue # None =>
         /\ phase \in {"registering", "crashed"}
         /\ index \in DOMAIN adapters /\ Card \in Live
         /\ Hpcap(number[Card]) /\ ~OutOfMemory(Card)
    /\ \A c \in Cards \ Live : \A q \in QueueIds : bufp[c][q] = None
    /\ \A k \in DOMAIN adapters :
         adapters[k] \in Live /\ (k > index \/ (k = index /\ queue = None)) =>
           \A q \in QueueIds : bufp[adapters[k]][q] = None
    /\ \A c \in Live : \A q \in QueueIds : bufp[c][q] # None =>
         IF Current(c)
         THEN bufp[c][q].offset = offset /\ bufp[c][q].size = BufSizePerQueue(c)
         ELSE bufp[c][q].offset + bufp[c][q].size <= offset

Whole ==
    /\ \A c \in Live \ masked : ~Current(c) /\ Registered(c) => \A q \in QueueIds : bufp[c][q] # None
    /\ queue # None /\ Card \notin masked /\ ~failed =>
         \A q \in QueueIds : q < queue => bufp[Card][q] # None

\* The registration goes through adapters[] and not past it.
InOrder == index <= Len(adapters) + 1

Claims ==
    /\ \A r \in regions : r[3] # None => r[3] \in Live /\ r[1] = number[r[3]]
    /\ \A r \in regions : r[3] = None => \E k \in DOMAIN adapters : adapters[k] = None

RegInv ==
    /\ TypeOK
    /\ Numbered
    /\ Entered /\ InOrder
    /\ Placed
    /\ BuffersApart
    /\ Whole /\ WholeUnlessMasked
    /\ Claims /\ RegionsExact

-----------------------------------------------------------------------------
\* The adapters that are not freed are the cards in adapters[].
LEMMA LiveCards ==
  ASSUME TypeOK
  PROVE  /\ Live \subseteq Cards /\ None \notin Live
         /\ \A c : c \in Live <=> c # None /\ \E k \in DOMAIN adapters : adapters[k] = c
         /\ DOMAIN adapters = 1 .. Len(adapters) /\ Len(adapters) \in Nat
         /\ \A k \in DOMAIN adapters : adapters[k] \in Cards \cup {None}
<1>1. adapters \in Seq(Cards \cup {None})
  BY DEF TypeOK
<1>2. /\ DOMAIN adapters = 1 .. Len(adapters) /\ Len(adapters) \in Nat
      /\ \A k \in DOMAIN adapters : adapters[k] \in Cards \cup {None}
  BY <1>1, LenProperties, ElementOfSeq
<1> QED BY <1>2 DEF Live, ToSet

\* A new entry of adapters[]: the others stay where they are.
LEMMA EntryAdded ==
  ASSUME TypeOK, NEW e \in Cards \cup {None}, adapters' = Append(adapters, e)
  PROVE  /\ adapters' \in Seq(Cards \cup {None}) /\ Len(adapters') = Len(adapters) + 1
         /\ DOMAIN adapters' = 1 .. (Len(adapters) + 1)
         /\ \A k \in DOMAIN adapters : k \in DOMAIN adapters' /\ adapters'[k] = adapters[k]
         /\ adapters'[Len(adapters) + 1] = e
         /\ Live' = Live \cup ({e} \ {None})
<1>1. adapters \in Seq(Cards \cup {None})
  BY DEF TypeOK
<1>2. DOMAIN adapters = 1 .. Len(adapters) /\ Len(adapters) \in Nat
  BY <1>1, LenProperties
<1>3. /\ adapters' \in Seq(Cards \cup {None}) /\ Len(adapters') = Len(adapters) + 1
      /\ \A k \in 1 .. Len(adapters) : adapters'[k] = adapters[k]
      /\ adapters'[Len(adapters) + 1] = e
  BY <1>1, AppendProperties
<1>4. DOMAIN adapters' = 1 .. (Len(adapters) + 1)
  BY <1>3, LenProperties
<1>5. ToSet(adapters)' = ToSet(adapters) \cup {e}
  BY <1>2, <1>3, <1>4 DEF ToSet
<1> QED BY <1>2, <1>3, <1>4, <1>5 DEF Live

\* n is the number of c in the table t, which grew by one entry at most.
EntryFor(c, n, t) ==
    /\ t \in Seq(Range(Id)) /\ Len(t) \in Nat /\ Len(table) <= Len(t)
    /\ \A j \in 1 .. Len(table) : t[j] = table[j]
    /\ n \in Nat /\ n + 1 \in 1 .. Len(t) /\ t[n + 1] = Id[c]
    /\ \A j \in 1 .. Len(t) : j <= n => t[j] # Id[c]
    /\ c \in Known => n = number[c]
    /\ Len(t) <= Cardinality(present \cup (Known \cup {c}))
    /\ n \in Numbers

\* What hpcap_get_iface_number_or_default does for a card: it finds or makes the
\* first entry of its identifier, and a card that had a number finds that one.
LEMMA EntryNumber ==
  ASSUME TypeOK, Numbered, NEW c \in Cards
  PROVE  EntryFor(c, NumberOrDefault(Id[c]), TableWith(Id[c]))
<1> SUFFICES ASSUME NEW n, n = NumberOrDefault(Id[c]), NEW t, t = TableWith(Id[c])
             PROVE  EntryFor(c, n, t)
  OBVIOUS
<1> USE DEF EntryFor
<1> DEFINE id == Id[c]
           K == present \cup Known
<1>1. table \in Seq(Range(Id)) /\ id \in Range(Id) /\ Len(table) \in Nat
  BY Constants, LenProperties DEF TypeOK
<1>2. IsFiniteSet(Cards) /\ K \subseteq Cards /\ K \cup {c} \subseteq Cards
  BY Constants DEF TypeOK, Known
<1>3. /\ IsFiniteSet(K)
      /\ Cardinality(K) \in Nat /\ Cardinality(K \cup {c}) \in Nat /\ Cardinality(Cards) \in Nat
      /\ Cardinality(K \cup {c}) <= Cardinality(Cards)
      /\ Cardinality(K \cup {c}) = IF c \in K THEN Cardinality(K) ELSE Cardinality(K) + 1
  <2>1. IsFiniteSet(K) /\ IsFiniteSet(K \cup {c}) /\ Cardinality(K \cup {c}) <= Cardinality(Cards)
    BY <1>2, FS_Subset
  <2>2. Cardinality(K \cup {c}) = IF c \in K THEN Cardinality(K) ELSE Cardinality(K) + 1
    BY <2>1, FS_AddElement
  <2> QED BY <1>2, <2>1, <2>2, FS_CardinalityType
<1>4. Len(table) <= Cardinality(K)
  BY DEF Numbered
<1>5. K \cup {c} = present \cup (Known \cup {c})
  OBVIOUS
<1>6. Cardinality(present) \in Nat /\ Cardinality(present) <= Len(table)
  <2>1. IsFiniteSet(present)
    BY <1>2, FS_Subset DEF TypeOK
  <2> QED BY <2>1, FS_CardinalityType DEF Numbered
<1> HIDE DEF K
<1>7. CASE \E j \in 1 .. Len(table) : table[j] = id
  <2>1. /\ NumberFor(id) \in Nat /\ NumberFor(id) + 1 \in 1 .. Len(table)
        /\ table[NumberFor(id) + 1] = id
        /\ \A j \in 1 .. Len(table) : j <= NumberFor(id) => table[j] # id
    BY <1>1, <1>7, NumberForFirst
  <2>2. n = NumberFor(id) /\ t = table
    BY <2>1 DEF NumberOrDefault, TableWith
  <2>3. c \in Known => n = number[c]
    <3> SUFFICES ASSUME c \in Known PROVE n = number[c]
      OBVIOUS
    <3>1. /\ number[c] + 1 \in 1 .. Len(table) /\ table[number[c] + 1] = id
          /\ \A j \in 1 .. Len(table) : j <= number[c] => table[j] # id
      BY DEF Numbered
    <3>2. number[c] \in Nat
      BY <1>3 DEF TypeOK, Known, Numbers
    <3>3. ~(number[c] + 1 <= n) /\ ~(n + 1 <= number[c])
      BY <2>1, <2>2, <3>1
    <3> QED BY <2>1, <2>2, <3>2, <3>3
  <2>4. Len(t) <= Cardinality(K \cup {c})
    BY <1>1, <1>3, <1>4, <2>2
  <2>5. n \in Numbers
    BY <1>1, <1>3, <2>1, <2>2, <2>4 DEF Numbers
  <2>6. Len(t) <= Cardinality(present \cup (Known \cup {c}))
    BY <1>5, <2>4
  <2> HIDE DEF K
  <2> QED BY <1>1, <2>1, <2>2, <2>3, <2>5, <2>6
<1>8. CASE ~\E j \in 1 .. Len(table) : table[j] = id
  <2>1. n = Len(table) /\ t = Append(table, id)
    BY <1>1, <1>8, NumberForFirst DEF NumberOrDefault, TableWith
  <2>2. /\ t \in Seq(Range(Id)) /\ Len(t) = Len(table) + 1
        /\ \A j \in 1 .. Len(table) : t[j] = table[j]
        /\ t[Len(table) + 1] = id
    BY <1>1, <2>1, AppendProperties
  <2>3. c \notin Known
    BY <1>8 DEF Numbered
  <2>4. c \notin present
    <3> SUFFICES ASSUME c \in present PROVE FALSE
      OBVIOUS
    <3>1. PICK j \in 1 .. Cardinality(present) : table[j] = id
      BY DEF Numbered
    <3> QED BY <1>1, <1>6, <1>8, <3>1
  <2>5. Len(t) <= Cardinality(K \cup {c})
    <3>1. c \notin K
      BY <2>3, <2>4 DEF K
    <3> QED BY <1>1, <1>3, <1>4, <2>2, <3>1
  <2>6. n \in Numbers
    BY <1>1, <1>3, <2>1, <2>2, <2>5 DEF Numbers
  <2>7. \A j \in 1 .. Len(t) : j <= n => t[j] # id
    BY <1>1, <1>8, <2>1, <2>2
  <2>8. Len(t) <= Cardinality(present \cup (Known \cup {c}))
    BY <1>5, <2>5
  <2>9. n \in Nat /\ n + 1 \in 1 .. Len(t) /\ t[n + 1] = id /\ Len(t) \in Nat /\ Len(table) <= Len(t)
    BY <1>1, <2>1, <2>2
  <2> QED BY <2>2, <2>3, <2>6, <2>7, <2>8, <2>9
<1> QED BY <1>7, <1>8

-----------------------------------------------------------------------------
\* Only a load and a probe touch the table and the numbers.
LEMMA NumberedStep == ASSUME RegInv, [Next]_vars PROVE Numbered'
<1>1. TypeOK /\ Numbered /\ Entered
  BY DEF RegInv
<1>2. CASE UNCHANGED <<number, table, present>>
  BY <1>1, <1>2 DEF Numbered, Known
<1>3. CASE Load /\ ~PrecheckFails
  <2>1. Known = {} /\ UNCHANGED number /\ present' \subseteq Cards
    BY <1>1, <1>3 DEF Load, Entered
  <2>2. Known' = {}
    BY <2>1 DEF Known
  <2>3. PICK cards \in Bijection(1 .. Cardinality(present'), present') :
           Sorted(cards) /\ table' = [k \in DOMAIN cards |-> Id[cards[k]]]
    BY <1>3 DEF Load
  <2>4. Cardinality(present') \in Nat
    BY <2>1, Constants, FS_Subset, FS_CardinalityType
  <2> DEFINE N == Cardinality(present')
  <2>5. /\ DOMAIN cards = 1 .. N /\ \A k \in 1 .. N : cards[k] \in present'
        /\ \A c \in present' : \E k \in 1 .. N : cards[k] = c
    BY <2>3 DEF Bijection, Injection, Surjection
  <2> HIDE DEF N
  <2>6. /\ table' = [k \in 1 .. N |-> Id[cards[k]]]
        /\ \A k \in 1 .. N : table'[k] = Id[cards[k]]
    BY <2>3, <2>5
  <2>7. Len(table') = N
    BY <2>4, <2>6 DEF N
  <2>8. \A j, k \in 1 .. N : j < k => table'[j] <= table'[k]
    BY <2>3, <2>5, <2>6 DEF Sorted
  <2>9. \A c \in present' : \E j \in 1 .. N : table'[j] = Id[c]
    BY <2>5, <2>6
  <2>10. N <= Len(table') /\ Len(table') <= Cardinality(present' \cup Known')
    <3>1. Cardinality(present' \cup Known') = N
      <4>1. present' \cup Known' = present'
        BY <2>2
      <4> QED BY <4>1 DEF N
    <3>2. N \in Nat
      BY <2>4 DEF N
    <3> QED BY <2>7, <3>1, <3>2
  <2> QED BY <2>2, <2>8, <2>9, <2>10 DEF Numbered, N
<1>4. ASSUME NEW c \in Cards, Probe(c) PROVE Numbered'
  <2> DEFINE n == NumberOrDefault(Id[c])
             t == TableWith(Id[c])
  <2>1. EntryFor(c, n, t)
    BY <1>1, EntryNumber
  <2>2. /\ t \in Seq(Range(Id)) /\ Len(t) \in Nat /\ Len(table) <= Len(t)
        /\ \A j \in 1 .. Len(table) : t[j] = table[j]
        /\ n \in Nat /\ n + 1 \in 1 .. Len(t) /\ t[n + 1] = Id[c]
        /\ \A j \in 1 .. Len(t) : j <= n => t[j] # Id[c]
        /\ c \in Known => n = number[c]
        /\ Len(t) <= Cardinality(present \cup (Known \cup {c}))
        /\ n \in Numbers
    <3> HIDE DEF n, t
    <3> QED BY <2>1 DEF EntryFor
  <2>3. /\ table' = t /\ present' = present /\ number'[c] = n
        /\ \A e \in Cards \ {c} : number'[e] = number[e]
    BY <1>1, <1>4 DEF Probe, TypeOK
  <2> HIDE DEF n, t
  <2>4. Known' = Known \cup {c}
    BY <2>2, <2>3, Constants DEF Known
  <2>5. Cardinality(present) \in Nat /\ Len(table) \in Nat /\ Cardinality(present) <= Len(table)
    BY <1>1, Constants, FS_Subset, FS_CardinalityType, LenProperties DEF TypeOK, Numbered
  <2>6. ASSUME NEW e \in Known \cup {c}
        PROVE  /\ number'[e] + 1 \in 1 .. Len(t)
               /\ t[number'[e] + 1] = Id[e]
               /\ \A j \in 1 .. Len(t) : j <= number'[e] => t[j] # Id[e]
    <3>1. CASE e = c
      BY <2>2, <2>3, <3>1
    <3>2. CASE e # c
      <4>1. /\ number'[e] = number[e] /\ number[e] + 1 \in 1 .. Len(table)
            /\ table[number[e] + 1] = Id[e] /\ number[e] \in Nat
            /\ \A j \in 1 .. Len(table) : j <= number[e] => table[j] # Id[e]
        BY <1>1, <2>3, <2>6, <3>2, Constants DEF Numbered, Known, TypeOK, Numbers
      <4>2. number[e] + 1 \in 1 .. Len(t) /\ t[number[e] + 1] = Id[e]
        BY <2>2, <2>5, <4>1
      <4>3. ASSUME NEW j \in 1 .. Len(t), j <= number[e] PROVE t[j] # Id[e]
        <5>1. j \in 1 .. Len(table)
          BY <2>5, <4>1, <4>3
        <5> QED BY <2>2, <4>1, <4>3, <5>1
      <4> QED BY <4>1, <4>2, <4>3
    <3> QED BY <3>1, <3>2
  <2>7. Cardinality(present) <= Len(t)
    BY <2>2, <2>5
  <2>8. \A e \in present : \E j \in 1 .. Cardinality(present) : t[j] = Id[e]
    BY <1>1, <2>2, <2>5 DEF Numbered
  <2>9. \A j, k \in 1 .. Cardinality(present) : j < k => t[j] <= t[k]
    BY <1>1, <2>2, <2>5 DEF Numbered
  <2> QED BY <2>2, <2>3, <2>4, <2>6, <2>7, <2>8, <2>9 DEF Numbered
<1> QED BY <1>2, <1>3, <1>4 DEF Next, vars, Load, BeginRegister, NextAdapter, RegisterQueue,
        RingMissing, ChardevDone, RegisterDone, ExitModule, Unbind

\* adapters[] grows at its end, and a card that is unbound only leaves its place.
LEMMA EnteredStep == ASSUME RegInv, [Next]_vars PROVE Entered'
<1>1. TypeOK /\ Numbered /\ Entered /\ Placed
  BY DEF RegInv
<1>2. CASE UNCHANGED <<number, table, present, adapters>> /\ phase' # "unloaded"
           /\ (phase' = "probing" => UNCHANGED <<queue, index>> /\ phase \in {"unloaded", "probing"})
  BY <1>1, <1>2 DEF Entered, Known, Live, ToSet
<1>3. CASE UNCHANGED vars
  BY <1>1, <1>3 DEF Entered, Known, Live, ToSet, vars
<1>4. CASE Load /\ ~PrecheckFails
  <2>1. UNCHANGED <<number, adapters, queue, index>> /\ phase' = "probing" /\ phase = "unloaded"
    BY <1>4 DEF Load
  <2> QED BY <1>1, <2>1 DEF Entered, Known, Live, ToSet
<1>5. ASSUME NEW c \in Cards, Probe(c) PROVE Entered'
  <2>1. PICK e \in {c, None} : adapters' = Append(adapters, e)
    BY <1>5 DEF Probe
  <2>2. e \in Cards \cup {None}
    BY <2>1
  <2>3. /\ DOMAIN adapters' = 1 .. (Len(adapters) + 1)
        /\ \A k \in DOMAIN adapters : k \in DOMAIN adapters' /\ adapters'[k] = adapters[k]
        /\ adapters'[Len(adapters) + 1] = e
        /\ Live' = Live \cup ({e} \ {None})
    BY <1>1, <2>1, <2>2, EntryAdded
  <2>4. DOMAIN adapters = 1 .. Len(adapters) /\ Len(adapters) \in Nat
    BY <1>1, LiveCards
  <2>5. \A j \in DOMAIN adapters' : j \in DOMAIN adapters \/ j = Len(adapters) + 1
    BY <2>3, <2>4
  <2>6. \A j \in DOMAIN adapters : adapters[j] # None => adapters[j] # e
    <3> SUFFICES ASSUME NEW j \in DOMAIN adapters, adapters[j] # None, adapters[j] = e PROVE FALSE
      OBVIOUS
    <3>1. c \in Live
      BY <1>1, <2>1, LiveCards
    <3> QED BY <1>5, <3>1 DEF Probe
  <2>7. \A j, k \in DOMAIN adapters' : adapters'[j] = adapters'[k] /\ adapters'[j] # None => j = k
    BY <1>1, <2>3, <2>5, <2>6 DEF Entered
  <2>8. NumberOrDefault(Id[c]) \in Numbers
    BY <1>1, EntryNumber DEF EntryFor
  <2>9. c \in Known' /\ Known \subseteq Known'
    BY <1>1, <1>5, <2>8, Constants DEF Probe, Known, TypeOK, Numbers
  <2>10. Live' \subseteq Known'
    BY <1>1, <2>1, <2>3, <2>9 DEF Entered
  <2>11. UNCHANGED <<phase, queue, index>> /\ phase # "unloaded"
    BY <1>5 DEF Probe
  <2> QED BY <1>1, <2>7, <2>10, <2>11 DEF Entered
<1>6. ASSUME NEW c \in Cards, Unbind(c) PROVE Entered'
  <2>1. /\ phase = "loaded" /\ UNCHANGED <<number, table, present, phase, queue, index>>
        /\ adapters' = [k \in DOMAIN adapters |-> IF adapters[k] = c THEN None ELSE adapters[k]]
    BY <1>6 DEF Unbind
  <2>2. Live' \subseteq Live
    BY <2>1 DEF Live, ToSet
  <2>3. \A j, k \in DOMAIN adapters' : adapters'[j] = adapters'[k] /\ adapters'[j] # None => j = k
    BY <1>1, <2>1 DEF Entered
  <2> QED BY <1>1, <2>1, <2>2, <2>3 DEF Entered, Known
<1>7. CASE BeginRegister \/ NextAdapter \/ RegisterQueue \/ RingMissing \/ ChardevDone
           \/ RegisterDone \/ ExitModule \/ (Load /\ PrecheckFails)
  <2>1. UNCHANGED <<number, table, present, adapters>>
    BY <1>7 DEF BeginRegister, NextAdapter, RegisterQueue, RingMissing, ChardevDone, RegisterDone,
       ExitModule, Load
  <2>2. phase' \notin {"unloaded", "probing"}
    BY <1>7 DEF BeginRegister, NextAdapter, RegisterQueue, RingMissing, ChardevDone, RegisterDone,
       ExitModule, Load
  <2> QED BY <1>2, <2>1, <2>2
<1> QED BY <1>3, <1>4, <1>5, <1>6, <1>7 DEF Next

\* An adapter is in its place until it is unbound, and keeps its number meanwhile.
LEMMA CardStays ==
  ASSUME RegInv, [Next]_vars, NEW k \in DOMAIN adapters
  PROVE  /\ k \in DOMAIN adapters'
         /\ adapters'[k] = adapters[k] \/ (adapters'[k] = None /\ \E c \in Cards : Unbind(c) /\ adapters[k] = c)
         /\ adapters[k] \in Live => number'[adapters[k]] = number[adapters[k]]
<1>1. TypeOK
  BY DEF RegInv
<1>2. CASE UNCHANGED <<adapters, number>>
  BY <1>2
<1>3. ASSUME NEW c \in Cards, Probe(c)
      PROVE  /\ k \in DOMAIN adapters' /\ adapters'[k] = adapters[k]
             /\ adapters[k] \in Live => number'[adapters[k]] = number[adapters[k]]
  <2>1. PICK e \in Cards \cup {None} : adapters' = Append(adapters, e)
    BY <1>3 DEF Probe
  <2>2. k \in DOMAIN adapters' /\ adapters'[k] = adapters[k]
    BY <1>1, <2>1, EntryAdded
  <2>3. adapters[k] \in Live => adapters[k] # c
    BY <1>3 DEF Probe
  <2>4. \A x \in Cards \ {c} : number'[x] = number[x]
    BY <1>1, <1>3 DEF Probe, TypeOK
  <2> QED BY <1>1, <2>2, <2>3, <2>4, LiveCards
<1>4. ASSUME NEW c \in Cards, Unbind(c)
      PROVE  /\ k \in DOMAIN adapters'
             /\ adapters'[k] = adapters[k] \/ (adapters'[k] = None /\ adapters[k] = c)
             /\ UNCHANGED number
  BY <1>4 DEF Unbind
<1>5. (\E c \in Cards : Probe(c)) \/ (\E c \in Cards : Unbind(c)) \/ UNCHANGED <<adapters, number>>
  BY DEF Next, vars, Load, BeginRegister, NextAdapter, RegisterQueue,
        RingMissing, ChardevDone, RegisterDone, ExitModule
<1> QED BY <1>2, <1>3, <1>4, <1>5

-----------------------------------------------------------------------------
\* A queue is given a part of its adapter's buffer, never more.
LEMMA SizeOf ==
  ASSUME NEW c
  PROVE  BufSize(c) \in Nat /\ BufSizePerQueue(c) \in Nat /\ BufSizePerQueue(c) <= BufSize(c)
<1> DEFINE p == PagesOf(number[c])
<1>1. p \in Nat
  BY Constants DEF PagesOf
<1> HIDE DEF p
<1>2. p * PageSize \in Nat
  BY <1>1, Constants
<1>3. BufSize(c) = p * PageSize
  BY DEF BufSize, p
<1>4. \A x \in Nat : x \div Queues \in Nat /\ x \div Queues <= x
  <2> SUFFICES ASSUME NEW x \in Nat PROVE x \div Queues \in Nat /\ x \div Queues <= x
    OBVIOUS
  <2> DEFINE d == x \div Queues
             m == x % Queues
  <2>1. d \in Int /\ m \in Nat /\ x = Queues * d + m /\ m < Queues
    BY Constants
  <2>2. d >= 0
    BY Constants
  <2> HIDE DEF d, m
  <2>3. Queues * d >= d
    <3>1. (Queues - 1) * d >= 0
      BY <2>1, <2>2, Constants
    <3> QED BY <2>1, <3>1, Constants
  <2>4. d <= x
    BY <2>1, <2>3, Constants
  <2> QED BY <2>1, <2>2, <2>4 DEF d
<1> QED BY <1>2, <1>3, <1>4 DEF BufSizePerQueue

\* What is known of the adapter being registered.
LEMMA CurrentCard ==
  ASSUME RegInv, queue # None
  PROVE  /\ Card \in Cards /\ Card \in Live /\ number[Card] \in Numbers
         /\ index \in DOMAIN adapters /\ offset \in 0 .. Pool
         /\ BufSize(Card) \in Nat /\ BufSizePerQueue(Card) \in Nat
         /\ BufSizePerQueue(Card) <= BufSize(Card)
         /\ BufSize(Card) + offset <= Pool
<1>1. TypeOK /\ Entered /\ Placed
  BY DEF RegInv
<1>2. Card \in Cards /\ Card \in Live /\ index \in DOMAIN adapters /\ ~OutOfMemory(Card)
  BY <1>1, LiveCards DEF Placed
<1>3. number[Card] \in Numbers
  BY <1>1, <1>2 DEF Entered, Known, TypeOK
<1>4. offset \in 0 .. Pool
  BY <1>1 DEF TypeOK
<1>5. BufSize(Card) \in Nat /\ BufSizePerQueue(Card) \in Nat /\ BufSizePerQueue(Card) <= BufSize(Card)
  BY SizeOf
<1>6. BufSize(Card) + offset <= Pool
  BY <1>2, <1>4, <1>5, Constants DEF OutOfMemory
<1> QED BY <1>2, <1>3, <1>4, <1>5, <1>6

LEMMA RegInit == ASSUME Init PROVE RegInv
<1>1. /\ param \in Parameters /\ present = {} /\ table = <<>> /\ adapters = <<>> /\ regions = {}
      /\ number = [c \in Cards |-> None] /\ bufp = [c \in Cards |-> NoBuffers]
      /\ phase = "unloaded" /\ index = 1 /\ queue = None /\ failed = FALSE
      /\ offset = 0 /\ masked = {}
  BY DEF Init
<1>2. Known = {} /\ Live = {} /\ Cardinality(present) = 0 /\ Cardinality(present \cup Known) = 0
  <2>1. Known = {}
    BY <1>1 DEF Known
  <2>2. Live = {}
    BY <1>1 DEF Live, ToSet
  <2> QED BY <1>1, <2>1, <2>2, FS_EmptySet
<1>3. TypeOK
  <2>1. table \in Seq(Range(Id)) /\ adapters \in Seq(Cards \cup {None}) /\ Len(adapters) <= MaxNic
    BY <1>1, EmptySeq, Constants
  <2>2. bufp \in [Cards -> [QueueIds -> [offset : 0 .. Pool, size : 0 .. Pool] \cup {None}]]
    BY <1>1 DEF NoBuffers
  <2>3. number \in [Cards -> Numbers \cup {None}]
    BY <1>1
  <2>4. index \in 1 .. MaxNic + 1 /\ offset \in 0 .. Pool
    BY <1>1, Constants
  <2>5. failed \in BOOLEAN /\ queue \in QueueIds \cup {Queues, None}
    BY <1>1
  <2> QED BY <1>1, <2>1, <2>2, <2>3, <2>4, <2>5 DEF TypeOK
<1>4. Numbered
  BY <1>1, <1>2 DEF Numbered
<1>5. Entered /\ InOrder
  <2>1. Len(adapters) = 0
    BY <1>1, EmptySeq
  <2> QED BY <1>1, <1>2, <2>1 DEF Entered, InOrder
<1>6. Placed /\ BuffersApart
  BY <1>1, <1>2 DEF Placed, BuffersApart, NoBuffers
<1>7. Whole /\ WholeUnlessMasked
  BY <1>1, <1>2 DEF Whole, WholeUnlessMasked
<1>8. Claims /\ RegionsExact
  BY <1>1, <1>2 DEF Claims, RegionsExact
<1> QED BY <1>3, <1>4, <1>5, <1>6, <1>7, <1>8 DEF RegInv

LEMMA TypeStep == ASSUME RegInv, [Next]_vars PROVE TypeOK'
<1>1. TypeOK /\ Numbered /\ Entered /\ Placed
  BY DEF RegInv
<1>2. CASE UNCHANGED vars
  BY <1>1, <1>2 DEF TypeOK, vars
<1>3. CASE Load
  <2>1. /\ UNCHANGED <<param, adapters, number, bufp, regions, index, queue, failed, offset, masked>>
        /\ phase' \in {"failed", "probing"}
    BY <1>3 DEF Load
  <2>2. present' \subseteq Cards /\ table' \in Seq(Range(Id))
    <3>1. CASE PrecheckFails
      BY <1>1, <1>3, <3>1 DEF Load, TypeOK
    <3>2. CASE ~PrecheckFails
      <4>1. PICK cards \in Bijection(1 .. Cardinality(present'), present') :
               table' = [k \in DOMAIN cards |-> Id[cards[k]]]
        BY <1>3, <3>2 DEF Load
      <4>2. present' \subseteq Cards
        BY <1>3, <3>2 DEF Load
      <4>3. Cardinality(present') \in Nat
        BY <4>2, Constants, FS_Subset, FS_CardinalityType
      <4>4. DOMAIN cards = 1 .. Cardinality(present') /\ \A k \in DOMAIN cards : cards[k] \in present'
        BY <4>1 DEF Bijection, Injection
      <4>5. \A k \in DOMAIN cards : Id[cards[k]] \in Range(Id)
        BY <4>2, <4>4, Constants
      <4> QED BY <4>1, <4>2, <4>3, <4>4, <4>5
    <3> QED BY <3>1, <3>2
  <2> QED BY <1>1, <2>1, <2>2 DEF TypeOK
<1>4. ASSUME NEW c \in Cards, Probe(c) PROVE TypeOK'
  <2>1. PICK e \in Cards \cup {None} : adapters' = Append(adapters, e)
    BY <1>4 DEF Probe
  <2>2. adapters' \in Seq(Cards \cup {None}) /\ Len(adapters') = Len(adapters) + 1
    BY <1>1, <2>1, EntryAdded
  <2>3. Len(adapters') <= MaxNic
    BY <1>1, <1>4, <2>2, Constants, LiveCards DEF Probe
  <2>4. NumberOrDefault(Id[c]) \in Numbers /\ TableWith(Id[c]) \in Seq(Range(Id))
    BY <1>1, EntryNumber DEF EntryFor
  <2>5. number' \in [Cards -> Numbers \cup {None}]
    BY <1>1, <1>4, <2>4 DEF Probe, TypeOK
  <2>6. UNCHANGED <<param, present, bufp, regions, phase, index, queue, failed, offset, masked>>
    BY <1>4 DEF Probe
  <2> QED BY <1>1, <1>4, <2>2, <2>3, <2>4, <2>5, <2>6 DEF TypeOK, Probe
<1>5. ASSUME NEW c \in Cards, Unbind(c) PROVE TypeOK'
  <2>1. /\ adapters' = [k \in DOMAIN adapters |-> IF adapters[k] = c THEN None ELSE adapters[k]]
        /\ bufp' = [bufp EXCEPT ![c] = NoBuffers]
        /\ regions' = {<<r[1], r[2], IF r[3] = c THEN None ELSE r[3]>> : r \in regions}
        /\ UNCHANGED <<param, present, table, number, phase, index, queue, failed, offset, masked>>
    BY <1>5 DEF Unbind
  <2>2. adapters' \in Seq(Cards \cup {None}) /\ Len(adapters') = Len(adapters)
    BY <1>1, <2>1, LiveCards
  <2>3. NoBuffers \in [QueueIds -> [offset : 0 .. Pool, size : 0 .. Pool] \cup {None}]
    BY DEF NoBuffers
  <2>4. bufp' \in [Cards -> [QueueIds -> [offset : 0 .. Pool, size : 0 .. Pool] \cup {None}]]
    BY <1>1, <2>1, <2>3 DEF TypeOK
  <2>5. regions' \subseteq Numbers \X QueueIds \X (Cards \cup {None})
    BY <1>1, <2>1 DEF TypeOK
  <2> QED BY <1>1, <2>1, <2>2, <2>4, <2>5 DEF TypeOK
<1>6. CASE BeginRegister \/ RingMissing \/ RegisterDone
  BY <1>1, <1>6 DEF TypeOK, BeginRegister, RingMissing, RegisterDone
<1>7. CASE NextAdapter
  <2>1. /\ UNCHANGED <<param, present, table, adapters, number, bufp, regions, offset, masked>>
        /\ queue = None /\ index <= Len(adapters)
        /\ \/ phase' \in {"crashed", "failed"} /\ UNCHANGED <<index, queue, failed>>
           \/ index' = index + 1 /\ UNCHANGED <<phase, queue, failed>>
           \/ queue' = 0 /\ failed' = FALSE /\ UNCHANGED <<phase, index>>
    BY <1>7 DEF NextAdapter
  <2>2. index + 1 \in 1 .. MaxNic + 1
    <3>1. index \in Int /\ index >= 1 /\ Len(adapters) \in Nat /\ Len(adapters) <= MaxNic
      BY <1>1, LiveCards DEF TypeOK
    <3> QED BY <2>1, <3>1, Constants
  <2>3. 0 \in QueueIds
    BY Constants DEF QueueIds
  <2> QED BY <1>1, <2>1, <2>2, <2>3 DEF TypeOK
<1>8. CASE RegisterQueue
  <2>0. queue \in QueueIds /\ queue # None /\ queue \in Nat /\ queue < Queues
    BY <1>8, Constants DEF RegisterQueue, QueueIds
  <2>1. /\ Card \in Cards /\ Card \in Live /\ number[Card] \in Numbers /\ offset \in 0 .. Pool
        /\ BufSizePerQueue(Card) \in Nat /\ BufSize(Card) \in Nat
        /\ BufSizePerQueue(Card) <= BufSize(Card) /\ BufSize(Card) + offset <= Pool
    BY <2>0, CurrentCard
  <2>2. UNCHANGED <<param, present, table, adapters, number, phase, index, offset>>
    BY <1>8 DEF RegisterQueue
  <2>3. queue' = queue + 1 /\ failed' \in BOOLEAN /\ masked' \subseteq Cards
    BY <1>1, <1>8, <2>1 DEF RegisterQueue, QueueRegistered, QueueFails, QueueDone, TypeOK
  <2>4. queue' \in QueueIds \cup {Queues, None}
    BY <2>0, <2>3, Constants DEF QueueIds
  <2>5. /\ bufp' \in [Cards -> [QueueIds -> [offset : 0 .. Pool, size : 0 .. Pool] \cup {None}]]
        /\ regions' \subseteq Numbers \X QueueIds \X (Cards \cup {None})
    <3>1. CASE QueueFails
      BY <1>1, <3>1 DEF QueueFails, TypeOK
    <3>2. CASE QueueRegistered
      <4>1. /\ regions' = regions \cup {<<number[Card], queue, Card>>}
            /\ bufp' = [bufp EXCEPT ![Card][queue] = [offset |-> offset, size |-> BufSizePerQueue(Card)]]
        BY <3>2 DEF QueueRegistered
      <4>2. BufSizePerQueue(Card) \in 0 .. Pool
        BY <2>1, Constants
      <4> HIDE DEF Card
      <4> DEFINE b == [offset |-> offset, size |-> BufSizePerQueue(Card)]
      <4>3. b \in [offset : 0 .. Pool, size : 0 .. Pool]
        BY <2>1, <4>2
      <4> HIDE DEF b
      <4>4. bufp' = [bufp EXCEPT ![Card] = [bufp[Card] EXCEPT ![queue] = b]]
        BY <4>1 DEF b
      <4>5. [bufp[Card] EXCEPT ![queue] = b]
              \in [QueueIds -> [offset : 0 .. Pool, size : 0 .. Pool] \cup {None}]
        BY <1>1, <2>0, <2>1, <4>3 DEF TypeOK
      <4>6. bufp' \in [Cards -> [QueueIds -> [offset : 0 .. Pool, size : 0 .. Pool] \cup {None}]]
        BY <1>1, <2>1, <4>4, <4>5 DEF TypeOK
      <4>7. regions' \subseteq Numbers \X QueueIds \X (Cards \cup {None})
        BY <1>1, <2>0, <2>1, <4>1 DEF TypeOK
      <4> QED BY <4>6, <4>7
    <3> QED BY <1>8, <3>1, <3>2 DEF RegisterQueue
  <2> QED BY <1>1, <2>2, <2>3, <2>4, <2>5 DEF TypeOK
<1>9. CASE ChardevDone \/ ExitModule
  <2>1. /\ UNCHANGED <<param, present, table, adapters, number, failed, masked>>
        /\ regions' \subseteq regions
        /\ bufp' = bufp \/ (\E g : bufp' = BuffersWithout(g))
        /\ phase' \in {"failed", "gone", "crashed", phase}
        /\ queue' \in {queue, None}
        /\ \/ UNCHANGED <<index, offset>>
           \/ ChardevDone /\ index' = index + 1 /\ offset' = offset + BufSize(Card)
    BY <1>9 DEF ChardevDone, ExitModule, RegionsWithout
  <2>2. \A g : BuffersWithout(g) \in [Cards -> [QueueIds -> [offset : 0 .. Pool, size : 0 .. Pool] \cup {None}]]
    BY <1>1 DEF BuffersWithout, NoBuffers, TypeOK
  <2>3. bufp' \in [Cards -> [QueueIds -> [offset : 0 .. Pool, size : 0 .. Pool] \cup {None}]]
    BY <1>1, <2>1, <2>2 DEF TypeOK
  <2>4. index' \in 1 .. MaxNic + 1 /\ offset' \in 0 .. Pool
    <3>1. CASE UNCHANGED <<index, offset>>
      BY <1>1, <3>1 DEF TypeOK
    <3>2. CASE ChardevDone /\ index' = index + 1 /\ offset' = offset + BufSize(Card)
      <4>1. queue # None
        BY <3>2, Constants DEF ChardevDone
      <4>2. /\ index \in DOMAIN adapters /\ offset \in 0 .. Pool
            /\ BufSize(Card) \in Nat /\ BufSize(Card) + offset <= Pool
        BY <4>1, CurrentCard
      <4>3. index \in Nat /\ index >= 1 /\ index <= MaxNic
        BY <1>1, <4>2, LiveCards, Constants DEF TypeOK
      <4> QED BY <3>2, <4>2, <4>3, Constants
    <3> QED BY <2>1, <3>1, <3>2
  <2> QED BY <1>1, <2>1, <2>3, <2>4 DEF TypeOK
<1> QED BY <1>2, <1>3, <1>4, <1>5, <1>6, <1>7, <1>8, <1>9 DEF Next

-----------------------------------------------------------------------------
\* A card comes to adapters[] by its probe and leaves it when it is unbound.
LEMMA LiveStep ==
  ASSUME RegInv, [Next]_vars
  PROVE  /\ \A c \in Live' : c \in Live \/ (c \in Cards /\ Probe(c))
         /\ \A c \in Live : c \in Live' \/ (c \in Cards /\ Unbind(c))
         /\ \A c \in Cards : Unbind(c) => c \notin Live'
<1>1. TypeOK
  BY DEF RegInv
<1>2. CASE UNCHANGED adapters
  <2>1. Live' = Live
    BY <1>2 DEF Live, ToSet
  <2>2. \A c \in Cards : ~Unbind(c)
    <3> SUFFICES ASSUME NEW c \in Cards, Unbind(c) PROVE FALSE
      OBVIOUS
    <3>1. PICK k \in DOMAIN adapters : adapters[k] = c
      BY <1>1, LiveCards DEF Unbind
    <3>2. adapters'[k] = None
      BY <3>1 DEF Unbind
    <3> QED BY <1>2, <3>1, <3>2, Constants
  <2> QED BY <2>1, <2>2
<1>3. ASSUME NEW c \in Cards, Probe(c)
      PROVE  /\ \A e \in Live' : e \in Live \/ e = c
             /\ Live \subseteq Live'
             /\ \A e \in Cards : ~Unbind(e)
  <2>1. PICK e \in {c, None} : adapters' = Append(adapters, e)
    BY <1>3 DEF Probe
  <2>2. e \in Cards \cup {None}
    BY <2>1
  <2>3. Live' = Live \cup ({e} \ {None}) /\ Len(adapters') = Len(adapters) + 1
    BY <1>1, <2>1, <2>2, EntryAdded
  <2>4. \A x \in Cards : ~Unbind(x)
    <3> SUFFICES ASSUME NEW x \in Cards, Unbind(x) PROVE FALSE
      OBVIOUS
    <3>1. DOMAIN adapters' = DOMAIN adapters
      BY DEF Unbind
    <3>2. DOMAIN adapters' = 1 .. (Len(adapters) + 1)
      BY <1>1, <2>1, <2>2, EntryAdded
    <3>3. DOMAIN adapters = 1 .. Len(adapters) /\ Len(adapters) \in Nat
      BY <1>1, LiveCards
    <3>4. Len(adapters) + 1 \in 1 .. (Len(adapters) + 1) /\ Len(adapters) + 1 \notin 1 .. Len(adapters)
      BY <3>3
    <3> QED BY <3>1, <3>2, <3>3, <3>4
  <2> QED BY <2>1, <2>3, <2>4
<1>4. ASSUME NEW c \in Cards, Unbind(c)
      PROVE  /\ Live' = Live \ {c}
             /\ \A e \in Cards : Unbind(e) => e \notin Live'
  <2>1. \A e \in Cards : Unbind(e) => e \notin Live'
    <3> SUFFICES ASSUME NEW e \in Cards, Unbind(e) PROVE e \notin Live'
      OBVIOUS
    <3>1. adapters' = [k \in DOMAIN adapters |-> IF adapters[k] = e THEN None ELSE adapters[k]]
      BY DEF Unbind
    <3> QED BY <3>1, Constants DEF Live, ToSet
  <2>2. adapters' = [k \in DOMAIN adapters |-> IF adapters[k] = c THEN None ELSE adapters[k]]
    BY <1>4 DEF Unbind
  <2>3. Live' = Live \ {c}
    BY <2>2, Constants DEF Live, ToSet
  <2> QED BY <2>1, <2>3
<1>5. (\E c \in Cards : Probe(c)) \/ (\E c \in Cards : Unbind(c)) \/ UNCHANGED adapters
  BY DEF Next, vars, Load, BeginRegister, NextAdapter, RegisterQueue,
        RingMissing, ChardevDone, RegisterDone, ExitModule
<1> QED BY <1>2, <1>3, <1>4, <1>5

\* The only buffer that a step adds is that of the queue being registered.
LEMMA BufferAdded ==
  ASSUME RegInv, QueueRegistered, queue \in QueueIds
  PROVE  /\ \A c \in Cards : \A q \in QueueIds :
              bufp'[c][q] = IF c = Card /\ q = queue
                            THEN [offset |-> offset, size |-> BufSizePerQueue(Card)]
                            ELSE bufp[c][q]
         /\ bufp'[Card][queue] # None
<1>0. queue # None /\ queue \in Nat
  BY Constants DEF QueueIds
<1>1. Card \in Cards /\ offset \in 0 .. Pool /\ BufSizePerQueue(Card) \in Nat
  BY <1>0, CurrentCard
<1> HIDE DEF Card
<1> DEFINE b == [offset |-> offset, size |-> BufSizePerQueue(Card)]
<1>2. b \in [offset : Nat, size : Nat]
  BY <1>1, Constants
<1> HIDE DEF b
<1>3. bufp' = [bufp EXCEPT ![Card][queue] = b] /\ bufp \in [Cards -> [QueueIds ->
           [offset : 0 .. Pool, size : 0 .. Pool] \cup {None}]]
  BY DEF QueueRegistered, b, RegInv, TypeOK
<1>4. \A c \in Cards : \A q \in QueueIds :
          bufp'[c][q] = IF c = Card /\ q = queue THEN b ELSE bufp[c][q]
  BY <1>1, <1>3
<1>5. b # None
  BY <1>2, Constants
<1> QED BY <1>1, <1>4, <1>5 DEF b

LEMMA BuffersStep ==
  ASSUME RegInv, [Next]_vars, NEW c \in Cards, NEW q \in QueueIds
  PROVE  \/ bufp'[c][q] = bufp[c][q]
         \/ bufp'[c][q] = None /\ \/ Unbind(c)
                                  \/ ChardevDone /\ failed /\ c = Card
                                  \/ ExitModule /\ phase' = "gone" /\ c \in Live
         \/ RegisterQueue /\ QueueRegistered /\ c = Card /\ q = queue
<1>1. TypeOK
  BY DEF RegInv
<1>2. CASE UNCHANGED bufp
  BY <1>2
<1>3. ASSUME NEW e \in Cards, Unbind(e)
      PROVE  bufp'[c][q] = bufp[c][q] \/ (bufp'[c][q] = None /\ c = e)
  BY <1>1, <1>3 DEF Unbind, NoBuffers, TypeOK
<1>4. CASE ChardevDone
  BY <1>1, <1>4 DEF ChardevDone, BuffersWithout, NoBuffers
<1>5. CASE ExitModule
  BY <1>1, <1>5 DEF ExitModule, BuffersWithout, NoBuffers, ExitCards
<1>6. CASE RegisterQueue
  <2>1. queue \in QueueIds
    BY <1>6 DEF RegisterQueue
  <2>2. CASE QueueFails
    BY <2>2 DEF QueueFails
  <2>3. CASE QueueRegistered
    BY <1>6, <2>1, <2>3, BufferAdded
  <2> QED BY <1>6, <2>2, <2>3 DEF RegisterQueue
<1> QED BY <1>2, <1>3, <1>4, <1>5, <1>6 DEF Next, vars, Load, BeginRegister, NextAdapter,
        RingMissing, RegisterDone, Probe

-----------------------------------------------------------------------------
\* The sizes follow from the parameters and the number.
LEMMA SizeStays ==
  ASSUME param' = param, NEW c, number'[c] = number[c]
  PROVE  /\ BufSize(c)' = BufSize(c) /\ BufSizePerQueue(c)' = BufSizePerQueue(c)
         /\ Hpcap(number[c])' = Hpcap(number[c])
BY DEF BufSize, BufSizePerQueue, PagesOf, Hpcap, Value

\* The adapter being registered, and the places of the buffers, through a step
\* that leaves the registration where it is.
LEMMA RegistrationStays ==
  ASSUME RegInv, [Next]_vars, UNCHANGED <<param, index, queue>>, \A c \in Cards : ~Unbind(c)
  PROVE  /\ queue # None =>
              /\ index' \in DOMAIN adapters' /\ Card' = Card /\ Card' \in Live'
              /\ Hpcap(number[Card])' /\ (offset' = offset => ~OutOfMemory(Card)')
         /\ \A c \in Live : /\ Current(c)' <=> Current(c)
                            /\ BufSizePerQueue(c)' = BufSizePerQueue(c)
<1>1. TypeOK /\ Placed
  BY DEF RegInv
<1>2. ASSUME queue # None
      PROVE  /\ index' \in DOMAIN adapters' /\ Card' = Card /\ Card' \in Live'
             /\ Hpcap(number[Card])' /\ (offset' = offset => ~OutOfMemory(Card)')
  <2>1. index \in DOMAIN adapters /\ Card \in Live /\ Hpcap(number[Card]) /\ ~OutOfMemory(Card)
    BY <1>1, <1>2 DEF Placed
  <2>2. PICK c : c = Card
    OBVIOUS
  <2>3. index \in DOMAIN adapters' /\ adapters'[index] = c /\ number'[c] = number[c] /\ c \in Live
    BY <2>1, <2>2, CardStays DEF Card
  <2>4. Card' = c /\ c \in Live'
    BY <2>3, LiveStep DEF Card
  <2>5. BufSize(c)' = BufSize(c) /\ Hpcap(number[c])' = Hpcap(number[c])
    BY <2>3, SizeStays
  <2>6. Hpcap(number[Card])'
    BY <2>1, <2>2, <2>4, <2>5
  <2>7. offset' = offset => ~OutOfMemory(c)'
    BY <2>1, <2>2, <2>5 DEF OutOfMemory
  <2>8. \A d : d = c => (OutOfMemory(d)' <=> OutOfMemory(c)')
    OBVIOUS
  <2>9. OutOfMemory(Card)' <=> OutOfMemory(c)'
    BY <2>4 DEF OutOfMemory, BufSize, PagesOf, Value
  <2> QED BY <2>2, <2>3, <2>4, <2>6, <2>7, <2>9
<1>3. ASSUME NEW c \in Live
      PROVE  (Current(c)' <=> Current(c)) /\ BufSizePerQueue(c)' = BufSizePerQueue(c)
  <2>1. PICK k \in DOMAIN adapters : adapters[k] = c
    BY <1>1, <1>3, LiveCards
  <2>2. number'[c] = number[c]
    BY <1>3, <2>1, CardStays
  <2>3. Current(c)' <=> Current(c)
    BY <1>2 DEF Current
  <2> QED BY <2>2, <2>3, SizeStays
<1> QED BY <1>2, <1>3

\* The places of the buffers through a step that adds none.
LEMMA PlacesStay ==
  ASSUME RegInv, [Next]_vars, UNCHANGED <<param, index, queue, offset, bufp>>,
         \A c \in Cards : ~Unbind(c),
         queue # None => phase' \in {"registering", "crashed"}
  PROVE  Placed'
<1>1. TypeOK /\ Placed
  BY DEF RegInv
<1>2. queue' # None =>
         /\ phase' \in {"registering", "crashed"}
         /\ index' \in DOMAIN adapters' /\ Card' \in Live'
         /\ Hpcap(number[Card])' /\ ~OutOfMemory(Card)'
  BY RegistrationStays
<1>3. \A c \in Cards \ Live' : \A q \in QueueIds : bufp'[c][q] = None
  BY <1>1, LiveStep DEF Placed
<1>4. ASSUME NEW k \in DOMAIN adapters', adapters'[k] \in Live', k > index' \/ (k = index' /\ queue' = None),
             NEW q \in QueueIds
      PROVE  bufp'[adapters'[k]][q] = None
  <2>1. PICK c : c = adapters'[k]
    OBVIOUS
  <2>2. CASE c \in Live
    <3>1. PICK j \in DOMAIN adapters : adapters[j] = c
      BY <1>1, <2>2, LiveCards
    <3>2. c # None /\ c \in Cards
      BY <1>1, <2>2, LiveCards
    <3>3. j \in DOMAIN adapters' /\ adapters'[j] = c
      BY <3>1, <3>2, CardStays
    <3>4. Entered'
      BY EnteredStep
    <3>5. j = k
      BY <1>4, <2>1, <3>2, <3>3, <3>4 DEF Entered
    <3>6. bufp[c][q] = None
      BY <1>1, <1>4, <2>2, <3>1, <3>5 DEF Placed
    <3> QED BY <2>1, <3>6
  <2>3. CASE c \notin Live
    <3>1. c \in Cards
      BY <1>4, <2>1, <2>3, LiveStep
    <3> QED BY <1>1, <2>1, <2>3, <3>1 DEF Placed
  <2> QED BY <2>2, <2>3
<1>5. ASSUME NEW c \in Live', NEW q \in QueueIds, bufp'[c][q] # None
      PROVE  IF Current(c)'
             THEN bufp'[c][q].offset = offset' /\ bufp'[c][q].size = BufSizePerQueue(c)'
             ELSE bufp'[c][q].offset + bufp'[c][q].size <= offset'
  <2>1. c \in Live
    BY <1>1, <1>5, LiveStep DEF Placed
  <2>2. IF Current(c)
        THEN bufp[c][q].offset = offset /\ bufp[c][q].size = BufSizePerQueue(c)
        ELSE bufp[c][q].offset + bufp[c][q].size <= offset
    BY <1>1, <1>5, <2>1 DEF Placed
  <2>3. (Current(c)' <=> Current(c)) /\ BufSizePerQueue(c)' = BufSizePerQueue(c)
    BY <2>1, RegistrationStays
  <2> QED BY <2>2, <2>3
<1> QED BY <1>2, <1>3, <1>4, <1>5 DEF Placed

\* Buffers are placed one adapter after the other.
LEMMA PlacedStep == ASSUME RegInv, [Next]_vars PROVE Placed'
<1>1. TypeOK /\ Placed /\ Entered /\ TypeOK' /\ Entered'
  BY TypeStep, EnteredStep DEF RegInv
<1>2. CASE UNCHANGED vars
  BY <1>1, <1>2 DEF vars, Placed, Live, Current, Card, OutOfMemory, BufSize, BufSizePerQueue,
     PagesOf, Hpcap, Value
<1>3. CASE Load \/ BeginRegister \/ RingMissing \/ RegisterDone \/ (\E c \in Cards : Probe(c))
           \/ (NextAdapter /\ UNCHANGED <<index, queue>>) \/ (ExitModule /\ phase' = "crashed")
  <2>1. UNCHANGED <<param, index, queue, offset, bufp>>
    BY <1>3 DEF Load, BeginRegister, RingMissing, RegisterDone, Probe, NextAdapter, ExitModule
  <2>2. \A c \in Cards : ~Unbind(c)
    <3> SUFFICES ASSUME NEW c \in Cards, Unbind(c) PROVE FALSE
      OBVIOUS
    <3>1. phase = "loaded" /\ UNCHANGED phase
      BY DEF Unbind
    <3>2. \E e \in Cards : Probe(e)
      BY <1>3, <3>1 DEF Load, BeginRegister, RingMissing, RegisterDone, NextAdapter, ExitModule
    <3>3. PICK e \in Cards : Probe(e)
      BY <3>2
    <3>4. DOMAIN adapters' = DOMAIN adapters
      BY DEF Unbind
    <3>5. PICK x \in Cards \cup {None} : adapters' = Append(adapters, x)
      BY <3>3 DEF Probe
    <3>6. DOMAIN adapters' = 1 .. (Len(adapters) + 1)
      BY <1>1, <3>5, EntryAdded
    <3>7. DOMAIN adapters = 1 .. Len(adapters) /\ Len(adapters) \in Nat
      BY <1>1, LiveCards
    <3>8. Len(adapters) + 1 \in 1 .. (Len(adapters) + 1) /\ Len(adapters) + 1 \notin 1 .. Len(adapters)
      BY <3>7
    <3> QED BY <3>4, <3>6, <3>7, <3>8
  <2>3. queue # None => phase' \in {"registering", "crashed"}
    BY <1>1, <1>3 DEF Placed, Load, BeginRegister, RingMissing, RegisterDone, Probe, NextAdapter,
       ExitModule
  <2> QED BY <2>1, <2>2, <2>3, PlacesStay
<1>4. ASSUME NEW c \in Cards, Unbind(c) PROVE Placed'
  <2>1. /\ phase = "loaded" /\ bufp' = [bufp EXCEPT ![c] = NoBuffers]
        /\ adapters' = [k \in DOMAIN adapters |-> IF adapters[k] = c THEN None ELSE adapters[k]]
        /\ UNCHANGED <<index, queue, offset>>
    BY <1>4 DEF Unbind
  <2>2. queue = None
    BY <1>1, <2>1 DEF Placed
  <2>3. /\ \A q \in QueueIds : bufp'[c][q] = None
        /\ \A e \in Cards \ {c} : bufp'[e] = bufp[e]
    BY <1>1, <2>1 DEF TypeOK, NoBuffers
  <2>4. Live' = Live \ {c} /\ Live \subseteq Cards
    <3>1. Live' = Live \ {c}
      BY <2>1, Constants DEF Live, ToSet
    <3> QED BY <1>1, <3>1, LiveCards
  <2>5. \A e \in Cards \ Live' : \A q \in QueueIds : bufp'[e][q] = None
    BY <1>1, <2>3, <2>4 DEF Placed
  <2>6. ASSUME NEW k \in DOMAIN adapters', adapters'[k] \in Live', k > index' \/ k = index', NEW q \in QueueIds
        PROVE  bufp'[adapters'[k]][q] = None
    <3>1. k \in DOMAIN adapters /\ adapters[k] = adapters'[k]
      BY <2>1, <2>4, <2>6, <1>1, LiveCards
    <3> QED BY <1>1, <2>1, <2>2, <2>3, <2>4, <2>6, <3>1 DEF Placed
  <2>7. ASSUME NEW e \in Live', NEW q \in QueueIds, bufp'[e][q] # None
        PROVE  bufp'[e][q].offset + bufp'[e][q].size <= offset' /\ ~Current(e)'
    BY <1>1, <2>1, <2>2, <2>3, <2>4, <2>7 DEF Placed, Current
  <2> QED BY <2>1, <2>2, <2>5, <2>6, <2>7 DEF Placed
<1>5. CASE NextAdapter /\ index' = index + 1
  <2>1. queue = None /\ UNCHANGED <<adapters, bufp, queue, offset>>
    <3>1. queue' = queue
      BY <1>5, <1>1 DEF NextAdapter, TypeOK
    <3> QED BY <1>5, <3>1 DEF NextAdapter
  <2>2. Live' = Live /\ index \in Int /\ \A k \in DOMAIN adapters : k \in Int
    BY <1>1, <2>1, LiveCards DEF Live, ToSet, TypeOK
  <2>3. \A k \in DOMAIN adapters : k > index + 1 \/ k = index + 1 => k > index
    BY <2>2
  <2> QED BY <1>1, <1>5, <2>1, <2>2, <2>3 DEF Placed, Current
<1>6. CASE NextAdapter /\ queue' = 0
  <2>0. 0 # None
    BY Constants
  <2>1. /\ phase = "registering" /\ queue = None /\ index <= Len(adapters)
        /\ Card # None /\ Hpcap(number[Card]) /\ ~OutOfMemory(Card)
        /\ UNCHANGED <<param, adapters, number, bufp, offset, phase, index>>
    BY <1>6, <2>0 DEF NextAdapter
  <2>2. index \in DOMAIN adapters /\ Card \in Live
    <3>1. index \in Int /\ index >= 1 /\ Len(adapters) \in Nat
      BY <1>1, LiveCards DEF TypeOK
    <3>2. index \in DOMAIN adapters
      BY <1>1, <2>1, <3>1, LiveCards
    <3> QED BY <1>1, <2>1, <3>2, LiveCards DEF Card
  <2>3. /\ Live' = Live /\ Card' = Card
        /\ Hpcap(number[Card])' /\ ~OutOfMemory(Card)'
    BY <2>1 DEF Live, ToSet, Card, OutOfMemory, BufSize, PagesOf, Hpcap, Value
  <2>4. \A q \in QueueIds : bufp[Card][q] = None
    BY <1>1, <2>1, <2>2 DEF Placed, Card
  <2>5. ASSUME NEW c \in Live', NEW q \in QueueIds, bufp'[c][q] # None
        PROVE  ~Current(c)' /\ bufp'[c][q].offset + bufp'[c][q].size <= offset'
    <3>1. c # Card
      BY <2>1, <2>4, <2>5
    <3> QED BY <1>1, <2>1, <2>3, <2>5, <3>1 DEF Placed, Current
  <2> QED BY <1>1, <1>6, <2>1, <2>2, <2>3, <2>5, <2>0 DEF Placed
<1>7. CASE RegisterQueue
  <2>1. /\ phase = "registering" /\ queue \in QueueIds /\ queue' = queue + 1 /\ queue' # None /\ queue # None
        /\ UNCHANGED <<param, adapters, number, phase, index, offset>>
    <3>1. queue \in Nat /\ queue + 1 \in Nat /\ queue' = queue + 1
      BY <1>7 DEF RegisterQueue, QueueIds, QueueRegistered, QueueFails, QueueDone
    <3> QED BY <1>7, <3>1, Constants DEF RegisterQueue
  <2>2. /\ Live' = Live /\ Card' = Card /\ \A c : Current(c)' <=> Current(c)
        /\ Hpcap(number[Card])' /\ ~OutOfMemory(Card)' /\ Card \in Live /\ index \in DOMAIN adapters
    BY <1>1, <2>1 DEF Placed, Live, ToSet, Card, Current, OutOfMemory, BufSize, PagesOf, Hpcap, Value
  <2>3. \A c : BufSizePerQueue(c)' = BufSizePerQueue(c)
    BY <2>1, SizeStays
  <2>4. ASSUME NEW c \in Cards, NEW q \in QueueIds
        PROVE  \/ bufp'[c][q] = bufp[c][q]
               \/ /\ c = Card /\ bufp'[c][q].offset = offset
                  /\ bufp'[c][q].size = BufSizePerQueue(Card)
    <3>1. CASE QueueFails
      BY <3>1 DEF QueueFails
    <3>2. CASE QueueRegistered
      BY <2>1, <3>2, BufferAdded
    <3> QED BY <1>7, <3>1, <3>2 DEF RegisterQueue
  <2>5. \A c \in Cards \ Live' : \A q \in QueueIds : bufp'[c][q] = None
    BY <1>1, <2>2, <2>4 DEF Placed
  <2>6. ASSUME NEW k \in DOMAIN adapters', adapters'[k] \in Live', k > index', NEW q \in QueueIds
        PROVE  bufp'[adapters'[k]][q] = None
    <3>1. adapters[k] # Card
      <4>1. index \in DOMAIN adapters /\ k \in DOMAIN adapters /\ adapters[k] # None /\ k # index
        BY <1>1, <2>1, <2>2, <2>6, LiveCards DEF TypeOK
      <4> QED BY <1>1, <4>1 DEF Entered, Card
    <3>2. adapters[k] \in Cards /\ bufp[adapters[k]][q] = None
      BY <1>1, <2>1, <2>2, <2>6, LiveCards DEF Placed
    <3>3. PICK c \in Cards : c = adapters[k]
      BY <3>2
    <3> QED BY <2>1, <2>4, <3>1, <3>2, <3>3
  <2>7. ASSUME NEW c \in Live', NEW q \in QueueIds, bufp'[c][q] # None
        PROVE  IF Current(c)'
               THEN bufp'[c][q].offset = offset' /\ bufp'[c][q].size = BufSizePerQueue(c)'
               ELSE bufp'[c][q].offset + bufp'[c][q].size <= offset'
    <3>1. c \in Cards /\ c \in Live
      BY <1>1, <2>2, <2>7, LiveCards
    <3>2. CASE bufp'[c][q] = bufp[c][q]
      BY <1>1, <2>1, <2>2, <2>3, <2>7, <3>1, <3>2 DEF Placed
    <3>3. CASE c = Card /\ bufp'[c][q].offset = offset /\ bufp'[c][q].size = BufSizePerQueue(Card)
      <4>1. Current(c)
        BY <2>1, <3>3 DEF Current
      <4>2. BufSizePerQueue(c)' = BufSizePerQueue(c)
        BY <2>3
      <4>3. bufp'[c][q].size = BufSizePerQueue(c)
        BY <3>3
      <4> QED BY <2>1, <2>2, <3>3, <4>1, <4>2, <4>3
    <3> QED BY <2>4, <3>1, <3>2, <3>3
  <2> QED BY <2>1, <2>2, <2>5, <2>6, <2>7 DEF Placed
<1>8. CASE ChardevDone
  <2>0. queue # None
    BY <1>8, Constants DEF ChardevDone
  <2>1. /\ Card \in Cards /\ Card \in Live /\ index \in DOMAIN adapters /\ offset \in 0 .. Pool
        /\ BufSizePerQueue(Card) \in Nat /\ BufSize(Card) \in Nat
        /\ BufSizePerQueue(Card) <= BufSize(Card)
    BY <2>0, CurrentCard
  <2>2. queue' = None /\ UNCHANGED <<adapters, number, param>> /\ Live' = Live /\ \A c : ~Current(c)'
    BY <1>8 DEF ChardevDone, Live, ToSet, Current
  <2>3. CASE failed
    <3>1. /\ UNCHANGED <<index, offset>>
          /\ \A c \in Cards : \A q \in QueueIds : bufp'[c][q] = IF c = Card THEN None ELSE bufp[c][q]
      BY <1>1, <1>8, <2>3 DEF ChardevDone, BuffersWithout, NoBuffers
    <3>2. \A c \in Cards \ Live' : \A q \in QueueIds : bufp'[c][q] = None
      BY <1>1, <2>2, <3>1 DEF Placed
    <3>3. ASSUME NEW k \in DOMAIN adapters', adapters'[k] \in Live', k > index' \/ k = index', NEW q \in QueueIds
          PROVE  bufp'[adapters'[k]][q] = None
      <4>1. adapters[k] \in Cards /\ (k > index \/ adapters[k] = Card)
        BY <1>1, <2>2, <3>1, <3>3, LiveCards DEF Card
      <4> QED BY <1>1, <2>2, <3>1, <3>3, <4>1 DEF Placed
    <3>4. ASSUME NEW c \in Live', NEW q \in QueueIds, bufp'[c][q] # None
          PROVE  bufp'[c][q].offset + bufp'[c][q].size <= offset'
      <4>1. c \in Cards /\ c \in Live
        BY <1>1, <2>2, <3>4, LiveCards
      <4>2. c # Card /\ bufp'[c][q] = bufp[c][q]
        BY <3>1, <3>4, <4>1
      <4> QED BY <1>1, <3>1, <3>4, <4>1, <4>2 DEF Placed, Current
    <3> QED BY <2>2, <3>2, <3>3, <3>4 DEF Placed
  <2>4. CASE ~failed
    <3>1. index' = index + 1 /\ offset' = offset + BufSize(Card) /\ bufp' = bufp
      BY <1>8, <2>4 DEF ChardevDone
    <3>2. index \in Int /\ \A k \in DOMAIN adapters : k \in Int
      BY <1>1, LiveCards DEF TypeOK
    <3>3. ASSUME NEW k \in DOMAIN adapters', adapters'[k] \in Live', k > index' \/ k = index', NEW q \in QueueIds
          PROVE  bufp'[adapters'[k]][q] = None
      <4>1. k > index
        BY <2>2, <3>1, <3>2, <3>3
      <4> QED BY <1>1, <2>2, <3>1, <3>3, <4>1 DEF Placed
    <3>4. ASSUME NEW c \in Live', NEW q \in QueueIds, bufp'[c][q] # None
          PROVE  bufp'[c][q].offset + bufp'[c][q].size <= offset'
      <4>1. c \in Cards /\ c \in Live /\ bufp[c][q] # None
        BY <1>1, <2>2, <3>1, <3>4, LiveCards
      <4>2. bufp[c][q].offset \in Int /\ bufp[c][q].size \in Int
        BY <1>1, <4>1 DEF TypeOK
      <4>3. CASE Current(c)
        <5>1. bufp[c][q].offset = offset /\ bufp[c][q].size = BufSizePerQueue(c) /\ c = Card
          BY <1>1, <4>1, <4>3 DEF Placed, Current
        <5>2. bufp[c][q].size = BufSizePerQueue(Card)
          BY <5>1
        <5> QED BY <2>1, <3>1, <5>1, <5>2
      <4>4. CASE ~Current(c)
        <5>1. bufp[c][q].offset + bufp[c][q].size <= offset
          BY <1>1, <4>1, <4>4 DEF Placed
        <5> QED BY <2>1, <3>1, <4>2, <5>1
      <4> QED BY <4>3, <4>4
    <3>5. \A c \in Cards \ Live' : \A q \in QueueIds : bufp'[c][q] = None
      BY <1>1, <2>2, <3>1 DEF Placed
    <3> QED BY <2>2, <3>3, <3>4, <3>5 DEF Placed
  <2> QED BY <2>3, <2>4
<1>9. CASE ExitModule /\ phase' # "crashed"
  <2>1. phase = "loaded" /\ UNCHANGED <<adapters, index, queue>> /\ bufp' = BuffersWithout(Live)
    BY <1>9 DEF ExitModule, ExitCards
  <2>2. queue' = None /\ Live' = Live
    BY <1>1, <2>1 DEF Placed, Live, ToSet
  <2>3. \A c \in Cards : \A q \in QueueIds : bufp'[c][q] = None
    BY <1>1, <2>1 DEF BuffersWithout, NoBuffers, Placed
  <2>4. \A k \in DOMAIN adapters' : adapters'[k] \in Live' => adapters'[k] \in Cards
    BY <1>1, LiveCards, <2>1, <2>2
  <2>5. Live' \subseteq Cards
    BY <1>1, <2>2, LiveCards
  <2> QED BY <2>2, <2>3, <2>4, <2>5 DEF Placed
<1>10. NextAdapter => \/ UNCHANGED <<index, queue>> \/ index' = index + 1 \/ queue' = 0
  BY DEF NextAdapter
<1> QED BY <1>2, <1>3, <1>4, <1>5, <1>6, <1>7, <1>8, <1>9, <1>10 DEF Next

\* Each buffer is placed past those of the adapters before it.
LEMMA BuffersApartStep == ASSUME RegInv, [Next]_vars PROVE BuffersApart'
<1>1. TypeOK /\ Placed /\ BuffersApart
  BY DEF RegInv
<1>2. ASSUME NEW c \in Live', NEW q \in QueueIds, bufp'[c][q] # None
      PROVE  /\ c \in Live
             /\ \/ bufp'[c][q] = bufp[c][q]
                \/ /\ queue # None /\ c = Card
                   /\ bufp'[c][q] = [offset |-> offset, size |-> BufSizePerQueue(Card)]
  <2>1. c \in Cards
    BY TypeStep, <1>2 DEF Live, ToSet, TypeOK
  <2>2. CASE bufp'[c][q] = bufp[c][q]
    BY <1>1, <1>2, <2>1, <2>2 DEF Placed
  <2>3. CASE RegisterQueue /\ QueueRegistered /\ c = Card /\ q = queue
    <3>1. queue \in QueueIds /\ queue # None
      BY <2>3, Constants DEF RegisterQueue, QueueIds
    <3> QED BY <2>1, <2>3, <3>1, CurrentCard, BufferAdded
  <2> QED BY <1>2, <2>1, <2>2, <2>3, BuffersStep
<1>3. queue # None =>
         /\ offset \in 0 .. Pool /\ BufSizePerQueue(Card) \in Nat /\ BufSize(Card) \in Nat
         /\ BufSizePerQueue(Card) <= BufSize(Card) /\ BufSize(Card) + offset <= Pool
  BY CurrentCard
<1>4. ASSUME NEW c \in Live, NEW q \in QueueIds, bufp[c][q] # None
      PROVE  /\ bufp[c][q].offset + bufp[c][q].size <= Pool
             /\ c # Card => bufp[c][q].offset + bufp[c][q].size <= offset
  BY <1>1, <1>4 DEF BuffersApart, Placed, Current
<1> SUFFICES ASSUME NEW c \in Live', NEW e \in Live', NEW q \in QueueIds, NEW r \in QueueIds,
                    bufp'[c][q] # None, bufp'[e][r] # None
             PROVE  /\ bufp'[c][q].offset + bufp'[c][q].size <= Pool
                    /\ \/ c = e
                       \/ bufp'[c][q].offset + bufp'[c][q].size <= bufp'[e][r].offset
                       \/ bufp'[e][r].offset + bufp'[e][r].size <= bufp'[c][q].offset
  BY DEF BuffersApart
<1>5. bufp'[c][q].offset + bufp'[c][q].size <= Pool
  <2>1. CASE bufp'[c][q] = bufp[c][q]
    BY <1>2, <1>4, <2>1
  <2>2. CASE queue # None /\ bufp'[c][q] = [offset |-> offset, size |-> BufSizePerQueue(Card)]
    <3> DEFINE s == BufSizePerQueue(Card)
               t == BufSize(Card)
    <3>1. bufp'[c][q].offset = offset /\ bufp'[c][q].size = s
      BY <2>2
    <3>2. offset \in 0 .. Pool /\ s \in Nat /\ t \in Nat /\ s <= t /\ t + offset <= Pool
      BY <1>3, <2>2
    <3> HIDE DEF s, t
    <3> QED BY <3>1, <3>2, Constants
  <2> QED BY <1>2, <2>1, <2>2
<1>6. CASE bufp'[c][q] = bufp[c][q] /\ bufp'[e][r] = bufp[e][r]
  <2>1. c \in Live /\ e \in Live
    BY <1>2
  <2> QED BY <1>1, <1>5, <1>6, <2>1 DEF BuffersApart
<1>7. CASE c = Card /\ e = Card
  BY <1>5, <1>7
<1>8. CASE c = Card /\ e # Card /\ bufp'[c][q] = [offset |-> offset, size |-> BufSizePerQueue(Card)]
  <2>1. bufp'[e][r] = bufp[e][r] /\ e \in Live
    BY <1>2, <1>8
  <2> QED BY <1>4, <1>5, <1>8, <2>1
<1>9. CASE e = Card /\ c # Card /\ bufp'[e][r] = [offset |-> offset, size |-> BufSizePerQueue(Card)]
  <2>1. bufp'[c][q] = bufp[c][q] /\ c \in Live
    BY <1>2, <1>9
  <2> QED BY <1>4, <1>5, <1>9, <2>1
<1> QED BY <1>2, <1>6, <1>7, <1>8, <1>9

\* The registration goes on to the next adapter only where there was one.
LEMMA InOrderStep == ASSUME RegInv, [Next]_vars PROVE InOrder'
<1>1. TypeOK /\ Placed /\ InOrder
  BY DEF RegInv
<1>2. index \in Int /\ Len(adapters) \in Nat
  BY <1>1, LiveCards DEF TypeOK
<1>3. UNCHANGED adapters \/ Len(adapters') >= Len(adapters)
  <2>1. ASSUME NEW c \in Cards, Probe(c) PROVE Len(adapters') >= Len(adapters)
    <3>1. PICK e \in Cards \cup {None} : adapters' = Append(adapters, e)
      BY <2>1 DEF Probe
    <3> QED BY <1>1, <1>2, <3>1, EntryAdded
  <2>2. ASSUME NEW c \in Cards, Unbind(c) PROVE Len(adapters') >= Len(adapters)
    <3>1. adapters' = [k \in DOMAIN adapters |-> IF adapters[k] = c THEN None ELSE adapters[k]]
      BY <2>2 DEF Unbind
    <3>2. Len(adapters') = Len(adapters)
      BY <1>1, <3>1, LiveCards
    <3> QED BY <1>2, <3>2
  <2> QED BY <2>1, <2>2 DEF Next, vars, Load, BeginRegister, NextAdapter, RegisterQueue,
        RingMissing, ChardevDone, RegisterDone, ExitModule
<1>4. UNCHANGED index \/ (index' = index + 1 /\ index <= Len(adapters))
  <2>1. CASE ChardevDone
    <3>1. queue # None
      BY <2>1, Constants DEF ChardevDone
    <3>2. index <= Len(adapters)
      BY <1>1, <1>2, <3>1, LiveCards DEF Placed
    <3> QED BY <2>1, <3>2 DEF ChardevDone
  <2>2. CASE NextAdapter
    BY <2>2 DEF NextAdapter
  <2> QED BY <2>1, <2>2 DEF Next, vars, Load, BeginRegister, RegisterQueue,
        RingMissing, RegisterDone, ExitModule, Probe, Unbind
<1>5. Len(adapters') \in Nat
  BY TypeStep, LenProperties DEF TypeOK
<1> QED BY <1>1, <1>2, <1>3, <1>4, <1>5 DEF InOrder

-----------------------------------------------------------------------------
\* Outside its registration an adapter has the queues it had.
LEMMA WholeStep == ASSUME RegInv, [Next]_vars PROVE Whole'
<1>1. TypeOK /\ Placed /\ Whole /\ TypeOK' /\ Placed'
  BY TypeStep, PlacedStep DEF RegInv
<1>2. CASE /\ UNCHANGED <<param, index, queue, failed, masked, bufp>>
           /\ \A c \in Cards : ~Unbind(c)
  <2>1. /\ queue # None => Card' = Card
        /\ \A c \in Live : Current(c)' <=> Current(c)
    BY <1>2, RegistrationStays
  <2>2. \A c \in Live' : c \in Live \/ \A q \in QueueIds : bufp[c][q] = None
    BY <1>1, LiveStep DEF Placed
  <2>3. ASSUME NEW c \in Live' \ masked', ~Current(c)', Registered(c)', NEW q \in QueueIds
        PROVE  bufp'[c][q] # None
    <3>1. c \in Live
      BY <1>2, <2>2, <2>3 DEF Registered
    <3> QED BY <1>1, <1>2, <2>1, <2>3, <3>1 DEF Whole, Registered
  <2> QED BY <1>1, <1>2, <2>1, <2>3 DEF Whole
<1>3. ASSUME NEW c \in Cards, Unbind(c) PROVE Whole'
  <2>1. queue = None /\ UNCHANGED <<queue, masked>> /\ bufp' = [bufp EXCEPT ![c] = NoBuffers]
    BY <1>1, <1>3 DEF Unbind, Placed
  <2>2. \A e \in Cards \ {c} : bufp'[e] = bufp[e]
    BY <1>1, <2>1 DEF TypeOK
  <2>3. \A e \in Live' : e \in Live /\ e \in Cards /\ e # c
    <3>1. \A e \in Live' : e # c
      BY <1>3, LiveStep
    <3>2. adapters' = [k \in DOMAIN adapters |-> IF adapters[k] = c THEN None ELSE adapters[k]]
      BY <1>3 DEF Unbind
    <3>3. \A e \in Live' : e \in Live
      BY <3>2 DEF Live, ToSet
    <3> QED BY <1>1, <3>1, <3>3, LiveCards
  <2> QED BY <1>1, <2>1, <2>2, <2>3 DEF Whole, Current, Registered
<1>4. CASE NextAdapter /\ ~UNCHANGED <<index, queue, failed>>
  <2>1. queue = None /\ UNCHANGED <<adapters, bufp, masked>> /\ queue' \in {None, 0}
    BY <1>4 DEF NextAdapter
  <2>2. Live' = Live
    BY <2>1 DEF Live, ToSet
  <2>3. \A q \in QueueIds : ~(q < 0)
    BY Constants DEF QueueIds
  <2>4. \A c \in Live' \ masked' : Registered(c)' => \A q \in QueueIds : bufp'[c][q] # None
    BY <1>1, <2>1, <2>2 DEF Whole, Current, Registered
  <2>5. queue' # None => \A q \in QueueIds : ~(q < queue')
    BY <2>1, <2>3
  <2> QED BY <2>4, <2>5 DEF Whole
<1>5. CASE RegisterQueue
  <2>1. /\ queue \in QueueIds /\ queue \in Nat /\ queue # None /\ queue' = queue + 1 /\ queue' # None
        /\ UNCHANGED <<adapters, index>>
    <3>1. queue \in Nat /\ queue + 1 \in Nat /\ queue' = queue + 1
      BY <1>5 DEF RegisterQueue, QueueIds, QueueRegistered, QueueFails, QueueDone
    <3> QED BY <1>5, <3>1, Constants DEF RegisterQueue
  <2>2. Live' = Live /\ Card' = Card /\ (\A c : Current(c)' <=> Current(c)) /\ Live \subseteq Cards
    BY <1>1, <2>1, LiveCards DEF Live, ToSet, Card, Current
  <2>3. \A c \in Cards : c # Card => \A q \in QueueIds : bufp'[c][q] = bufp[c][q]
    <3>1. CASE QueueFails
      BY <3>1 DEF QueueFails
    <3>2. CASE QueueRegistered
      BY <2>1, <3>2, BufferAdded
    <3> QED BY <1>5, <3>1, <3>2 DEF RegisterQueue
  <2>4. masked \subseteq masked'
    BY <1>5 DEF RegisterQueue, QueueRegistered, QueueFails, QueueDone
  <2>5. \A c \in Live' \ masked' : ~Current(c)' /\ Registered(c)' => \A q \in QueueIds : bufp'[c][q] # None
    <3> SUFFICES ASSUME NEW c \in Live \ masked, ~Current(c), Registered(c)', NEW q \in QueueIds
                 PROVE  bufp'[c][q] # None
      BY <2>2, <2>4
    <3>1. c \in Cards /\ c # Card
      BY <2>1, <2>2 DEF Current
    <3>2. \A i \in QueueIds : bufp'[c][i] = bufp[c][i]
      BY <2>3, <3>1
    <3>3. Registered(c)
      BY <3>2 DEF Registered
    <3> QED BY <1>1, <3>2, <3>3 DEF Whole
  <2>6. ASSUME Card' \notin masked', ~failed', NEW q \in QueueIds, q < queue'
        PROVE  bufp'[Card'][q] # None
    <3>1. QueueRegistered /\ ~failed /\ Card \notin masked
      BY <1>5, <2>2, <2>4, <2>6 DEF RegisterQueue, QueueRegistered, QueueFails, QueueDone
    <3>2. Card \in Cards
      BY <2>1, CurrentCard
    <3>3. CASE q = queue
      BY <2>1, <2>2, <3>1, <3>3, BufferAdded
    <3>4. CASE q # queue
      <4>1. q < queue
        BY <2>1, <2>6, <3>4, Constants DEF QueueIds
      <4>2. bufp[Card][q] # None
        BY <1>1, <2>1, <3>1, <4>1 DEF Whole
      <4>3. bufp'[Card][q] = bufp[Card][q]
        BY <2>1, <3>1, <3>2, <3>4, BufferAdded
      <4> QED BY <2>2, <4>2, <4>3
    <3> QED BY <3>3, <3>4
  <2> QED BY <2>5, <2>6 DEF Whole
<1>6. CASE ChardevDone
  <2>1. /\ queue = Queues /\ queue # None /\ queue' = None /\ UNCHANGED <<adapters, failed, masked>>
    BY <1>6, Constants DEF ChardevDone
  <2>2. Live' = Live /\ Live \subseteq Cards /\ Card \in Cards
    BY <1>1, <2>1, LiveCards, CurrentCard DEF Live, ToSet
  <2>3. ASSUME NEW c \in Live \ masked, Registered(c)', NEW q \in QueueIds
        PROVE  bufp'[c][q] # None
    <3>1. CASE failed
      <4>1. \A e \in Cards : \A i \in QueueIds : bufp'[e][i] = IF e = Card THEN None ELSE bufp[e][i]
        BY <1>1, <1>6, <3>1 DEF ChardevDone, BuffersWithout, NoBuffers
      <4>2. c # Card /\ ~Current(c)
        BY <2>2, <2>3, <4>1 DEF Registered, Current
      <4>3. Registered(c)
        BY <2>2, <2>3, <4>1, <4>2 DEF Registered
      <4> QED BY <1>1, <2>2, <2>3, <4>1, <4>2, <4>3 DEF Whole
    <3>2. CASE ~failed
      <4>1. bufp' = bufp
        BY <1>6, <3>2 DEF ChardevDone
      <4>2. CASE c = Card
        <5>1. q < queue
          BY <2>1, Constants DEF QueueIds
        <5> QED BY <1>1, <2>1, <2>3, <3>2, <4>1, <4>2, <5>1 DEF Whole
      <4>3. CASE c # Card
        BY <1>1, <2>3, <4>1, <4>3 DEF Whole, Current, Registered
      <4> QED BY <4>2, <4>3
    <3> QED BY <3>1, <3>2
  <2> QED BY <2>1, <2>2, <2>3 DEF Whole
<1>7. CASE ExitModule /\ ~UNCHANGED bufp
  <2>1. phase = "loaded" /\ UNCHANGED <<adapters, queue>> /\ bufp' = BuffersWithout(Live)
    BY <1>7 DEF ExitModule, ExitCards
  <2>2. queue' = None /\ Live' = Live /\ Live \subseteq Cards
    BY <1>1, <2>1, LiveCards DEF Placed, Live, ToSet
  <2>3. \A c \in Live : \A q \in QueueIds : bufp'[c][q] = None
    BY <2>1, <2>2 DEF BuffersWithout, NoBuffers
  <2> QED BY <2>2, <2>3 DEF Whole, Registered
<1>8. \/ UNCHANGED <<param, index, queue, failed, masked, bufp>>
      \/ NextAdapter /\ ~UNCHANGED <<index, queue, failed>>
      \/ RegisterQueue \/ ChardevDone \/ (ExitModule /\ ~UNCHANGED bufp)
      \/ \E c \in Cards : Unbind(c)
  BY DEF Next, vars, Load, BeginRegister, NextAdapter, RingMissing, RegisterDone, ExitModule, Probe
<1> QED BY <1>2, <1>3, <1>4, <1>5, <1>6, <1>7, <1>8

\* An adapter that hpcap_register_adapters has gone past keeps its queues.
LEMMA WholeUnlessMaskedStep == ASSUME RegInv, [Next]_vars PROVE WholeUnlessMasked'
<1>1. TypeOK /\ Placed /\ Whole /\ Entered /\ InOrder /\ WholeUnlessMasked /\ TypeOK'
  BY TypeStep DEF RegInv
<1>2. \A c \in Live' \ masked' :
         queue' = None /\ Registered(c)' => \A q \in QueueIds : bufp'[c][q] # None
  BY WholeStep DEF Whole, Current
<1>3. index \in Nat /\ Len(adapters) \in Nat /\ DOMAIN adapters = 1 .. Len(adapters)
      /\ index <= Len(adapters) + 1
  BY <1>1, LiveCards DEF TypeOK, InOrder
<1>4. masked \subseteq masked' /\ param' = param
  BY DEF Next, vars, Load, BeginRegister, NextAdapter, RegisterQueue, QueueRegistered, QueueFails,
     QueueDone, RingMissing, ChardevDone, RegisterDone, ExitModule, Probe, Unbind
<1>5. phase' # "gone" => phase # "gone"
  BY DEF Next, vars, Load, BeginRegister, NextAdapter, RegisterQueue, RingMissing, ChardevDone,
     RegisterDone, ExitModule, Probe, Unbind
<1>6. ASSUME phase' # "gone", NEW k \in 1 .. index' - 1, NEW c, c = adapters'[k],
             c \in Live' \ masked', Hpcap(number[c])'
      PROVE  Registered(c)'
  <2>1. c # None /\ c \in Cards
    BY <1>1, <1>6, LiveCards DEF Live, ToSet, TypeOK
  <2>2. CASE k \in 1 .. index - 1
    <3>1. k \in DOMAIN adapters /\ k # index
      BY <1>3, <2>2
    <3>2. adapters[k] = c
      BY <1>6, <2>1, <3>1, CardStays
    <3>3. c \in Live \ masked /\ number'[c] = number[c]
      <4>1. c \in Live
        BY <1>1, <2>1, <3>1, <3>2, LiveCards
      <4> QED BY <1>4, <1>6, <3>1, <3>2, <4>1, CardStays
    <3>4. Hpcap(number[c])
      BY <1>4, <1>6, <3>3, SizeStays
    <3>5. Registered(c)
      BY <1>1, <1>5, <1>6, <2>2, <3>2, <3>3, <3>4 DEF WholeUnlessMasked
    <3>6. PICK q \in QueueIds : bufp[c][q] # None
      BY <3>5 DEF Registered
    <3>7. bufp'[c][q] = bufp[c][q] \/ (RegisterQueue /\ QueueRegistered /\ c = Card /\ q = queue)
      <4>1. ~Unbind(c)
        BY <1>6, <2>1, LiveStep
      <4>2. ~(ChardevDone /\ c = Card)
        <5> SUFFICES ASSUME ChardevDone, c = Card PROVE FALSE
          OBVIOUS
        <5>1. index \in DOMAIN adapters
          <6>1. queue # None
            BY Constants DEF ChardevDone
          <6> QED BY <6>1, CurrentCard
        <5>2. index = k
          BY <1>1, <2>1, <3>1, <3>2, <5>1 DEF Entered, Card
        <5> QED BY <3>1, <5>2
      <4> QED BY <1>6, <2>1, <4>1, <4>2, BuffersStep
    <3>8. bufp'[c][q] # None
      <4>1. CASE bufp'[c][q] = bufp[c][q]
        BY <3>6, <4>1
      <4>2. CASE RegisterQueue /\ QueueRegistered /\ c = Card /\ q = queue
        BY <4>2, BufferAdded
      <4> QED BY <3>7, <4>1, <4>2
    <3> QED BY <3>8 DEF Registered
  <2>3. CASE k \notin 1 .. index - 1
    <3>1. index' = index + 1 /\ k = index
      <4>1. index' = index \/ index' = index + 1
        BY DEF Next, vars, Load, BeginRegister, NextAdapter, RegisterQueue, RingMissing, ChardevDone,
           RegisterDone, ExitModule, Probe, Unbind
      <4> QED BY <1>3, <1>6, <2>3, <4>1
    <3>2. UNCHANGED <<adapters, number>> /\ c = Card
      <4>1. NextAdapter \/ ChardevDone
        BY <1>3, <3>1 DEF Next, vars, Load, BeginRegister, RegisterQueue, RingMissing,
           RegisterDone, ExitModule, Probe, Unbind
      <4> QED BY <1>6, <3>1, <4>1 DEF NextAdapter, ChardevDone, Card
    <3>3. Hpcap(number[c])
      BY <1>4, <1>6, <3>2, SizeStays
    <3>4. ~NextAdapter
      BY <1>3, <2>1, <3>1, <3>2, <3>3 DEF NextAdapter
    <3>5. ChardevDone
      BY <1>3, <3>1, <3>4 DEF Next, vars, Load, BeginRegister, RegisterQueue, RingMissing,
         RegisterDone, ExitModule, Probe, Unbind
    <3>6. ~failed /\ bufp' = bufp /\ queue = Queues
      BY <1>3, <3>1, <3>5 DEF ChardevDone
    <3>7. 0 \in QueueIds /\ 0 < queue /\ queue # None
      BY <3>6, Constants DEF QueueIds
    <3>8. c \notin masked
      BY <1>4, <1>6
    <3>9. bufp[c][0] # None
      BY <1>1, <3>2, <3>6, <3>7, <3>8 DEF Whole
    <3> QED BY <3>6, <3>7, <3>9 DEF Registered
  <2> QED BY <2>2, <2>3
<1> QED BY <1>2, <1>6 DEF WholeUnlessMasked

-----------------------------------------------------------------------------
\* A region is a number, a queue and the card it is for.
LEMMA RegionIs ==
  ASSUME TypeOK, NEW r \in regions
  PROVE  r = <<r[1], r[2], r[3]>> /\ r[2] \in QueueIds /\ r[3] \in Cards \cup {None}
BY DEF TypeOK

\* A step that leaves the regions and the buffers.
LEMMA RegionsStay ==
  ASSUME RegInv, [Next]_vars, UNCHANGED <<regions, bufp>>, \A c \in Cards : ~Unbind(c),
         phase' = "gone" => phase = "gone"
  PROVE  Claims' /\ RegionsExact'
<1>1. TypeOK /\ Placed /\ Claims /\ RegionsExact
  BY DEF RegInv
<1>2. \A c \in Live : c \in Live' /\ number'[c] = number[c]
  <2> SUFFICES ASSUME NEW c \in Live PROVE c \in Live' /\ number'[c] = number[c]
    OBVIOUS
  <2>1. PICK k \in DOMAIN adapters : adapters[k] = c
    BY <1>1, LiveCards
  <2> QED BY <2>1, CardStays, LiveStep
<1>3. \A k \in DOMAIN adapters : adapters[k] = None => k \in DOMAIN adapters' /\ adapters'[k] = None
  BY CardStays
<1>4. ASSUME NEW c \in Live', NEW q \in QueueIds, bufp'[c][q] # None
      PROVE  <<number'[c], q, c>> \in regions'
  <2>1. c \in Live
    BY <1>1, <1>4, LiveStep DEF Placed
  <2> QED BY <1>1, <1>2, <1>4, <2>1 DEF RegionsExact
<1>5. Claims'
  BY <1>1, <1>2, <1>3 DEF Claims
<1> QED BY <1>1, <1>4, <1>5 DEF RegionsExact

\* What is claimed and what has a buffer stay the same through every step.
LEMMA RegionsStep == ASSUME RegInv, [Next]_vars PROVE Claims' /\ RegionsExact'
<1>1. TypeOK /\ Placed /\ Claims /\ RegionsExact
  BY DEF RegInv
<1>2. CASE \/ UNCHANGED vars \/ Load \/ BeginRegister \/ NextAdapter \/ RingMissing \/ RegisterDone
           \/ (RegisterQueue /\ QueueFails) \/ (ChardevDone /\ ~failed)
           \/ (ExitModule /\ phase' = "crashed") \/ (\E c \in Cards : Probe(c))
  <2>1. UNCHANGED <<regions, bufp>> /\ (phase' = "gone" => phase = "gone")
    BY <1>2 DEF vars, Load, BeginRegister, NextAdapter, RegisterQueue, QueueFails, RingMissing,
       ChardevDone, RegisterDone, ExitModule, Probe
  <2>2. CASE \A c \in Cards : ~Unbind(c)
    BY <2>1, <2>2, RegionsStay
  <2>3. CASE ~(\A c \in Cards : ~Unbind(c))
    <3>1. PICK c \in Cards : Unbind(c)
      BY <2>3
    <3>2. phase = "loaded" /\ UNCHANGED phase
      BY <3>1 DEF Unbind
    <3>3. c \in Live /\ c \notin Live'
      BY <3>1, LiveStep DEF Unbind
    <3>4. Live \subseteq Live'
      <4>1. CASE \E e \in Cards : Probe(e)
        <5>1. PICK e \in Cards : Probe(e)
          BY <4>1
        <5>2. PICK x \in Cards \cup {None} : adapters' = Append(adapters, x)
          BY <5>1 DEF Probe
        <5> QED BY <1>1, <5>2, EntryAdded
      <4>2. CASE ~\E e \in Cards : Probe(e)
        <5>1. UNCHANGED adapters
          BY <1>2, <3>2, <4>2 DEF vars, Load, BeginRegister, NextAdapter, RegisterQueue, RingMissing,
             ChardevDone, RegisterDone, ExitModule
        <5> QED BY <5>1 DEF Live, ToSet
      <4> QED BY <4>1, <4>2
    <3> QED BY <3>3, <3>4
  <2> QED BY <2>2, <2>3
<1>3. ASSUME NEW c \in Cards, Unbind(c) PROVE Claims' /\ RegionsExact'
  <2> DEFINE Owner(r) == IF r[3] = c THEN None ELSE r[3]
  <2>1. /\ adapters' = [k \in DOMAIN adapters |-> IF adapters[k] = c THEN None ELSE adapters[k]]
        /\ bufp' = [bufp EXCEPT ![c] = NoBuffers] /\ number' = number
        /\ regions' = {<<r[1], r[2], Owner(r)>> : r \in regions}
        /\ phase = "loaded" /\ phase' = phase
    BY <1>3 DEF Unbind
  <2>2. \A e \in Cards \ {c} : bufp'[e] = bufp[e]
    BY <1>1, <2>1 DEF TypeOK
  <2>3. Live' = Live \ {c} /\ Live \subseteq Cards
    <3>1. Live' = Live \ {c}
      BY <2>1, Constants DEF Live, ToSet
    <3> QED BY <1>1, <3>1, LiveCards
  <2>4. ASSUME NEW s \in regions'
        PROVE  \E r \in regions : s[1] = r[1] /\ s[2] = r[2] /\ s[3] = Owner(r) /\ s = <<r[1], r[2], Owner(r)>>
    BY <2>1
  <2>5. \A r, s \in regions' : r[1] = s[1] /\ r[2] = s[2] => r = s
    <3> SUFFICES ASSUME NEW r \in regions', NEW s \in regions', r[1] = s[1], r[2] = s[2] PROVE r = s
      OBVIOUS
    <3>1. PICK x \in regions : r[1] = x[1] /\ r[2] = x[2] /\ r = <<x[1], x[2], Owner(x)>>
      BY <2>4
    <3>2. PICK y \in regions : s[1] = y[1] /\ s[2] = y[2] /\ s = <<y[1], y[2], Owner(y)>>
      BY <2>4
    <3>3. x = y
      BY <1>1, <3>1, <3>2 DEF RegionsExact
    <3> QED BY <3>1, <3>2, <3>3
  <2>6. ASSUME NEW s \in regions', s[3] # None
        PROVE  s[3] \in Live' /\ s[1] = number'[s[3]] /\ bufp'[s[3]][s[2]] # None
    <3>1. PICK r \in regions : s[1] = r[1] /\ s[2] = r[2] /\ s[3] = Owner(r)
      BY <2>4
    <3>2. s[3] = r[3] /\ r[3] # c
      BY <2>6, <3>1
    <3>3. r[3] \in Live /\ r[1] = number[r[3]] /\ bufp[r[3]][r[2]] # None
      BY <1>1, <2>6, <3>2 DEF Claims, RegionsExact
    <3>4. bufp'[r[3]] = bufp[r[3]]
      BY <2>2, <2>3, <3>2, <3>3
    <3> QED BY <2>1, <2>3, <3>1, <3>2, <3>3, <3>4
  <2>7. ASSUME NEW s \in regions', s[3] = None
        PROVE  \E k \in DOMAIN adapters' : adapters'[k] = None
    <3>1. PICK r \in regions : s[3] = Owner(r)
      BY <2>4
    <3>2. \E k \in DOMAIN adapters : adapters[k] = None \/ adapters[k] = c
      <4>1. CASE r[3] = None
        BY <1>1, <4>1 DEF Claims
      <4>2. CASE r[3] # None
        <5>1. r[3] = c /\ c \in Live
          BY <1>1, <2>7, <3>1, <4>2 DEF Claims
        <5> QED BY <1>1, <5>1, LiveCards
      <4> QED BY <4>1, <4>2
    <3> QED BY <2>1, <3>2
  <2>8. ASSUME NEW e \in Live', NEW q \in QueueIds, bufp'[e][q] # None
        PROVE  <<number'[e], q, e>> \in regions'
    <3>1. e \in Live /\ e # c /\ bufp[e][q] # None
      BY <2>2, <2>3, <2>8
    <3>2. <<number[e], q, e>> \in regions
      BY <1>1, <3>1 DEF RegionsExact
    <3> DEFINE r == <<number[e], q, e>>
    <3>3. r[1] = number[e] /\ r[2] = q /\ Owner(r) = e
      BY <3>1
    <3>4. <<r[1], r[2], Owner(r)>> \in regions'
      BY <2>1, <3>2
    <3> QED BY <2>1, <3>3, <3>4
  <2>9. Claims'
    BY <2>6, <2>7 DEF Claims
  <2> HIDE DEF Owner
  <2> QED BY <2>1, <2>5, <2>6, <2>8, <2>9 DEF RegionsExact
<1>4. CASE RegisterQueue /\ QueueRegistered
  <2>1. queue \in QueueIds /\ queue # None /\ phase # "gone" /\ UNCHANGED <<phase, adapters, number>>
    BY <1>4, Constants DEF RegisterQueue, QueueIds
  <2>2. PICK c : c = Card
    OBVIOUS
  <2>3. /\ c \in Live /\ Live' = Live /\ Live \subseteq Cards /\ None \notin Live
    BY <1>1, <2>1, <2>2, CurrentCard, LiveCards DEF Live, ToSet
  <2>4. PICK new : new = <<number[c], queue, c>>
    OBVIOUS
  <2>5. regions' = regions \cup {new} /\ ~Claimed(number[c], queue)
    BY <1>4, <2>2, <2>4 DEF QueueRegistered
  <2>6. new[1] = number[c] /\ new[2] = queue /\ new[3] = c
    BY <2>4
  <2>7. /\ \A e \in Cards : \A q \in QueueIds : (e # c \/ q # queue) => bufp'[e][q] = bufp[e][q]
        /\ bufp'[c][queue] # None
    BY <1>4, <2>1, <2>2, BufferAdded
  <2>8. Claims'
    BY <1>1, <2>1, <2>3, <2>5, <2>6 DEF Claims
  <2>9. \A r, s \in regions' : r[1] = s[1] /\ r[2] = s[2] => r = s
    BY <1>1, <2>5, <2>6 DEF RegionsExact, Claimed
  <2>10. ASSUME NEW r \in regions', r[3] # None PROVE bufp'[r[3]][r[2]] # None
    <3>1. CASE r = new
      BY <2>6, <2>7, <3>1
    <3>2. CASE r \in regions
      <4>1. bufp[r[3]][r[2]] # None /\ r[3] \in Cards /\ r[2] \in QueueIds
        BY <1>1, <2>3, <2>10, <3>2, RegionIs DEF RegionsExact, Claims
      <4> QED BY <2>7, <4>1
    <3> QED BY <2>5, <3>1, <3>2
  <2>11. ASSUME NEW e \in Live', NEW q \in QueueIds, bufp'[e][q] # None
         PROVE  <<number'[e], q, e>> \in regions'
    <3>1. CASE e = c /\ q = queue
      BY <2>1, <2>4, <2>5, <3>1
    <3>2. CASE e # c \/ q # queue
      BY <1>1, <2>1, <2>3, <2>5, <2>7, <2>11, <3>2 DEF RegionsExact
    <3> QED BY <3>1, <3>2
  <2> QED BY <2>1, <2>8, <2>9, <2>10, <2>11 DEF RegionsExact
<1>5. CASE ChardevDone /\ failed
  <2>1. queue # None /\ phase' = "failed" /\ UNCHANGED <<adapters, number>>
    BY <1>5, Constants DEF ChardevDone
  <2>2. PICK c : c = Card
    OBVIOUS
  <2>3. c \in Cards /\ c \in Live /\ Live' = Live /\ Live \subseteq Cards
    BY <1>1, <2>1, <2>2, CurrentCard, LiveCards DEF Live, ToSet
  <2>4. /\ regions' = {r \in regions : ~(r[1] = number[c] /\ bufp[c][r[2]] # None)}
        /\ \A e \in Cards : \A q \in QueueIds : bufp'[e][q] = IF e = c THEN None ELSE bufp[e][q]
    BY <1>1, <1>5, <2>2 DEF ChardevDone, RegionsWithout, BuffersWithout, NoBuffers
  <2>5. Claims'
    BY <1>1, <2>1, <2>3, <2>4 DEF Claims
  <2>6. ASSUME NEW r \in regions', r[3] # None PROVE bufp'[r[3]][r[2]] # None
    <3>1. /\ bufp[r[3]][r[2]] # None /\ r[3] \in Cards /\ r[2] \in QueueIds /\ r[1] = number[r[3]]
      BY <1>1, <2>3, <2>4, <2>6, RegionIs DEF RegionsExact, Claims
    <3>2. r[3] # c
      BY <2>4, <3>1
    <3> QED BY <2>4, <3>1, <3>2
  <2>7. ASSUME NEW e \in Live', NEW q \in QueueIds, bufp'[e][q] # None
        PROVE  <<number'[e], q, e>> \in regions'
    <3>1. e \in Live /\ e # c /\ bufp[e][q] # None
      BY <2>3, <2>4, <2>7
    <3>2. PICK r : r = <<number[e], q, e>>
      OBVIOUS
    <3>3. r \in regions /\ r[1] = number[e] /\ r[2] = q /\ r[3] = e
      BY <1>1, <3>1, <3>2 DEF RegionsExact
    <3>4. ~(r[1] = number[c] /\ bufp[c][q] # None)
      <4> SUFFICES ASSUME r[1] = number[c], bufp[c][q] # None PROVE FALSE
        OBVIOUS
      <4>1. PICK s : s = <<number[c], q, c>>
        OBVIOUS
      <4>2. s \in regions /\ s[1] = number[c] /\ s[2] = q /\ s[3] = c
        BY <1>1, <2>3, <4>1 DEF RegionsExact
      <4>3. r = s
        BY <1>1, <3>3, <4>2 DEF RegionsExact
      <4> QED BY <3>1, <3>3, <4>2, <4>3
    <3> QED BY <2>1, <2>4, <3>2, <3>3, <3>4
  <2>8. \A r, s \in regions' : r[1] = s[1] /\ r[2] = s[2] => r = s
    BY <1>1, <2>4 DEF RegionsExact
  <2> QED BY <2>1, <2>5, <2>6, <2>7, <2>8 DEF RegionsExact
<1>6. CASE ExitModule /\ phase' # "crashed"
  <2>1. /\ \A k \in DOMAIN adapters : adapters[k] # None
        /\ regions' = RegionsWithout(Live) /\ bufp' = BuffersWithout(Live) /\ UNCHANGED adapters
    BY <1>6 DEF ExitModule, ExitCards
  <2>2. \A r \in regions : r[3] \in Live /\ r[1] = number[r[3]] /\ bufp[r[3]][r[2]] # None
    BY <1>1, <2>1 DEF Claims, RegionsExact
  <2>3. regions' = {}
    BY <2>1, <2>2 DEF RegionsWithout
  <2>4. Live' = Live /\ Live \subseteq Cards
    BY <1>1, <2>1, LiveCards DEF Live, ToSet
  <2>5. \A c \in Live : \A q \in QueueIds : bufp'[c][q] = None
    BY <2>1, <2>4 DEF BuffersWithout, NoBuffers
  <2> QED BY <2>3, <2>4, <2>5 DEF Claims, RegionsExact
<1> QED BY <1>2, <1>3, <1>4, <1>5, <1>6 DEF Next, RegisterQueue

-----------------------------------------------------------------------------
LEMMA RegStep == ASSUME RegInv, [Next]_vars PROVE RegInv'
BY TypeStep, NumberedStep, EnteredStep, InOrderStep, PlacedStep, BuffersApartStep, WholeStep,
   WholeUnlessMaskedStep, RegionsStep DEF RegInv

\* The inductive invariant: what is said of the table, of adapters[], of the
\* places of the buffers and of the claims holds throughout (hpcap_pci.c,
\* hpcap_register_adapters, hpcap_register_chardev, i40e_remove, module_exit).
THEOREM RegistrationInvariant == Spec => []RegInv
<1>1. Init => RegInv
  BY RegInit
<1>2. RegInv /\ [Next]_vars => RegInv'
  BY RegStep
<1> QED BY <1>1, <1>2, PTL DEF Spec

\* Type correctness of the life of the module, for any cards and parameters: no
\* number, no place in the pool and no index of adapters[] leaves its range.
THEOREM RegistrationTypeCorrect == Spec => []TypeOK
<1>1. RegInv => TypeOK
  BY DEF RegInv
<1> QED BY <1>1, RegistrationInvariant, PTL

\* The numbers of hpcap_get_iface_number_or_default: the cards found at the load
\* are numbered in the order of their PCI positions, and two positions never have
\* one number, whatever is probed, unbound and plugged in.
THEOREM NumbersStayFixed == Spec => []NumbersFixed
<1>1. RegInv => NumbersFixed
  <2> SUFFICES ASSUME RegInv, NEW c \in Known, NEW e \in Known
               PROVE  /\ number[c] = number[e] => Id[c] = Id[e]
                      /\ {c, e} \subseteq present /\ Id[c] < Id[e] => number[c] < number[e]
    BY DEF NumbersFixed, Known
  <2>1. TypeOK /\ Numbered
    BY DEF RegInv
  <2>2. \A x \in Known : /\ x \in Cards /\ number[x] \in Nat /\ Id[x] \in Nat
                         /\ table[number[x] + 1] = Id[x]
                         /\ \A j \in 1 .. Len(table) : j <= number[x] => table[j] # Id[x]
    BY <2>1, Constants DEF Numbered, Known, TypeOK, Numbers
  <2>3. number[c] = number[e] => Id[c] = Id[e]
    BY <2>2
  <2>4. ASSUME c \in present, e \in present, Id[c] < Id[e] PROVE number[c] < number[e]
    <3> DEFINE N == Cardinality(present)
    <3>1. N \in Nat /\ Len(table) \in Nat /\ N <= Len(table)
      BY <2>1, Constants, FS_Subset, FS_CardinalityType, LenProperties DEF TypeOK, Numbered
    <3>2. /\ \A x \in present : \E j \in 1 .. N : table[j] = Id[x]
          /\ \A j, k \in 1 .. N : j < k => table[j] <= table[k]
      BY <2>1 DEF Numbered
    <3> HIDE DEF N
    <3>3. \A x \in Known \cap present : number[x] + 1 \in 1 .. N
      <4> SUFFICES ASSUME NEW x \in Known \cap present PROVE number[x] + 1 \in 1 .. N
        OBVIOUS
      <4>1. PICK j \in 1 .. N : table[j] = Id[x]
        BY <3>2
      <4>2. ~(j <= number[x])
        BY <2>2, <3>1, <4>1
      <4> QED BY <2>2, <3>1, <4>1, <4>2
    <3>4. ~(number[e] < number[c])
      <4> SUFFICES ASSUME number[e] < number[c] PROVE FALSE
        OBVIOUS
      <4>1. table[number[e] + 1] <= table[number[c] + 1]
        BY <2>2, <2>4, <3>2, <3>3
      <4> QED BY <2>2, <2>4, <4>1
    <3>5. number[e] # number[c]
      BY <2>2, <2>4
    <3> QED BY <2>2, <3>4, <3>5
  <2> QED BY <2>3, <2>4
<1> QED BY <1>1, RegistrationInvariant, PTL

\* "The number assigned to each interface is fixed": a card probed again finds
\* the number it had, because its entry is still the first of its identifier.
THEOREM NumberNeverChanges == Spec => NumberIsKept
<1> DEFINE Kept == \A c \in Cards : number[c] # None => number'[c] = number[c]
<1>1. ASSUME RegInv, [Next]_vars PROVE Kept
  <2>1. TypeOK /\ Numbered
    BY <1>1 DEF RegInv
  <2>2. CASE UNCHANGED number
    BY <2>2
  <2>3. ASSUME NEW e \in Cards, Probe(e) PROVE Kept
    <3>1. number' = [number EXCEPT ![e] = NumberOrDefault(Id[e])]
      BY <2>3 DEF Probe
    <3>2. number[e] # None => NumberOrDefault(Id[e]) = number[e]
      BY <2>1, EntryNumber DEF EntryFor, Known
    <3> QED BY <2>1, <3>1, <3>2 DEF TypeOK
  <2> QED BY <1>1, <2>2, <2>3 DEF Next, vars, Load, BeginRegister, NextAdapter, RegisterQueue,
        RingMissing, ChardevDone, RegisterDone, ExitModule, Unbind
<1>2. RegInv /\ [Next]_vars => [Kept]_number
  BY <1>1
<1> QED BY <1>2, RegistrationInvariant, PTL DEF Spec, NumberIsKept

\* The buffers that hpcap_register_adapters hands out do not overlap and stay in
\* auxBufs, for any pages, any number of adapters and any that are left out.
THEOREM BuffersStayApart == Spec => []BuffersApart
<1>1. RegInv => BuffersApart
  BY DEF RegInv
<1> QED BY <1>1, RegistrationInvariant, PTL

\* Regions, buffers and adapters agree through every failure of the registration
\* and the unloading, for any number of queues: a region is claimed for a queue
\* exactly while its ring has a buffer, for one queue only, and the unloading
\* leaves none.
THEOREM QueuesStayExact == Spec => []QueuesExact
<1>1. RegInv => QueuesExact
  BY DEF RegInv, QueuesExact
<1> QED BY <1>1, RegistrationInvariant, PTL

-----------------------------------------------------------------------------
(***************************************************************************)
(* The sums of pages.  hpcap_precheck_options adds the pages of all the    *)
(* numbers in hpcap mode, in their order; hpcap_register_adapters adds     *)
(* those of the adapters it meets, in the order of adapters[].             *)
(***************************************************************************)
\* Induction over the natural numbers, in the form of a set.
LEMMA SetInduction ==
  ASSUME NEW S, 0 \in S, \A n \in Nat : n \in S => n + 1 \in S
  PROVE  \A n \in Nat : n \in S
<1> DEFINE T == Nat \ S
           R == OpToRel(<, Nat)
<1> SUFFICES ASSUME T # {} PROVE FALSE
  OBVIOUS
<1>1. IsWellFoundedOn(R, Nat) /\ T \subseteq Nat
  BY NatLessThanWellFounded
<1> HIDE DEF T, R
<1>2. PICK x \in T : \A y \in T : ~(<<y, x>> \in R)
  BY <1>1, WFMin
<1>3. x \in Nat /\ x # 0 /\ x - 1 \in Nat
  BY <1>2 DEF T
<1>4. <<x - 1, x>> \in R
  BY <1>3 DEF R, OpToRel
<1>5. x - 1 \in S
  BY <1>2, <1>3, <1>4 DEF T
<1>6. (x - 1) + 1 \in S
  BY <1>3, <1>5
<1> QED BY <1>2, <1>3, <1>6 DEF T

\* hpcap_assigned_pages after the turn of number n, from x before it.
Turn(n, x) == (x + (IF Hpcap(n) THEN PagesAsked(n) ELSE 0)) % Word

\* The loop is defined: a first turn, and each turn from the one before it.
LEMMA AssignedTurns ==
  \A n \in Nat : Assigned[n] = Turn(n, IF n = 0 THEN 0 ELSE Assigned[n - 1])
<1> DEFINE Good(n, g) == g = [k \in 0 .. n |-> Turn(k, IF k = 0 THEN 0 ELSE g[k - 1])]
           E == {n \in Nat : \E g : Good(n, g)}
<1>1. \A n \in Nat : \E g : Good(n, g)
  <2>1. 0 \in E
    <3> DEFINE g == [k \in 0 .. 0 |-> Turn(0, 0)]
    <3>1. Good(0, g)
      OBVIOUS
    <3> QED BY <3>1
  <2>2. ASSUME NEW n \in Nat, n \in E PROVE n + 1 \in E
    <3>1. PICK g : Good(n, g)
      BY <2>2
    <3> DEFINE h == [k \in 0 .. n + 1 |-> Turn(k, IF k = 0 THEN 0 ELSE g[k - 1])]
    <3>2. \A k \in 0 .. n : h[k] = g[k]
      BY <3>1
    <3>3. \A k \in 0 .. n + 1 : k # 0 => k - 1 \in 0 .. n
      OBVIOUS
    <3>4. Good(n + 1, h)
      BY <3>2, <3>3
    <3>5. \E g2 : Good(n + 1, g2)
      <4> HIDE DEF Good, h
      <4> QED BY <3>4
    <3> HIDE DEF Good
    <3> QED BY <3>5
  <2> HIDE DEF E
  <2>3. \A n \in Nat : n \in E
    BY <2>1, <2>2, SetInduction
  <2> QED BY <2>3 DEF E
<1> HIDE DEF E
<1>2. ASSUME NEW n \in Nat, NEW m \in Nat, NEW g, NEW h, Good(n, g), Good(m, h)
      PROVE  \A k \in Nat : k <= n /\ k <= m => g[k] = h[k]
  <2> DEFINE S == {k \in Nat : k <= n /\ k <= m => g[k] = h[k]}
  <2>1. 0 \in S
    <3>1. g[0] = Turn(0, 0) /\ h[0] = Turn(0, 0)
      BY <1>2
    <3> QED BY <3>1
  <2>2. ASSUME NEW k \in Nat, k \in S PROVE k + 1 \in S
    <3> SUFFICES ASSUME k + 1 <= n, k + 1 <= m PROVE g[k + 1] = h[k + 1]
      OBVIOUS
    <3>1. g[k] = h[k]
      BY <2>2
    <3>2. k + 1 \in 0 .. n /\ k + 1 \in 0 .. m /\ k + 1 # 0 /\ (k + 1) - 1 = k
      OBVIOUS
    <3>3. g[k + 1] = Turn(k + 1, g[k]) /\ h[k + 1] = Turn(k + 1, h[k])
      BY <1>2, <3>2
    <3> QED BY <3>1, <3>3
  <2> HIDE DEF S, Good
  <2>3. \A k \in Nat : k \in S
    BY <2>1, <2>2, SetInduction
  <2> QED BY <2>3 DEF S
<1> DEFINE G(n) == CHOOSE g : Good(n, g)
           f == [n \in Nat |-> G(n)[n]]
<1>3. \A n \in Nat : Good(n, G(n))
  <2> HIDE DEF Good
  <2> QED BY <1>1
<1>4. ASSUME NEW n \in Nat PROVE f[n] = Turn(n, IF n = 0 THEN 0 ELSE f[n - 1])
  <2> HIDE DEF G
  <2>1. G(n) = [k \in 0 .. n |-> Turn(k, IF k = 0 THEN 0 ELSE G(n)[k - 1])]
    BY <1>3
  <2>2. G(n)[n] = Turn(n, IF n = 0 THEN 0 ELSE G(n)[n - 1])
    BY <2>1
  <2>3. n # 0 => G(n)[n - 1] = G(n - 1)[n - 1]
    <3> SUFFICES ASSUME n # 0 PROVE G(n)[n - 1] = G(n - 1)[n - 1]
      OBVIOUS
    <3>1. n - 1 \in Nat /\ n - 1 <= n /\ n - 1 <= n - 1
      OBVIOUS
    <3>2. Good(n, G(n)) /\ Good(n - 1, G(n - 1))
      BY <1>3, <3>1
    <3> HIDE DEF Good
    <3> QED BY <1>2, <3>1, <3>2
  <2>4. n # 0 => n - 1 \in Nat
    OBVIOUS
  <2> QED BY <2>2, <2>3, <2>4
<1> DEFINE Loop(F) == F = [n \in Nat |-> Turn(n, IF n = 0 THEN 0 ELSE F[n - 1])]
<1>5. Loop(f)
  <2> HIDE DEF f
  <2>1. f = [n \in Nat |-> f[n]]
    BY DEF f
  <2> QED BY <1>4, <2>1
<1>6. Assigned = CHOOSE F : Loop(F)
  BY DEF Assigned, Turn
<1>7. Loop(Assigned)
  <2> HIDE DEF Loop, f
  <2> QED BY <1>5, <1>6
<1> QED BY <1>7

\* The numbers of the adapters that have been given their part of the pool.
Taken == {number[adapters[k]] : k \in {j \in 1 .. index - 1 :
                                         adapters[j] \in Live /\ Hpcap(number[adapters[j]])}}

Distinct == \A c, e \in Live : c # e => number[c] # number[e]

\* g[n] is the number of pages of the numbers of t below n.
IsSum(g, t) ==
    /\ g \in [0 .. MaxNic + 1 -> Nat] /\ g[0] = 0
    /\ \A n \in 0 .. MaxNic : g[n + 1] = g[n] + (IF n \in t THEN PagesOf(n) ELSE 0)

PoolInv ==
    /\ phase \in {"probing", "registering"} => ~PrecheckFails
    /\ phase \in {"unloaded", "probing"} => offset = 0
    /\ phase = "registering" /\ Distinct =>
         \E g : IsSum(g, Taken) /\ offset = g[MaxNic + 1] * PageSize

\* Only a number that was given its mode is in hpcap mode.
LEMMA HpcapNumbers ==
  ASSUME TypeOK, NEW n \in Nat, Hpcap(n)
  PROVE  n \in 0 .. MaxNic
<1>1. param \in [mode : Seq(Int), pages : Seq(Int)] /\ Len(param.mode) <= MaxNic + 1
  BY RegistrationAssumption DEF TypeOK
<1>2. Len(param.mode) \in Nat
  BY <1>1, LenProperties
<1>3. n < Len(param.mode)
  BY <1>2 DEF Hpcap, Value, OptionUnset
<1> QED BY <1>1, <1>2, <1>3, Constants

LEMMA PagesNat == ASSUME NEW n PROVE PagesOf(n) \in Nat
BY Constants DEF PagesOf

\* One more number in the sum.
LEMMA SumWith ==
  ASSUME NEW g, NEW t, IsSum(g, t), NEW x \in 0 .. MaxNic, x \notin t
  PROVE  \E h : IsSum(h, t \cup {x}) /\ h[MaxNic + 1] = g[MaxNic + 1] + PagesOf(x)
<1> DEFINE p == PagesOf(x)
           h == [n \in 0 .. MaxNic + 1 |-> IF n > x THEN g[n] + p ELSE g[n]]
<1>1. p \in Nat /\ MaxNic \in Nat
  BY PagesNat, Constants
<1>2. /\ g \in [0 .. MaxNic + 1 -> Nat] /\ g[0] = 0
      /\ \A n \in 0 .. MaxNic : g[n + 1] = g[n] + (IF n \in t THEN PagesOf(n) ELSE 0)
  BY DEF IsSum
<1> HIDE DEF p
<1>3. h \in [0 .. MaxNic + 1 -> Nat] /\ h[0] = 0 /\ h[MaxNic + 1] = g[MaxNic + 1] + p
  BY <1>1, <1>2
<1>4. ASSUME NEW n \in 0 .. MaxNic
      PROVE  h[n + 1] = h[n] + (IF n \in t \cup {x} THEN PagesOf(n) ELSE 0)
  <2>0. n \in 0 .. MaxNic + 1 /\ n + 1 \in 0 .. MaxNic + 1 /\ g[n] \in Nat /\ PagesOf(n) \in Nat
    BY <1>1, <1>2, PagesNat
  <2>1. CASE n = x
    <3>1. h[n + 1] = g[n + 1] + p /\ h[n] = g[n]
      BY <2>0, <2>1
    <3>2. g[n + 1] = g[n]
      BY <1>2, <2>0, <2>1
    <3> QED BY <2>1, <3>1, <3>2 DEF p
  <2>2. CASE n > x
    <3> DEFINE a == IF n \in t THEN PagesOf(n) ELSE 0
    <3>1. h[n + 1] = g[n + 1] + p /\ h[n] = g[n] + p
      BY <2>0, <2>2
    <3>2. a \in Nat /\ g[n + 1] = g[n] + a
      BY <1>2, <2>0
    <3>3. (IF n \in t \cup {x} THEN PagesOf(n) ELSE 0) = a
      BY <2>2
    <3> HIDE DEF a, h
    <3> QED BY <1>1, <2>0, <3>1, <3>2, <3>3
  <2>3. CASE n < x
    <3>1. h[n + 1] = g[n + 1] /\ h[n] = g[n]
      BY <2>0, <2>3
    <3> QED BY <1>2, <2>0, <2>3, <3>1
  <2> QED BY <2>1, <2>2, <2>3
<1>5. IsSum(h, t \cup {x})
  <2> HIDE DEF h
  <2> QED BY <1>3, <1>4 DEF IsSum
<1> QED BY <1>3, <1>5 DEF p

\* What the check of the parameters admits is enough for any numbers in hpcap
\* mode that are registered, whatever the order they come in.
LEMMA SumFits ==
  ASSUME TypeOK, ~PrecheckFails, NEW g, NEW t, IsSum(g, t), \A n \in t : Hpcap(n),
         \A n \in 0 .. MaxNic : Hpcap(n) => Value(param.pages, n) >= 0
  PROVE  g[MaxNic + 1] <= Pool \div PageSize
<1> DEFINE P == Pool \div PageSize
           Before(n) == IF n = 0 THEN 0 ELSE Assigned[n - 1]
           S == {n \in Nat : n <= MaxNic => Assigned[n] \in 0 .. P /\ g[n + 1] <= Assigned[n]}
<1>1. /\ P \in Nat /\ P <= Pool /\ Word \in Nat /\ Word > Pool /\ Word > Pool + DefaultPages
      /\ Pool \in Nat /\ DefaultPages \in Nat /\ DefaultPages >= 1 /\ MaxNic \in Nat
  <2> DEFINE m == Pool % PageSize
  <2>1. P \in Int /\ P >= 0 /\ m \in Nat /\ Pool = PageSize * P + m
    BY Constants
  <2> HIDE DEF P, m
  <2>2. (PageSize - 1) * P >= 0
    BY <2>1, Constants
  <2>3. PageSize * P >= P
    BY <2>1, <2>2, Constants
  <2>4. P \in Nat /\ P <= Pool
    BY <2>1, <2>3, Constants
  <2> QED BY <2>4, RegistrationAssumption
<1> HIDE DEF P
<1>2. /\ g \in [0 .. MaxNic + 1 -> Nat] /\ g[0] = 0
      /\ \A n \in 0 .. MaxNic : g[n + 1] = g[n] + (IF n \in t THEN PagesOf(n) ELSE 0)
  BY DEF IsSum
<1>3. ASSUME NEW n \in 0 .. MaxNic, Hpcap(n)
      PROVE  /\ PagesAsked(n) \in Nat /\ PagesAsked(n) + Pool < Word
             /\ PagesAsked(n) <= P => PagesOf(n) = PagesAsked(n)
  <2> DEFINE v == Value(param.pages, n)
  <2>1. v \in Nat /\ v + Pool < Word
    <3>1. /\ param.pages \in Seq(Int)
          /\ \A k \in DOMAIN param.pages : param.pages[k] + Pool < Word
      BY RegistrationAssumption DEF TypeOK
    <3>2. v >= 0
      BY <1>3
    <3>3. n < Len(param.pages) => n + 1 \in DOMAIN param.pages
      BY <3>1, LenProperties
    <3>4. n < Len(param.pages)
      BY <3>1, <3>2 DEF Value, OptionUnset
    <3>5. v = param.pages[n + 1]
      BY <3>4 DEF Value
    <3>6. param.pages[n + 1] \in Int
      BY <3>1, <3>3, <3>4, ElementOfSeq
    <3> QED BY <3>1, <3>2, <3>3, <3>4, <3>5, <3>6
  <2> HIDE DEF v
  <2>2. v % Word = v
    BY <1>1, <2>1
  <2>3. PagesAsked(n) = IF v < 1 THEN DefaultPages ELSE v
    BY <2>2 DEF PagesAsked, v
  <2>4. PagesOf(n) = IF v \in 1 .. P THEN v ELSE DefaultPages
    BY DEF PagesOf, v, P
  <2> QED BY <1>1, <2>1, <2>3, <2>4
<1>4. ASSUME NEW n \in Nat, n <= MaxNic, Before(n) \in 0 .. P, g[n] <= Before(n)
      PROVE  Assigned[n] \in 0 .. P /\ g[n + 1] <= Assigned[n]
  <2> DEFINE b == Before(n)
  <2>0. n \in 0 .. MaxNic /\ n \in 0 .. MaxNic + 1 /\ g[n] \in Nat /\ b \in 0 .. P
    BY <1>1, <1>2, <1>4
  <2>1. Assigned[n] = Turn(n, b)
    BY AssignedTurns
  <2>2. g[n + 1] = g[n] + (IF n \in t THEN PagesOf(n) ELSE 0)
    BY <1>2, <2>0
  <2>3. g[n] <= b
    BY <1>4
  <2> HIDE DEF b, Before
  <2>4. CASE Hpcap(n)
    <3> DEFINE a == PagesAsked(n)
    <3>1. a \in Nat /\ a + Pool < Word /\ (a <= P => PagesOf(n) = a)
      BY <1>3, <2>0, <2>4
    <3>2. Assigned[n] = (b + a) % Word
      BY <2>1, <2>4 DEF Turn
    <3>3. ~(Assigned[n] > P)
      BY <2>0, <2>4 DEF PrecheckFails, P
    <3> HIDE DEF a
    <3>4. b + a \in Nat /\ b + a < Word
      BY <1>1, <2>0, <3>1
    <3>5. (b + a) % Word = b + a
      BY <1>1, <3>4
    <3>6. a <= P /\ PagesOf(n) = a
      BY <1>1, <2>0, <3>1, <3>2, <3>3, <3>5
    <3>7. g[n + 1] <= b + a
      BY <2>0, <2>2, <2>3, <3>1, <3>6
    <3> QED BY <1>1, <3>2, <3>3, <3>4, <3>5, <3>7
  <2>5. CASE ~Hpcap(n)
    <3>1. n \notin t /\ g[n + 1] = g[n]
      BY <2>0, <2>2, <2>5
    <3>2. Assigned[n] = b % Word
      BY <2>0, <2>1, <2>5 DEF Turn
    <3>3. b % Word = b
      BY <1>1, <2>0
    <3> QED BY <2>0, <2>3, <3>1, <3>2, <3>3
  <2> QED BY <2>4, <2>5
<1>5. 0 \in S
  <2>1. Before(0) = 0 /\ g[0] = 0
    BY <1>2
  <2> QED BY <1>1, <1>4, <2>1
<1>6. ASSUME NEW n \in Nat, n \in S PROVE n + 1 \in S
  <2> SUFFICES ASSUME n + 1 <= MaxNic
               PROVE  Assigned[n + 1] \in 0 .. P /\ g[(n + 1) + 1] <= Assigned[n + 1]
    OBVIOUS
  <2>1. Assigned[n] \in 0 .. P /\ g[n + 1] <= Assigned[n]
    BY <1>1, <1>6
  <2>2. Before(n + 1) = Assigned[n]
    OBVIOUS
  <2> HIDE DEF Before, S
  <2> QED BY <1>4, <2>1, <2>2
<1> HIDE DEF S
<1>7. \A n \in Nat : n \in S
  BY <1>5, <1>6, SetInduction
<1>8. Assigned[MaxNic] \in 0 .. P /\ g[MaxNic + 1] <= Assigned[MaxNic]
  BY <1>1, <1>7 DEF S
<1>9. g[MaxNic + 1] \in Nat /\ P \in Nat
  BY <1>1, <1>2
<1>10. g[MaxNic + 1] <= P
  BY <1>8, <1>9
<1> QED BY <1>10 DEF P

\* The sums, and what the check said, follow from the parameters.
LEMMA ParamStays ==
  ASSUME [Next]_vars
  PROVE  /\ param' = param /\ (PrecheckFails' <=> PrecheckFails)
         /\ \A n : PagesOf(n)' = PagesOf(n) /\ (Hpcap(n)' <=> Hpcap(n))
         /\ \A g, t : IsSum(g, t)' <=> IsSum(g, t)
<1>1. param' = param
  BY DEF Next, vars, Load, BeginRegister, NextAdapter, RegisterQueue, RingMissing, ChardevDone,
     RegisterDone, ExitModule, Probe, Unbind
<1>2. \A n : PagesOf(n)' = PagesOf(n) /\ (Hpcap(n)' <=> Hpcap(n)) /\ PagesAsked(n)' = PagesAsked(n)
  BY <1>1 DEF PagesOf, Hpcap, Value, PagesAsked
<1>3. \A g, t : IsSum(g, t)' <=> IsSum(g, t)
  BY <1>2 DEF IsSum
<1>4. Assigned' = Assigned
  BY <1>2 DEF Assigned
<1>5. PrecheckFails' <=> PrecheckFails
  BY <1>2, <1>4 DEF PrecheckFails
<1> QED BY <1>1, <1>2, <1>3, <1>5

\* While the registration stays at its adapter, the numbers it has passed do too,
\* and numbers that are the same stay the same.
LEMMA TakenStays ==
  ASSUME RegInv, [Next]_vars, \A c \in Cards : ~Unbind(c)
  PROVE  /\ index' = index => Taken' = Taken
         /\ Distinct' => Distinct
<1>1. TypeOK /\ Entered /\ InOrder
  BY DEF RegInv
<1>2. \A k \in DOMAIN adapters :
         /\ k \in DOMAIN adapters' /\ adapters'[k] = adapters[k]
         /\ adapters[k] \in Live => number'[adapters[k]] = number[adapters[k]]
  BY CardStays
<1>3. \A c \in Live : c \in Live' /\ number'[c] = number[c]
  <2> SUFFICES ASSUME NEW c \in Live PROVE c \in Live' /\ number'[c] = number[c]
    OBVIOUS
  <2>1. PICK k \in DOMAIN adapters : adapters[k] = c
    BY <1>1, LiveCards
  <2> QED BY <1>1, <1>2, <2>1, LiveCards, LiveStep
<1>4. ASSUME index' = index PROVE Taken' = Taken
  <2>1. \A k \in 1 .. index - 1 : k \in DOMAIN adapters
    BY <1>1, LiveCards DEF InOrder, TypeOK
  <2>2. \A k \in 1 .. index - 1 : adapters[k] \in Live <=> adapters'[k] \in Live'
    <3> SUFFICES ASSUME NEW k \in 1 .. index - 1 PROVE adapters[k] \in Live <=> adapters'[k] \in Live'
      OBVIOUS
    <3>1. adapters'[k] = adapters[k] /\ k \in DOMAIN adapters
      BY <1>2, <2>1
    <3>2. adapters[k] \in Live <=> adapters[k] # None
      BY <1>1, <3>1, LiveCards
    <3>3. None \notin Live'
      BY DEF Live
    <3> QED BY <1>3, <3>1, <3>2, <3>3
  <2>3. \A n : Hpcap(n)' <=> Hpcap(n)
    BY ParamStays
  <2>4. \A k \in 1 .. index - 1 :
           /\ adapters'[k] = adapters[k]
           /\ adapters[k] \in Live => number'[adapters'[k]] = number[adapters[k]]
    BY <1>2, <2>1
  <2>5. \A k \in 1 .. index - 1 :
           adapters[k] \in Live => (Hpcap(number[adapters[k]])' <=> Hpcap(number[adapters[k]]))
    BY <2>4, ParamStays DEF Hpcap
  <2> QED BY <1>4, <2>2, <2>4, <2>5 DEF Taken
<1>5. Distinct' => Distinct
  BY <1>3 DEF Distinct
<1> QED BY <1>4, <1>5

\* Two adapters whose numbers differ: the one at hand has not been passed.
LEMMA PassedApart ==
  ASSUME RegInv, Distinct, index \in DOMAIN adapters, Card \in Live
  PROVE  number[Card] \notin Taken
<1>1. TypeOK /\ Entered
  BY DEF RegInv
<1> SUFFICES ASSUME NEW k \in 1 .. index - 1, adapters[k] \in Live, number[adapters[k]] = number[Card]
             PROVE  FALSE
  BY DEF Taken
<1>2. k \in DOMAIN adapters /\ k # index
  BY <1>1, LiveCards DEF TypeOK
<1>3. adapters[k] # None
  BY DEF Live
<1>4. adapters[k] # adapters[index]
  BY <1>1, <1>2, <1>3 DEF Entered
<1> QED BY <1>4 DEF Distinct, Card

LEMMA PoolStep == ASSUME RegInv, PoolInv, [Next]_vars PROVE PoolInv'
<1>1. TypeOK /\ Entered /\ Placed /\ InOrder
  BY DEF RegInv
<1>2. ASSUME phase' \in {"probing", "registering"} PROVE ~PrecheckFails'
  <2>1. phase \in {"probing", "registering"} \/ ~PrecheckFails
    BY <1>2 DEF Next, vars, Load, BeginRegister, NextAdapter, RegisterQueue, RingMissing, ChardevDone,
       RegisterDone, ExitModule, Probe, Unbind
  <2> QED BY <2>1, ParamStays DEF PoolInv
<1>3. ASSUME phase' \in {"unloaded", "probing"} PROVE offset' = 0
  <2>1. phase \in {"unloaded", "probing"} /\ offset' = offset
    BY <1>3 DEF Next, vars, Load, BeginRegister, NextAdapter, RegisterQueue, RingMissing, ChardevDone,
       RegisterDone, ExitModule, Probe, Unbind
  <2> QED BY <2>1 DEF PoolInv
<1>4. ASSUME phase' = "registering", Distinct'
      PROVE  \E g : IsSum(g, Taken)' /\ offset' = g[MaxNic + 1] * PageSize
  <2>1. \A c \in Cards : ~Unbind(c)
    <3> SUFFICES ASSUME NEW c \in Cards, Unbind(c) PROVE FALSE
      OBVIOUS
    <3> QED BY <1>4 DEF Unbind
  <2>2. Distinct
    BY <1>4, <2>1, TakenStays
  <2>3. CASE BeginRegister
    <3>1. index' = 1 /\ offset' = 0
      BY <1>1, <2>3 DEF BeginRegister, Entered, PoolInv
    <3>2. Taken' = {}
      BY <3>1 DEF Taken
    <3> DEFINE g == [n \in 0 .. MaxNic + 1 |-> 0]
    <3>3. IsSum(g, {})
      BY Constants DEF IsSum
    <3>4. g[MaxNic + 1] * PageSize = 0
      BY Constants
    <3>5. \A t : t = {} => IsSum(g, t)'
      <4> HIDE DEF g
      <4> QED BY <3>3, ParamStays
    <3> HIDE DEF g
    <3> QED BY <3>1, <3>2, <3>4, <3>5 DEF IsSum
  <2>4. ASSUME phase = "registering", index' = index, offset' = offset
        PROVE  \E g : IsSum(g, Taken)' /\ offset' = g[MaxNic + 1] * PageSize
    <3>1. PICK g : IsSum(g, Taken) /\ offset = g[MaxNic + 1] * PageSize
      BY <2>2, <2>4 DEF PoolInv
    <3>2. Taken' = Taken
      BY <2>1, <2>4, TakenStays
    <3>3. IsSum(g, Taken)'
      BY <3>1, <3>2, ParamStays DEF IsSum
    <3> QED BY <2>4, <3>1, <3>3
  <2>5. index \in DOMAIN adapters => 1 .. (index + 1) - 1 = (1 .. index - 1) \cup {index}
    BY <1>1 DEF TypeOK
  <2>6. CASE NextAdapter /\ index' = index + 1
    <3>1. /\ phase = "registering" /\ UNCHANGED <<adapters, number, offset, param>> /\ index <= Len(adapters)
          /\ Card # None /\ ~Hpcap(number[Card])
      BY <1>1, <2>6 DEF NextAdapter, TypeOK
    <3>2. index \in DOMAIN adapters
      BY <1>1, <3>1, LiveCards DEF TypeOK
    <3>3. Live' = Live /\ \A n : Hpcap(n)' <=> Hpcap(n)
      BY <3>1, ParamStays DEF Live, ToSet
    <3>4. \A k \in 1 .. index - 1 : Hpcap(number[adapters[k]])' <=> Hpcap(number[adapters[k]])
      BY <3>1 DEF Hpcap, Value
    <3>5. \A k : k = index => ~Hpcap(number[adapters[k]])'
      BY <3>1 DEF Hpcap, Value, Card
    <3>6. Taken' = Taken
      BY <2>5, <2>6, <3>1, <3>2, <3>3, <3>4, <3>5 DEF Taken
    <3>7. PICK g : IsSum(g, Taken) /\ offset = g[MaxNic + 1] * PageSize
      BY <2>2, <3>1 DEF PoolInv
    <3>8. IsSum(g, Taken)'
      BY <3>6, <3>7, ParamStays DEF IsSum
    <3> QED BY <3>1, <3>7, <3>8
  <2>7. CASE ChardevDone /\ ~failed
    <3>1. /\ phase = "registering" /\ UNCHANGED <<adapters, number, param>> /\ index' = index + 1
          /\ offset' = offset + BufSize(Card) /\ queue # None
      BY <2>7, Constants DEF ChardevDone
    <3>2. index \in DOMAIN adapters /\ Card \in Live /\ number[Card] \in Numbers /\ Hpcap(number[Card])
      BY <1>1, <3>1, CurrentCard DEF Placed
    <3>3. Live' = Live
      BY <3>1 DEF Live, ToSet
    <3>4. \A k \in (1 .. index - 1) \cup {index} : Hpcap(number[adapters[k]])' <=> Hpcap(number[adapters[k]])
      BY <3>1 DEF Hpcap, Value
    <3>5. PICK x : x = number[Card]
      OBVIOUS
    <3>6. Taken' = Taken \cup {x}
      <4>1. adapters[index] \in Live /\ Hpcap(number[adapters[index]])
        BY <3>2 DEF Card
      <4>2. x = number[adapters[index]]
        BY <3>5 DEF Card
      <4> QED BY <2>5, <3>1, <3>2, <3>3, <3>4, <4>1, <4>2 DEF Taken
    <3>7. x \notin Taken
      BY <2>2, <3>2, <3>5, PassedApart
    <3>8. x \in 0 .. MaxNic
      BY <1>1, <3>2, <3>5, HpcapNumbers DEF Numbers
    <3>9. PICK g : IsSum(g, Taken) /\ offset = g[MaxNic + 1] * PageSize
      BY <2>2, <3>1 DEF PoolInv
    <3>10. PICK h : IsSum(h, Taken \cup {x}) /\ h[MaxNic + 1] = g[MaxNic + 1] + PagesOf(x)
      BY <3>7, <3>8, <3>9, SumWith
    <3>11. \A t : t = Taken \cup {x} => IsSum(h, t)'
      BY <3>10, ParamStays
    <3>12. IsSum(h, Taken)'
      BY <3>6, <3>11 DEF IsSum
    <3>13. offset' = h[MaxNic + 1] * PageSize
      <4>1. BufSize(Card) = PagesOf(x) * PageSize
        BY <3>5 DEF BufSize
      <4>2. g[MaxNic + 1] \in Nat /\ PagesOf(x) \in Nat /\ PageSize \in Nat
        BY <3>9, PagesNat, Constants DEF IsSum
      <4>3. (g[MaxNic + 1] + PagesOf(x)) * PageSize = g[MaxNic + 1] * PageSize + PagesOf(x) * PageSize
        BY <4>2
      <4> QED BY <3>1, <3>9, <3>10, <4>1, <4>3
    <3> QED BY <3>12, <3>13
  <2>8. \/ BeginRegister
        \/ phase = "registering" /\ index' = index /\ offset' = offset
        \/ NextAdapter /\ index' = index + 1
        \/ ChardevDone /\ ~failed
    BY <1>4 DEF Next, vars, Load, NextAdapter, RegisterQueue, RingMissing, ChardevDone,
       RegisterDone, ExitModule, Probe, Unbind
  <2> QED BY <2>3, <2>4, <2>6, <2>7, <2>8
<1> QED BY <1>2, <1>3, <1>4 DEF PoolInv

\* An adapter that would be out of memory had no pages given, or the check of the
\* parameters refused the load, or a number is there twice.
LEMMA PoolFits ==
  ASSUME RegInv, PoolInv
  PROVE  PagesFitUnlessUnset
<1>1. TypeOK /\ Entered /\ Placed /\ InOrder
  BY DEF RegInv
<1> SUFFICES ASSUME phase = "registering", index <= Len(adapters), Card # None, Hpcap(number[Card]),
                    ~\E n \in 0 .. MaxNic : Hpcap(n) /\ Value(param.pages, n) < 0,
                    ~\E c, e \in Live : c # e /\ number[c] = number[e]
             PROVE  ~OutOfMemory(Card)
  BY DEF PagesFitUnlessUnset
<1>2. Distinct /\ ~PrecheckFails
  BY DEF Distinct, PoolInv
<1>3. index \in DOMAIN adapters /\ Card \in Live
  BY <1>1, LiveCards DEF TypeOK, Card
<1>4. PICK x : x = number[Card]
  OBVIOUS
<1>5. x \in 0 .. MaxNic /\ Hpcap(x)
  BY <1>1, <1>3, <1>4, HpcapNumbers DEF Entered, Known, TypeOK, Numbers
<1>6. x \notin Taken
  BY <1>2, <1>3, <1>4, PassedApart
<1>7. PICK g : IsSum(g, Taken) /\ offset = g[MaxNic + 1] * PageSize
  BY <1>2 DEF PoolInv
<1>8. PICK h : IsSum(h, Taken \cup {x}) /\ h[MaxNic + 1] = g[MaxNic + 1] + PagesOf(x)
  BY <1>5, <1>6, <1>7, SumWith
<1>9. \A n \in Taken \cup {x} : Hpcap(n)
  BY <1>5 DEF Taken
<1>10. \A n \in 0 .. MaxNic : Hpcap(n) => Value(param.pages, n) >= 0
  <2>1. \A n \in 0 .. MaxNic : Value(param.pages, n) \in Int
    <3> SUFFICES ASSUME NEW n \in 0 .. MaxNic PROVE Value(param.pages, n) \in Int
      OBVIOUS
    <3>1. param.pages \in Seq(Int)
      BY <1>1, RegistrationAssumption DEF TypeOK
    <3>2. n < Len(param.pages) => param.pages[n + 1] \in Int
      BY <3>1, LenProperties, ElementOfSeq
    <3> QED BY <3>2 DEF Value, OptionUnset
  <2> QED BY <2>1
<1>11. h[MaxNic + 1] <= Pool \div PageSize
  BY <1>1, <1>2, <1>8, <1>9, <1>10, SumFits
<1> DEFINE P == Pool \div PageSize
           H == h[MaxNic + 1]
           G == g[MaxNic + 1]
           p == PagesOf(x)
<1>12. BufSize(Card) = p * PageSize /\ offset = G * PageSize /\ H = G + p
  BY <1>4, <1>7, <1>8 DEF BufSize
<1>13. H \in Nat /\ G \in Nat /\ p \in Nat /\ H <= P
  BY <1>7, <1>8, <1>11, PagesNat, Constants DEF IsSum
<1>14. P \in Nat /\ P * PageSize <= Pool
  <2> DEFINE m == Pool % PageSize
  <2>1. P \in Int /\ P >= 0 /\ m \in Nat /\ Pool = PageSize * P + m
    BY Constants
  <2> HIDE DEF P, m
  <2> QED BY <2>1, Constants
<1> HIDE DEF P, H, G, p
<1>15. H * PageSize <= P * PageSize
  <2>1. (P - H) * PageSize >= 0
    BY <1>13, <1>14, Constants
  <2> QED BY <1>13, <1>14, <2>1, Constants
<1>16. p * PageSize + G * PageSize = H * PageSize
  BY <1>12, <1>13, Constants
<1>17. H * PageSize \in Nat /\ P * PageSize \in Nat
  BY <1>13, <1>14, Constants
<1>18. BufSize(Card) + offset <= Pool
  BY <1>12, <1>14, <1>15, <1>16, <1>17, Constants
<1>19. BufSize(Card) + offset \in Nat
  BY <1>12, <1>16, <1>17
<1> QED BY <1>18, <1>19, Constants DEF OutOfMemory

\* hpcap_precheck_options and hpcap_register_adapters agree on the pool: buffers
\* never overlap or leave it, and what the check of the parameters admits fits,
\* for any parameters whose pages are given, any cards and any order of probes.
THEOREM PoolIsShared == Spec => []PoolShared
<1>1. Init => PoolInv
  BY DEF Init, PoolInv
<1>2. RegInv /\ PoolInv /\ [Next]_vars => PoolInv'
  BY PoolStep
<1>3. RegInv /\ PoolInv => PoolShared
  BY PoolFits DEF PoolShared, RegInv
<1> QED BY <1>1, <1>2, <1>3, RegistrationInvariant, PTL DEF Spec
===============================================================================
