----------------------------- MODULE Registration -----------------------------
(***************************************************************************)
(* The life of the module hpcap: the check of its parameters               *)
(* (hpcap_params.c), the interface numbers fixed from the PCI              *)
(* positions (hpcap_pci.c), the probe of each card that fills adapters[]    *)
(* (i40e_vsi_setup), the registration of a character device and a buffer   *)
(* per receive queue at the end of module_init (hpcap_register_adapters,   *)
(* hpcap_register_chardev), a card that is unbound, and module_exit.       *)
(*                                                                         *)
(* A load registers the queues one at a time, and any of them may fail for *)
(* want of memory, of a free device region, of a cdev or of a ring. Cards  *)
(* are probed in the order the bus finds them, some never successfully,    *)
(* and a card may be plugged in after the load.                            *)
(*                                                                         *)
(* What reads an adapter that has been freed, or a ring that is not there, *)
(* is undefined: the model stops there, in the phase "crashed".            *)
(***************************************************************************)
EXTENDS Integers, Functions, FiniteSetsExt, SequencesExt

CONSTANTS
    Cards,        \* the network cards of the host
    Id,           \* their PCI identifier, bus << 24 | devfn: the domain is not in it
    Parameters,   \* Mode and Pages, as far as they were given: one value per number
    DefaultPages, \* HPCAP_DEFAULT_PAGES_PER_ADAPTER
    Word,         \* one more than the largest size_t
    Queues,       \* RXQ, the receive queues of an adapter
    PageSize,     \* PAGE_SIZE
    Pool,         \* HPCAP_BUF_SIZE, the bytes of auxBufs
    MaxNic,       \* HPCAP_MAX_NIC: bounds the probes (the code does not check it)
    None

Numbers == 0 .. (Cardinality(Cards) - 1)

ASSUME RegistrationAssumption ==
    /\ IsFiniteSet(Cards)
    /\ Id \in [Cards -> Nat \ {0}]      \* 0 ends the table; 0:0.0 is the host bridge
    /\ Parameters \subseteq [mode : Seq(Int), pages : Seq(Int)]
    /\ \A p \in Parameters :            \* MODULE_PARAM arrays of int; a size_t is wider
          /\ Len(p.mode) <= MaxNic + 1
          /\ \A k \in DOMAIN p.pages : p.pages[k] + Pool < Word
    /\ DefaultPages \in Nat \ {0} /\ Word \in Nat
    /\ Word > Pool + MaxNic /\ Word > Pool + DefaultPages
    /\ Queues \in Nat \ {0} /\ PageSize \in Nat \ {0} /\ Pool \in Nat
    /\ MaxNic \in Nat
    /\ None \notin Cards /\ None \notin Nat /\ None \notin [offset : Nat, size : Nat]

QueueIds == 0 .. Queues - 1

VARIABLES
    param,     \* the parameters of this load
    present,   \* the cards in the machine when the module was loaded
    table,     \* hpcap_iface_pci_ids up to its first 0
    adapters,  \* adapters[]: a card, or None for an adapter already freed
    number,    \* bd_number of each card's adapter
    bufp,      \* rx_ring[q]->bufp: the place of the buffer in the pool
    regions,   \* the (major, minor) pairs claimed: number, queue, and the card they are
               \* for (None once that card is unbound)
    phase,     \* where the life of the module is
    index,     \* i of hpcap_register_adapters
    queue,     \* i of hpcap_register_chardev, None outside it
    failed,    \* ret = -1 of hpcap_register_chardev
    offset,    \* offset of hpcap_register_adapters
    masked     \* history: the cards one of whose failures a later queue covered

vars == <<param, present, table, adapters, number, bufp, regions, phase, index, queue,
          failed, offset, masked>>

NoBuffers == [q \in QueueIds |-> None]
Live == ToSet(adapters) \ {None}

Init ==
    /\ param \in Parameters
    /\ present = {} /\ table = <<>> /\ adapters = <<>> /\ regions = {}
    /\ number = [c \in Cards |-> None]
    /\ bufp = [c \in Cards |-> NoBuffers]
    /\ phase = "unloaded" /\ index = 1 /\ queue = None /\ failed = FALSE
    /\ offset = 0 /\ masked = {}

-------------------------------------------------------------------------------
(* Parameters *)

OptionUnset == -1

\* DEFAULT_PARAM_INIT: what was not given
Value(values, n) == IF n < Len(values) THEN values[n + 1] ELSE OptionUnset

\* hpcap_parse_opts: a value out of its range is replaced by the default
Hpcap(n) == Value(param.mode, n) = 2
PagesOf(n) ==
    LET v == Value(param.pages, n)
    IN  IF v \in 1 .. Pool \div PageSize THEN v ELSE DefaultPages

\* Mutant of PagesAsked: 0 pages are counted as 0.
PagesAskedRaw(n) == Value(param.pages, n) % Word

\* hpcap_precheck_options takes the value as a size_t: one that was not given is
\* not less than 1, it is the largest there is
PagesAsked(n) ==
    LET v == Value(param.pages, n) % Word
    IN  IF v < 1 THEN DefaultPages ELSE v

\* ... and adds them up, number by number, in a size_t
Assigned[n \in Nat] ==
    ((IF n = 0 THEN 0 ELSE Assigned[n - 1]) + (IF Hpcap(n) THEN PagesAsked(n) ELSE 0)) % Word

PrecheckFails == \E n \in 0 .. MaxNic : Hpcap(n) /\ Assigned[n] > Pool \div PageSize

-------------------------------------------------------------------------------
(* Interface numbers *)

\* Mutant of Sorted: the table keeps the order of discovery.
SortedAsFound(cards) == TRUE

\* hpcap_fix_iface_numbers sorts what it found by the identifiers
Sorted(cards) == \A j, k \in DOMAIN cards : j < k => Id[cards[j]] <= Id[cards[k]]

\* module_init up to the registration of the PCI driver
Load ==
    /\ phase = "unloaded"
    /\ IF PrecheckFails
         THEN phase' = "failed" /\ UNCHANGED <<present, table>>
         ELSE /\ phase' = "probing"
              /\ present' \in SUBSET Cards
              /\ \E cards \in Bijection(1 .. Cardinality(present'), present') :
                     /\ Sorted(cards)
                     /\ table' = [k \in DOMAIN cards |-> Id[cards[k]]]
    /\ UNCHANGED <<param, adapters, number, bufp, regions, index, queue, failed, offset,
                   masked>>

\* hpcap_get_iface_number_for: the first entry with this id, or -1
NumberFor(id) == SelectInSeq(table, LAMBDA e : e = id) - 1

\* Mutant of NumberOrDefault: no default.
NumberOrUnknown(id) == NumberFor(id)

TableSorted(id) ==
    IF NumberFor(id) >= 0 THEN table ELSE SortSeq(Append(table, id), <)

\* hpcap_get_iface_number_or_default: an unknown card takes the first free entry
NumberOrDefault(id) == IF NumberFor(id) >= 0 THEN NumberFor(id) ELSE Len(table)
TableWith(id) == IF NumberFor(id) >= 0 THEN table ELSE Append(table, id)

-------------------------------------------------------------------------------
(* Probe and removal of a card *)

\* i40e_vsi_setup: the adapter is numbered and entered in adapters[]; what
\* follows (the netdev, the vectors, the rings) may fail and free it there
Probe(c) ==
    /\ phase \in {"probing", "registering", "loaded"}
    /\ c \notin Live
    /\ Len(adapters) < MaxNic
    /\ table' = TableWith(Id[c])
    /\ number' = [number EXCEPT ![c] = NumberOrDefault(Id[c])]
    /\ \E entry \in {c, None} : adapters' = Append(adapters, entry)
    /\ UNCHANGED <<param, present, bufp, regions, phase, index, queue, failed, offset,
                   masked>>

\* i40e_remove frees the adapter and its rings; adapters[] keeps the pointer,
\* the character devices stay
Unbind(c) ==
    /\ phase = "loaded"
    /\ c \in Live
    /\ adapters' = [k \in DOMAIN adapters |->
                       IF adapters[k] = c THEN None ELSE adapters[k]]
    /\ bufp' = [bufp EXCEPT ![c] = NoBuffers]
    /\ regions' = {<<r[1], r[2], IF r[3] = c THEN None ELSE r[3]>> : r \in regions}
    /\ UNCHANGED <<param, present, table, number, phase, index, queue, failed, offset,
                   masked>>

-------------------------------------------------------------------------------
(* Registration of the character devices *)

Card == adapters[index]
BufSize(c) == PagesOf(number[c]) * PageSize
BufSizePerQueue(c) == BufSize(c) \div Queues

\* the pci driver is registered: hpcap_register_adapters starts
BeginRegister ==
    /\ phase = "probing"
    /\ phase' = "registering"
    /\ UNCHANGED <<param, present, table, adapters, number, bufp, regions, index, queue,
                   failed, offset, masked>>

OutOfMemory(c) == BufSize(c) + offset > Pool

\* the body of the loop up to the call of hpcap_register_chardev
NextAdapter ==
    /\ phase = "registering" /\ queue = None
    /\ index <= Len(adapters)
    /\ CASE Card = None ->
              phase' = "crashed" /\ UNCHANGED <<index, queue, failed>>
         [] Card # None /\ ~Hpcap(number[Card]) ->
              index' = index + 1 /\ UNCHANGED <<phase, queue, failed>>
         [] Card # None /\ Hpcap(number[Card]) /\ OutOfMemory(Card) ->
              phase' = "failed" /\ UNCHANGED <<index, queue, failed>>
         [] OTHER ->
              queue' = 0 /\ failed' = FALSE /\ UNCHANGED <<phase, index>>
    /\ UNCHANGED <<param, present, table, adapters, number, bufp, regions, offset, masked>>

Claimed(n, q) == \E r \in regions : r[1] = n /\ r[2] = q

\* Mutant of QueueDone: the label err does not set ret.
QueueDoneForgets(fails) ==
    /\ failed' = FALSE
    /\ queue' = queue + 1
    /\ UNCHANGED masked

\* ret of this queue overwrites that of the queues before it
QueueDone(fails) ==
    /\ failed' = fails
    /\ queue' = queue + 1
    /\ masked' = IF failed /\ ~fails THEN masked \cup {Card} ELSE masked

\* hpcap_register_chardev, one queue: region, hpcap_buf_init, cdev, ring
QueueRegistered ==
    /\ ~Claimed(number[Card], queue)
    /\ regions' = regions \cup {<<number[Card], queue, Card>>}
    /\ bufp' = [bufp EXCEPT ![Card][queue] =
                   [offset |-> offset, size |-> BufSizePerQueue(Card)]]
    /\ QueueDone(FALSE)

\* err, err_region: no memory, no region or no cdev; the region is given back
QueueFails ==
    /\ QueueDone(TRUE)
    /\ UNCHANGED <<bufp, regions>>

RegisterQueue ==
    /\ phase = "registering" /\ queue \in QueueIds
    /\ QueueRegistered \/ QueueFails
    /\ UNCHANGED <<param, present, table, adapters, number, phase, index, offset>>

\* hpcap_unregister_chardev: the regions of the queues that have a buffer
RegionsWithout(gone) ==
    {r \in regions : ~\E c \in gone : /\ r[1] = number[c]
                                      /\ bufp[c][r[2]] # None}
BuffersWithout(gone) == [c \in Cards |-> IF c \in gone THEN NoBuffers ELSE bufp[c]]

\* RXQ asks for a ring the adapter has not: no later one is there either, so the
\* adapter is undone at the end, and both loops of that go through the ring
RingMissing ==
    /\ phase = "registering" /\ queue \in QueueIds
    /\ phase' = "crashed"
    /\ UNCHANGED <<param, present, table, adapters, number, bufp, regions, index, queue,
                   failed, offset, masked>>

\* all the queues have been through: an adapter whose last queue failed is undone
ChardevDone ==
    /\ phase = "registering" /\ queue = Queues
    /\ queue' = None
    /\ IF failed
         THEN /\ phase' = "failed"
              /\ regions' = RegionsWithout({Card})
              /\ bufp' = BuffersWithout({Card})
              /\ UNCHANGED <<index, offset>>
         ELSE /\ index' = index + 1
              /\ offset' = offset + BufSize(Card)
              /\ UNCHANGED <<phase, regions, bufp>>
    /\ UNCHANGED <<param, present, table, adapters, number, failed, masked>>

RegisterDone ==
    /\ phase = "registering" /\ queue = None
    /\ index > Len(adapters)
    /\ phase' = "loaded"
    /\ UNCHANGED <<param, present, table, adapters, number, bufp, regions, index, queue,
                   failed, offset, masked>>

-------------------------------------------------------------------------------
\* i40e_exit_module: hpcap_unregister_chardev of every entry of adapters[]
ExitCards == Live

ExitModule ==
    /\ phase = "loaded"
    /\ IF \E k \in DOMAIN adapters : adapters[k] = None
         THEN phase' = "crashed" /\ UNCHANGED <<regions, bufp>>
         ELSE /\ phase' = "gone"
              /\ regions' = RegionsWithout(ExitCards)
              /\ bufp' = BuffersWithout(ExitCards)
    /\ UNCHANGED <<param, present, table, adapters, number, index, queue, failed, offset,
                   masked>>

Next ==
    \/ Load \/ BeginRegister
    \/ NextAdapter \/ RegisterQueue \/ RingMissing \/ ChardevDone \/ RegisterDone
    \/ ExitModule
    \/ \E c \in Cards : Probe(c) \/ Unbind(c)

Spec == Init /\ [][Next]_vars

-------------------------------------------------------------------------------
Registered(c) == \E q \in QueueIds : bufp[c][q] # None

\* Type correctness.
TypeOK ==
    /\ param \in Parameters
    /\ present \subseteq Cards
    /\ table \in Seq(Range(Id))
    /\ adapters \in Seq(Cards \cup {None}) /\ Len(adapters) <= MaxNic
    /\ number \in [Cards -> Numbers \cup {None}]
    /\ bufp \in [Cards -> [QueueIds ->
           [offset : 0 .. Pool, size : 0 .. Pool] \cup {None}]]
    /\ regions \subseteq Numbers \X QueueIds \X (Cards \cup {None})
    /\ phase \in {"unloaded", "probing", "registering", "loaded", "failed", "gone",
                  "crashed"}
    /\ index \in 1 .. MaxNic + 1 /\ queue \in QueueIds \cup {Queues, None}
    /\ failed \in BOOLEAN /\ offset \in 0 .. Pool /\ masked \subseteq Cards

\* What hpcap_pci.c is for: the cards that were there at the load are numbered in
\* the order of their PCI positions, whatever order they are found and probed in,
\* and two cards in different positions have different numbers, also the ones
\* plugged in later, which take free entries of the same table (two domains with
\* the same bus and function are one position).
NumbersFixed ==
    \A c, e \in {x \in Cards : number[x] # None} :
        /\ number[c] = number[e] => Id[c] = Id[e]
        /\ {c, e} \subseteq present /\ Id[c] < Id[e] => number[c] < number[e]

\* "The number assigned to each interface is fixed": a card that is unbound and
\* probed again, with other cards entered in the table meanwhile, has the number
\* it had.
NumberIsKept ==
    [][\A c \in Cards : number[c] # None => number'[c] = number[c]]_number

\* A device region is claimed for a queue exactly while its ring has a buffer,
\* and for one queue only, through failures, undone adapters, number collisions
\* and the unloading; a card that is unbound is the exception, its regions stay.
RegionsExact ==
    /\ \A c \in Live : \A q \in QueueIds :
           bufp[c][q] # None => <<number[c], q, c>> \in regions
    /\ \A r, s \in regions : r[1] = s[1] /\ r[2] = s[2] => r = s
    /\ \A r \in regions : r[3] # None => bufp[r[3]][r[2]] # None
    /\ phase = "gone" => regions = {}

\* The buffers of two adapters do not overlap and stay inside auxBufs, whatever
\* pages the parameters ask for and whichever adapters are left out. (The queues
\* of one adapter do share theirs: they are all given the adapter's offset.)
BuffersApart ==
    \A c, e \in Live : \A q, r \in QueueIds :
        LET b == bufp[c][q]
            d == bufp[e][r]
        IN  b # None /\ d # None =>
              /\ b.offset + b.size <= Pool
              /\ c = e \/ b.offset + b.size <= d.offset \/ d.offset + d.size <= b.offset

\* hpcap_precheck_options admits no load whose adapters then do not fit in auxBufs
\* when hpcap_register_adapters places them, although the two read the parameters
\* in their own ways: unless the pages of an adapter were not given, or two cards
\* have one number.
PagesFitUnlessUnset ==
    phase = "registering" /\ queue = None /\ index <= Len(adapters) =>
        \/ Card = None
        \/ Hpcap(number[Card]) => ~OutOfMemory(Card)
        \/ \E n \in 0 .. MaxNic : Hpcap(n) /\ Value(param.pages, n) < 0
        \/ \E c, e \in Live : c # e /\ number[c] = number[e]

\* The pool is shared out among the adapters as the parameters were found to
\* allow (hpcap_precheck_options, hpcap_register_adapters).
PoolShared == BuffersApart /\ PagesFitUnlessUnset

\* Outside its own registration an adapter has all its queues or none, and all of
\* them once hpcap_register_adapters has gone past it, unless a later queue's
\* success has overwritten the failure of an earlier one.
WholeUnlessMasked ==
    /\ \A c \in Live \ masked :
           queue = None /\ Registered(c) => \A q \in QueueIds : bufp[c][q] # None
    /\ phase # "gone" =>
         \A k \in 1 .. index - 1 :
             adapters[k] \in Live \ masked /\ Hpcap(number[adapters[k]])
               => Registered(adapters[k])

\* Regions, buffers and adapters agree through every failure of the registration
\* (hpcap_register_chardev, hpcap_unregister_chardev).
QueuesExact == RegionsExact /\ WholeUnlessMasked
===============================================================================
