---------------------------- MODULE NetworkStore ----------------------------
(***************************************************************************)
(* The persistent store of Wi-Fi networks (source/wifi_network_store.c):   *)
(* one record per flash page, the least recently used one evicted, every   *)
(* write an erase of the page followed by its programming, and a loss of   *)
(* power possible at any point.  One write at a time is in progress: the   *)
(* callers (server_task at boot, wifi_connect_task afterwards) do not      *)
(* overlap.  An erase sector is one page, as on the PSoC 6, so that an     *)
(* erase clears the page that is rewritten and no other.                   *)
(*                                                                         *)
(* A page that is erased, partly programmed or otherwise rejected by       *)
(* record_is_valid is Blank; the CRC is taken to detect every such page.   *)
(***************************************************************************)
EXTENDS Integers, FiniteSets

CONSTANTS
    Ssids,       \* non-empty network names
    Pwds,        \* passwords
    Capacity,    \* WIFI_STORE_MAX_NETWORKS
    MaxCounter,  \* the largest uint32_t
    Blank        \* content of a page that holds no valid record

ASSUME CapacityAssumption == Capacity \in Nat /\ Capacity >= 2
ASSUME CounterAssumption  == MaxCounter \in Nat /\ MaxCounter > Capacity

Slots    == 0 .. Capacity - 1
NoSlot   == -1
Counters == 1 .. MaxCounter
Records  == [ssid : Ssids, pwd : Pwds, counter : Counters]

ASSUME BlankAssumption == Blank \notin Records

VARIABLES
    flash,     \* the pages of the store
    pc,        \* where the store is in wifi_store_save_network
    request,   \* its arguments
    target,    \* the slot chosen by find_slots
    todo,      \* renormalize_counters: slots not yet rewritten
    rank,      \* renormalize_counters: records rewritten so far
    slot,      \* write_record_to_slot: the page being written
    record,    \* write_record_to_slot: its new content
    erased     \* history: what the page held before the erase

volatile == <<pc, request, target, todo, rank, slot, record>>
vars == <<flash, volatile, erased>>

-----------------------------------------------------------------------------
(* The loops over the pages. *)

Valid == {s \in Slots : flash[s] # Blank}

\* Mutant: the counter saturates instead of wrapping.
SaturatingCounter(next) ==
    IF \E s \in Valid : flash[s].counter = MaxCounter
    THEN next = MaxCounter
    ELSE /\ next # 0
         /\ \A s \in Valid : flash[s].counter < next
         /\ next = 1 \/ \E s \in Valid : flash[s].counter = next - 1

\* compute_next_counter: max + 1 in 32 bits, 0 when it wraps.
IsNextCounter(next) ==
    IF \E s \in Valid : flash[s].counter = MaxCounter
    THEN next = 0
    ELSE /\ next # 0
         /\ \A s \in Valid : flash[s].counter < next
         /\ next = 1 \/ \E s \in Valid : flash[s].counter = next - 1

\* find_slots: the last match, the first free page and the page with the lowest
\* counter under 0xFFFFFFFF.
Matches(ssid) == {s \in Valid : flash[s].ssid = ssid}
Free          == Slots \ Valid
Evictable     == {s \in Valid : flash[s].counter < MaxCounter}

LastOf(matches, s) == s \in matches /\ \A t \in matches : t <= s
FirstOf(free, s)   == s \in free /\ \A t \in free : s <= t
\* Mutant: the comparison is the wrong way round.
NewestOf(slots, s) == s \in slots /\ \A t \in slots : flash[s].counter >= flash[t].counter
OldestOf(slots, s) == s \in slots /\ \A t \in slots : flash[s].counter <= flash[t].counter

\* Mutants: a free page is preferred to the page that already holds the network,
\* and the first page is evicted whatever its age.
FreePageFirst(ssid, s) ==
    IF Free # {} THEN FirstOf(Free, s)
    ELSE IF Matches(ssid) # {} THEN LastOf(Matches(ssid), s)
    ELSE OldestOf(Evictable, s)

FirstPageEvicted(ssid, s) ==
    IF Matches(ssid) # {} THEN LastOf(Matches(ssid), s)
    ELSE IF Free # {} THEN FirstOf(Free, s)
    ELSE s = 0

\* wifi_store_save_network, lines 559-567: a matching record, else a free page,
\* else the least recently used record.
IsTarget(ssid, s) ==
    IF Matches(ssid) # {} THEN LastOf(Matches(ssid), s)
    ELSE IF Free # {} THEN FirstOf(Free, s)
    ELSE OldestOf(Evictable, s)

-----------------------------------------------------------------------------
Init ==
    /\ flash = [s \in Slots |-> Blank]
    /\ pc = "idle"
    /\ request = Blank
    /\ target = NoSlot
    /\ todo = {}
    /\ rank = 0
    /\ slot = NoSlot
    /\ record = Blank
    /\ erased = Blank

\* Return to the caller, or the restart of the firmware: nothing of the
\* operation in progress is left.
Abandon ==
    /\ pc' = "idle"
    /\ request' = Blank
    /\ target' = NoSlot
    /\ todo' = {}
    /\ rank' = 0
    /\ slot' = NoSlot
    /\ record' = Blank

\* write_record_to_slot is called with the record of the request.
WriteRequest(req, t, counter) ==
    /\ pc' = "erase"
    /\ slot' = t
    /\ record' = [ssid |-> req.ssid, pwd |-> req.pwd, counter |-> counter]
    /\ todo' = {}

\* wifi_store_save_network up to the first write.
SaveNetwork(ssid, pwd) ==
    LET req == [ssid |-> ssid, pwd |-> pwd] IN
    /\ pc = "idle"
    /\ \E t \in Slots, next \in 0..MaxCounter :
          /\ IsTarget(ssid, t)
          /\ IsNextCounter(next)
          /\ request' = req
          /\ target' = t
          /\ IF next = 0
             THEN pc' = "renormalize" /\ todo' = Valid /\ UNCHANGED <<slot, record>>
             ELSE WriteRequest(req, t, next)
    /\ UNCHANGED <<flash, rank, erased>>

\* wifi_store_mark_used: the password comes from the record itself.  It is read
\* through a pointer into the page, whose text no renormalization changes.
MarkUsed(ssid) ==
    \E s \in Matches(ssid) : LastOf(Matches(ssid), s) /\ SaveNetwork(ssid, flash[s].pwd)

-----------------------------------------------------------------------------
(* renormalize_counters: the records in the order of their counters get the *)
(* counters 1, 2, ...                                                       *)

\* Mutant: the counters are renumbered from 0.
RenormalizeFromZero ==
    /\ pc = "renormalize"
    /\ \E s \in todo :
          /\ OldestOf(todo, s)
          /\ slot' = s
          /\ record' = [flash[s] EXCEPT !.counter = rank]
          /\ todo' = todo \ {s}
    /\ rank' = rank + 1
    /\ pc' = "erase"
    /\ UNCHANGED <<flash, request, target, erased>>

RenormalizeNext ==
    /\ pc = "renormalize"
    /\ \E s \in todo :
          /\ OldestOf(todo, s)
          /\ slot' = s
          /\ record' = [flash[s] EXCEPT !.counter = rank + 1]
          /\ todo' = todo \ {s}
    /\ rank' = rank + 1
    /\ pc' = "erase"
    /\ UNCHANGED <<flash, request, target, erased>>

\* Back in wifi_store_save_network; lines 585-588 refuse a counter that still
\* wraps.
RenormalizeEnd ==
    /\ pc = "renormalize"
    /\ todo = {}
    /\ \E next \in 0..MaxCounter :
          /\ IsNextCounter(next)
          /\ IF next = 0
             THEN Abandon
             ELSE /\ WriteRequest(request, target, next)
                  /\ rank' = 0
                  /\ UNCHANGED <<request, target>>
    /\ UNCHANGED <<flash, erased>>

-----------------------------------------------------------------------------
(* write_record_to_slot. *)

Erase ==
    /\ pc = "erase"
    /\ erased' = flash[slot]
    /\ flash' = [flash EXCEPT ![slot] = Blank]
    /\ pc' = "program"
    /\ UNCHANGED <<request, target, todo, rank, slot, record>>

\* rank is 0 again when the record written is the one of the request.
Program ==
    /\ pc = "program"
    /\ flash' = [flash EXCEPT ![slot] = record]
    /\ erased' = Blank
    /\ IF rank = 0
       THEN Abandon
       ELSE /\ pc' = "renormalize"
            /\ slot' = NoSlot
            /\ record' = Blank
            /\ UNCHANGED <<request, target, todo, rank>>

\* The erase or the programming fails: the error goes back to the caller.  A
\* page whose erase failed may have kept its record.
WriteFails ==
    /\ pc \in {"erase", "program"}
    /\ flash' \in {flash, [flash EXCEPT ![slot] = Blank]}
    /\ erased' = Blank
    /\ Abandon

\* Power is lost between the writes, or during one.
PowerLoss ==
    /\ pc # "idle"
    /\ \/ flash' = flash
       \/ pc = "erase" /\ flash' = [flash EXCEPT ![slot] = Blank]
    /\ erased' = Blank
    /\ Abandon

Next ==
    \/ \E ssid \in Ssids, pwd \in Pwds : SaveNetwork(ssid, pwd)
    \/ \E ssid \in Ssids : MarkUsed(ssid)
    \/ RenormalizeNext
    \/ RenormalizeEnd
    \/ Erase
    \/ Program
    \/ WriteFails
    \/ PowerLoss

Spec == Init /\ [][Next]_vars

-----------------------------------------------------------------------------
(* Properties. *)

\* Type invariant: in particular no record ever has the counter 0.
TypeOK ==
    /\ flash \in [Slots -> Records \cup {Blank}]
    /\ pc \in {"idle", "renormalize", "erase", "program"}
    /\ request \in [ssid : Ssids, pwd : Pwds] \cup {Blank}
    /\ target \in Slots \cup {NoSlot}
    /\ todo \in SUBSET Slots
    /\ rank \in 0..MaxCounter
    /\ slot \in Slots \cup {NoSlot}
    /\ record \in Records \cup {Blank}
    /\ erased \in Records \cup {Blank}

\* The order of use is total at every moment, in the middle of a renormalization
\* and after a loss of power as well: no two records have the same counter.
DistinctCounters ==
    \A s, t \in Valid : flash[s].counter = flash[t].counter => s = t

\* A network is stored once, however saves, evictions, failed writes and
\* restarts interleave.
UniqueNetworks ==
    \A s, t \in Valid : flash[s].ssid = flash[t].ssid => s = t

\* find_slots always has a slot to offer, also when a record carries the counter
\* that its search for the lowest one cannot see: a save is never refused.
AlwaysATarget == Free # {} \/ Evictable # {}

-----------------------------------------------------------------------------
(* The store as a list of networks (NetworkList).                          *)

\* While a page is erased and not yet programmed, the list still holds what the
\* page held: the write replaces it or, cut short, drops it.
Content == IF pc = "program" THEN [flash EXCEPT ![slot] = erased] ELSE flash

\* wifi_store_get_known_networks: the valid records, by descending counter.
Stored        == {s \in Slots : Content[s] # Blank}
Network(s)    == [ssid |-> Content[s].ssid, pwd |-> Content[s].pwd]
KnownNetworks == {Network(s) : s \in Stored}
UsedAfter     == {pair \in KnownNetworks \X KnownNetworks :
                    \E s, t \in Stored : /\ pair = <<Network(s), Network(t)>>
                                         /\ Content[s].counter > Content[t].counter}

\* The store is a list of networks ordered by use: saving, marking, evicting,
\* renormalizing and losing power in the middle of it do to the list what
\* NetworkList allows and no more.
List == INSTANCE NetworkList WITH known <- KnownNetworks, newer <- UsedAfter
ImplementsList == List!Spec
=============================================================================
