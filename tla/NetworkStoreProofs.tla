------------------------ MODULE NetworkStoreProofs ------------------------
(***************************************************************************)
(* Proofs about NetworkStore for every number of pages from two on, every  *)
(* counter width that exceeds it and every set of networks: the order of   *)
(* use, and the list that the store implements.                            *)
(***************************************************************************)
EXTENDS NetworkStore, FiniteSetTheorems, TLAPS

-----------------------------------------------------------------------------
(* The inductive invariant behind DistinctCounters and UniqueNetworks.     *)

\* The records a renormalization has rewritten carry 1 .. rank (without the one
\* being written), those it has not keep counters above rank: rewriting the
\* oldest of them can meet no other counter.
Renormalizing ==
    /\ todo \subseteq Valid
    /\ \A s \in todo : flash[s].counter > rank

\* Between two writes of a renormalization.
BetweenWrites ==
    pc = "renormalize" =>
        /\ Renormalizing
        /\ \A s \in Valid \ todo : flash[s].counter <= rank

\* The page being written, its new counter and its network clash with no other
\* page.
Writing ==
    pc \in {"erase", "program"} =>
        /\ slot \in Slots \ todo
        /\ record \in Records
        /\ pc = "program" => flash[slot] = Blank
        /\ \A s \in Valid \ {slot} : flash[s].ssid # record.ssid
        /\ IF rank = 0
           THEN /\ todo = {}
                /\ \A s \in Valid \ {slot} : flash[s].counter < record.counter
           ELSE /\ Renormalizing
                /\ record.counter = rank
                /\ \A s \in Valid \ (todo \cup {slot}) : flash[s].counter < rank

\* The slot chosen before a renormalization is still the right one after it: no
\* other page comes to hold the requested network.
TargetStillRight ==
    pc # "idle" =>
        /\ request \in [ssid : Ssids, pwd : Pwds]
        /\ target \in Slots
        /\ \A s \in Valid \ {target} : flash[s].ssid # request.ssid
        /\ pc # "renormalize" /\ slot # target => record.ssid # request.ssid

Inv == DistinctCounters /\ UniqueNetworks /\ BetweenWrites /\ Writing /\ TargetStillRight
             /\ (pc = "idle" => rank = 0)

-----------------------------------------------------------------------------
(* The inductive invariant behind ImplementsList.                          *)

\* What this takes beside Inv.  The list that counts the erased page is one of
\* distinct networks in a total order of use.
ListTotal ==
    \A s, t \in Stored : \/ Content[s].ssid = Content[t].ssid
                         \/ Content[s].counter = Content[t].counter
                         => s = t

\* The slot chosen before a renormalization is still the right one after it: it
\* holds the requested network, or nothing, or the network used least recently.
Chosen ==
    pc # "idle" =>
        \/ Content[target] = Blank
        \/ Content[target].ssid = request.ssid
        \/ \A s \in Slots \ {target} : /\ Content[s] # Blank
                                       /\ Content[target].counter < Content[s].counter

\* A write is the one of the request, or puts another counter into a record
\* without passing any record that is still to be rewritten.
Rewriting ==
    pc \in {"erase", "program"} =>
        IF rank = 0
        THEN /\ slot = target
             /\ record.ssid = request.ssid /\ record.pwd = request.pwd
        ELSE /\ Content[slot] # Blank
             /\ record.ssid = Content[slot].ssid /\ record.pwd = Content[slot].pwd
             /\ Content[slot].counter >= rank
             /\ \A s \in todo : Content[slot].counter < flash[s].counter

ListInv == ListTotal /\ Chosen /\ Rewriting

-----------------------------------------------------------------------------
(* Operators of the module.                                                *)

\* What a valid page holds.
LEMMA ValidPages ==
    ASSUME TypeOK
    PROVE  /\ Valid \subseteq Slots
           /\ \A s \in Valid : /\ flash[s] \in Records
                               /\ flash[s].ssid \in Ssids
                               /\ flash[s].pwd \in Pwds
                               /\ flash[s].counter \in Counters
           /\ \A s \in Slots \ Valid : flash[s] = Blank
  BY DEF TypeOK, Valid, Records

\* The counter of a new record is a counter, above all that are in use.
LEMMA NextCounterAbove ==
    ASSUME TypeOK, NEW next \in 0..MaxCounter, IsNextCounter(next), next # 0
    PROVE  next \in Counters /\ \A s \in Valid : flash[s].counter < next
  BY CounterAssumption DEF IsNextCounter, Counters

\* The target of a save is a page, and the only one that may hold the network.
LEMMA TargetSlot ==
    ASSUME TypeOK, UniqueNetworks, NEW ssid \in Ssids, NEW t \in Slots, IsTarget(ssid, t)
    PROVE  \A s \in Valid \ {t} : flash[s].ssid # ssid
<1>1. CASE Matches(ssid) = {}
  BY <1>1 DEF Matches
<1>2. CASE Matches(ssid) # {}
  <2>1. t \in Matches(ssid)
    BY <1>2 DEF IsTarget, LastOf
  <2>2. QED
    BY <2>1 DEF Matches, UniqueNetworks
<1>3. QED
  BY <1>1, <1>2

\* The pages after an erase and after the programming of a page.
LEMMA ErasedPage ==
    ASSUME TypeOK, slot \in Slots, flash' = [flash EXCEPT ![slot] = Blank]
    PROVE  /\ flash'[slot] = Blank
           /\ Valid' = Valid \ {slot}
           /\ \A s \in Valid' : flash'[s] = flash[s]
  BY DEF TypeOK, Valid

LEMMA ProgrammedPage ==
    ASSUME TypeOK, slot \in Slots, record \in Records, flash' = [flash EXCEPT ![slot] = record]
    PROVE  /\ flash'[slot] = record
           /\ Valid' = Valid \cup {slot}
           /\ \A s \in Valid' \ {slot} : flash'[s] = flash[s]
  BY BlankAssumption DEF TypeOK, Valid

-----------------------------------------------------------------------------
\* A renormalization takes the counters it writes from 1 up to no more than the
\* largest counter it replaces.
LEMMA RankBounded ==
    ASSUME TypeOK, BetweenWrites, pc = "renormalize", NEW s \in todo
    PROVE  /\ s \in Valid
           /\ rank + 1 \in Counters
           /\ rank + 1 <= flash[s].counter
           /\ [flash[s] EXCEPT !.counter = rank + 1] \in Records
<1>1. s \in Valid /\ flash[s].counter > rank
  BY DEF BetweenWrites, Renormalizing
<1>2. flash[s].counter \in Counters /\ flash[s] \in Records
  BY <1>1, ValidPages
<1>3. rank \in Nat
  BY DEF TypeOK
<1>4. rank + 1 \in Counters /\ rank + 1 <= flash[s].counter
  BY <1>1, <1>2, <1>3, CounterAssumption DEF Counters
<1>5. QED
  BY <1>1, <1>2, <1>4 DEF Records

\* The type invariant needs BetweenWrites: without it rank + 1 might not be a
\* counter.  TypeOK and Inv are therefore proved together.
LEMMA TypePreserved ==
    ASSUME TypeOK, Inv, [Next]_vars
    PROVE  TypeOK'
<1> USE DEF TypeOK
<1>1. ASSUME NEW ssid \in Ssids, NEW pwd \in Pwds, SaveNetwork(ssid, pwd)
      PROVE  TypeOK'
  <2>1. PICK t \in Slots, next \in 0..MaxCounter :
            /\ IsNextCounter(next)
            /\ request' = [ssid |-> ssid, pwd |-> pwd]
            /\ target' = t
            /\ IF next = 0
               THEN pc' = "renormalize" /\ todo' = Valid /\ UNCHANGED <<slot, record>>
               ELSE WriteRequest([ssid |-> ssid, pwd |-> pwd], t, next)
    BY <1>1 DEF SaveNetwork
  <2>2. UNCHANGED <<flash, rank, erased>>
    BY <1>1 DEF SaveNetwork
  <2>3. CASE next = 0
    BY <2>1, <2>2, <2>3 DEF Valid
  <2>4. CASE next # 0
    <3>1. next \in Counters
      BY <2>1, <2>4, NextCounterAbove
    <3>2. record' \in Records /\ slot' = t /\ pc' = "erase" /\ todo' = {}
      BY <2>1, <2>4, <3>1 DEF WriteRequest, Records
    <3>3. QED
      BY <2>1, <2>2, <3>2
  <2>5. QED
    BY <2>3, <2>4
<1>2. ASSUME NEW ssid \in Ssids, MarkUsed(ssid)
      PROVE  TypeOK'
  <2>1. PICK s \in Matches(ssid) : SaveNetwork(ssid, flash[s].pwd)
    BY <1>2 DEF MarkUsed
  <2>2. flash[s].pwd \in Pwds
    BY <2>1, ValidPages DEF Matches
  <2>3. QED
    BY <1>1, <2>1, <2>2
<1>3. CASE RenormalizeNext
  <2>1. PICK s \in todo :
            /\ slot' = s
            /\ record' = [flash[s] EXCEPT !.counter = rank + 1]
            /\ todo' = todo \ {s}
    BY <1>3 DEF RenormalizeNext
  <2>2. rank + 1 \in Counters /\ record' \in Records
    BY <1>3, <2>1, RankBounded DEF RenormalizeNext, Inv
  <2>3. QED
    BY <1>3, <2>1, <2>2 DEF RenormalizeNext, Counters
<1>4. CASE RenormalizeEnd
  <2>1. PICK next \in 0..MaxCounter :
            /\ IsNextCounter(next)
            /\ IF next = 0
               THEN Abandon
               ELSE /\ WriteRequest(request, target, next)
                    /\ rank' = 0
                    /\ UNCHANGED <<request, target>>
    BY <1>4 DEF RenormalizeEnd
  <2>2. UNCHANGED <<flash, erased>>
    BY <1>4 DEF RenormalizeEnd
  <2>3. CASE next = 0
    BY <2>1, <2>2, <2>3, CounterAssumption DEF Abandon
  <2>4. CASE next # 0
    <3>1. next \in Counters /\ request \in [ssid : Ssids, pwd : Pwds] /\ target \in Slots
      BY <1>4, <2>1, <2>4, NextCounterAbove DEF RenormalizeEnd, Inv, TargetStillRight
    <3>2. record' \in Records /\ slot' = target /\ pc' = "erase" /\ todo' = {}
      BY <2>1, <2>4, <3>1 DEF WriteRequest, Records
    <3>3. QED
      BY <2>1, <2>2, <2>4, <3>1, <3>2, CounterAssumption
  <2>5. QED
    BY <2>3, <2>4
<1>5. CASE Erase
  <2>1. slot \in Slots
    BY <1>5 DEF Erase, Inv, Writing
  <2>2. QED
    BY <1>5, <2>1 DEF Erase
<1>6. CASE Program
  <2>1. slot \in Slots /\ record \in Records
    BY <1>6 DEF Program, Inv, Writing
  <2>2. flash' \in [Slots -> Records \cup {Blank}]
    BY <1>6, <2>1 DEF Program
  <2>3. QED
    BY <1>6, <2>2, CounterAssumption DEF Program, Abandon
<1>7. CASE WriteFails
  BY <1>7, CounterAssumption DEF WriteFails, Abandon
<1>8. CASE PowerLoss
  BY <1>8, CounterAssumption DEF PowerLoss, Abandon
<1>9. CASE UNCHANGED vars
  BY <1>9 DEF vars, volatile
<1>10. QED
  BY <1>1, <1>2, <1>3, <1>4, <1>5, <1>6, <1>7, <1>8, <1>9 DEF Next

-----------------------------------------------------------------------------
(* One lemma per group of steps: each preserves Inv.                       *)

\* A failed write or a loss of power can only empty a page, and leaves nothing
\* of the operation behind.
LEMMA AbandonPreserves ==
    ASSUME TypeOK, Inv, Abandon, flash' = flash \/ flash' = [flash EXCEPT ![slot] = Blank]
    PROVE  Inv'
<1>1. Valid' \subseteq Valid /\ \A s \in Valid' : flash'[s] = flash[s]
  BY DEF TypeOK, Valid
<1>2. DistinctCounters' /\ UniqueNetworks'
  BY <1>1 DEF Inv, DistinctCounters, UniqueNetworks
<1>3. QED
  BY <1>2 DEF Inv, Abandon, BetweenWrites, Writing, TargetStillRight

LEMMA SavePreserves ==
    ASSUME TypeOK, Inv, NEW ssid \in Ssids, NEW pwd \in Pwds, SaveNetwork(ssid, pwd)
    PROVE  Inv'
<1>1. PICK t \in Slots, next \in 0..MaxCounter :
          /\ IsTarget(ssid, t)
          /\ IsNextCounter(next)
          /\ request' = [ssid |-> ssid, pwd |-> pwd]
          /\ target' = t
          /\ IF next = 0
             THEN pc' = "renormalize" /\ todo' = Valid /\ UNCHANGED <<slot, record>>
             ELSE WriteRequest([ssid |-> ssid, pwd |-> pwd], t, next)
  BY DEF SaveNetwork
<1>2. rank = 0 /\ UNCHANGED <<flash, rank>>
  BY DEF SaveNetwork, Inv
<1>3. Valid' = Valid
  BY <1>2 DEF Valid
<1>4. DistinctCounters' /\ UniqueNetworks'
  BY <1>2, <1>3 DEF Inv, DistinctCounters, UniqueNetworks
<1>5. \A s \in Valid \ {t} : flash[s].ssid # ssid
  BY <1>1, TargetSlot DEF Inv
<1>6. CASE next = 0
  <2>1. \A s \in Valid : flash[s].counter > 0
    BY ValidPages DEF Counters
  <2>2. BetweenWrites'
    BY <1>1, <1>2, <1>3, <1>6, <2>1 DEF BetweenWrites, Renormalizing
  <2>3. Writing' /\ TargetStillRight'
    BY <1>1, <1>2, <1>3, <1>5, <1>6 DEF Writing, TargetStillRight
  <2>4. QED
    BY <1>1, <1>4, <1>6, <2>2, <2>3 DEF Inv
<1>7. CASE next # 0
  <2>1. next \in Counters /\ \A s \in Valid : flash[s].counter < next
    BY <1>1, <1>7, NextCounterAbove
  <2>2. /\ pc' = "erase" /\ slot' = t /\ todo' = {}
        /\ record' = [ssid |-> ssid, pwd |-> pwd, counter |-> next]
    BY <1>1, <1>7 DEF WriteRequest
  <2>3. Writing'
    BY <1>2, <1>3, <1>5, <2>1, <2>2 DEF Writing, Records
  <2>4. BetweenWrites' /\ TargetStillRight'
    BY <1>1, <1>2, <1>3, <1>5, <2>2 DEF BetweenWrites, TargetStillRight
  <2>5. QED
    BY <1>4, <2>2, <2>3, <2>4 DEF Inv
<1>8. QED
  BY <1>6, <1>7

LEMMA RenormalizeNextPreserves ==
    ASSUME TypeOK, Inv, RenormalizeNext
    PROVE  Inv'
<1>1. PICK s \in todo :
          /\ OldestOf(todo, s)
          /\ slot' = s
          /\ record' = [flash[s] EXCEPT !.counter = rank + 1]
          /\ todo' = todo \ {s}
  BY DEF RenormalizeNext
<1>2. pc = "renormalize" /\ pc' = "erase" /\ rank' = rank + 1 /\ UNCHANGED <<flash, request, target>>
  BY DEF RenormalizeNext
<1>3. Valid' = Valid
  BY <1>2 DEF Valid
<1>4. DistinctCounters' /\ UniqueNetworks'
  BY <1>2, <1>3 DEF Inv, DistinctCounters, UniqueNetworks
<1>5. /\ s \in Valid
      /\ rank + 1 \in Counters /\ rank + 1 <= flash[s].counter
      /\ [flash[s] EXCEPT !.counter = rank + 1] \in Records
  BY <1>2, RankBounded DEF Inv
<1>6. flash[s] \in Records
  BY <1>5, ValidPages
<1>7. record'.ssid = flash[s].ssid /\ record'.counter = rank + 1
  BY <1>1, <1>6 DEF Records
<1>8. \A t \in todo \ {s} : flash[t].counter > rank + 1
  <2> SUFFICES ASSUME NEW t \in todo \ {s}
               PROVE  flash[t].counter > rank + 1
    OBVIOUS
  <2>1. t \in Valid
    BY <1>2 DEF Inv, BetweenWrites, Renormalizing
  <2>2. flash[t].counter # flash[s].counter
    BY <1>5, <2>1 DEF Inv, DistinctCounters
  <2>3. flash[s].counter <= flash[t].counter
    BY <1>1 DEF OldestOf
  <2>4. flash[t].counter \in Nat /\ flash[s].counter \in Nat /\ rank \in Nat
    BY <1>5, <2>1, ValidPages DEF Counters, TypeOK
  <2>5. QED
    BY <1>5, <2>2, <2>3, <2>4
<1>9. \A t \in Valid \ {s} : flash[t].ssid # flash[s].ssid
  BY <1>5 DEF Inv, UniqueNetworks
<1>10. \A t \in Valid \ todo : flash[t].counter <= rank
  BY <1>2 DEF Inv, BetweenWrites
<1>11. \A t \in Valid \ todo : flash[t].counter < rank + 1
  BY <1>10, ValidPages DEF TypeOK, Counters
<1>12. Renormalizing'
  BY <1>1, <1>2, <1>3, <1>8 DEF Inv, BetweenWrites, Renormalizing
<1>13. rank' # 0 /\ slot' \in Slots \ todo'
  BY <1>1, <1>2, <1>5, ValidPages DEF TypeOK
<1>14. Writing'
  <2>1. \A t \in Valid' \ (todo' \cup {slot'}) : flash'[t].counter < rank'
    BY <1>1, <1>2, <1>3, <1>11
  <2>2. \A t \in Valid' \ {slot'} : flash'[t].ssid # record'.ssid
    BY <1>1, <1>2, <1>3, <1>7, <1>9
  <2>3. record' \in Records /\ record'.counter = rank'
    BY <1>1, <1>2, <1>5, <1>7
  <2>4. QED
    BY <1>2, <1>12, <1>13, <2>1, <2>2, <2>3 DEF Writing
<1>15. TargetStillRight'
  BY <1>1, <1>2, <1>3, <1>5, <1>7 DEF Inv, TargetStillRight
<1>16. BetweenWrites'
  BY <1>2 DEF BetweenWrites
<1>17. QED
  BY <1>2, <1>4, <1>14, <1>15, <1>16 DEF Inv

LEMMA RenormalizeEndPreserves ==
    ASSUME TypeOK, Inv, RenormalizeEnd
    PROVE  Inv'
<1>1. PICK next \in 0..MaxCounter :
          /\ IsNextCounter(next)
          /\ IF next = 0
             THEN Abandon
             ELSE /\ WriteRequest(request, target, next)
                  /\ rank' = 0
                  /\ UNCHANGED <<request, target>>
  BY DEF RenormalizeEnd
<1>2. pc = "renormalize" /\ flash' = flash
  BY DEF RenormalizeEnd
<1>3. CASE next = 0
  BY <1>1, <1>2, <1>3, AbandonPreserves
<1>4. CASE next # 0
  <2>1. next \in Counters /\ \A s \in Valid : flash[s].counter < next
    BY <1>1, <1>4, NextCounterAbove
  <2>2. /\ request \in [ssid : Ssids, pwd : Pwds] /\ target \in Slots
        /\ \A s \in Valid \ {target} : flash[s].ssid # request.ssid
    BY <1>2 DEF Inv, TargetStillRight
  <2>3. /\ pc' = "erase" /\ slot' = target /\ todo' = {} /\ rank' = 0
        /\ record' = [ssid |-> request.ssid, pwd |-> request.pwd, counter |-> next]
        /\ UNCHANGED <<request, target>>
    BY <1>1, <1>4 DEF WriteRequest
  <2>4. Valid' = Valid
    BY <1>2 DEF Valid
  <2>5. DistinctCounters' /\ UniqueNetworks'
    BY <1>2, <2>4 DEF Inv, DistinctCounters, UniqueNetworks
  <2>6. Writing'
    BY <1>2, <2>1, <2>2, <2>3, <2>4 DEF Writing, Records
  <2>7. BetweenWrites' /\ TargetStillRight'
    BY <1>2, <2>2, <2>3, <2>4 DEF BetweenWrites, TargetStillRight
  <2>8. QED
    BY <2>3, <2>5, <2>6, <2>7 DEF Inv
<1>5. QED
  BY <1>3, <1>4

LEMMA ErasePreserves ==
    ASSUME TypeOK, Inv, Erase
    PROVE  Inv'
<1>1. /\ pc = "erase" /\ pc' = "program"
      /\ flash' = [flash EXCEPT ![slot] = Blank]
      /\ UNCHANGED <<request, target, todo, rank, slot, record>>
  BY DEF Erase
<1>2. Writing /\ slot \in Slots \ todo
  BY <1>1 DEF Inv, Writing
<1>3. /\ flash'[slot] = Blank
      /\ Valid' = Valid \ {slot}
      /\ \A s \in Valid' : flash'[s] = flash[s]
  BY <1>1, <1>2, ErasedPage
<1>4. DistinctCounters' /\ UniqueNetworks'
  BY <1>3 DEF Inv, DistinctCounters, UniqueNetworks
<1>5. Renormalizing => Renormalizing'
  BY <1>1, <1>2, <1>3 DEF Renormalizing
<1>6. Writing'
  BY <1>1, <1>2, <1>3, <1>5 DEF Writing
<1>7. TargetStillRight'
  BY <1>1, <1>3 DEF Inv, TargetStillRight
<1>8. BetweenWrites'
  BY <1>1 DEF BetweenWrites
<1>9. QED
  BY <1>1, <1>4, <1>6, <1>7, <1>8 DEF Inv

LEMMA ProgramPreserves ==
    ASSUME TypeOK, Inv, Program
    PROVE  Inv'
<1>1. pc = "program" /\ flash' = [flash EXCEPT ![slot] = record]
  BY DEF Program
<1>2. /\ slot \in Slots \ todo /\ record \in Records /\ flash[slot] = Blank
      /\ \A s \in Valid \ {slot} : flash[s].ssid # record.ssid
  BY <1>1 DEF Inv, Writing
<1>3. /\ flash'[slot] = record
      /\ Valid' = Valid \cup {slot}
      /\ \A s \in Valid' \ {slot} : flash'[s] = flash[s]
  BY <1>1, <1>2, ProgrammedPage
<1>4. slot \notin Valid
  BY <1>2 DEF Valid
<1>5. UniqueNetworks'
  BY <1>2, <1>3, <1>4 DEF Inv, UniqueNetworks
<1>6. \A s \in Valid : flash[s].counter # record.counter
  <2>1. CASE rank = 0
    BY <1>1, <1>2, <1>4, <2>1, ValidPages DEF Inv, Writing, Records, Counters
  <2>2. CASE rank # 0
    BY <1>1, <1>2, <1>4, <2>2, ValidPages DEF Inv, Writing, Renormalizing, Records, Counters
  <2>3. QED
    BY <2>1, <2>2
<1>7. DistinctCounters'
  BY <1>3, <1>4, <1>6 DEF Inv, DistinctCounters
<1>8. CASE rank = 0
  BY <1>5, <1>7, <1>8 DEF Program, Abandon, Inv, BetweenWrites, Writing, TargetStillRight
<1>9. CASE rank # 0
  <2>1. pc' = "renormalize" /\ UNCHANGED <<request, target, todo, rank>>
    BY <1>9 DEF Program
  <2>2. /\ Renormalizing /\ record.counter = rank
        /\ \A s \in Valid \ (todo \cup {slot}) : flash[s].counter < rank
    BY <1>1, <1>9 DEF Inv, Writing
  <2>3. Renormalizing'
    BY <1>2, <1>3, <2>1, <2>2 DEF Renormalizing
  <2>4. \A s \in Valid' \ todo' : flash'[s].counter <= rank'
    <3> SUFFICES ASSUME NEW s \in Valid' \ todo'
                 PROVE  flash'[s].counter <= rank'
      OBVIOUS
    <3>1. CASE s = slot
      BY <1>3, <2>1, <2>2, <3>1 DEF TypeOK
    <3>2. CASE s # slot
      <4>1. s \in Valid \ (todo \cup {slot}) /\ flash'[s] = flash[s]
        BY <1>3, <2>1, <3>2
      <4>2. flash[s].counter \in Nat /\ rank \in Nat
        BY <4>1, ValidPages DEF TypeOK, Counters
      <4>3. QED
        BY <2>1, <2>2, <4>1, <4>2
    <3>3. QED
      BY <3>1, <3>2
  <2>5. BetweenWrites' /\ Writing'
    BY <2>1, <2>3, <2>4 DEF BetweenWrites, Writing
  <2>6. TargetStillRight'
    <3>1. \A s \in Valid \ {target} : flash[s].ssid # request.ssid
      BY <1>1 DEF Inv, TargetStillRight
    <3>2. slot # target => record.ssid # request.ssid
      BY <1>1 DEF Inv, TargetStillRight
    <3>3. \A s \in Valid' \ {target'} : flash'[s].ssid # request'.ssid
      BY <1>3, <1>4, <2>1, <3>1, <3>2
    <3>4. QED
      BY <1>1, <2>1, <3>3 DEF Inv, TargetStillRight
  <2>7. QED
    BY <1>5, <1>7, <2>1, <2>5, <2>6 DEF Inv
<1>10. QED
  BY <1>8, <1>9

-----------------------------------------------------------------------------
\* The store never leaves its types nor its inductive invariant.
THEOREM StoreInvariant == Spec => [](TypeOK /\ Inv)
<1>1. Init => TypeOK /\ Inv
  BY CapacityAssumption, CounterAssumption
     DEF Init, TypeOK, Inv, DistinctCounters, UniqueNetworks, BetweenWrites, Writing,
         TargetStillRight, Valid
<1>2. TypeOK /\ Inv /\ [Next]_vars => (TypeOK /\ Inv)'
  <2> SUFFICES ASSUME TypeOK, Inv, [Next]_vars
               PROVE  Inv'
    BY TypePreserved
  <2>1. ASSUME NEW ssid \in Ssids, NEW pwd \in Pwds, SaveNetwork(ssid, pwd)
        PROVE  Inv'
    BY <2>1, SavePreserves
  <2>2. ASSUME NEW ssid \in Ssids, MarkUsed(ssid)
        PROVE  Inv'
    <3>1. PICK s \in Matches(ssid) : SaveNetwork(ssid, flash[s].pwd)
      BY <2>2 DEF MarkUsed
    <3>2. flash[s].pwd \in Pwds
      BY <3>1, ValidPages DEF Matches
    <3>3. QED
      BY <3>1, <3>2, SavePreserves
  <2>3. CASE RenormalizeNext
    BY <2>3, RenormalizeNextPreserves
  <2>4. CASE RenormalizeEnd
    BY <2>4, RenormalizeEndPreserves
  <2>5. CASE Erase
    BY <2>5, ErasePreserves
  <2>6. CASE Program
    BY <2>6, ProgramPreserves
  <2>7. CASE WriteFails
    BY <2>7, AbandonPreserves DEF WriteFails
  <2>8. CASE PowerLoss
    BY <2>8, AbandonPreserves DEF PowerLoss
  <2>9. CASE UNCHANGED vars
    BY <2>9 DEF vars, volatile, Inv, DistinctCounters, UniqueNetworks, BetweenWrites, Writing,
                Renormalizing, TargetStillRight, Valid
  <2>10. QED
    BY <2>1, <2>2, <2>3, <2>4, <2>5, <2>6, <2>7, <2>8, <2>9 DEF Next
<1>3. QED
  BY <1>1, <1>2, PTL DEF Spec

\* No two records ever share a counter, in the middle of a renormalization and
\* after a loss of power as well: the order of use is never ambiguous.
THEOREM CountersAlwaysDistinct == Spec => []DistinctCounters
  BY StoreInvariant, PTL DEF Inv

\* No network is ever stored twice.
THEOREM NetworksAlwaysUnique == Spec => []UniqueNetworks
  BY StoreInvariant, PTL DEF Inv

\* With two pages or more a save always finds a slot: if none is free, two
\* records differ in their counters, and the lower one can be evicted.
THEOREM SaveNeverRefused == Spec => []AlwaysATarget
<1>1. TypeOK /\ Inv => AlwaysATarget
  <2> SUFFICES ASSUME TypeOK, Inv, Free = {}
               PROVE  Evictable # {}
    BY DEF AlwaysATarget
  <2>1. 0 \in Valid /\ 1 \in Valid
    BY CapacityAssumption DEF Free, Slots
  <2>2. flash[0].counter # flash[1].counter
    BY <2>1 DEF Inv, DistinctCounters
  <2>3. flash[0].counter \in Counters /\ flash[1].counter \in Counters
    BY <2>1, ValidPages
  <2>4. flash[0].counter < MaxCounter \/ flash[1].counter < MaxCounter
    BY <2>2, <2>3, CounterAssumption DEF Counters
  <2>5. QED
    BY <2>1, <2>4 DEF Evictable
<1>2. QED
  BY <1>1, StoreInvariant, PTL
-----------------------------------------------------------------------------
(* The list of NetworkList.                                                *)

\* What the pages hold when the erased one is counted.
LEMMA ContentPages ==
    ASSUME TypeOK
    PROVE  /\ Content \in [Slots -> Records \cup {Blank}]
           /\ \A s \in Slots \ {slot} : Content[s] = flash[s]
           /\ pc # "program" => Content = flash /\ Stored = Valid
           /\ pc = "program" /\ slot \in Slots => Content[slot] = erased
           /\ Stored \subseteq Slots
           /\ \A s \in Stored : /\ Content[s] \in Records
                                /\ Content[s].ssid \in Ssids
                                /\ Content[s].pwd \in Pwds
                                /\ Content[s].counter \in Counters
<1>1. Content \in [Slots -> Records \cup {Blank}]
  BY DEF TypeOK, Content
<1>2. \A s \in Slots \ {slot} : Content[s] = flash[s]
  BY DEF TypeOK, Content
<1>3. pc # "program" => Content = flash /\ Stored = Valid
  BY DEF Content, Stored, Valid
<1>4. pc = "program" /\ slot \in Slots => Content[slot] = erased
  BY DEF TypeOK, Content
<1>5. Stored \subseteq Slots /\ \A s \in Stored : Content[s] \in Records
  BY <1>1 DEF Stored
<1>6. QED
  BY <1>1, <1>2, <1>3, <1>4, <1>5 DEF Records

\* The order of the list is that of the counters.
LEMMA ListOrder ==
    ASSUME ListTotal, NEW s \in Stored, NEW t \in Stored
    PROVE  /\ Network(s) = Network(t) => s = t
           /\ Network(s) \in KnownNetworks
           /\ <<Network(s), Network(t)>> \in UsedAfter <=> Content[s].counter > Content[t].counter
<1>1. \A u, v \in Stored : Network(u) = Network(v) => u = v
  BY DEF ListTotal, Network
<1>2. Network(s) \in KnownNetworks /\ Network(t) \in KnownNetworks
  BY DEF KnownNetworks
<1>3. ASSUME NEW u \in Stored, NEW v \in Stored,
             <<Network(s), Network(t)>> = <<Network(u), Network(v)>>
      PROVE  s = u /\ t = v
  BY <1>1, <1>3
<1>4. QED
  BY <1>1, <1>2, <1>3 DEF UsedAfter

\* The three ways in which a step of the store can change the list.

\* Counters that change without passing each other leave it as it is.
LEMMA ListSame ==
    ASSUME Stored' = Stored,
           \A s \in Stored : Network(s)' = Network(s),
           \A s, t \in Stored : Content'[s].counter > Content'[t].counter
                                    <=> Content[s].counter > Content[t].counter
    PROVE  UNCHANGED <<KnownNetworks, UsedAfter>>
<1>1. KnownNetworks' = KnownNetworks
  BY DEF KnownNetworks
<1>2. UsedAfter' = UsedAfter
  BY <1>1 DEF UsedAfter
<1>3. QED
  BY <1>1, <1>2

\* A page that is lost drops its network.
LEMMA ListDrop ==
    ASSUME ListTotal, NEW d \in Stored, Stored' = Stored \ {d},
           \A s \in Stored' : Content'[s] = Content[s]
    PROVE  \E n \in KnownNetworks : List!Drop(n)
<1>1. \A s \in Stored' : Network(s)' = Network(s)
  BY DEF Network
<1>2. \A s, t \in Stored : Network(s) = Network(t) => s = t
  BY ListOrder
<1>3. KnownNetworks' = KnownNetworks \ {Network(d)}
  BY <1>1, <1>2 DEF KnownNetworks
<1>4. UsedAfter' = UsedAfter \cap (KnownNetworks' \X KnownNetworks')
  <2>1. ASSUME NEW s \in Stored', NEW t \in Stored'
        PROVE  <<Network(s)', Network(t)'>> \in UsedAfter' <=> <<Network(s)', Network(t)'>> \in UsedAfter
    <3>1. <<Network(s), Network(t)>> \in UsedAfter <=> Content[s].counter > Content[t].counter
      BY ListOrder
    <3>2. <<Network(s)', Network(t)'>> \in UsedAfter' <=> Content'[s].counter > Content'[t].counter
      <4>1. \A u, v \in Stored' : Network(u)' = Network(v)' => u = v
        BY <1>1, <1>2
      <4>2. Network(s)' \in KnownNetworks' /\ Network(t)' \in KnownNetworks'
        BY DEF KnownNetworks
      <4>3. QED
        BY <4>1, <4>2 DEF UsedAfter
    <3>3. QED
      BY <1>1, <3>1, <3>2
  <2>2. UsedAfter' \subseteq KnownNetworks' \X KnownNetworks'
    BY DEF UsedAfter
  <2>3. \A p \in KnownNetworks' \X KnownNetworks' :
            \E s, t \in Stored' : p = <<Network(s)', Network(t)'>>
    BY DEF KnownNetworks
  <2>4. QED
    BY <2>1, <2>2, <2>3
<1>5. QED
  BY <1>3, <1>4, ListOrder DEF List!Drop, List!Ordered

\* There are no more networks than pages that hold them.
LEMMA ListLength ==
    ASSUME ListTotal, NEW pages \in SUBSET Stored, Stored \subseteq Slots
    PROVE  LET networks == {Network(s) : s \in pages}
           IN  /\ IsFiniteSet(networks)
               /\ Cardinality(networks) = Cardinality(pages)
               /\ Cardinality(pages) <= Capacity
               /\ pages = Slots => Cardinality(networks) = Capacity
               /\ pages # Slots => Cardinality(networks) < Capacity
<1> DEFINE networks == {Network(s) : s \in pages}
           f == [s \in pages |-> Network(s)]
<1>1. IsFiniteSet(Slots) /\ Cardinality(Slots) = Capacity
  BY FS_Interval, CapacityAssumption DEF Slots
<1>2. /\ IsFiniteSet(pages) /\ Cardinality(pages) <= Capacity
      /\ Cardinality(pages) = Capacity => pages = Slots
  BY <1>1, FS_Subset
<1>3. f \in Surjection(pages, networks)
  BY DEF Surjection
<1>4. f \in Injection(pages, networks)
  BY ListOrder DEF Injection, IsInjective
<1>5. IsFiniteSet(networks) /\ Cardinality(networks) = Cardinality(pages)
  BY <1>2, <1>3, <1>4, FS_Surjection
<1>6. Cardinality(pages) \in Nat
  BY <1>2, FS_CardinalityType
<1>7. QED
  BY <1>1, <1>2, <1>5, <1>6, CapacityAssumption

\* A page that is programmed for a request saves its network: the page held that
\* network, or none, or with all pages full the one used least recently.
LEMMA ListSave ==
    ASSUME TypeOK, ListTotal, ListTotal', NEW t \in Slots, NEW ssid, NEW pwd,
           Stored' = Stored \cup {t},
           Content'[t].ssid = ssid, Content'[t].pwd = pwd, Content'[t].counter \in Counters,
           \A s \in Stored \ {t} : /\ Content'[s] = Content[s]
                                   /\ Content[s].ssid # ssid
                                   /\ Content[s].counter < Content'[t].counter,
           \/ t \notin Stored
           \/ Content[t].ssid = ssid
           \/ Slots \subseteq Stored /\ \A s \in Slots \ {t} : Content[t].counter < Content[s].counter
    PROVE  List!Save(ssid, pwd)
<1> DEFINE rest  == Stored \ {t}
           kept  == {Network(s) : s \in rest}
           saved == [ssid |-> ssid, pwd |-> pwd]
<1>1. Stored \subseteq Slots
  BY DEF Stored
<1>2. \A s \in rest : Network(s)' = Network(s) /\ Network(s).ssid # ssid
  BY DEF Network
<1>3. Network(t)' = saved
  BY DEF Network
<1>4. kept \in SUBSET KnownNetworks
  BY DEF KnownNetworks
<1>5. List!Stay(ssid, kept)
  <2>1. CASE t \notin Stored \/ Content[t].ssid = ssid
    <3>1. List!Others(ssid) = kept
      BY <1>2, <2>1 DEF List!Others, KnownNetworks, Network
    <3>2. Cardinality(kept) < Capacity
      BY <1>1, ListLength
    <3>3. QED
      BY <3>1, <3>2 DEF List!Stay, List!Cardinality, Cardinality
  <2>2. CASE t \in Stored /\ Content[t].ssid # ssid
    <3>1. Stored = Slots /\ \A s \in rest : Content[s].counter > Content[t].counter
      BY <1>1, <2>2, ContentPages DEF Counters
    <3>2. List!Others(ssid) = KnownNetworks
      BY <1>2, <2>2 DEF List!Others, KnownNetworks, Network
    <3>3. Cardinality(KnownNetworks) = Capacity
      BY <1>1, <3>1, ListLength DEF KnownNetworks
    <3>4. \A s \in rest : Network(s) # Network(t) /\ <<Network(s), Network(t)>> \in UsedAfter
      BY <2>2, <3>1, ListOrder
    <3>5. kept = KnownNetworks \ {Network(t)}
      BY <3>4 DEF KnownNetworks
    <3>6. List!LastOf(KnownNetworks, Network(t))
      BY <2>2, <3>4, <3>5 DEF List!LastOf, KnownNetworks
    <3>7. QED
      BY <2>2, <3>2, <3>3, <3>5, <3>6, CapacityAssumption DEF List!Stay, List!LastOf, List!Cardinality, Cardinality
  <2>3. QED
    BY <2>1, <2>2
<1>6. KnownNetworks' = kept \cup {saved}
  BY <1>2, <1>3 DEF KnownNetworks
<1>7. UsedAfter' = List!Ordered(kept) \cup ({saved} \X kept)
  <2> DEFINE after == List!Ordered(kept) \cup ({saved} \X kept)
  <2>1. \A s, u \in Stored' : <<Network(s)', Network(u)'>> \in UsedAfter'
                                  <=> Content'[s].counter > Content'[u].counter
    <3>1. \A s, u \in Stored' : Network(s)' = Network(u)' => s = u
      BY DEF ListTotal, Network
    <3>2. QED
      BY <3>1 DEF UsedAfter, KnownNetworks
  <2>2. \A s \in rest : saved # Network(s)
    BY <1>2
  <2>3. ASSUME NEW s \in rest, NEW u \in rest
        PROVE  <<Network(s)', Network(u)'>> \in UsedAfter' <=> <<Network(s)', Network(u)'>> \in after
    <3>1. <<Network(s), Network(u)>> \in UsedAfter <=> Content[s].counter > Content[u].counter
      BY ListOrder
    <3>2. <<Network(s), Network(u)>> \in after <=> <<Network(s), Network(u)>> \in UsedAfter
      BY <2>2 DEF List!Ordered
    <3>3. QED
      BY <1>2, <2>1, <3>1, <3>2
  <2>4. ASSUME NEW s \in rest
        PROVE  /\ <<saved, Network(s)'>> \in UsedAfter' /\ <<saved, Network(s)'>> \in after
               /\ <<Network(s)', saved>> \notin UsedAfter' /\ <<Network(s)', saved>> \notin after
    <3>1. Content'[s].counter < Content'[t].counter /\ Content'[s].counter \in Counters
      BY ContentPages
    <3>2. Content'[t].counter > Content'[s].counter /\ ~ (Content'[s].counter > Content'[t].counter)
      BY <3>1 DEF Counters
    <3>3. <<saved, Network(s)'>> \in UsedAfter' /\ <<Network(s)', saved>> \notin UsedAfter'
      BY <1>3, <2>1, <3>2
    <3>4. <<saved, Network(s)'>> \in after /\ <<Network(s)', saved>> \notin after
      BY <1>2, <2>2 DEF List!Ordered
    <3>5. QED
      BY <3>3, <3>4
  <2>5. <<saved, saved>> \notin UsedAfter' /\ <<saved, saved>> \notin after
    <3>1. ~ (Content'[t].counter > Content'[t].counter)
      BY DEF Counters
    <3>2. <<saved, saved>> \notin UsedAfter'
      BY <1>3, <2>1, <3>1
    <3>3. saved \notin kept
      BY <2>2
    <3>4. QED
      BY <3>2, <3>3 DEF List!Ordered
  <2>6. \A p \in KnownNetworks' \X KnownNetworks' : p \in UsedAfter' <=> p \in after
    <3> SUFFICES ASSUME NEW n \in KnownNetworks', NEW m \in KnownNetworks'
                 PROVE  <<n, m>> \in UsedAfter' <=> <<n, m>> \in after
      OBVIOUS
    <3>1. n = saved \/ \E s \in rest : n = Network(s)'
      BY <1>2, <1>6
    <3>2. m = saved \/ \E s \in rest : m = Network(s)'
      BY <1>2, <1>6
    <3>3. QED
      BY <2>3, <2>4, <2>5, <3>1, <3>2
  <2>7. UsedAfter' \subseteq KnownNetworks' \X KnownNetworks'
    BY DEF UsedAfter
  <2>8. after \subseteq KnownNetworks' \X KnownNetworks'
    BY <1>6 DEF List!Ordered
  <2>9. QED
    BY <2>6, <2>7, <2>8
<1>8. QED
  BY <1>4, <1>5, <1>6, <1>7 DEF List!Save

-----------------------------------------------------------------------------
\* Outside the programming of a page the list is what the pages hold.
LEMMA ListTotalOutside ==
    ASSUME TypeOK, Inv, pc # "program"
    PROVE  ListTotal
  BY ContentPages DEF Inv, DistinctCounters, UniqueNetworks, ListTotal

\* A write that does not come to its end, and the restart: the page that was
\* being written is as it was, or its network is dropped.
LEMMA AbandonList ==
    ASSUME TypeOK, TypeOK', Inv, Inv', ListInv, Abandon, slot \in Slots \/ flash' = flash,
           \/ flash' = flash
           \/ flash' = [flash EXCEPT ![slot] = Blank],
           pc = "program" => slot \in Slots /\ flash[slot] = Blank
    PROVE  /\ ListInv'
           /\ UNCHANGED <<KnownNetworks, UsedAfter>> \/ \E n \in KnownNetworks : List!Drop(n)
<1>1. pc' = "idle"
  BY DEF Abandon
<1>2. ListInv'
  BY <1>1, ListTotalOutside DEF ListInv, Chosen, Rewriting, ListTotal, Content, Stored,
     Inv, DistinctCounters, UniqueNetworks, Valid
<1>3. Content' = flash'
  BY <1>1 DEF Content
<1>4. \A s \in Slots \ {slot} : Content'[s] = Content[s]
  BY <1>3, ContentPages DEF TypeOK
<1>5. CASE slot \in Slots /\ Content'[slot] = Blank /\ Content[slot] # Blank
  <2>1. Stored' = Stored \ {slot} /\ slot \in Stored
    BY <1>4, <1>5 DEF Stored
  <2>2. QED
    BY <1>2, <1>4, <2>1, ListDrop DEF ListInv, Stored
<1>6. CASE Content' = Content
  BY <1>2, <1>6 DEF KnownNetworks, UsedAfter, Stored, Network
<1>7. Content' = Content \/ (slot \in Slots /\ Content'[slot] = Blank /\ Content[slot] # Blank)
  <2>1. CASE pc # "program"
    BY <1>3, <2>1, ContentPages DEF TypeOK
  <2>2. CASE pc = "program"
    <3>1. slot \in Slots /\ flash' = flash /\ flash[slot] = Blank
      BY <2>2 DEF TypeOK
    <3>2. Content = [flash EXCEPT ![slot] = erased]
      BY <2>2 DEF Content
    <3>3. CASE erased = Blank
      BY <1>3, <3>1, <3>2, <3>3 DEF TypeOK
    <3>4. CASE erased # Blank
      BY <1>3, <3>1, <3>2, <3>4 DEF TypeOK
    <3>5. QED
      BY <3>3, <3>4
  <2>3. QED
    BY <2>1, <2>2
<1>8. QED
  BY <1>5, <1>6, <1>7

LEMMA SaveList ==
    ASSUME TypeOK, TypeOK', Inv, Inv', ListInv,
           NEW ssid \in Ssids, NEW pwd \in Pwds, SaveNetwork(ssid, pwd)
    PROVE  ListInv' /\ UNCHANGED <<KnownNetworks, UsedAfter>>
<1>1. PICK t \in Slots, next \in 0..MaxCounter :
          /\ IsTarget(ssid, t)
          /\ request' = [ssid |-> ssid, pwd |-> pwd]
          /\ target' = t
          /\ IF next = 0
             THEN pc' = "renormalize" /\ todo' = Valid /\ UNCHANGED <<slot, record>>
             ELSE WriteRequest([ssid |-> ssid, pwd |-> pwd], t, next)
  BY DEF SaveNetwork
<1>2. pc = "idle" /\ rank = 0 /\ UNCHANGED <<flash, rank>>
  BY DEF SaveNetwork, Inv
<1>3. pc' \in {"renormalize", "erase"}
  BY <1>1 DEF WriteRequest
<1>4. Content = flash /\ Content' = flash
  BY <1>2, <1>3 DEF Content
<1>5. ListTotal'
  BY <1>3, <1>4, ListTotalOutside DEF ListInv, ListTotal, Stored
<1>6. Chosen'
  <2>1. \/ flash[t] = Blank
        \/ flash[t].ssid = ssid
        \/ \A s \in Slots \ {t} : flash[s] # Blank /\ flash[t].counter < flash[s].counter
    <3>1. CASE Matches(ssid) # {}
      BY <1>1, <3>1 DEF IsTarget, LastOf, Matches
    <3>2. CASE Matches(ssid) = {} /\ Free # {}
      BY <1>1, <3>2 DEF IsTarget, FirstOf, Free, Valid
    <3>3. CASE Matches(ssid) = {} /\ Free = {}
      <4>1. t \in Evictable /\ \A s \in Evictable : flash[t].counter <= flash[s].counter
        BY <1>1, <3>3 DEF IsTarget, OldestOf
      <4>2. \A s \in Slots : s \in Valid
        BY <3>3 DEF Free
      <4>3. ASSUME NEW s \in Slots \ {t}
            PROVE  flash[t].counter < flash[s].counter
        <5>1. flash[s].counter \in Counters /\ flash[t].counter \in Counters
          BY <4>2, ValidPages
        <5>2. flash[s].counter # flash[t].counter
          BY <4>2 DEF Inv, DistinctCounters
        <5>3. CASE s \in Evictable
          BY <4>1, <5>1, <5>2, <5>3 DEF Counters
        <5>4. CASE s \notin Evictable
          BY <4>1, <4>2, <5>1, <5>4, CounterAssumption DEF Evictable, Counters
        <5>5. QED
          BY <5>3, <5>4
      <4>4. QED
        BY <4>2, <4>3 DEF Valid
    <3>4. QED
      BY <3>1, <3>2, <3>3
  <2>2. QED
    BY <1>1, <1>4, <2>1 DEF Chosen
<1>7. Rewriting'
  BY <1>1, <1>2 DEF Rewriting, WriteRequest
<1>8. QED
  BY <1>4, <1>5, <1>6, <1>7 DEF ListInv, KnownNetworks, UsedAfter, Stored, Network

LEMMA RenormalizeNextList ==
    ASSUME TypeOK, TypeOK', Inv, Inv', ListInv, RenormalizeNext
    PROVE  ListInv' /\ UNCHANGED <<KnownNetworks, UsedAfter>>
<1>1. PICK s \in todo :
          /\ OldestOf(todo, s)
          /\ slot' = s
          /\ record' = [flash[s] EXCEPT !.counter = rank + 1]
          /\ todo' = todo \ {s}
  BY DEF RenormalizeNext
<1>2. pc = "renormalize" /\ pc' = "erase" /\ rank' = rank + 1 /\ UNCHANGED <<flash, request, target>>
  BY DEF RenormalizeNext
<1>3. Content = flash /\ Content' = flash
  BY <1>2 DEF Content
<1>4. ListTotal' /\ Chosen'
  BY <1>2, <1>3 DEF ListInv, ListTotal, Chosen, Stored
<1>5. todo \subseteq Valid /\ \A t \in todo : flash[t].counter > rank
  BY <1>2 DEF Inv, BetweenWrites, Renormalizing
<1>6. \A t \in todo : flash[t] \in Records /\ flash[t].counter \in Counters
  BY <1>5, ValidPages
<1>7. record'.ssid = flash[s].ssid /\ record'.pwd = flash[s].pwd
  BY <1>1, <1>6 DEF Records
<1>8. flash[s].counter >= rank + 1
  BY <1>5, <1>6 DEF Counters, TypeOK
<1>9. \A t \in todo \ {s} : flash[s].counter < flash[t].counter
  <2> SUFFICES ASSUME NEW t \in todo \ {s}
               PROVE  flash[s].counter < flash[t].counter
    OBVIOUS
  <2>1. flash[s].counter <= flash[t].counter
    BY <1>1 DEF OldestOf
  <2>2. flash[s].counter # flash[t].counter
    BY <1>5 DEF Inv, DistinctCounters
  <2>3. QED
    BY <1>6, <2>1, <2>2 DEF Counters
<1>10. rank' # 0
  BY <1>2 DEF TypeOK
<1>11. flash[s] # Blank
  BY <1>6, BlankAssumption
<1>12. Rewriting'
  BY <1>1, <1>2, <1>3, <1>7, <1>8, <1>9, <1>10, <1>11 DEF Rewriting
<1>13. QED
  BY <1>3, <1>4, <1>12 DEF ListInv, KnownNetworks, UsedAfter, Stored, Network

LEMMA RenormalizeEndList ==
    ASSUME TypeOK, TypeOK', Inv, Inv', ListInv, RenormalizeEnd
    PROVE  ListInv' /\ UNCHANGED <<KnownNetworks, UsedAfter>>
<1>1. PICK next \in 0..MaxCounter :
          IF next = 0
          THEN Abandon
          ELSE /\ WriteRequest(request, target, next)
               /\ rank' = 0
               /\ UNCHANGED <<request, target>>
  BY DEF RenormalizeEnd
<1>2. pc = "renormalize" /\ flash' = flash
  BY DEF RenormalizeEnd
<1>3. pc' \in {"idle", "erase"}
  BY <1>1 DEF Abandon, WriteRequest
<1>4. Content = flash /\ Content' = flash
  BY <1>2, <1>3 DEF Content
<1>5. ListTotal'
  BY <1>4 DEF ListInv, ListTotal, Stored
<1>6. Chosen' /\ Rewriting'
  <2>1. CASE next = 0
    BY <1>1, <2>1 DEF Abandon, Chosen, Rewriting
  <2>2. CASE next # 0
    <3>1. /\ slot' = target /\ rank' = 0 /\ UNCHANGED <<request, target>>
          /\ record'.ssid = request.ssid /\ record'.pwd = request.pwd
      BY <1>1, <2>2 DEF WriteRequest
    <3>2. QED
      BY <1>2, <1>4, <3>1 DEF ListInv, Chosen, Rewriting
  <2>3. QED
    BY <2>1, <2>2
<1>7. QED
  BY <1>4, <1>5, <1>6 DEF ListInv, KnownNetworks, UsedAfter, Stored, Network

LEMMA EraseList ==
    ASSUME TypeOK, TypeOK', Inv, Inv', ListInv, Erase
    PROVE  ListInv' /\ UNCHANGED <<KnownNetworks, UsedAfter>>
<1>1. /\ pc = "erase" /\ pc' = "program"
      /\ erased' = flash[slot]
      /\ flash' = [flash EXCEPT ![slot] = Blank]
      /\ UNCHANGED <<request, target, todo, rank, slot, record>>
  BY DEF Erase
<1>2. slot \in Slots \ todo
  BY <1>1 DEF Inv, Writing
<1>3. Content = flash /\ Content' = flash
  BY <1>1, <1>2 DEF Content, TypeOK
<1>4. ListTotal' /\ Chosen'
  BY <1>1, <1>3 DEF ListInv, ListTotal, Chosen, Stored
<1>5. rank # 0 => todo \subseteq Slots
  BY DEF TypeOK
<1>6. \A s \in todo : flash'[s] = flash[s]
  BY <1>1, <1>2 DEF TypeOK
<1>7. Rewriting'
  BY <1>1, <1>3, <1>6 DEF ListInv, Rewriting
<1>8. QED
  BY <1>3, <1>4, <1>7 DEF ListInv, KnownNetworks, UsedAfter, Stored, Network


\* The programming for a request is the save; that of a renormalization changes
\* nothing in the list, as the new counter passes no other.
LEMMA ProgramList ==
    ASSUME TypeOK, TypeOK', Inv, Inv', ListInv, Program
    PROVE  /\ ListInv'
           /\ UNCHANGED <<KnownNetworks, UsedAfter>>
              \/ \E ssid \in Ssids, pwd \in Pwds : List!Save(ssid, pwd)
<1>1. pc = "program" /\ pc' # "program" /\ flash' = [flash EXCEPT ![slot] = record]
  BY DEF Program, Abandon
<1>2. /\ slot \in Slots \ todo /\ record \in Records /\ flash[slot] = Blank
      /\ \A s \in Valid \ {slot} : flash[s].ssid # record.ssid
  BY <1>1 DEF Inv, Writing
<1>3. Content' = flash' /\ Content = [flash EXCEPT ![slot] = erased]
  BY <1>1 DEF Content
<1>4. /\ Content'[slot] = record /\ record # Blank
      /\ \A s \in Slots \ {slot} : Content'[s] = Content[s] /\ Content[s] = flash[s]
  BY <1>1, <1>2, <1>3, BlankAssumption DEF TypeOK
<1>5. Stored' = Stored \cup {slot} /\ Stored \ {slot} = Valid \ {slot}
  BY <1>2, <1>4 DEF Stored, Valid
<1>6. ListTotal'
  BY <1>1, <1>3, ListTotalOutside DEF Inv, DistinctCounters, UniqueNetworks, ListTotal, Stored, Valid
<1>7. \A s \in Stored \ {slot} : Content[s].counter \in Counters
  BY ContentPages
<1>8. CASE rank = 0
  <2>1. /\ slot = target /\ record.ssid = request.ssid /\ record.pwd = request.pwd
    BY <1>1, <1>8 DEF ListInv, Rewriting
  <2>2. record.ssid \in Ssids /\ record.pwd \in Pwds /\ record.counter \in Counters
    BY <1>2 DEF Records
  <2>3. \A s \in Stored \ {slot} : Content[s].counter < record.counter /\ Content[s].ssid # record.ssid
    BY <1>1, <1>2, <1>4, <1>5, <1>8 DEF Inv, Writing, Stored
  <2>4. \/ slot \notin Stored
        \/ Content[slot].ssid = record.ssid
        \/ Slots \subseteq Stored /\ \A s \in Slots \ {slot} : Content[slot].counter < Content[s].counter
    BY <1>1, <2>1 DEF ListInv, Chosen, Stored
  <2>5. List!Save(record.ssid, record.pwd)
    <3>1. \A s \in Stored \ {slot} : Content'[s] = Content[s]
      BY <1>4 DEF Stored
    <3>2. ListTotal
      BY DEF ListInv
    <3>3. QED
      BY <1>2, <1>4, <1>5, <1>6, <2>2, <2>3, <2>4, <3>1, <3>2, ListSave
  <2>6. pc' = "idle"
    BY <1>8 DEF Program, Abandon
  <2>7. ListInv'
    BY <1>6, <2>6 DEF ListInv, Chosen, Rewriting
  <2>8. QED
    BY <2>2, <2>5, <2>7
<1>9. CASE rank # 0
  <2>1. pc' = "renormalize" /\ UNCHANGED <<request, target, todo, rank>>
    BY <1>9 DEF Program
  <2>2. /\ Content[slot] # Blank
        /\ record.ssid = Content[slot].ssid /\ record.pwd = Content[slot].pwd
        /\ Content[slot].counter >= rank
        /\ \A s \in todo : Content[slot].counter < flash[s].counter
    BY <1>1, <1>9 DEF ListInv, Rewriting
  <2>3. /\ todo \subseteq Valid /\ \A s \in todo : flash[s].counter > rank
        /\ record.counter = rank
        /\ \A s \in Valid \ (todo \cup {slot}) : flash[s].counter < rank
    BY <1>1, <1>9 DEF Inv, Writing, Renormalizing
  <2>4. slot \in Stored /\ Stored' = Stored
    BY <1>2, <1>5, <2>2 DEF Stored
  <2>5. Content[slot].counter \in Counters /\ rank \in Nat
    BY <2>4, ContentPages DEF TypeOK
  <2>6. \A s \in Stored \ {slot} :
            /\ Content'[s].counter = Content[s].counter
            /\ Content[s].counter > record.counter <=> Content[s].counter > Content[slot].counter
            /\ record.counter > Content[s].counter <=> Content[slot].counter > Content[s].counter
    <3> SUFFICES ASSUME NEW s \in Stored \ {slot}
                 PROVE  /\ Content'[s].counter = Content[s].counter
                        /\ Content[s].counter > rank <=> Content[s].counter > Content[slot].counter
                        /\ rank > Content[s].counter <=> Content[slot].counter > Content[s].counter
      BY <2>3
    <3>1. Content'[s] = Content[s] /\ Content[s] = flash[s] /\ s \in Valid
      BY <1>4, <1>5 DEF Stored
    <3>2. CASE s \in todo
      BY <1>7, <2>2, <2>3, <2>5, <3>1, <3>2 DEF Counters
    <3>3. CASE s \notin todo
      <4>1. Content[s].counter < rank
        BY <2>3, <3>1, <3>3
      <4>2. QED
        BY <1>7, <2>2, <2>5, <3>1, <4>1 DEF Counters
    <3>4. QED
      BY <3>2, <3>3
  <2>7. \A s, t \in Stored : Content'[s].counter > Content'[t].counter
                                 <=> Content[s].counter > Content[t].counter
    <3> SUFFICES ASSUME NEW s \in Stored, NEW t \in Stored
                 PROVE  Content'[s].counter > Content'[t].counter
                            <=> Content[s].counter > Content[t].counter
      OBVIOUS
    <3>1. CASE s = slot /\ t = slot
      BY <1>4, <2>3, <2>5, <3>1 DEF Counters
    <3>2. CASE s = slot /\ t # slot
      BY <1>4, <2>6, <3>2
    <3>3. CASE s # slot /\ t = slot
      BY <1>4, <2>6, <3>3
    <3>4. CASE s # slot /\ t # slot
      BY <2>6, <3>4
    <3>5. QED
      BY <3>1, <3>2, <3>3, <3>4
  <2>8. \A s \in Stored : Network(s)' = Network(s)
    BY <1>4, <2>2 DEF Network, Stored
  <2>9. UNCHANGED <<KnownNetworks, UsedAfter>>
    BY <2>4, <2>7, <2>8, ListSame
  <2>10. Chosen'
    <3>1. target \in Slots
      BY <1>1 DEF Inv, TargetStillRight
    <3>2. CASE Content[target] = Blank
      BY <1>4, <2>1, <2>2, <3>1, <3>2 DEF Chosen
    <3>3. CASE Content[target] # Blank /\ Content[target].ssid = request.ssid
      BY <1>4, <2>1, <2>2, <3>1, <3>3 DEF Chosen
    <3>4. CASE /\ Content[target] # Blank
               /\ \A s \in Slots \ {target} : /\ Content[s] # Blank
                                              /\ Content[target].counter < Content[s].counter
      <4>1. \A s \in Slots : s \in Stored
        BY <3>1, <3>4 DEF Stored
      <4>2. \A s \in Slots \ {target} : Content[s].counter > Content[target].counter
        BY <3>1, <3>4, <4>1, ContentPages DEF Counters
      <4>3. \A s \in Slots \ {target} : Content'[s].counter > Content'[target].counter
        BY <2>7, <3>1, <4>1, <4>2
      <4>4. \A s \in Slots : Content'[s] \in Records
        BY <1>2, <1>4, <4>1, ContentPages
      <4>5. \A s \in Slots \ {target} : Content'[target].counter < Content'[s].counter /\ Content'[s] # Blank
        BY <3>1, <4>3, <4>4, BlankAssumption DEF Records, Counters
      <4>6. QED
        BY <2>1, <4>5 DEF Chosen
    <3>5. QED
      BY <1>1, <3>2, <3>3, <3>4 DEF ListInv, Chosen
  <2>11. Rewriting'
    BY <2>1 DEF Rewriting
  <2>12. QED
    BY <1>6, <2>9, <2>10, <2>11 DEF ListInv
<1>10. QED
  BY <1>8, <1>9

\* What a step does to the list.
LEMMA ListStep ==
    ASSUME TypeOK, TypeOK', Inv, Inv', ListInv, [Next]_vars
    PROVE  ListInv' /\ [List!Next]_<<KnownNetworks, UsedAfter>>
<1>1. ASSUME NEW ssid \in Ssids, NEW pwd \in Pwds, SaveNetwork(ssid, pwd)
      PROVE  ListInv' /\ [List!Next]_<<KnownNetworks, UsedAfter>>
  BY <1>1, SaveList
<1>2. ASSUME NEW ssid \in Ssids, MarkUsed(ssid)
      PROVE  ListInv' /\ [List!Next]_<<KnownNetworks, UsedAfter>>
  <2>1. PICK s \in Matches(ssid) : SaveNetwork(ssid, flash[s].pwd)
    BY <1>2 DEF MarkUsed
  <2>2. flash[s].pwd \in Pwds
    BY <2>1, ValidPages DEF Matches
  <2>3. QED
    BY <2>1, <2>2, SaveList
<1>3. CASE RenormalizeNext
  BY <1>3, RenormalizeNextList
<1>4. CASE RenormalizeEnd
  BY <1>4, RenormalizeEndList
<1>5. CASE Erase
  BY <1>5, EraseList
<1>6. CASE Program
  BY <1>6, ProgramList DEF List!Next
<1>7. CASE WriteFails \/ PowerLoss
  <2>1. pc \in {"erase", "program"} => slot \in Slots
    BY DEF Inv, Writing
  <2>2. pc = "program" => flash[slot] = Blank
    BY DEF Inv, Writing
  <2>3. \/ flash' = flash
        \/ pc \in {"erase", "program"} /\ flash' = [flash EXCEPT ![slot] = Blank]
    <3>1. CASE WriteFails
      BY <3>1 DEF WriteFails
    <3>2. CASE PowerLoss
      BY <3>2 DEF PowerLoss
    <3>3. QED
      BY <1>7, <3>1, <3>2
  <2>4. Abandon
    BY <1>7 DEF WriteFails, PowerLoss
  <2>5. QED
    BY <2>1, <2>2, <2>3, <2>4, AbandonList DEF List!Next
<1>8. CASE UNCHANGED vars
  <2>1. Content' = Content
    BY <1>8 DEF vars, volatile, Content
  <2>2. QED
    BY <1>8, <2>1 DEF vars, volatile, ListInv, ListTotal, Chosen, Rewriting, KnownNetworks,
       UsedAfter, Stored, Network
<1>9. QED
  BY <1>1, <1>2, <1>3, <1>4, <1>5, <1>6, <1>7, <1>8 DEF Next

\* The store implements the list that its header promises.
THEOREM StoreIsList == Spec => ImplementsList
<1>1. Init => ListInv /\ List!Init
  BY DEF Init, ListInv, ListTotal, Chosen, Rewriting, Content, Stored, KnownNetworks, UsedAfter,
     Network, List!Init
<1>2. TypeOK /\ Inv /\ (TypeOK /\ Inv)' /\ ListInv /\ [Next]_vars
          => ListInv' /\ [List!Next]_<<KnownNetworks, UsedAfter>>
  BY ListStep
<1>3. QED
  BY <1>1, <1>2, StoreInvariant, PTL DEF Spec, ImplementsList, List!Spec
=============================================================================
