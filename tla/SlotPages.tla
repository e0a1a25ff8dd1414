----------------------------- MODULE SlotPages -----------------------------
(***************************************************************************)
(* What the flash layer of the network store promises to the code above    *)
(* it (NetworkStore): an array of slots, each blank or with one record.    *)
(* A slot that somebody asked to write is cleared, alone; a blank slot     *)
(* takes the record it was asked to take.                                  *)
(***************************************************************************)
CONSTANTS Slots, Records, Blank

VARIABLES slots, asked

Init == slots = [s \in Slots |-> Blank]

Clear(s) ==
    /\ \E r \in Records : <<s, r>> \in asked
    /\ slots' = [slots EXCEPT ![s] = Blank]

Put(s, r) ==
    /\ <<s, r>> \in asked
    /\ slots[s] = Blank
    /\ slots' = [slots EXCEPT ![s] = r]

Next ==
    \/ \E s \in Slots : Clear(s)
    \/ \E s \in Slots, r \in Records : Put(s, r)

Spec == Init /\ [][Next]_slots
=============================================================================
