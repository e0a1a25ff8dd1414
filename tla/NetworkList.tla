---------------------------- MODULE NetworkList ----------------------------
(***************************************************************************)
(* What the persistent store of Wi-Fi networks promises                    *)
(* (source/wifi_network_store.c, lines 6-15): a list of at most Capacity   *)
(* networks, the most recently used first.  Saving a network puts it first,*)
(* under its new password, and drops the last one when the list is full.   *)
(* A write that is cut short loses one network and nothing else.           *)
(***************************************************************************)
EXTENDS Naturals, FiniteSets

CONSTANTS Ssids, Pwds, Capacity

VARIABLES
    known,   \* the networks of the list, [ssid, pwd]
    newer    \* its order: the pairs <<n, m>> with n before m

Init == known = {} /\ newer = {}

\* The networks that a save of ssid leaves behind the saved one.
Others(ssid) == {n \in known : n.ssid # ssid}
LastOf(list, n) == n \in list /\ \A m \in list \ {n} : <<m, n>> \in newer
Stay(ssid, kept) ==
    \/ Cardinality(Others(ssid)) < Capacity /\ kept = Others(ssid)
    \/ /\ Cardinality(Others(ssid)) >= Capacity
       /\ \E n \in Others(ssid) : LastOf(Others(ssid), n) /\ kept = Others(ssid) \ {n}

Ordered(kept) == newer \cap (kept \X kept)

Save(ssid, pwd) ==
    \E kept \in SUBSET known :
        /\ Stay(ssid, kept)
        /\ known' = kept \cup {[ssid |-> ssid, pwd |-> pwd]}
        /\ newer' = Ordered(kept) \cup ({[ssid |-> ssid, pwd |-> pwd]} \X kept)

Drop(n) ==
    /\ known' = known \ {n}
    /\ newer' = Ordered(known \ {n})

Next ==
    \/ \E ssid \in Ssids, pwd \in Pwds : Save(ssid, pwd)
    \/ \E n \in known : Drop(n)

Spec == Init /\ [][Next]_<<known, newer>>
=============================================================================
