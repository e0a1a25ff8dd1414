-------------------------- MODULE MCNetworkStore --------------------------
(***************************************************************************)
(* The network store for TLC, at two levels: NetworkStore, with its        *)
(* refinement of NetworkList, and below it FlashPages, with its refinement *)
(* of SlotPages, the slots that NetworkStore works on.  The two share no   *)
(* variable, so nothing is gained by interleaving them: focus is the level *)
(* that takes steps.  FlashPages does so with one task in the store at a   *)
(* time and with two.                                                      *)
(*                                                                         *)
(* The store has three pages, one network more than pages so that          *)
(* evictions happen, and a counter that wraps after five saves so that     *)
(* renormalization happens.                                                *)
(***************************************************************************)
EXTENDS NetworkStore, FlashPages, TLC

VARIABLE focus

\* 13 cells, pages of 3 cells with records of 2, a buffer of 4.  The store lies at
\* the start of a page or not, in the middle of the flash or at its end; the parts
\* are the right one, one with pages larger than the buffer, one that reports no
\* page size, one without a block for the store, and one whose block ends with the
\* address space.
Block(start, size, page) == [start |-> start, size |-> size, page |-> page, sector |-> page]
PageInfos == {{Block(0, 3, 3), Block(3, 9, 3)},
              {Block(0, 11, 6)},
              {Block(0, 11, 0)},
              {Block(0, 3, 3)},
              {},
              {Block(0, 13, 3)}}
StoreBases == {3, 5, 6}

MCInit ==
    /\ focus \in {"store", "pages"}
    /\ Init
    /\ PagesInit
    /\ focus = "store" => base = 3 /\ info = {} /\ exclusive
    /\ exclusive \/ base # 6

MCNext ==
    \/ focus = "store" /\ Next /\ UNCHANGED <<pageVars, focus>>
    \/ focus = "pages" /\ PagesNext /\ UNCHANGED <<vars, focus>>

MCSpec == MCInit /\ [][MCNext]_<<vars, pageVars, focus>>

\* No definition tells one network name, or one password, from another.
Symmetry == Permutations(Ssids) \cup Permutations(Pwds)
=============================================================================
