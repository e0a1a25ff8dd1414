----------------------------- MODULE FlashPages -----------------------------
(***************************************************************************)
(* The flash layer of the network store (source/wifi_network_store.c):     *)
(* the geometry that get_store_geometry accepts, the address of a slot,    *)
(* and write_record_to_slot, which fills the page buffer that all callers  *)
(* share, then erases and programs in a critical section.                  *)
(*                                                                         *)
(* Memory is made of cells: a record takes RecordSize of them, a page      *)
(* page_size.  A cell holds <<r, i>>, the i-th part of record r, or        *)
(* Erased.  The tasks that save may preempt each other anywhere outside    *)
(* the critical section, also in the middle of the copy; power may be      *)
(* lost anywhere.  An erase clears the sector, programming writes the      *)
(* page; a loss of power during the programming leaves its first cells.    *)
(***************************************************************************)
EXTENDS Integers

CONSTANTS
    Writers,      \* the tasks that may save a network
    Images,       \* contents of wifi_store_record_t
    NoImage,      \* no valid record
    PageCount,    \* WIFI_STORE_MAX_NETWORKS
    RecordSize,   \* sizeof(wifi_store_record_t), in cells
    MaxPageSize,  \* WIFI_STORE_MAX_PAGE_SIZE, in cells
    Addresses,    \* 2^32, in cells
    Bases,        \* where the linker may put the store
    Infos         \* what cyhal_flash_get_info may return: sets of blocks

ASSUME ImagesAssumption == NoImage \notin Images
ASSUME SizesAssumption ==
    /\ PageCount \in Nat \ {0} /\ RecordSize \in Nat \ {0}
    /\ MaxPageSize \in Nat \ {0} /\ Addresses \in Nat \ {0}
ASSUME BasesAssumption == Bases \subseteq 0 .. Addresses - 1

\* The HAL of the part: a block lies in the address space (it may reach its end),
\* its sector is its page (512 bytes), a record fits in it, and blocks do not
\* overlap.
ASSUME BlocksAssumption ==
    \A blocks \in Infos : \A b, c \in blocks :
        /\ b.start \in 0 .. Addresses - 1 /\ b.size \in Nat /\ b.page \in Nat
        /\ b.start + b.size <= Addresses
        /\ b.sector = b.page
        /\ b.page = 0 \/ b.page >= RecordSize
        /\ b = c \/ b.start + b.size <= c.start \/ c.start + c.size <= b.start

\* The linker reserves the pages of the store: they lie in the address space.
ASSUME RegionAssumption ==
    \A first \in Bases : \A blocks \in Infos : \A b \in blocks :
        b.start <= first /\ first < b.start + b.size /\ b.page <= MaxPageSize
            => first + PageCount * b.page <= Addresses

VARIABLES
    base, info,   \* __wifi_creds_flash_start; the blocks of the part
    exclusive,    \* whether the tasks call the store one at a time
    memory,       \* the cells of the flash
    buffer,       \* s_page_buf
    stage, job,   \* where each task stands in write_record_to_slot; its slot and record
    copied,       \* the cells of the record it has copied
    critical      \* the tasks in the critical section

partVars == <<base, info, exclusive>>
writerVars == <<stage, job, copied>>
pageVars == <<partVars, memory, buffer, writerVars, critical>>

PageSlots == 0 .. PageCount - 1
Erased == <<NoImage, 0>>
Cells  == (Images \X (0 .. RecordSize - 1)) \cup {Erased}

-----------------------------------------------------------------------------
(* The geometry. *)

\* find_block_for_addr: the end of a block is computed in 32 bits.
BlockEnd(b) == (b.start + b.size) % Addresses
Holding(addr) == {b \in info : b.start <= addr /\ addr < BlockEnd(b)}

\* Mutant: a base that is not at the start of a page is accepted.
AcceptsMisaligned(b) == b.page # 0 /\ b.page <= MaxPageSize /\ b.sector # 0

\* The tests of get_store_geometry on the block that holds the base.
Accepted(b) == b.page # 0 /\ b.page <= MaxPageSize /\ b.sector # 0 /\ base % b.page = 0

Geometry == {b \in Holding(base) : Accepted(b)}

\* Mutant: the slots are as far apart as the records are long.
SlotAddrPacked(block, s) == base + s * RecordSize

SlotAddr(block, s) == base + s * block.page

SectorBase(block, addr) == addr - (addr % block.sector)

\* record_is_valid: the whole record, undamaged.
Decode(cells, addr) ==
    IF \E r \in Images : \A i \in 0 .. RecordSize - 1 : cells[addr + i] = <<r, i>>
    THEN cells[addr][1]
    ELSE NoImage

-----------------------------------------------------------------------------
NoJob == [slot |-> 0, record |-> NoImage]

PagesInit ==
    /\ base \in Bases
    /\ info \in Infos
    /\ exclusive \in BOOLEAN
    /\ memory = [a \in 0 .. Addresses - 1 |-> Erased]
    /\ buffer = [i \in 0 .. MaxPageSize - 1 |-> Erased]
    /\ stage = [w \in Writers |-> "idle"]
    /\ job = [w \in Writers |-> NoJob]
    /\ copied = [w \in Writers |-> 0]
    /\ critical = {}

\* wifi_store_save_network or renormalize_counters calls write_record_to_slot;
\* without a geometry they return before.
Begin(w, s, r) ==
    /\ stage[w] = "idle"
    /\ exclusive => \A v \in Writers : stage[v] = "idle"
    /\ Geometry # {}
    /\ job' = [job EXCEPT ![w] = [slot |-> s, record |-> r]]
    /\ stage' = [stage EXCEPT ![w] = "fill"]
    /\ UNCHANGED <<partVars, memory, buffer, copied, critical>>

\* Nobody runs while a task is in the critical section.
MayRun(w) == critical \subseteq {w}

\* The memset of the buffer.
Fill(w) ==
    /\ stage[w] = "fill" /\ MayRun(w)
    /\ \E b \in Geometry :
          buffer' = [i \in DOMAIN buffer \cup 0 .. b.page - 1 |->
                        IF i < b.page THEN Erased ELSE buffer[i]]
    /\ copied' = [copied EXCEPT ![w] = 0]
    /\ stage' = [stage EXCEPT ![w] = "copy"]
    /\ UNCHANGED <<partVars, memory, job, critical>>

\* One more cell of the memcpy.
Copy(w) ==
    /\ stage[w] = "copy" /\ MayRun(w)
    /\ copied[w] < RecordSize
    /\ buffer' = [buffer EXCEPT ![copied[w]] = <<job[w].record, copied[w]>>]
    /\ copied' = [copied EXCEPT ![w] = copied[w] + 1]
    /\ UNCHANGED <<partVars, memory, stage, job, critical>>

\* taskENTER_CRITICAL.
Enter(w) ==
    /\ stage[w] = "copy" /\ MayRun(w)
    /\ copied[w] = RecordSize
    /\ critical' = critical \cup {w}
    /\ stage' = [stage EXCEPT ![w] = "erase"]
    /\ UNCHANGED <<partVars, memory, buffer, job, copied>>

EraseSector(sectorBase, size) ==
    memory' = [a \in DOMAIN memory |->
                  IF a >= sectorBase /\ a < sectorBase + size THEN Erased ELSE memory[a]]

EraseSlot(w) ==
    /\ stage[w] = "erase"
    /\ \E b \in Geometry : EraseSector(SectorBase(b, SlotAddr(b, job[w].slot)), b.sector)
    /\ stage' = [stage EXCEPT ![w] = "program"]
    /\ UNCHANGED <<partVars, buffer, job, copied, critical>>

\* The cells of the buffer from first on are not programmed any more.
ProgramCells(addr, size, first) ==
    memory' = [a \in DOMAIN memory |->
                  IF a >= addr /\ a < addr + first /\ a < addr + size
                  THEN buffer[a - addr] ELSE memory[a]]

\* taskEXIT_CRITICAL and the return.
Leave(w) ==
    /\ critical' = critical \ {w}
    /\ stage' = [stage EXCEPT ![w] = "idle"]
    /\ job' = [job EXCEPT ![w] = NoJob]
    /\ copied' = [copied EXCEPT ![w] = 0]

ProgramSlot(w) ==
    /\ stage[w] = "program"
    /\ \E b \in Geometry : ProgramCells(SlotAddr(b, job[w].slot), b.page, b.page)
    /\ Leave(w)
    /\ UNCHANGED <<partVars, buffer>>

\* cyhal_flash_erase or cyhal_flash_write returns an error.
FlashFails(w) ==
    /\ stage[w] \in {"erase", "program"}
    /\ UNCHANGED memory
    /\ Leave(w)
    /\ UNCHANGED <<partVars, buffer>>

\* The restart clears the RAM; a programming that was under way is cut short.
PagesPowerLoss ==
    /\ \E w \in Writers : stage[w] # "idle"
    /\ \/ UNCHANGED memory
       \/ \E w \in Writers, b \in Geometry, n \in 0 .. RecordSize - 1 :
             /\ stage[w] = "program"
             /\ ProgramCells(SlotAddr(b, job[w].slot), b.page, n)
    /\ buffer' = [i \in 0 .. MaxPageSize - 1 |-> Erased]
    /\ stage' = [w \in Writers |-> "idle"]
    /\ job' = [w \in Writers |-> NoJob]
    /\ copied' = [w \in Writers |-> 0]
    /\ critical' = {}
    /\ UNCHANGED partVars

\* Without a geometry the store refuses every call.
Refused == Geometry = {} /\ UNCHANGED pageVars

PagesNext ==
    \/ \E w \in Writers :
          \/ \E s \in PageSlots, r \in Images : Begin(w, s, r)
          \/ Fill(w)
          \/ Copy(w)
          \/ Enter(w)
          \/ EraseSlot(w)
          \/ ProgramSlot(w)
          \/ FlashFails(w)
    \/ PagesPowerLoss
    \/ Refused

PagesSpec == PagesInit /\ [][PagesNext]_pageVars

-----------------------------------------------------------------------------
(* Properties. *)

\* The buffer never grows beyond s_page_buf, and only whole cells are in it.
PagesType ==
    /\ base \in Bases /\ info \in Infos /\ exclusive \in BOOLEAN
    /\ memory \in [0 .. Addresses - 1 -> Cells]
    /\ buffer \in [0 .. MaxPageSize - 1 -> Cells]
    /\ stage \in [Writers -> {"idle", "fill", "copy", "erase", "program"}]
    /\ job \in [Writers -> [slot : PageSlots, record : Images \cup {NoImage}]]
    /\ copied \in [Writers -> 0 .. RecordSize]
    /\ critical \in SUBSET Writers

\* Whatever the tasks interleave and wherever power is lost, a step changes the
\* flash in the page of one slot only, and only a task that was asked to write
\* that slot does it (lines 513 and 520: the sector that is erased is the page,
\* line 525: one page is programmed); and the buffer that is filled before never
\* grows beyond s_page_buf (line 509).
InOnePage ==
    \/ memory' = memory
    \/ \E w \in Writers, b \in Geometry :
          /\ stage[w] \in {"erase", "program"}
          /\ \A a \in DOMAIN memory :
                memory'[a] # memory[a] => a - (base + job[w].slot * b.page) \in 0 .. b.page - 1
OnePage == [][PagesType' /\ InOnePage]_pageVars

\* What the code above sees of the pages, and what the tasks were asked to write.
TheBlock     == CHOOSE b \in Geometry : TRUE
SlotContents == [s \in PageSlots |-> IF Geometry = {} THEN NoImage
                                     ELSE Decode(memory, base + s * TheBlock.page)]
Asked == {<<job[w].slot, job[w].record>> : w \in Writers}

\* With one task in the store at a time the pages are the slots: a write clears its
\* slot and then puts the record it was asked to put, or fails; a page damaged by a
\* loss of power is a blank slot; and a geometry that would put two slots into one
\* page, or a slot across two, is refused.
SlotsSeen == IF exclusive THEN SlotContents ELSE [s \in PageSlots |-> NoImage]
Array == INSTANCE SlotPages WITH
             Slots <- PageSlots, Records <- Images, Blank <- NoImage,
             slots <- SlotsSeen, asked <- Asked
ImplementsSlots == Array!Spec

\* "One record per page", "critical section is a simple way to avoid trouble"
\* (lines 41 and 516): what a task programs is the record it was asked to save.
ProgramsItsRecord ==
    \A w \in Writers : stage[w] = "program" =>
        \A i \in 0 .. RecordSize - 1 : buffer[i] = <<job[w].record, i>>
=============================================================================
