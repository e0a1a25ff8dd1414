-------------------------- MODULE FlashPagesProofs --------------------------
(***************************************************************************)
(* Proofs about FlashPages for every number of slots, every size of pages, *)
(* records and buffer, every part whose blocks do not overlap and any      *)
(* number of tasks: a step of the flash layer stays in the page of its     *)
(* slot, and with one task at a time the pages are the array of slots that *)
(* NetworkStore works on.                                                  *)
(***************************************************************************)
EXTENDS FlashPages, TLAPS

-----------------------------------------------------------------------------
(* The inductive invariant behind OnePage and ImplementsSlots.             *)

\* No two tasks are in the store at once.
OneTask == \A v, w \in Writers : stage[v] # "idle" /\ stage[w] # "idle" => v = w

\* A task in write_record_to_slot has a page and a record to write.
Busy ==
    \A w \in Writers : stage[w] # "idle" => Geometry # {} /\ job[w].record \in Images

\* The buffer holds as much of the record as has been copied, and between the
\* erase and the programming the page is empty.
Filled(w) ==
    \A i \in 0 .. RecordSize - 1 :
        stage[w] \in {"erase", "program"} \/ (stage[w] = "copy" /\ i < copied[w])
            => buffer[i] = <<job[w].record, i>>

Cleared(w) ==
    stage[w] = "program" =>
        \A b \in Geometry : \A i \in 0 .. RecordSize - 1 :
            memory[base + job[w].slot * b.page + i] = Erased

Orderly  == OneTask /\ \A w \in Writers : Filled(w) /\ Cleared(w)
PagesInv == PagesType /\ Busy /\ (exclusive => Orderly)

-----------------------------------------------------------------------------
(* Addresses: the multiples of a page size.                                *)

\* Of two slots the pages do not overlap.
LEMMA PagesApart ==
    ASSUME NEW m \in Nat, NEW n \in Nat, NEW p \in Nat, m < n
    PROVE  m * p + p <= n * p /\ m * p \in Nat
<1>1. PICK d \in Nat : n = m + 1 + d
  <2>1. n - m - 1 \in Nat
    OBVIOUS
  <2>2. QED
    BY <2>1
<1>2. n * p = m * p + p + d * p
  BY <1>1, SMT
<1>3. d * p >= 0 /\ m * p \in Nat
  BY SMT
<1>4. QED
  BY <1>2, <1>3, SMT

LEMMA Multiple ==
    ASSUME NEW m \in Nat, NEW p \in Nat \ {0}
    PROVE  (m * p) % p = 0
  BY SMT

\* From an aligned base every slot is aligned.
LEMMA SlotsAligned ==
    ASSUME NEW first \in Nat, NEW s \in Nat, NEW p \in Nat \ {0}, first % p = 0
    PROVE  (first + s * p) % p = 0
<1> DEFINE q == (first \div p) + s
<1>1. first = p * (first \div p) /\ first \div p \in Nat
  BY SMT
<1>2. first + s * p = q * p
  BY <1>1, SMT
<1>3. q \in Nat
  BY <1>1, SMT
<1> HIDE DEF q
<1>4. (q * p) % p = 0
  BY <1>3, Multiple
<1>5. QED
  BY <1>2, <1>4

-----------------------------------------------------------------------------
(* The geometry.                                                           *)

\* What get_store_geometry has checked, and what the part and the linker give.
LEMMA AcceptedBlock ==
    ASSUME PagesType, NEW b \in Geometry
    PROVE  /\ b.page \in Nat \ {0} /\ RecordSize <= b.page /\ b.page <= MaxPageSize
           /\ b.sector = b.page
           /\ base \in Nat /\ base % b.page = 0
           /\ base + PageCount * b.page <= Addresses
           /\ \A c \in Geometry : c = b
<1>1. base \in Bases /\ base \in 0 .. Addresses - 1 /\ info \in Infos
  BY BasesAssumption DEF PagesType
<1>2. Addresses \in Nat \ {0}
  BY SizesAssumption
<1>3. ASSUME NEW c \in Geometry
      PROVE  /\ c \in info /\ c.start \in Nat /\ c.size \in Nat
             /\ c.start <= base /\ base < c.start + c.size
  <2>1. c \in info /\ c.start <= base /\ base < (c.start + c.size) % Addresses
    BY <1>3 DEF Geometry, Holding, BlockEnd
  <2>2. /\ c.start \in 0 .. Addresses - 1 /\ c.size \in Nat
        /\ c.start + c.size <= Addresses
    BY <1>1, <2>1, BlocksAssumption
  <2>3. c.start + c.size # Addresses
    <3>1. Addresses % Addresses = 0
      BY <1>2, SMT
    <3>2. QED
      BY <1>1, <2>1, <3>1
  <2>4. (c.start + c.size) % Addresses = c.start + c.size
    BY <1>2, <2>2, <2>3, SMT
  <2>5. QED
    BY <2>1, <2>2, <2>4
<1>4. /\ b.page \in Nat /\ b.sector = b.page
      /\ b.page = 0 \/ b.page >= RecordSize
  BY <1>1, <1>3, BlocksAssumption
<1>5. b.page # 0 /\ b.page <= MaxPageSize /\ base % b.page = 0
  BY DEF Geometry, Accepted
<1>6. base + PageCount * b.page <= Addresses
  BY <1>1, <1>3, <1>5, RegionAssumption
<1>7. \A c \in Geometry : c = b
  <2> SUFFICES ASSUME NEW c \in Geometry
               PROVE  c = b
    OBVIOUS
  <2>1. c = b \/ c.start + c.size <= b.start \/ b.start + b.size <= c.start
    BY <1>1, <1>3, BlocksAssumption
  <2>2. QED
    BY <1>1, <1>3, <2>1
<1>8. QED
  BY <1>1, <1>4, <1>5, <1>6, <1>7, SizesAssumption

\* The page of a slot lies in the flash, and is the sector that is erased.
LEMMA SlotPage ==
    ASSUME PagesType, NEW b \in Geometry, NEW s \in PageSlots
    PROVE  /\ SlotAddr(b, s) = base + s * b.page
           /\ s * b.page \in Nat
           /\ SlotAddr(b, s) \in Nat
           /\ base + s * b.page + b.page <= Addresses
           /\ SectorBase(b, SlotAddr(b, s)) = SlotAddr(b, s)
<1>1. s \in Nat /\ PageCount \in Nat /\ s < PageCount
  BY SizesAssumption DEF PageSlots
<1>2. /\ b.page \in Nat \ {0} /\ b.sector = b.page
      /\ base \in Nat /\ base % b.page = 0 /\ base + PageCount * b.page <= Addresses
  BY AcceptedBlock
<1>3. s * b.page + b.page <= PageCount * b.page /\ s * b.page \in Nat
  BY <1>1, <1>2, PagesApart
<1>4. PageCount * b.page \in Nat
  BY <1>1, <1>2, SMT
<1>5. base + s * b.page + b.page <= Addresses
  BY <1>2, <1>3, <1>4, SizesAssumption
<1>6. (base + s * b.page) % b.page = 0
  BY <1>1, <1>2, SlotsAligned
<1>7. QED
  BY <1>2, <1>3, <1>5, <1>6 DEF SlotAddr, SectorBase

\* The cells of a record in the page of one slot are in no other page.
LEMMA CellsApart ==
    ASSUME PagesType, NEW b \in Geometry, NEW s \in PageSlots, NEW t \in PageSlots, s # t,
           NEW i \in 0 .. RecordSize - 1
    PROVE  LET a == base + t * b.page + i
           IN  ~ (a >= base + s * b.page /\ a < base + s * b.page + b.page)
<1>1. s \in Nat /\ t \in Nat
  BY DEF PageSlots
<1>2. b.page \in Nat /\ i \in Nat /\ i < b.page /\ base \in Nat
  BY AcceptedBlock, SizesAssumption
<1>3. s * b.page \in Nat /\ t * b.page \in Nat
  BY SlotPage
<1>4. s < t => s * b.page + b.page <= t * b.page
  BY <1>1, <1>2, PagesApart
<1>5. t < s => t * b.page + b.page <= s * b.page
  BY <1>1, <1>2, PagesApart
<1>6. QED
  BY <1>1, <1>2, <1>3, <1>4, <1>5

\* The cells of a slot's record.
LEMMA RecordCells ==
    ASSUME PagesType, NEW b \in Geometry, NEW s \in PageSlots, NEW i \in 0 .. RecordSize - 1
    PROVE  /\ base + s * b.page + i \in 0 .. Addresses - 1
           /\ base + s * b.page + i >= base + s * b.page
           /\ base + s * b.page + i < base + s * b.page + b.page
           /\ (base + s * b.page + i) - (base + s * b.page) = i
<1>1. b.page \in Nat /\ i \in Nat /\ i < b.page /\ base \in Nat /\ Addresses \in Nat
  BY AcceptedBlock, SizesAssumption
<1>2. s * b.page \in Nat /\ base + s * b.page + b.page <= Addresses
  BY SlotPage
<1>3. QED
  BY <1>1, <1>2

-----------------------------------------------------------------------------
(* What the two operations of the flash do to its cells.                   *)

LEMMA EraseCells ==
    ASSUME PagesType, NEW b \in Geometry, NEW s \in PageSlots,
           EraseSector(SectorBase(b, SlotAddr(b, s)), b.sector)
    PROVE  /\ memory' \in [0 .. Addresses - 1 -> Cells]
           /\ \A a \in DOMAIN memory :
                  memory'[a] # memory[a] => a - (base + s * b.page) \in 0 .. b.page - 1
           /\ \A i \in 0 .. RecordSize - 1 : memory'[base + s * b.page + i] = Erased
           /\ \A t \in PageSlots \ {s} : \A i \in 0 .. RecordSize - 1 :
                  memory'[base + t * b.page + i] = memory[base + t * b.page + i]
<1> DEFINE first == base + s * b.page
<1>1. memory' = [a \in 0 .. Addresses - 1 |->
                    IF a >= first /\ a < first + b.page THEN Erased ELSE memory[a]]
  BY SlotPage, AcceptedBlock DEF EraseSector, PagesType
<1>2. first \in Nat /\ b.page \in Nat
  BY SlotPage, AcceptedBlock
<1>3. memory \in [0 .. Addresses - 1 -> Cells] /\ Erased \in Cells
  BY DEF PagesType, Cells
<1>4. memory' \in [0 .. Addresses - 1 -> Cells]
  BY <1>1, <1>3
<1>5. \A i \in 0 .. RecordSize - 1 : memory'[first + i] = Erased
  BY <1>1, RecordCells
<1>6. \A t \in PageSlots \ {s} : \A i \in 0 .. RecordSize - 1 :
          memory'[base + t * b.page + i] = memory[base + t * b.page + i]
  BY <1>1, RecordCells, CellsApart
<1> HIDE DEF first
<1>7. \A a \in DOMAIN memory : memory'[a] # memory[a] => a - first \in 0 .. b.page - 1
  BY <1>1, <1>2, <1>3
<1>8. QED
  BY <1>4, <1>5, <1>6, <1>7 DEF first

LEMMA ProgramTheCells ==
    ASSUME PagesType, NEW b \in Geometry, NEW s \in PageSlots, NEW n \in 0 .. b.page,
           ProgramCells(SlotAddr(b, s), b.page, n)
    PROVE  /\ memory' \in [0 .. Addresses - 1 -> Cells]
           /\ \A a \in DOMAIN memory :
                  memory'[a] # memory[a] => a - (base + s * b.page) \in 0 .. b.page - 1
           /\ \A i \in 0 .. RecordSize - 1 :
                  memory'[base + s * b.page + i] =
                      IF i < n THEN buffer[i] ELSE memory[base + s * b.page + i]
           /\ \A t \in PageSlots \ {s} : \A i \in 0 .. RecordSize - 1 :
                  memory'[base + t * b.page + i] = memory[base + t * b.page + i]
<1> DEFINE first == base + s * b.page
<1>1. memory' = [a \in 0 .. Addresses - 1 |->
                    IF a >= first /\ a < first + n /\ a < first + b.page
                    THEN buffer[a - first] ELSE memory[a]]
  BY SlotPage DEF ProgramCells, PagesType
<1>2. first \in Nat /\ b.page \in Nat /\ n \in Nat /\ n <= b.page /\ b.page <= MaxPageSize
  BY SlotPage, AcceptedBlock
<1>3. memory \in [0 .. Addresses - 1 -> Cells] /\ buffer \in [0 .. MaxPageSize - 1 -> Cells]
  BY DEF PagesType
<1>4. \A i \in 0 .. RecordSize - 1 :
          memory'[first + i] = IF i < n THEN buffer[i] ELSE memory[first + i]
  <2> SUFFICES ASSUME NEW i \in 0 .. RecordSize - 1
               PROVE  memory'[first + i] = IF i < n THEN buffer[i] ELSE memory[first + i]
    OBVIOUS
  <2>1. /\ first + i \in 0 .. Addresses - 1 /\ first + i >= first
        /\ first + i < first + b.page /\ (first + i) - first = i
    BY RecordCells
  <2>2. first + i < first + n <=> i < n
    BY <1>2, SizesAssumption
  <2> HIDE DEF first
  <2>3. QED
    BY <1>1, <2>1, <2>2
<1>5. \A t \in PageSlots \ {s} : \A i \in 0 .. RecordSize - 1 :
          memory'[base + t * b.page + i] = memory[base + t * b.page + i]
  BY <1>1, RecordCells, CellsApart
<1> HIDE DEF first
<1>6. ASSUME NEW a \in 0 .. Addresses - 1
      PROVE  /\ memory'[a] \in Cells
             /\ memory'[a] # memory[a] => a - first \in 0 .. b.page - 1
  <2>1. CASE a >= first /\ a < first + n /\ a < first + b.page
    <3>1. a - first \in 0 .. b.page - 1 /\ a - first \in 0 .. MaxPageSize - 1
      BY <1>2, <2>1, SizesAssumption
    <3>2. QED
      BY <1>1, <1>3, <2>1, <3>1
  <2>2. CASE ~ (a >= first /\ a < first + n /\ a < first + b.page)
    BY <1>1, <1>3, <2>2
  <2>3. QED
    BY <2>1, <2>2
<1>7. memory' \in [0 .. Addresses - 1 -> Cells]
  BY <1>1, <1>6
<1>8. QED
  BY <1>3, <1>4, <1>5, <1>6, <1>7 DEF first

-----------------------------------------------------------------------------
(* Types, and who writes where.                                            *)

\* The geometry never changes.
LEMMA SameGeometry ==
    ASSUME UNCHANGED <<base, info>>
    PROVE  Geometry' = Geometry
  BY DEF Geometry, Holding, Accepted, BlockEnd

TypedStep == PagesType' /\ Busy' /\ InOnePage

LEMMA BeginTyped ==
    ASSUME PagesType, Busy, NEW w \in Writers, NEW s \in PageSlots, NEW r \in Images, Begin(w, s, r)
    PROVE  TypedStep
<1>1. Geometry' = Geometry
  BY SameGeometry DEF Begin, partVars
<1>2. job' \in [Writers -> [slot : PageSlots, record : Images \cup {NoImage}]]
  BY DEF Begin, PagesType
<1>3. PagesType'
  BY <1>2 DEF Begin, PagesType, partVars
<1>4. Busy'
  BY <1>1 DEF Begin, PagesType, Busy
<1>5. QED
  BY <1>3, <1>4 DEF TypedStep, InOnePage, Begin

LEMMA FillTyped ==
    ASSUME PagesType, Busy, NEW w \in Writers, Fill(w)
    PROVE  TypedStep
<1>1. Geometry' = Geometry
  BY SameGeometry DEF Fill, partVars
<1>2. PICK b \in Geometry : buffer' = [i \in DOMAIN buffer \cup 0 .. b.page - 1 |->
                                          IF i < b.page THEN Erased ELSE buffer[i]]
  BY DEF Fill
<1>3. buffer' \in [0 .. MaxPageSize - 1 -> Cells]
  <2>1. b.page \in Nat /\ b.page <= MaxPageSize /\ MaxPageSize \in Nat
    BY AcceptedBlock, SizesAssumption
  <2>2. DOMAIN buffer = 0 .. MaxPageSize - 1
    BY DEF PagesType
  <2>3. DOMAIN buffer \cup 0 .. b.page - 1 = 0 .. MaxPageSize - 1
    BY <2>1, <2>2
  <2>4. QED
    BY <1>2, <2>3 DEF PagesType, Cells
<1>4. copied' \in [Writers -> 0 .. RecordSize]
  BY SizesAssumption DEF Fill, PagesType
<1>5. PagesType'
  BY <1>3, <1>4 DEF Fill, PagesType, partVars
<1>6. Busy'
  BY <1>1 DEF Fill, PagesType, Busy
<1>7. QED
  BY <1>5, <1>6 DEF TypedStep, InOnePage, Fill

LEMMA CopyTyped ==
    ASSUME PagesType, Busy, NEW w \in Writers, Copy(w)
    PROVE  TypedStep
<1>1. Geometry' = Geometry
  BY SameGeometry DEF Copy, partVars
<1>2. copied[w] \in Nat /\ copied[w] < RecordSize /\ RecordSize \in Nat
  BY SizesAssumption DEF Copy, PagesType
<1>3. job[w].record \in Images
  BY DEF Copy, Busy
<1>4. <<job[w].record, copied[w]>> \in Cells
  BY <1>2, <1>3 DEF Cells
<1>5. buffer' \in [0 .. MaxPageSize - 1 -> Cells]
  BY <1>4 DEF Copy, PagesType
<1>6. copied' \in [Writers -> 0 .. RecordSize]
  BY <1>2 DEF Copy, PagesType
<1>7. PagesType'
  BY <1>5, <1>6 DEF Copy, PagesType, partVars
<1>8. Busy'
  BY <1>1 DEF Copy, Busy
<1>9. QED
  BY <1>7, <1>8 DEF TypedStep, InOnePage, Copy

LEMMA EnterTyped ==
    ASSUME PagesType, Busy, NEW w \in Writers, Enter(w)
    PROVE  TypedStep
<1>1. Geometry' = Geometry
  BY SameGeometry DEF Enter, partVars
<1>2. PagesType'
  BY DEF Enter, PagesType, partVars
<1>3. Busy'
  BY <1>1 DEF Enter, PagesType, Busy
<1>4. QED
  BY <1>2, <1>3 DEF TypedStep, InOnePage, Enter

LEMMA EraseTyped ==
    ASSUME PagesType, Busy, NEW w \in Writers, EraseSlot(w)
    PROVE  TypedStep
<1>1. Geometry' = Geometry
  BY SameGeometry DEF EraseSlot, partVars
<1>2. PICK b \in Geometry : EraseSector(SectorBase(b, SlotAddr(b, job[w].slot)), b.sector)
  BY DEF EraseSlot
<1>3. job[w].slot \in PageSlots
  BY DEF PagesType
<1>4. /\ memory' \in [0 .. Addresses - 1 -> Cells]
      /\ \A a \in DOMAIN memory :
             memory'[a] # memory[a] => a - (base + job[w].slot * b.page) \in 0 .. b.page - 1
  BY <1>2, <1>3, EraseCells
<1>5. PagesType'
  BY <1>4 DEF EraseSlot, PagesType, partVars
<1>6. Busy'
  BY <1>1 DEF EraseSlot, PagesType, Busy
<1>7. InOnePage
  BY <1>4 DEF InOnePage, EraseSlot
<1>8. QED
  BY <1>5, <1>6, <1>7 DEF TypedStep

\* The return of a task.
LEMMA LeaveTyped ==
    ASSUME PagesType, Busy, NEW w \in Writers, Leave(w), UNCHANGED <<partVars, buffer>>,
           memory' \in [0 .. Addresses - 1 -> Cells]
    PROVE  PagesType' /\ Busy'
<1>1. Geometry' = Geometry
  BY SameGeometry DEF partVars
<1>2. NoJob \in [slot : PageSlots, record : Images \cup {NoImage}]
  BY SizesAssumption DEF NoJob, PageSlots
<1>3. copied' \in [Writers -> 0 .. RecordSize]
  BY SizesAssumption DEF Leave, PagesType
<1>4. PagesType'
  BY <1>2, <1>3 DEF Leave, PagesType, partVars
<1>5. Busy'
  BY <1>1 DEF Leave, PagesType, Busy
<1>6. QED
  BY <1>4, <1>5

LEMMA ProgramTyped ==
    ASSUME PagesType, Busy, NEW w \in Writers, ProgramSlot(w)
    PROVE  TypedStep
<1>1. PICK b \in Geometry : ProgramCells(SlotAddr(b, job[w].slot), b.page, b.page)
  BY DEF ProgramSlot
<1>2. job[w].slot \in PageSlots /\ b.page \in 0 .. b.page
  BY AcceptedBlock DEF PagesType
<1>3. /\ memory' \in [0 .. Addresses - 1 -> Cells]
      /\ \A a \in DOMAIN memory :
             memory'[a] # memory[a] => a - (base + job[w].slot * b.page) \in 0 .. b.page - 1
  BY <1>1, <1>2, ProgramTheCells
<1>4. InOnePage
  BY <1>3 DEF InOnePage, ProgramSlot
<1>5. QED
  BY <1>3, <1>4, LeaveTyped DEF TypedStep, ProgramSlot

LEMMA FailTyped ==
    ASSUME PagesType, Busy, NEW w \in Writers, FlashFails(w)
    PROVE  TypedStep
<1>1. memory' \in [0 .. Addresses - 1 -> Cells]
  BY DEF FlashFails, PagesType
<1>2. QED
  BY <1>1, LeaveTyped DEF TypedStep, InOnePage, FlashFails

LEMMA PowerLossTyped ==
    ASSUME PagesType, Busy, PagesPowerLoss
    PROVE  TypedStep
<1>1. NoJob \in [slot : PageSlots, record : Images \cup {NoImage}]
  BY SizesAssumption DEF NoJob, PageSlots
<1>2. 0 \in 0 .. RecordSize /\ Erased \in Cells
  BY SizesAssumption DEF Cells
<1>3. memory' \in [0 .. Addresses - 1 -> Cells] /\ InOnePage
  <2>1. CASE UNCHANGED memory
    BY <2>1 DEF PagesType, InOnePage
  <2>2. CASE \E w \in Writers, b \in Geometry, n \in 0 .. RecordSize - 1 :
                /\ stage[w] = "program"
                /\ ProgramCells(SlotAddr(b, job[w].slot), b.page, n)
    <3>1. PICK w \in Writers, b \in Geometry, n \in 0 .. RecordSize - 1 :
                /\ stage[w] = "program"
                /\ ProgramCells(SlotAddr(b, job[w].slot), b.page, n)
      BY <2>2
    <3>2. job[w].slot \in PageSlots /\ n \in 0 .. b.page
      BY AcceptedBlock, SizesAssumption DEF PagesType
    <3>3. /\ memory' \in [0 .. Addresses - 1 -> Cells]
          /\ \A a \in DOMAIN memory :
                 memory'[a] # memory[a] => a - (base + job[w].slot * b.page) \in 0 .. b.page - 1
      BY <3>1, <3>2, ProgramTheCells
    <3>4. QED
      BY <3>1, <3>3 DEF InOnePage
  <2>3. QED
    BY <2>1, <2>2 DEF PagesPowerLoss
<1>4. PagesType'
  BY <1>1, <1>2, <1>3 DEF PagesPowerLoss, PagesType, partVars
<1>5. Busy'
  BY DEF PagesPowerLoss, Busy
<1>6. QED
  BY <1>3, <1>4, <1>5 DEF TypedStep

LEMMA StepTyped ==
    ASSUME PagesType, Busy, [PagesNext]_pageVars
    PROVE  TypedStep
<1>1. ASSUME NEW w \in Writers, NEW s \in PageSlots, NEW r \in Images, Begin(w, s, r)
      PROVE  TypedStep
  BY <1>1, BeginTyped
<1>2. ASSUME NEW w \in Writers, Fill(w) \/ Copy(w) \/ Enter(w)
      PROVE  TypedStep
  BY <1>2, FillTyped, CopyTyped, EnterTyped
<1>3. ASSUME NEW w \in Writers, EraseSlot(w) \/ ProgramSlot(w) \/ FlashFails(w)
      PROVE  TypedStep
  BY <1>3, EraseTyped, ProgramTyped, FailTyped
<1>4. CASE PagesPowerLoss
  BY <1>4, PowerLossTyped
<1>5. CASE Refused \/ UNCHANGED pageVars
  <2>1. UNCHANGED pageVars
    BY <1>5 DEF Refused
  <2>2. Geometry' = Geometry
    BY <2>1, SameGeometry DEF pageVars, partVars
  <2>3. QED
    BY <2>1, <2>2 DEF pageVars, partVars, writerVars, TypedStep, InOnePage, PagesType, Busy
<1>6. QED
  BY <1>1, <1>2, <1>3, <1>4, <1>5 DEF PagesNext

LEMMA InitTyped == PagesInit => PagesType /\ Busy
  BY SizesAssumption DEF PagesInit, PagesType, Busy, NoJob, PageSlots, Cells

\* The page buffer is never left, and nothing but a cell is written.
THEOREM PagesAlwaysTyped == PagesSpec => [](PagesType /\ Busy)
<1>1. PagesType /\ Busy /\ [PagesNext]_pageVars => (PagesType /\ Busy)'
  BY StepTyped DEF TypedStep
<1>2. QED
  BY <1>1, InitTyped, PTL DEF PagesSpec

\* Whatever the tasks interleave and wherever power is lost, a step changes the
\* flash in one page only, that of a slot some task was asked to write.
THEOREM StepsStayInOnePage == PagesSpec => OnePage
<1>1. PagesType /\ Busy /\ [PagesNext]_pageVars => [PagesType' /\ InOnePage]_pageVars
  BY StepTyped DEF TypedStep
<1>2. QED
  BY <1>1, PagesAlwaysTyped, PTL DEF PagesSpec, OnePage

-----------------------------------------------------------------------------
(* The array of slots.                                                     *)

\* What record_is_valid makes of the cells of a record.
LEMMA DecodeSame ==
    ASSUME NEW m, NEW n, NEW addr \in Int, \A i \in 0 .. RecordSize - 1 : m[addr + i] = n[addr + i]
    PROVE  Decode(m, addr) = Decode(n, addr)
<1>1. 0 \in 0 .. RecordSize - 1 /\ addr + 0 = addr
  BY SizesAssumption
<1>2. m[addr] = n[addr]
  BY <1>1
<1>3. QED
  BY <1>2 DEF Decode

LEMMA DecodeErased ==
    ASSUME NEW m, NEW addr, NEW i \in 0 .. RecordSize - 1, m[addr + i] = Erased
    PROVE  Decode(m, addr) = NoImage
  BY ImagesAssumption DEF Decode, Erased

LEMMA DecodeImage ==
    ASSUME NEW m, NEW addr \in Int, NEW r \in Images,
           \A i \in 0 .. RecordSize - 1 : m[addr + i] = <<r, i>>
    PROVE  Decode(m, addr) = r
<1>1. 0 \in 0 .. RecordSize - 1 /\ addr + 0 = addr
  BY SizesAssumption
<1>2. m[addr] = <<r, 0>>
  BY <1>1
<1>3. QED
  BY <1>2 DEF Decode

\* The slots, in terms of the only block, before and after a step.
LEMMA SlotsOfBlock ==
    ASSUME PagesType, NEW b \in Geometry, UNCHANGED <<base, info>>
    PROVE  /\ SlotContents = [s \in PageSlots |-> Decode(memory, base + s * b.page)]
           /\ SlotContents' = [s \in PageSlots |-> Decode(memory', base + s * b.page)]
<1>1. Geometry' = Geometry /\ Geometry # {}
  BY SameGeometry
<1>2. TheBlock = b
  BY AcceptedBlock, Zenon DEF TheBlock
<1>3. TheBlock' = TheBlock
  BY <1>1, Zenon DEF TheBlock
<1>4. QED
  BY <1>1, <1>2, <1>3 DEF SlotContents

LEMMA SlotsKept ==
    ASSUME UNCHANGED <<base, info, memory>>
    PROVE  SlotContents' = SlotContents
  BY SameGeometry DEF SlotContents, TheBlock

\* A step that changes no record but the one of slot s.
LEMMA OneSlot ==
    ASSUME PagesType, NEW b \in Geometry, UNCHANGED <<base, info>>, NEW s \in PageSlots,
           \A t \in PageSlots \ {s} : \A i \in 0 .. RecordSize - 1 :
               memory'[base + t * b.page + i] = memory[base + t * b.page + i]
    PROVE  SlotContents' = [SlotContents EXCEPT ![s] = Decode(memory', base + s * b.page)]
<1>1. \A t \in PageSlots : base + t * b.page \in Int
  BY SlotPage, AcceptedBlock
<1>2. \A t \in PageSlots \ {s} : Decode(memory', base + t * b.page) = Decode(memory, base + t * b.page)
  BY <1>1, DecodeSame
<1>3. QED
  BY <1>2, SlotsOfBlock

\* The orderly use of the flash: only the task at work has to be looked at.
LEMMA OthersIdle ==
    ASSUME Orderly, NEW w \in Writers, stage[w] # "idle"
    PROVE  \A v \in Writers \ {w} : stage[v] = "idle"
  BY DEF Orderly, OneTask

LEMMA OrderlyAfter ==
    ASSUME NEW w \in Writers, \A v \in Writers \ {w} : stage'[v] = "idle", Filled(w)', Cleared(w)'
    PROVE  Orderly'
  BY DEF Orderly, OneTask, Filled, Cleared

Refines == Orderly' /\ [Array!Next]_SlotContents

LEMMA BeginOrderly ==
    ASSUME PagesInv, exclusive, NEW w \in Writers, NEW s \in PageSlots, NEW r \in Images, Begin(w, s, r)
    PROVE  Refines
<1>1. stage'[w] = "fill" /\ \A v \in Writers \ {w} : stage'[v] = "idle"
  BY DEF Begin, PagesInv, PagesType
<1>2. Orderly'
  BY <1>1, OrderlyAfter DEF Filled, Cleared
<1>3. QED
  BY <1>2, SlotsKept DEF Refines, Begin, partVars

LEMMA FillOrderly ==
    ASSUME PagesInv, exclusive, NEW w \in Writers, Fill(w)
    PROVE  Refines
<1>1. stage'[w] = "copy" /\ copied'[w] = 0
  BY DEF Fill, PagesInv, PagesType
<1>2. \A v \in Writers \ {w} : stage'[v] = "idle"
  BY OthersIdle DEF Fill, PagesInv
<1>3. Filled(w)' /\ Cleared(w)'
  BY <1>1, SizesAssumption DEF Filled, Cleared
<1>4. Orderly'
  BY <1>2, <1>3, OrderlyAfter
<1>5. QED
  BY <1>4, SlotsKept DEF Refines, Fill, partVars

LEMMA CopyOrderly ==
    ASSUME PagesInv, exclusive, NEW w \in Writers, Copy(w)
    PROVE  Refines
<1>1. stage[w] = "copy" /\ UNCHANGED <<stage, job, base, info, memory>>
  BY DEF Copy, partVars
<1>2. \A v \in Writers \ {w} : stage'[v] = "idle"
  BY <1>1, OthersIdle DEF PagesInv
<1>3. copied[w] \in Nat /\ copied'[w] = copied[w] + 1
  BY DEF Copy, PagesInv, PagesType
<1>4. copied[w] \in 0 .. MaxPageSize - 1
  <2>1. PICK b \in Geometry : TRUE
    BY <1>1 DEF PagesInv, Busy
  <2>2. RecordSize <= b.page /\ b.page <= MaxPageSize /\ b.page \in Nat
    BY AcceptedBlock DEF PagesInv
  <2>3. copied[w] < RecordSize
    BY DEF Copy
  <2>4. QED
    BY <1>3, <2>2, <2>3, SizesAssumption
<1>5. ASSUME NEW i \in 0 .. RecordSize - 1, i < copied'[w]
      PROVE  buffer'[i] = <<job[w].record, i>>
  <2>1. buffer' = [buffer EXCEPT ![copied[w]] = <<job[w].record, copied[w]>>]
    BY DEF Copy
  <2>2. CASE i = copied[w]
    BY <1>4, <2>1, <2>2 DEF PagesInv, PagesType
  <2>3. CASE i # copied[w]
    <3>1. i < copied[w]
      BY <1>3, <1>5, <2>3, SizesAssumption
    <3>2. buffer[i] = <<job[w].record, i>>
      BY <1>1, <3>1 DEF PagesInv, Orderly, Filled
    <3>3. QED
      BY <2>1, <2>3, <3>2 DEF PagesInv, PagesType
  <2>4. QED
    BY <2>2, <2>3
<1>6. Filled(w)' /\ Cleared(w)'
  BY <1>1, <1>5 DEF Filled, Cleared
<1>7. Orderly'
  BY <1>2, <1>6, OrderlyAfter
<1>8. QED
  BY <1>1, <1>7, SlotsKept DEF Refines

LEMMA EnterOrderly ==
    ASSUME PagesInv, exclusive, NEW w \in Writers, Enter(w)
    PROVE  Refines
<1>1. stage[w] = "copy" /\ copied[w] = RecordSize /\ stage'[w] = "erase"
  BY DEF Enter, PagesInv, PagesType
<1>2. \A v \in Writers \ {w} : stage'[v] = "idle"
  BY <1>1, OthersIdle DEF Enter, PagesInv
<1>3. \A i \in 0 .. RecordSize - 1 : buffer[i] = <<job[w].record, i>>
  BY <1>1, SizesAssumption DEF PagesInv, Orderly, Filled
<1>4. Filled(w)' /\ Cleared(w)'
  BY <1>1, <1>3 DEF Enter, Filled, Cleared
<1>5. Orderly'
  BY <1>2, <1>4, OrderlyAfter
<1>6. QED
  BY <1>5, SlotsKept DEF Refines, Enter, partVars

\* The erase clears its slot.
LEMMA EraseOrderly ==
    ASSUME PagesInv, exclusive, NEW w \in Writers, EraseSlot(w)
    PROVE  Refines
<1> DEFINE s == job[w].slot
<1>1. stage[w] = "erase" /\ stage'[w] = "program" /\ UNCHANGED <<base, info, buffer, job>>
  BY DEF EraseSlot, partVars, PagesInv, PagesType
<1>2. PICK b \in Geometry : EraseSector(SectorBase(b, SlotAddr(b, s)), b.sector)
  BY DEF EraseSlot
<1>3. s \in PageSlots /\ PagesType
  BY DEF PagesInv, PagesType
<1>4. /\ \A i \in 0 .. RecordSize - 1 : memory'[base + s * b.page + i] = Erased
      /\ \A t \in PageSlots \ {s} : \A i \in 0 .. RecordSize - 1 :
             memory'[base + t * b.page + i] = memory[base + t * b.page + i]
  BY <1>2, <1>3, EraseCells
<1>5. Decode(memory', base + s * b.page) = NoImage
  BY <1>4, DecodeErased, SizesAssumption
<1>6. SlotContents' = [SlotContents EXCEPT ![s] = NoImage]
  BY <1>1, <1>3, <1>4, <1>5, OneSlot
<1>7. <<s, job[w].record>> \in Asked /\ job[w].record \in Images
  BY <1>1 DEF Asked, PagesInv, Busy
<1>8. Array!Clear(s)
  BY <1>6, <1>7 DEF Array!Clear, SlotsSeen, EraseSlot, partVars
<1>9. Array!Next
  BY <1>3, <1>8 DEF Array!Next
<1>10. Geometry' = Geometry /\ \A c \in Geometry : c = b
  BY <1>1, <1>3, SameGeometry, AcceptedBlock
<1>11. Filled(w)' /\ Cleared(w)'
  BY <1>1, <1>4, <1>10 DEF PagesInv, Orderly, Filled, Cleared
<1>12. \A v \in Writers \ {w} : stage'[v] = "idle"
  BY <1>1, OthersIdle DEF EraseSlot, PagesInv
<1>13. Orderly'
  BY <1>11, <1>12, OrderlyAfter
<1>14. QED
  BY <1>9, <1>13 DEF Refines

LEMMA IdleOrderly ==
    ASSUME \A v \in Writers : stage'[v] = "idle"
    PROVE  Orderly'
  BY DEF Orderly, OneTask, Filled, Cleared

\* The programming puts the record into its slot, which is blank.
LEMMA ProgramOrderly ==
    ASSUME PagesInv, exclusive, NEW w \in Writers, ProgramSlot(w)
    PROVE  Refines
<1> DEFINE s == job[w].slot
           r == job[w].record
<1>1. stage[w] = "program" /\ UNCHANGED <<base, info, exclusive>>
  BY DEF ProgramSlot, partVars
<1>2. PICK b \in Geometry : ProgramCells(SlotAddr(b, s), b.page, b.page)
  BY DEF ProgramSlot
<1>3. s \in PageSlots /\ PagesType
  BY DEF PagesInv, PagesType
<1>4. RecordSize <= b.page /\ b.page \in 0 .. b.page /\ b.page \in Nat
  BY <1>3, AcceptedBlock
<1>5. /\ \A i \in 0 .. RecordSize - 1 :
             memory'[base + s * b.page + i] =
                 IF i < b.page THEN buffer[i] ELSE memory[base + s * b.page + i]
      /\ \A t \in PageSlots \ {s} : \A i \in 0 .. RecordSize - 1 :
             memory'[base + t * b.page + i] = memory[base + t * b.page + i]
  BY <1>2, <1>3, <1>4, ProgramTheCells
<1>6. r \in Images
  BY <1>1 DEF PagesInv, Busy
<1>7. \A i \in 0 .. RecordSize - 1 : memory'[base + s * b.page + i] = <<r, i>>
  <2> SUFFICES ASSUME NEW i \in 0 .. RecordSize - 1
               PROVE  memory'[base + s * b.page + i] = <<r, i>>
    OBVIOUS
  <2>1. i < b.page
    BY <1>4, SizesAssumption
  <2>2. buffer[i] = <<r, i>>
    BY <1>1 DEF PagesInv, Orderly, Filled
  <2>3. QED
    BY <1>5, <2>1, <2>2
<1>8. base + s * b.page \in Int
  BY <1>3, SlotPage, AcceptedBlock
<1>9. Decode(memory', base + s * b.page) = r
  BY <1>6, <1>7, <1>8, DecodeImage
<1>10. SlotContents' = [SlotContents EXCEPT ![s] = r]
  BY <1>1, <1>3, <1>5, <1>9, OneSlot
<1>11. SlotContents[s] = NoImage
  <2>1. 0 \in 0 .. RecordSize - 1
    BY SizesAssumption
  <2>2. memory[base + s * b.page + 0] = Erased
    BY <1>1, <2>1 DEF PagesInv, Orderly, Cleared
  <2>3. Decode(memory, base + s * b.page) = NoImage
    BY <2>1, <2>2, DecodeErased
  <2>4. QED
    BY <1>1, <1>3, <2>3, SlotsOfBlock
<1>12. <<s, r>> \in Asked
  BY DEF Asked
<1>13. Array!Put(s, r)
  BY <1>1, <1>10, <1>11, <1>12 DEF Array!Put, SlotsSeen
<1>14. Array!Next
  BY <1>3, <1>6, <1>13 DEF Array!Next
<1>15. \A v \in Writers : stage'[v] = "idle"
  BY <1>1, OthersIdle DEF ProgramSlot, Leave, PagesInv, PagesType
<1>16. QED
  BY <1>14, <1>15, IdleOrderly DEF Refines

LEMMA FailOrderly ==
    ASSUME PagesInv, exclusive, NEW w \in Writers, FlashFails(w)
    PROVE  Refines
<1>1. stage[w] # "idle"
  BY DEF FlashFails
<1>2. \A v \in Writers : stage'[v] = "idle"
  BY <1>1, OthersIdle DEF FlashFails, Leave, PagesInv, PagesType
<1>3. QED
  BY <1>2, IdleOrderly, SlotsKept DEF Refines, FlashFails, partVars

\* A programming that is cut short leaves the last cell of the record erased: the
\* slot stays blank.
LEMMA PowerLossOrderly ==
    ASSUME PagesInv, exclusive, PagesPowerLoss
    PROVE  Refines
<1>1. \A v \in Writers : stage'[v] = "idle"
  BY DEF PagesPowerLoss
<1>2. SlotContents' = SlotContents
  <2>1. CASE UNCHANGED memory
    BY <2>1, SlotsKept DEF PagesPowerLoss, partVars
  <2>2. CASE \E w \in Writers, b \in Geometry, n \in 0 .. RecordSize - 1 :
                /\ stage[w] = "program"
                /\ ProgramCells(SlotAddr(b, job[w].slot), b.page, n)
    <3>1. PICK w \in Writers, b \in Geometry, n \in 0 .. RecordSize - 1 :
                /\ stage[w] = "program"
                /\ ProgramCells(SlotAddr(b, job[w].slot), b.page, n)
      BY <2>2
    <3> DEFINE s == job[w].slot
               last == RecordSize - 1
    <3>2. s \in PageSlots /\ PagesType /\ UNCHANGED <<base, info>>
      BY DEF PagesInv, PagesType, PagesPowerLoss, partVars
    <3>3. n \in 0 .. b.page /\ last \in 0 .. RecordSize - 1 /\ ~ (last < n)
      BY <3>2, AcceptedBlock, SizesAssumption
    <3>4. /\ \A i \in 0 .. RecordSize - 1 :
                 memory'[base + s * b.page + i] =
                     IF i < n THEN buffer[i] ELSE memory[base + s * b.page + i]
          /\ \A t \in PageSlots \ {s} : \A i \in 0 .. RecordSize - 1 :
                 memory'[base + t * b.page + i] = memory[base + t * b.page + i]
      BY <3>1, <3>2, <3>3, ProgramTheCells
    <3>5. memory[base + s * b.page + last] = Erased
      BY <3>1, <3>3 DEF PagesInv, Orderly, Cleared
    <3>6. memory'[base + s * b.page + last] = Erased
      BY <3>3, <3>4, <3>5
    <3>7. /\ Decode(memory, base + s * b.page) = NoImage
          /\ Decode(memory', base + s * b.page) = NoImage
      BY <3>3, <3>5, <3>6, DecodeErased
    <3>8. SlotContents' = [SlotContents EXCEPT ![s] = NoImage]
      BY <3>2, <3>4, <3>7, OneSlot
    <3>9. SlotContents[s] = NoImage /\ SlotContents = [t \in PageSlots |-> SlotContents[t]]
      BY <3>2, <3>7, SlotsOfBlock
    <3>10. QED
      BY <3>2, <3>8, <3>9
  <2>3. QED
    BY <2>1, <2>2 DEF PagesPowerLoss
<1>3. QED
  BY <1>1, <1>2, IdleOrderly DEF Refines

LEMMA StepOrderly ==
    ASSUME PagesInv, exclusive, [PagesNext]_pageVars
    PROVE  Refines
<1>1. ASSUME NEW w \in Writers, NEW s \in PageSlots, NEW r \in Images, Begin(w, s, r)
      PROVE  Refines
  BY <1>1, BeginOrderly
<1>2. ASSUME NEW w \in Writers, Fill(w) \/ Copy(w) \/ Enter(w)
      PROVE  Refines
  BY <1>2, FillOrderly, CopyOrderly, EnterOrderly
<1>3. ASSUME NEW w \in Writers, EraseSlot(w) \/ ProgramSlot(w) \/ FlashFails(w)
      PROVE  Refines
  BY <1>3, EraseOrderly, ProgramOrderly, FailOrderly
<1>4. CASE PagesPowerLoss
  BY <1>4, PowerLossOrderly
<1>5. CASE Refused \/ UNCHANGED pageVars
  <2>1. UNCHANGED pageVars
    BY <1>5 DEF Refused
  <2>2. Geometry' = Geometry /\ SlotContents' = SlotContents
    BY <2>1, SameGeometry, SlotsKept DEF pageVars, partVars
  <2>3. Orderly'
    BY <2>1, <2>2 DEF pageVars, partVars, writerVars, PagesInv, Orderly, OneTask, Filled, Cleared
  <2>4. QED
    BY <2>2, <2>3 DEF Refines
<1>6. QED
  BY <1>1, <1>2, <1>3, <1>4, <1>5 DEF PagesNext

\* Whether the tasks call the store one at a time is settled at the start.
LEMMA ExclusiveKept ==
    ASSUME [PagesNext]_pageVars
    PROVE  exclusive' = exclusive
  BY DEF PagesNext, Begin, Fill, Copy, Enter, EraseSlot, ProgramSlot, FlashFails, PagesPowerLoss,
     Refused, pageVars, partVars

LEMMA BlankAtStart == PagesInit => Orderly /\ SlotContents = [s \in PageSlots |-> NoImage]
<1> SUFFICES ASSUME PagesInit
             PROVE  Orderly /\ SlotContents = [s \in PageSlots |-> NoImage]
  OBVIOUS
<1>1. Orderly
  BY DEF PagesInit, Orderly, OneTask, Filled, Cleared
<1>2. CASE Geometry = {}
  BY <1>1, <1>2 DEF SlotContents
<1>3. CASE Geometry # {}
  <2>1. PICK b \in Geometry : TRUE
    BY <1>3
  <2>2. PagesType
    BY InitTyped
  <2>3. TheBlock = b
    BY <2>2, AcceptedBlock, Zenon DEF TheBlock
  <2>4. 0 \in 0 .. RecordSize - 1
    BY SizesAssumption
  <2>5. ASSUME NEW s \in PageSlots
        PROVE  Decode(memory, base + s * b.page) = NoImage
    <3>1. base + s * b.page + 0 \in 0 .. Addresses - 1
      BY <2>2, <2>4, RecordCells
    <3>2. memory[base + s * b.page + 0] = Erased
      BY <3>1 DEF PagesInit
    <3>3. QED
      BY <2>4, <3>2, DecodeErased
  <2>6. QED
    BY <1>1, <1>3, <2>3, <2>5 DEF SlotContents
<1>4. QED
  BY <1>1, <1>2, <1>3

\* The inductive invariant of the flash layer.
THEOREM PagesInvariant == PagesSpec => []PagesInv
<1>1. PagesInit => PagesInv
  BY InitTyped, BlankAtStart DEF PagesInv
<1>2. PagesInv /\ [PagesNext]_pageVars => PagesInv'
  BY StepTyped, StepOrderly, ExclusiveKept DEF PagesInv, TypedStep, Refines
<1>3. QED
  BY <1>1, <1>2, PTL DEF PagesSpec

\* With one task in the store at a time the pages are the slots of NetworkStore:
\* every write clears its slot and puts its record, or fails.
THEOREM PagesAreSlots == PagesSpec => ImplementsSlots
<1>1. PagesInit => Array!Init
  BY BlankAtStart DEF Array!Init, SlotsSeen
<1>2. PagesInv /\ [PagesNext]_pageVars => [Array!Next]_SlotsSeen
  <2> SUFFICES ASSUME PagesInv, [PagesNext]_pageVars
               PROVE  [Array!Next]_SlotsSeen
    OBVIOUS
  <2>1. CASE exclusive
    BY <2>1, StepOrderly, ExclusiveKept DEF Refines, SlotsSeen
  <2>2. CASE ~ exclusive
    BY <2>2, ExclusiveKept DEF SlotsSeen
  <2>3. QED
    BY <2>1, <2>2
<1>3. QED
  BY <1>1, <1>2, PagesInvariant, PTL DEF PagesSpec, ImplementsSlots, Array!Spec
=============================================================================
