-------------------------------- MODULE Flash --------------------------------
(***************************************************************************)
(* The class Flash (Core/Src/FLASH/Flash.cpp): writing half-words into the *)
(* high-cycle data area, with a sector erase when a bit has to go from 0   *)
(* to 1.  A cell is one half-word, kept as the set of its 1 bits, so that  *)
(* programming is intersection and an erased cell is the full set.  One    *)
(* call runs at a time (only the message handler thread writes), and each  *)
(* step is one call of the HAL: power may fail between any two, and the    *)
(* HAL may report an error.                                                *)
(*                                                                         *)
(* The sector table of Flash.h is built by adding the sector size in bytes *)
(* to a uint32_t pointer, so its entries lie Stride = 4 sectors apart: the *)
(* "sector" the code finds for an address and the sector the HAL erases    *)
(* start at different addresses, but for the first.                        *)
(***************************************************************************)
EXTENDS Integers, Sequences

CONSTANTS SectorCells,    \* half-words in one sector of the device
          SectorCount,    \* sectors of the area, and entries of the table
          Stride,         \* sizeof(uint32_t): the table's pointer arithmetic
          Width           \* bits of a half-word

ASSUME FlashAssumption ==
  /\ SectorCells \in Nat \ {0} /\ SectorCount \in Nat \ {0}
  /\ Stride \in Nat \ {0} /\ Width \in Nat \ {0}

Bits     == 0 .. Width - 1
Blank    == Bits
AllCells == SectorCells * SectorCount
Cells    == 0 .. AllCells - 1
Values   == SUBSET Bits

VARIABLES flash,    \* the cells
          job       \* the call of write or eraseAll that is under way

(* step: what the call does next; dest, input: the arguments of write;     *)
(* todo: the programs it has still to ask for, as <<cell, value>>; sector: *)
(* the next sector of eraseAll; ok: its local success.                     *)
NoJob == [step |-> "none", dest |-> 0, input |-> <<>>, todo |-> <<>>, sector |-> 0, ok |-> TRUE]

Steps == {"none", "check", "erase", "program", "eraseAll", "done"}

JobType ==
  /\ job.step \in Steps /\ job.ok \in BOOLEAN
  /\ job.dest \in Nat /\ job.sector \in 0 .. SectorCount
  /\ job.input \in Seq(Values) /\ job.todo \in Seq(Cells \X Values)

FlashType == flash \in [Cells -> Values] /\ JobType

InitFlash ==
  /\ flash = [c \in Cells |-> Blank]
  /\ job = NoJob

-----------------------------------------------------------------------------
(* addressRangeInFlash *)
InRange(dest, len) == dest + len <= AllCells

(* FLASH_EDATA_SECTORS[i], and findSectorForDestination as its index *)
TableStart(i) == Stride * SectorCells * i
TableSector(dest) == dest \div (Stride * SectorCells)

(* getSectorsInRange has one entry: the write ends before the next start *)
OneTableSector(dest, len) == dest + len <= TableStart(TableSector(dest) + 1)

(* What erasing the device's sector s clears *)
Sector(s) == {c \in Cells : c \div SectorCells = s}
Erased(s) == [c \in Cells |-> IF c \in Sector(s) THEN Blank ELSE flash[c]]

(* (flashData & inputValue) != inputValue for some half-word *)
NeedsErase(dest, input) ==
  \E i \in 1 .. Len(input) : ~(input[i] \subseteq flash[dest + i - 1])

DataPrograms(dest, input) == [i \in 1 .. Len(input) |-> <<dest + i - 1, input[i]>>]

(* The two loops that mean to restore the rest of an erased sector from    *)
(* flashDataCopy.  The copy is read from the table's sector after the      *)
(* erase, and the destination pointer never advances, so every value goes  *)
(* to the first cell.  Past the end of the copy the first loop reads       *)
(* whatever lies behind it: beyond.                                        *)
RetainStart(f, dest, beyond) ==
  LET start == TableStart(TableSector(dest))
      inside == IF dest - start < SectorCells THEN dest - start ELSE SectorCells
  IN  [k \in 1 .. inside |-> <<start, f[start + k - 1]>>]
        \o (IF dest - start > SectorCells THEN <<<<start, beyond>>>> ELSE <<>>)

RetainEnd(f, dest, len) ==
  LET end   == dest + len
      limit == TableStart(TableSector(dest)) + SectorCells
  IN  IF OneTableSector(dest, len) /\ end < limit - 1
        THEN [k \in 1 .. limit - end |-> <<end, f[end + k - 1]>>]
        ELSE <<>>

-----------------------------------------------------------------------------
(* write *)

CallWrite(dest, input) ==
  job' = [NoJob EXCEPT !.step = "check", !.dest = dest, !.input = input]

RejectRange ==
  /\ job.step = "check" /\ ~InRange(job.dest, Len(job.input))
  /\ job' = [job EXCEPT !.step = "done", !.ok = FALSE]
  /\ UNCHANGED flash

Accept ==
  /\ job.step = "check" /\ InRange(job.dest, Len(job.input))
  /\ job' = IF NeedsErase(job.dest, job.input)
              THEN [job EXCEPT !.step = "erase"]
              ELSE [job EXCEPT !.step = "program", !.todo = DataPrograms(job.dest, job.input)]
  /\ UNCHANGED flash

EraseSector ==
  /\ job.step = "erase"
  /\ flash' = Erased(TableSector(job.dest))
  /\ \E beyond \in Values :
       job' = [job EXCEPT !.step = "program",
                          !.todo = RetainStart(flash', job.dest, beyond)
                                     \o RetainEnd(flash', job.dest, Len(job.input))
                                     \o DataPrograms(job.dest, job.input)]

(* A failed erase is not an error of write: it programs what it has.       *)
EraseSectorFails ==
  /\ job.step = "erase"
  /\ job' = [job EXCEPT !.step = "program", !.todo = DataPrograms(job.dest, job.input)]
  /\ UNCHANGED flash

ProgramCell ==
  /\ job.step = "program" /\ job.todo # <<>>
  /\ LET p == Head(job.todo)
     IN  flash' = [flash EXCEPT ![p[1]] = @ \cap p[2]]
  /\ job' = [job EXCEPT !.todo = Tail(@)]

(* Retained values are programmed always, the input only where it differs  *)
(* from what is there, so only there can it fail.  After a failure         *)
(* success && ... asks the HAL for nothing more.                           *)
Retained == Len(job.todo) > Len(job.input)

ProgramCellFails ==
  /\ job.step = "program" /\ job.todo # <<>>
  /\ Retained \/ flash[Head(job.todo)[1]] # Head(job.todo)[2]
  /\ job' = [job EXCEPT !.todo = <<>>, !.ok = FALSE]
  /\ UNCHANGED flash

WriteReturns ==
  /\ job.step = "program" /\ job.todo = <<>>
  /\ job' = [job EXCEPT !.step = "done"]
  /\ UNCHANGED flash

-----------------------------------------------------------------------------
(* eraseAll: the sectors in the order of the map, until one fails *)

(* The call is over, for its caller has its result or because power failed *)
Return == job' = NoJob

CallEraseAllButTheFirst ==      \* mutant: the loop starts at 1
  job' = [NoJob EXCEPT !.step = "eraseAll", !.sector = 1]

CallEraseAll ==
  job' = [NoJob EXCEPT !.step = "eraseAll"]

EraseOneTooMany ==              \* mutant: <= for < in the loop
  /\ job.step = "eraseAll" /\ job.sector <= SectorCount
  /\ flash' = Erased(job.sector)
  /\ job' = [job EXCEPT !.sector = @ + 1]

EraseNext ==
  /\ job.step = "eraseAll" /\ job.sector < SectorCount
  /\ flash' = Erased(job.sector)
  /\ job' = [job EXCEPT !.sector = @ + 1]

EraseNextFails ==
  /\ job.step = "eraseAll" /\ job.sector < SectorCount
  /\ job' = [job EXCEPT !.step = "done", !.ok = FALSE]
  /\ UNCHANGED flash

EraseAllReturns ==
  /\ job.step = "eraseAll" /\ job.sector = SectorCount
  /\ job' = [job EXCEPT !.step = "done"]
  /\ UNCHANGED flash

Works ==
  \/ RejectRange \/ Accept \/ EraseSector \/ ProgramCell \/ WriteReturns
  \/ EraseNext \/ EraseAllReturns

Fails == EraseSectorFails \/ ProgramCellFails \/ EraseNextFails
=============================================================================
