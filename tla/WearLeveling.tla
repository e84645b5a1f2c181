---------------------------- MODULE WearLeveling ----------------------------
(***************************************************************************)
(* WearLeveling<Configuration::Data> and the parts of Configuration that   *)
(* use it (Core/Inc/FLASH): an index of one bit per slot at the start of   *)
(* the area, a cleared bit for a used slot, then the slots, written one    *)
(* after the other.  The index is also kept in RAM.  Power may fail at any *)
(* step of Flash, and start-up reads back what is there.                   *)
(***************************************************************************)
EXTENDS Flash, FiniteSetsExt

CONSTANTS DataCells,      \* half-words of one Configuration::Data
          SizeModulus,    \* size_t counts modulo this (2^32 on the device)
          Payloads,       \* pin configurations a message may set
          MaxStores,      \* bound: commands to store or reset
          MaxCrashes,     \* bound: power failures
          MaxFaults       \* bound: errors reported by the HAL

MaxPossibleElements == AllCells \div DataCells
IndexWords  == MaxPossibleElements \div 4
MaxElementsWithoutIndex == MaxPossibleElements % SizeModulus     \* mutant
MaxElements == (MaxPossibleElements - IndexWords * (DataCells \div 2)) % SizeModulus
IndexCells  == 2 * IndexWords
IndexBits   == IndexCells * Width

DataLocation(k) == IndexCells + k * DataCells

ASSUME WearLevelingAssumption ==
  /\ DataCells \in Nat /\ DataCells > 2
  /\ SizeModulus \in Nat \ {0}
  /\ Payloads \subseteq Values
  /\ DataLocation(IndexBits) > AllCells
  /\ MaxStores \in Nat /\ MaxCrashes \in Nat /\ MaxFaults \in Nat

(* Configuration::Data: CONFIGURATION_VERSION in the first two half-words, *)
(* low first, and the pins in the rest; the value of Data() is all ones.   *)
Version   == <<{0}, {}>>
Config(x) == Version \o [i \in 1 .. DataCells - 2 |-> x]
Default   == Config(Blank)
Configs   == {Config(x) : x \in Payloads \cup {Blank}}

VARIABLES
  ramIndex,   \* WearLeveling::index
  config,     \* Configuration::data
  pc,         \* what the handler waits for: a flash call, or nothing
  slot,       \* the local nextIndex of store
  result,     \* what the last store returned
  committed,  \* history: what a restart may load when no command runs
  risk,       \* history: "armed" once a flash call was cut short or failed,
              \* "spent" once a store has begun after that
  stores, crashes, faults     \* counters for the bounds

vars == <<flash, job, ramIndex, config, pc, slot, result, committed, risk,
          stores, crashes, faults>>

TypeOK ==
  /\ FlashType
  /\ ramIndex \in [1 .. IndexCells -> Values]
  /\ config \in [1 .. DataCells -> Values]
  /\ pc \in {"idle", "wrap", "data", "index", "reset", "off"}
  /\ slot \in Nat
  /\ result \in {"none", "success", "failure"}
  /\ risk \in {"none", "armed", "spent"}
  /\ stores \in 0 .. MaxStores /\ crashes \in 0 .. MaxCrashes /\ faults \in 0 .. MaxFaults

-----------------------------------------------------------------------------
(* findNextIndex: the first set bit, or the number of bits *)
FindNextIndex(index) ==
  Min({i \in 0 .. IndexBits - 1 : i % Width \in index[i \div Width + 1]} \cup {IndexBits})

SetUsed(index, i) == [index EXCEPT ![i \div Width + 1] = @ \ {i % Width}]

BlankIndex == [i \in 1 .. IndexCells |-> Blank]

(* readIndex and readData; nothing was ever written past the area *)
ReadIndex == [i \in 1 .. IndexCells |-> flash[i - 1]]
ReadData(k) ==
  [i \in 1 .. DataCells |->
     IF DataLocation(k) + i - 1 \in Cells THEN flash[DataLocation(k) + i - 1] ELSE Blank]

LoadedFromNextSlot ==           \* mutant: readData(nextIndex)
  LET next == FindNextIndex(ReadIndex)
      last == ReadData(next)
  IN  IF next > 0 /\ last[1] = Version[1] /\ last[2] = Version[2] THEN last ELSE Default

(* The constructors of WearLeveling and Configuration: the configuration a *)
(* start-up loads.                                                         *)
Loaded ==
  LET next == FindNextIndex(ReadIndex)
      last == ReadData(next - 1)
  IN  IF next > 0 /\ last[1] = Version[1] /\ last[2] = Version[2] THEN last ELSE Default

Init ==
  /\ InitFlash
  /\ ramIndex = BlankIndex /\ config = Default
  /\ pc = "idle" /\ slot = 0 /\ result = "none"
  /\ committed = {Default} /\ risk = "none"
  /\ stores = 0 /\ crashes = 0 /\ faults = 0

-----------------------------------------------------------------------------
(* Commands of the message handler *)

(* The pins of a message are put into Configuration::data. *)
HandleConfiguration(x) ==
  /\ pc = "idle" /\ config # Config(x)
  /\ config' = Config(x)
  /\ UNCHANGED <<flash, job, ramIndex, pc, slot, result, committed, risk,
                 stores, crashes, faults>>

(* store: nextIndex > MAX_ELEMENTS is reset() first *)
Store ==
  /\ pc = "idle" /\ stores < MaxStores
  /\ LET next == FindNextIndex(ramIndex)
     IN  IF next > MaxElements
           THEN /\ CallEraseAll
                /\ pc' = "wrap" /\ slot' = 0
                /\ committed' = committed \cup {Default}
           ELSE /\ CallWrite(DataLocation(next), config)
                /\ pc' = "data" /\ slot' = next
                /\ UNCHANGED committed
  /\ stores' = stores + 1 /\ result' = "none"
  /\ risk' = IF risk = "none" THEN "none" ELSE "spent"
  /\ UNCHANGED <<flash, ramIndex, config, crashes, faults>>

Wrapped ==
  /\ pc = "wrap" /\ job.step = "done"
  /\ ramIndex' = BlankIndex
  /\ CallWrite(DataLocation(slot), config)
  /\ pc' = "data"
  /\ risk' = IF job.ok THEN "none" ELSE "spent"
  /\ UNCHANGED <<flash, config, slot, result, committed, stores, crashes, faults>>

DataWrittenUnmarked ==          \* mutant: the bit is not cleared in RAM
  /\ pc = "data" /\ job.step = "done" /\ job.ok
  /\ CallWrite(0, ramIndex)
  /\ pc' = "index"
  /\ UNCHANGED <<flash, ramIndex, config, slot, result, committed, risk, stores, crashes, faults>>

DataWrittenOrNot ==             \* mutant: the result of write is not looked at
  /\ pc = "data" /\ job.step = "done"
  /\ ramIndex' = SetUsed(ramIndex, slot)
  /\ CallWrite(0, ramIndex')
  /\ pc' = "index"
  /\ UNCHANGED <<flash, config, slot, result, committed, risk, stores, crashes, faults>>

(* storeData: the index is written only after the data *)
DataWritten ==
  /\ pc = "data" /\ job.step = "done" /\ job.ok
  /\ ramIndex' = SetUsed(ramIndex, slot)
  /\ CallWrite(0, ramIndex')
  /\ pc' = "index"
  /\ UNCHANGED <<flash, config, slot, result, committed, risk, stores, crashes, faults>>

DataRefused ==
  /\ pc = "data" /\ job.step = "done" /\ ~job.ok
  /\ Return
  /\ pc' = "idle" /\ result' = "failure"
  /\ UNCHANGED <<flash, ramIndex, config, slot, committed, risk, stores, crashes, faults>>

(* setIndexUsed drops what write returned *)
IndexWritten ==
  /\ pc = "index" /\ job.step = "done"
  /\ Return
  /\ pc' = "idle" /\ result' = "success"
  /\ committed' = IF job.ok THEN {config} ELSE committed \cup {config}
  /\ UNCHANGED <<flash, ramIndex, config, slot, risk, stores, crashes, faults>>

ResetStorage ==
  /\ pc = "idle" /\ stores < MaxStores
  /\ CallEraseAll
  /\ pc' = "reset" /\ stores' = stores + 1 /\ result' = "none"
  /\ UNCHANGED <<flash, ramIndex, config, slot, committed, risk, crashes, faults>>

ResetKeepsIndex ==              \* mutant: the index in RAM is not refilled
  /\ pc = "reset" /\ job.step = "done"
  /\ Return
  /\ pc' = "idle"
  /\ committed' = IF job.ok THEN {Default} ELSE committed \cup {Default}
  /\ risk' = IF job.ok THEN "none" ELSE risk
  /\ UNCHANGED <<flash, ramIndex, config, slot, result, stores, crashes, faults>>

ResetDone ==
  /\ pc = "reset" /\ job.step = "done"
  /\ Return
  /\ ramIndex' = BlankIndex
  /\ pc' = "idle"
  /\ committed' = IF job.ok THEN {Default} ELSE committed \cup {Default}
  /\ risk' = IF job.ok THEN "none" ELSE risk
  /\ UNCHANGED <<flash, config, slot, result, stores, crashes, faults>>

-----------------------------------------------------------------------------
(* Flash, power and start-up *)

FlashWorks ==
  /\ pc # "off" /\ Works
  /\ UNCHANGED <<ramIndex, config, pc, slot, result, committed, risk, stores, crashes, faults>>

FlashFails ==
  /\ pc # "off" /\ faults < MaxFaults /\ Fails
  /\ faults' = faults + 1
  /\ risk' = IF risk = "none" THEN "armed" ELSE risk
  /\ UNCHANGED <<ramIndex, config, pc, slot, result, committed, stores, crashes>>

(* What a restart may load: what it could before the command, or what the  *)
(* command is storing, or nothing if it is erasing.                        *)
MayLoad ==
  committed \cup (IF pc \in {"data", "index"} THEN {config} ELSE {})
            \cup (IF pc \in {"wrap", "reset"} THEN {Default} ELSE {})

PowerFails ==
  /\ pc # "off" /\ crashes < MaxCrashes
  /\ crashes' = crashes + 1
  /\ Return /\ pc' = "off"
  /\ committed' = MayLoad
  /\ risk' = IF pc # "idle" /\ risk = "none" THEN "armed" ELSE risk
  /\ UNCHANGED <<flash, ramIndex, config, slot, result, stores, faults>>

StartUp ==
  /\ pc = "off"
  /\ ramIndex' = ReadIndex /\ config' = Loaded
  /\ pc' = "idle" /\ slot' = 0 /\ result' = "none"
  /\ committed' = {Loaded}
  /\ UNCHANGED <<flash, job, risk, stores, crashes, faults>>

Next ==
  \/ \E x \in Payloads : HandleConfiguration(x)
  \/ Store \/ Wrapped \/ DataWritten \/ DataRefused \/ IndexWritten
  \/ ResetStorage \/ ResetDone
  \/ FlashWorks \/ FlashFails \/ PowerFails \/ StartUp

Spec == Init /\ [][Next]_vars

-----------------------------------------------------------------------------
(* Properties *)

(* Power may fail at any half-word of a store or a reset: the next start-  *)
(* up loads the configuration stored before or the one being stored, never *)
(* a mixture.  This is promised up to and including the first interruption *)
(* after the area was clean.                                               *)
RestartLoadsACommit == risk # "spent" => Loaded \in MayLoad

(* As long as nothing was cut short, a store finds its cells blank and     *)
(* never erases: the point of wear levelling.                              *)
StoresNeverErase == risk = "none" => job.step # "erase"

(* Between commands the index in RAM is the index in flash, whatever was   *)
(* interrupted before, as long as the HAL reported no error.               *)
IndexAgrees == pc = "idle" /\ faults = 0 => ramIndex = ReadIndex

(* What a start-up would load changes only when a store marks its slot, or *)
(* when an erase takes everything.                                         *)
OnlyCommitsChangeLoaded ==
  [][Loaded' # Loaded /\ risk # "spent" =>
       \/ pc = "index" /\ Loaded' = config
       \/ pc \in {"wrap", "reset"} /\ Loaded' = Default]_vars

(* As long as the HAL reported no error, a store is refused only when      *)
(* every slot that fits into the area is marked as used in flash: neither  *)
(* a power failure nor a reset of the storage takes a free slot away.      *)
FreeSlots ==
  {k \in 0 .. IndexBits - 1 :
     k % Width \in ReadIndex[k \div Width + 1] /\ DataLocation(k + 1) <= AllCells}

StoreFailsOnlyWhenFull == faults = 0 /\ result = "failure" => FreeSlots = {}

(* A configuration that nothing hindered from being stored is stored.      *)
StoreIsAccepted == faults = 0 => result # "failure"
=============================================================================
