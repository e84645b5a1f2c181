------------------------- MODULE WearLeveling_proofs -------------------------
(***************************************************************************)
(* Theorems about WearLeveling: what a restart loads, that a store never   *)
(* erases, that the index in RAM is the one in flash, when it is refused.  *)
(***************************************************************************)
EXTENDS WearLeveling, Recursion, SequenceTheorems

(* The operators of the model that read the medium, with the medium as a   *)
(* parameter, so that a lemma about them is of use before and after a step *)
IndexOf(f) == [i \in 1 .. IndexCells |-> f[i - 1]]
DataOf(f, k) ==
  [i \in 1 .. DataCells |->
     IF DataLocation(k) + i - 1 \in Cells THEN f[DataLocation(k) + i - 1] ELSE Blank]
LoadedOf(f) ==
  LET next == FindNextIndex(IndexOf(f))
      last == DataOf(f, next - 1)
  IN  IF next > 0 /\ last[1] = Version[1] /\ last[2] = Version[2] THEN last ELSE Default

Media   == [Cells -> Values]
Indexes == [1 .. IndexCells -> Values]
Images  == [1 .. DataCells -> Values]

Bit(index, i)   == i % Width \in index[i \div Width + 1]
Used(index, n)  == \A i \in 0 .. IndexBits - 1 : Bit(index, i) <=> n <= i
FreeFrom(f, c)  == \A d \in Cells : c <= d => f[d] = Blank
AllBlank(f)     == \A d \in Cells : f[d] = Blank

(* n slots are marked, they lie in the area, and nothing lies behind them *)
Clean(f, n) ==
  /\ DataLocation(n) <= AllCells
  /\ Used(IndexOf(f), n) /\ FreeFrom(f, DataLocation(n))

-----------------------------------------------------------------------------
(* The inductive invariant *)

Calls == [step : Steps, dest : Nat, input : Seq(Values),
          todo : Seq(Cells \X Values), sector : 0 .. SectorCount, ok : BOOLEAN]

TypeCore ==
  /\ flash \in Media /\ job \in Calls
  /\ ramIndex \in Indexes /\ config \in Images
  /\ pc \in {"idle", "wrap", "data", "index", "reset", "off"} /\ slot \in Nat
  /\ result \in {"none", "success", "failure"} /\ risk \in {"none", "armed", "spent"}
  /\ stores \in 0 .. MaxStores /\ crashes \in 0 .. MaxCrashes /\ faults \in 0 .. MaxFaults

WriteCall(dest, input) ==
  /\ job.dest = dest /\ job.input = input
  /\ job.step \in {"check", "erase", "program", "done"}
  /\ job.step \in {"check", "erase"} => job.ok
  /\ job.step \in {"erase", "program"} => InRange(dest, Len(input))

EraseCall ==
  /\ job.step \in {"eraseAll", "done"}
  /\ \A c \in Cells : job.step = "eraseAll" /\ c \div SectorCells < job.sector => flash[c] = Blank
  /\ job.step = "done" /\ job.ok => AllBlank(flash)

CallInv ==
  /\ pc \in {"idle", "off"} => job = NoJob
  /\ pc = "data" => WriteCall(DataLocation(slot), config)
  /\ pc = "index" => WriteCall(0, ramIndex)
  /\ pc \in {"wrap", "reset"} => EraseCall
  /\ pc = "wrap" => slot = 0 /\ Default \in committed

ConfigInv == config[1] = Version[1] /\ config[2] = Version[2]

TypeInv == TypeCore /\ CallInv /\ ConfigInv

(* The programs still to come end with the input, from where it got to, *)
Ahead(todo, input) == Len(input) - Len(todo)
Rest(todo, dest, input) ==
  \A i \in 1 .. Len(input) :
     Ahead(todo, input) < i => todo[i - Ahead(todo, input)] = <<dest + i - 1, input[i]>>

(* ... and all before is on the medium. *)
Written(f, dest, input, k) == \A i \in 1 .. Len(input) : i <= k => f[dest + i - 1] = input[i]

(* How far the call under way got *)
Reached == Ahead(job.todo, job.input)

CleanData ==
  /\ job.step # "erase"
  /\ DataLocation(slot) <= AllCells /\ Used(IndexOf(flash), slot)
  /\ ramIndex = IndexOf(flash)
  /\ job.step = "check" \/ (job.step = "done" /\ ~job.ok) => FreeFrom(flash, DataLocation(slot))
  /\ job.step = "program" =>
       /\ job.ok /\ Len(job.todo) <= DataCells
       /\ Rest(job.todo, DataLocation(slot), config)
       /\ Written(flash, DataLocation(slot), config, Reached)
       /\ FreeFrom(flash, DataLocation(slot) + Reached)
  /\ job.step = "done" /\ job.ok =>
       /\ DataLocation(slot + 1) <= AllCells
       /\ Written(flash, DataLocation(slot), config, DataCells)
       /\ FreeFrom(flash, DataLocation(slot + 1))

CleanIndex ==
  /\ job.step # "erase" /\ job.ok
  /\ Used(ramIndex, slot + 1) /\ DataLocation(slot + 1) <= AllCells
  /\ Written(flash, DataLocation(slot), config, DataCells)
  /\ FreeFrom(flash, DataLocation(slot + 1))
  /\ \/ IndexOf(flash) = ramIndex
     \/ Used(IndexOf(flash), slot) /\ ramIndex = SetUsed(IndexOf(flash), slot)
  /\ job.step = "program" =>
       /\ Len(job.todo) <= IndexCells
       /\ Rest(job.todo, 0, ramIndex)
       /\ Written(flash, 0, ramIndex, Reached)
  /\ job.step = "done" => IndexOf(flash) = ramIndex

(* Nothing was ever cut short *)
CleanInv == risk = "none" =>
  /\ pc \in {"idle", "off"} => \E n \in 0 .. IndexBits : Clean(flash, n)
  /\ pc = "idle" => ramIndex = IndexOf(flash)
  /\ pc = "data" => CleanData
  /\ pc = "index" => CleanIndex
  /\ pc \in {"wrap", "reset"} => job.ok

(* What a start-up would load, up to the first interruption *)
LoadInv == risk # "spent" =>
  /\ pc \in {"idle", "off", "data", "wrap"} => LoadedOf(flash) \in committed
  /\ pc = "index" => LoadedOf(flash) \in committed \cup {config}
  /\ pc = "reset" => LoadedOf(flash) \in committed \cup {Default}

(* A call that was cut short asks the HAL for nothing more *)
ArmedInv == risk = "armed" =>
  /\ pc \in {"data", "index"} =>
       /\ ~job.ok /\ job.step \in {"program", "done"}
       /\ job.step = "program" => job.todo = <<>>
  /\ pc = "wrap" => ~job.ok /\ job.step = "done"

StorageInv == CleanInv /\ LoadInv /\ ArmedInv

(* As long as the HAL reported no error, whatever was interrupted *)
IndexInv == faults = 0 =>
  /\ pc = "idle" => ramIndex = IndexOf(flash)
  /\ pc \in {"wrap", "reset"} => job.ok
  /\ pc = "data" =>
       /\ job.step = "check" \/ (job.step = "done" /\ ~job.ok) => ramIndex = IndexOf(flash)
       /\ job.step = "program" => job.ok
  /\ pc = "index" =>
       /\ job.ok
       /\ job.step = "program" =>
            /\ Rest(job.todo, 0, ramIndex)
            /\ \A j \in 1 .. Len(job.todo) :
                 j <= Len(job.todo) - IndexCells => job.todo[j][1] >= IndexCells
            /\ Written(flash, 0, ramIndex, Reached)
            /\ \A i \in 1 .. IndexCells : ramIndex[i] \subseteq flash[i - 1]
       /\ job.step = "done" => ramIndex = IndexOf(flash)

(* As long as the HAL reported no error, a write of data goes to the first *)
(* free slot and is refused only behind the area.                          *)
Refused == job.step = "done" /\ ~InRange(DataLocation(slot), DataCells)

FreeOf(f) == {k \in 0 .. IndexBits - 1 : Bit(IndexOf(f), k) /\ DataLocation(k + 1) <= AllCells}

FullInv == faults = 0 =>
  /\ pc = "data" => slot = FindNextIndex(ramIndex) /\ (job.ok \/ Refused)
  /\ result = "failure" => pc \in {"idle", "off"} /\ FreeOf(flash) = {}

-----------------------------------------------------------------------------
(* Arithmetic of the geometry *)

(* Quotient and remainder *)
LEMMA DivMod ==
  ASSUME NEW a \in Nat, NEW b \in Nat \ {0}
  PROVE  /\ a \div b \in Nat /\ a % b \in 0 .. b - 1
         /\ a = b * (a \div b) + (a % b)
OBVIOUS

(* A quotient is below a bound when the dividend is below its multiple *)
LEMMA DivBelow ==
  ASSUME NEW a \in Nat, NEW b \in Nat \ {0}, NEW n \in Nat, a < b * n
  PROVE  a \div b < n
<1> DEFINE q == a \div b  r == a % b
<1>1. q \in Nat /\ r \in Nat /\ a = b * q + r  BY DivMod
<1> HIDE DEF q, r
<1>2. SUFFICES ASSUME n <= q PROVE FALSE  BY <1>1 DEF q
<1>3. b * n <= b * q  BY <1>1, <1>2
<1> QED BY <1>1, <1>3

(* The cells of the area *)
LEMMA AreaType == AllCells \in Nat /\ AllCells >= 1 /\ Cells \subseteq Nat /\ 0 \in Cells
<1>1. SectorCells \in Nat \ {0} /\ SectorCount \in Nat \ {0}  BY FlashAssumption
<1>2. SectorCells * SectorCount \in Nat /\ SectorCells * SectorCount >= 1  BY <1>1
<1> QED BY <1>2 DEF AllCells, Cells

(* The index lies in the area *)
LEMMA IndexType == /\ IndexCells \in Nat /\ IndexBits \in Nat
                   /\ 1 <= IndexCells /\ IndexCells <= AllCells /\ 1 <= IndexBits
                   /\ IndexBits = IndexCells * Width
<1>1. AllCells \in Nat /\ AllCells >= 1  BY AreaType
<1>2. DataCells \in Nat /\ DataCells > 2  BY WearLevelingAssumption
<1>3. Width \in Nat \ {0}  BY FlashAssumption
<1> DEFINE q == AllCells \div DataCells
<1>4. q \in Nat /\ AllCells = DataCells * q + (AllCells % DataCells) /\ AllCells % DataCells \in Nat
  BY <1>1, <1>2, DivMod
<1>5. q <= AllCells
  <2> HIDE DEF q
  <2>1. q <= DataCells * q  BY <1>4, <1>2
  <2> QED BY <2>1, <1>4, <1>1, <1>2
<1>6. IndexWords = q \div 4  BY DEF IndexWords, MaxPossibleElements
<1> HIDE DEF q
<1>7. IndexWords \in Nat /\ 4 * IndexWords <= q  BY <1>4, <1>6
<1>8. IndexCells = 2 * IndexWords  BY DEF IndexCells
<1>9. IndexCells \in Nat /\ IndexCells <= AllCells  BY <1>7, <1>8, <1>5, <1>4, <1>1
<1>10. IndexBits = IndexCells * Width  BY DEF IndexBits
<1>11. IndexBits \in Nat  BY <1>10, <1>9, <1>3
<1>12. IndexCells # 0
  <2> SUFFICES ASSUME IndexCells = 0 PROVE FALSE  OBVIOUS
  <2>1. IndexBits = 0  BY <1>10, <1>3
  <2>2. DataLocation(0) > AllCells  BY <2>1, WearLevelingAssumption
  <2>3. DataLocation(0) = 0  BY <1>2 DEF DataLocation
  <2> QED BY <2>2, <2>3, <1>1
<1>13. IndexCells * Width >= 1  BY <1>9, <1>12, <1>3
<1> QED BY <1>9, <1>10, <1>11, <1>12, <1>13

(* The slots follow the index, one after the other *)
LEMMA Slots ==
  /\ \A k \in Nat : DataLocation(k) \in Nat /\ IndexCells <= DataLocation(k)
  /\ \A k \in Nat : DataLocation(k + 1) = DataLocation(k) + DataCells
  /\ \A j, k \in Nat : j <= k => DataLocation(j) <= DataLocation(k)
  /\ \A j, k \in Nat : j < k => DataLocation(j) + DataCells <= DataLocation(k)
  /\ DataLocation(0) = IndexCells
<1> DEFINE C == IndexCells  D == DataCells
<1>1. C \in Nat  BY IndexType
<1>2. D \in Nat /\ D > 2  BY WearLevelingAssumption
<1>3. \A k : DataLocation(k) = C + k * D  BY DEF DataLocation
<1> HIDE DEF C, D
<1>4. \A k \in Nat : k * D \in Nat  BY <1>2
<1>5. \A k \in Nat : (k + 1) * D = k * D + D  BY <1>2
<1>6. \A j, k \in Nat : j <= k => j * D <= k * D  BY <1>2
<1>7. \A j, k \in Nat : j < k => j * D + D <= k * D
  <2> TAKE j \in Nat, k \in Nat
  <2>1. HAVE j < k
  <2>2. (j + 1) * D <= k * D  BY <2>1, <1>6
  <2> QED BY <2>2, <1>5
<1>8. 0 * D = 0  BY <1>2
<1>9. \A k \in Nat : DataLocation(k) \in Nat /\ C <= DataLocation(k)  BY <1>1, <1>3, <1>4
<1>10. \A k \in Nat : DataLocation(k + 1) = DataLocation(k) + D  BY <1>1, <1>2, <1>3, <1>4, <1>5
<1>11. \A j, k \in Nat : j <= k => DataLocation(j) <= DataLocation(k)  BY <1>1, <1>3, <1>4, <1>6
<1>12. \A j, k \in Nat : j < k => DataLocation(j) + D <= DataLocation(k)
  BY <1>1, <1>2, <1>3, <1>4, <1>7
<1> QED BY <1>9, <1>10, <1>11, <1>12, <1>1, <1>3, <1>8 DEF C, D

(* A slot that begins in the area has a bit *)
LEMMA SlotHasABit ==
  ASSUME NEW n \in Nat, DataLocation(n) <= AllCells
  PROVE  n < IndexBits
<1>1. SUFFICES ASSUME IndexBits <= n PROVE FALSE  BY IndexType
<1>2. DataLocation(IndexBits) <= DataLocation(n)  BY <1>1, Slots, IndexType
<1>3. DataLocation(IndexBits) > AllCells  BY WearLevelingAssumption
<1> QED BY <1>2, <1>3, Slots, IndexType, AreaType

(* The place of a bit *)
LEMMA BitPlace ==
  ASSUME NEW i \in 0 .. IndexBits - 1
  PROVE  /\ i \div Width + 1 \in 1 .. IndexCells /\ i % Width \in Bits
         /\ i = Width * (i \div Width) + (i % Width)
         /\ i \div Width \in Cells
<1>1. Width \in Nat \ {0}  BY FlashAssumption
<1>2. i \in Nat /\ i < Width * IndexCells  BY IndexType, <1>1
<1>3. i \div Width < IndexCells  BY <1>1, <1>2, DivBelow, IndexType
<1>4. i \div Width \in Nat /\ i % Width \in 0 .. Width - 1 /\ i = Width * (i \div Width) + (i % Width)
  BY <1>1, <1>2, DivMod
<1> QED BY <1>3, <1>4, IndexType, AreaType DEF Bits, Cells

(* Two bits do not share a place *)
LEMMA BitsApart ==
  ASSUME NEW i \in 0 .. IndexBits - 1, NEW j \in 0 .. IndexBits - 1,
         i \div Width = j \div Width, i % Width = j % Width
  PROVE  i = j
BY BitPlace

(* The sectors the HAL erases *)
LEMMA SectorOf ==
  ASSUME NEW c \in Cells
  PROVE  c \div SectorCells \in 0 .. SectorCount - 1
<1>1. SectorCells \in Nat \ {0} /\ SectorCount \in Nat \ {0}  BY FlashAssumption
<1>2. c \in Nat /\ c < SectorCells * SectorCount  BY AreaType DEF Cells, AllCells
<1>3. c \div SectorCells < SectorCount  BY <1>1, <1>2, DivBelow
<1>4. c \div SectorCells \in Nat
  <2>1. c \in Nat /\ SectorCells \in Nat \ {0}  BY <1>1, <1>2
  <2> QED BY ONLY <2>1, DivMod
<1> QED BY <1>1, <1>3, <1>4

(* The table's sector of a cell starts at or before it, and a device       *)
(* sector from there on is in the area.                                    *)
LEMMA TableInArea ==
  ASSUME NEW c \in Cells
  PROVE  /\ TableStart(TableSector(c)) \in Nat /\ TableStart(TableSector(c)) <= c
         /\ TableStart(TableSector(c)) + SectorCells <= AllCells
<1>1. SectorCells \in Nat \ {0} /\ SectorCount \in Nat \ {0} /\ Stride \in Nat \ {0}
  BY FlashAssumption
<1> DEFINE T == Stride * SectorCells  q == c \div T  m == Stride * q
<1>2. T \in Nat \ {0}  BY <1>1
<1>3. c \in Nat /\ c < SectorCells * SectorCount  BY AreaType DEF Cells, AllCells
<1>4. q \in Nat /\ c % T \in Nat /\ c = T * q + (c % T)
  <2>1. c \in Nat /\ T \in Nat \ {0}  BY <1>2, <1>3
  <2> HIDE DEF T
  <2>2. /\ c \div T \in Nat /\ c % T \in 0 .. T - 1
        /\ c = T * (c \div T) + (c % T)
    BY ONLY <2>1, DivMod
  <2> QED BY ONLY <2>1, <2>2
<1>5. TableStart(TableSector(c)) = T * q  BY DEF TableStart, TableSector
<1> HIDE DEF q
<1>6. m \in Nat /\ T * q = SectorCells * m  BY <1>1, <1>4
<1>7. T * q <= c /\ T * q \in Nat
  <2> HIDE DEF T
  <2> QED BY <1>2, <1>3, <1>4
<1>8. SectorCells * m < SectorCells * SectorCount
  <2> HIDE DEF T, m
  <2> QED BY <1>1, <1>3, <1>6, <1>7
<1>9. SectorCells * m + SectorCells <= SectorCells * SectorCount
  <2> HIDE DEF T, m
  <2>1. m < SectorCount
    <3> SUFFICES ASSUME SectorCount <= m PROVE FALSE  BY <1>1, <1>6
    <3>1. SectorCells * SectorCount <= SectorCells * m  BY <1>1, <1>6
    <3> QED BY <3>1, <1>8, <1>1, <1>6
  <2>2. SectorCells * (m + 1) <= SectorCells * SectorCount  BY <2>1, <1>1, <1>6
  <2>3. SectorCells * (m + 1) = SectorCells * m + SectorCells  BY <1>1, <1>6
  <2> QED BY <2>2, <2>3
<1> QED BY <1>5, <1>6, <1>7, <1>9 DEF AllCells

-----------------------------------------------------------------------------
(* The index, and what a start-up loads *)

(* Two indexes of the same cells are the same *)
LEMMA SameIndex ==
  ASSUME NEW x \in Indexes, NEW y \in Indexes, \A i \in 1 .. IndexCells : x[i] = y[i]
  PROVE  x = y
<1>1. x = [i \in 1 .. IndexCells |-> x[i]] /\ y = [i \in 1 .. IndexCells |-> y[i]]  BY DEF Indexes
<1>2. [i \in 1 .. IndexCells |-> x[i]] = [i \in 1 .. IndexCells |-> y[i]]  OBVIOUS
<1> QED BY ONLY <1>1, <1>2

(* The bits that stand in an index before its end *)
SetBits(index) == {i \in 0 .. IndexBits - 1 : Bit(index, i)} \cup {IndexBits}

(* findNextIndex returns the least of them, whatever is in the index *)
LEMMA NextIndexIsLeast ==
  ASSUME NEW index
  PROVE  /\ FindNextIndex(index) \in SetBits(index)
         /\ \A i \in SetBits(index) : FindNextIndex(index) <= i
         /\ FindNextIndex(index) \in 0 .. IndexBits
<1> DEFINE S == SetBits(index)
<1>1. S \subseteq Nat /\ S # {} /\ S \subseteq 0 .. IndexBits  BY IndexType DEF SetBits
<1>2. \E m \in S : \A k \in S : m <= k
  <2> HIDE DEF S
  <2> QED BY <1>1, NatMin
<1>3. FindNextIndex(index) = CHOOSE m \in S : \A k \in S : m <= k
  BY DEF FindNextIndex, Min, SetBits, Bit
<1> QED
  <2> HIDE DEF S
  <2>1. FindNextIndex(index) \in S /\ \A k \in S : FindNextIndex(index) <= k  BY <1>2, <1>3
  <2> QED BY <2>1, <1>1 DEF S

(* With n slots in use it returns n *)
LEMMA NextIndexOfUsed ==
  ASSUME NEW index, NEW n \in 0 .. IndexBits, Used(index, n)
  PROVE  FindNextIndex(index) = n
<1> DEFINE m == FindNextIndex(index)
<1>1. m \in SetBits(index) /\ (\A i \in SetBits(index) : m <= i) /\ m \in 0 .. IndexBits
  BY NextIndexIsLeast
<1> HIDE DEF m
<1>2. n \in SetBits(index)
  <2>1. CASE n = IndexBits  BY <2>1 DEF SetBits
  <2>2. CASE n # IndexBits
    <3>1. n \in 0 .. IndexBits - 1 /\ n <= n  BY <2>2, IndexType
    <3> QED BY <3>1 DEF SetBits, Used
  <2> QED BY <2>1, <2>2
<1>3. n <= m
  <2>1. CASE m = IndexBits  BY <2>1, IndexType
  <2>2. CASE m # IndexBits
    <3>1. m \in 0 .. IndexBits - 1 /\ Bit(index, m)  BY <2>2, <1>1 DEF SetBits
    <3> QED BY <3>1 DEF Used
  <2> QED BY <2>1, <2>2
<1> QED BY <1>1, <1>2, <1>3, IndexType DEF m

(* The first bit stands: no slot is in use *)
LEMMA NextIndexZero ==
  ASSUME NEW index, 0 \in index[1]
  PROVE  FindNextIndex(index) = 0
<1>1. Width \in Nat \ {0}  BY FlashAssumption
<1>2. 0 % Width = 0 /\ 0 \div Width = 0
  <2>1. 0 \div Width \in Nat /\ 0 % Width \in 0 .. Width - 1
        /\ 0 = Width * (0 \div Width) + (0 % Width)
    BY <1>1, DivMod
  <2> QED BY <2>1, <1>1
<1>3. Bit(index, 0)  BY <1>2 DEF Bit
<1>4. 0 \in SetBits(index)  BY <1>3, IndexType DEF SetBits
<1>5. FindNextIndex(index) <= 0 /\ FindNextIndex(index) \in 0 .. IndexBits
  BY <1>4, NextIndexIsLeast
<1> QED BY <1>5

(* 0 is a bit of a blank cell *)
LEMMA BlankType == 0 \in Blank /\ Blank \in Values /\ {0} \in Values /\ {} \in Values
BY FlashAssumption DEF Blank, Bits, Values

(* A blank index has no slot in use *)
LEMMA BlankUsesNone ==
  /\ BlankIndex \in Indexes
  /\ \A f \in Media : AllBlank(f) => IndexOf(f) = BlankIndex
  /\ Used(BlankIndex, 0)
<1>1. BlankIndex \in Indexes  BY BlankType DEF BlankIndex, Indexes
<1>2. \A f \in Media : AllBlank(f) => IndexOf(f) = BlankIndex
  <2> TAKE f \in Media
  <2>1. HAVE AllBlank(f)
  <2>2. \A i \in 1 .. IndexCells : i - 1 \in Cells  BY IndexType, AreaType DEF Cells
  <2> QED BY <2>1, <2>2 DEF AllBlank, IndexOf, BlankIndex
<1>3. Used(BlankIndex, 0)
  <2> SUFFICES ASSUME NEW i \in 0 .. IndexBits - 1 PROVE Bit(BlankIndex, i) <=> 0 <= i
    BY DEF Used
  <2>1. i \div Width + 1 \in 1 .. IndexCells /\ i % Width \in Bits  BY BitPlace
  <2> QED BY <2>1 DEF Bit, BlankIndex, Blank
<1> QED BY <1>1, <1>2, <1>3

(* setIndexUsed clears the bit of its slot and no other *)
LEMMA SetUsedUses ==
  ASSUME NEW index \in Indexes, NEW n \in 0 .. IndexBits - 1, Used(index, n)
  PROVE  Used(SetUsed(index, n), n + 1)
<1> SUFFICES ASSUME NEW i \in 0 .. IndexBits - 1
             PROVE  Bit(SetUsed(index, n), i) <=> n + 1 <= i
  BY DEF Used
<1> DEFINE w == n \div Width + 1  v == i \div Width + 1
<1>1. w \in 1 .. IndexCells /\ v \in 1 .. IndexCells  BY BitPlace
<1>2. Bit(index, i) <=> n <= i  BY DEF Used
<1>3. SetUsed(index, n) = [index EXCEPT ![w] = index[w] \ {n % Width}]  BY DEF SetUsed
<1>4. CASE v = w
  <2>1. SetUsed(index, n)[v] = index[v] \ {n % Width}
    <3> HIDE DEF w, v
    <3> QED BY <1>1, <1>3, <1>4 DEF Indexes
  <2>2. i \div Width = n \div Width
    <3>1. i \div Width \in Int /\ n \div Width \in Int  BY FlashAssumption, IndexType
    <3> QED BY <1>4, <3>1
  <2>3. i % Width = n % Width => i = n  BY <2>2, BitsApart
  <2>4. Bit(SetUsed(index, n), i) <=> Bit(index, i) /\ i % Width # n % Width
    BY <2>1 DEF Bit
  <2> QED BY <2>3, <2>4, <1>2, IndexType
<1>5. CASE v # w
  <2>1. SetUsed(index, n)[v] = index[v]
    <3> HIDE DEF w, v
    <3> QED BY <1>1, <1>3, <1>5 DEF Indexes
  <2>2. i # n  BY <1>5
  <2>3. Bit(SetUsed(index, n), i) <=> Bit(index, i)  BY <2>1 DEF Bit
  <2> QED BY <2>2, <2>3, <1>2, IndexType
<1> QED BY <1>4, <1>5

LEMMA SetUsedType ==
  ASSUME NEW index \in Indexes, NEW n
  PROVE  /\ SetUsed(index, n) \in Indexes
         /\ \A i \in 1 .. IndexCells : SetUsed(index, n)[i] \subseteq index[i]
         /\ \A i \in 1 .. IndexCells : i # n \div Width + 1 => SetUsed(index, n)[i] = index[i]
<1> DEFINE w == n \div Width + 1
<1>1. SetUsed(index, n) = [index EXCEPT ![w] = index[w] \ {n % Width}]  BY DEF SetUsed
<1> HIDE DEF w
<1>2. \A i \in 1 .. IndexCells : index[i] \in Values  BY DEF Indexes
<1>3. \A i \in 1 .. IndexCells :
        SetUsed(index, n)[i] = IF i = w THEN index[w] \ {n % Width} ELSE index[i]
  BY <1>1 DEF Indexes
<1>4. SetUsed(index, n) = [i \in 1 .. IndexCells |-> SetUsed(index, n)[i]]
  BY <1>1 DEF Indexes
<1>5. \A i \in 1 .. IndexCells : SetUsed(index, n)[i] \in Values
  BY <1>2, <1>3 DEF Values
<1>6. SetUsed(index, n) \in Indexes
  <2> DEFINE s == SetUsed(index, n)
  <2> HIDE DEF s
  <2> QED BY <1>4, <1>5 DEF Indexes, s
<1>7. \A i \in 1 .. IndexCells : SetUsed(index, n)[i] \subseteq index[i]  BY <1>3
<1> QED BY <1>3, <1>6, <1>7 DEF w

(* The default configuration *)
LEMMA DefaultType ==
  /\ Default \in Images
  /\ Default[1] = Version[1] /\ Default[2] = Version[2]
  /\ \A x \in Values : Config(x) \in Images
  /\ \A x \in Values : Config(x)[1] = Version[1] /\ Config(x)[2] = Version[2]
<1>1. DataCells \in Nat /\ DataCells > 2  BY WearLevelingAssumption
<1>2. ASSUME NEW x \in Values
      PROVE  Config(x) \in Images /\ Config(x)[1] = Version[1] /\ Config(x)[2] = Version[2]
  <2> DEFINE pins == [i \in 1 .. DataCells - 2 |-> x]
  <2>1. Version \in Seq(Values) /\ Len(Version) = 2  BY BlankType DEF Version
  <2>2. pins \in Seq(Values) /\ Len(pins) = DataCells - 2  BY <1>1
  <2>3. Config(x) = Version \o pins  BY DEF Config
  <2> HIDE DEF pins
  <2>7. /\ Version \o pins \in Seq(Values)
        /\ Len(Version \o pins) = Len(Version) + Len(pins)
        /\ \A i \in 1 .. Len(Version) + Len(pins) :
              (Version \o pins)[i] = IF i <= Len(Version) THEN Version[i] ELSE pins[i - Len(Version)]
    BY ONLY <2>1, <2>2, ConcatProperties
  <2>4. Config(x) \in Seq(Values) /\ Len(Config(x)) = DataCells  BY <2>1, <2>2, <2>3, <2>7, <1>1
  <2>5. Config(x)[1] = Version[1] /\ Config(x)[2] = Version[2]  BY <2>1, <2>2, <2>3, <2>7, <1>1
  <2>6. Config(x) \in Images  BY <2>4 DEF Images
  <2> QED BY <2>5, <2>6
<1> QED BY <1>2, BlankType DEF Default

(* What is read of the medium *)
LEMMA ReadType ==
  ASSUME NEW f \in Media
  PROVE  /\ IndexOf(f) \in Indexes
         /\ \A k : DataOf(f, k) \in Images
         /\ LoadedOf(f) \in Images
         /\ LoadedOf(f)[1] = Version[1] /\ LoadedOf(f)[2] = Version[2]
<1>1. \A c \in Cells : f[c] \in Values  BY DEF Media
<1>2. \A i \in 1 .. IndexCells : i - 1 \in Cells  BY IndexType, AreaType DEF Cells
<1>3. IndexOf(f) \in Indexes  BY <1>1, <1>2 DEF IndexOf, Indexes
<1>4. \A k : DataOf(f, k) \in Images  BY <1>1, BlankType DEF DataOf, Images
<1>5. LoadedOf(f) \in Images /\ LoadedOf(f)[1] = Version[1] /\ LoadedOf(f)[2] = Version[2]
  <2> DEFINE last == DataOf(f, FindNextIndex(IndexOf(f)) - 1)
  <2>1. last \in Images  BY <1>4
  <2>2. \/ LoadedOf(f) = Default
        \/ LoadedOf(f) = last /\ last[1] = Version[1] /\ last[2] = Version[2]
    BY DEF LoadedOf
  <2> HIDE DEF last
  <2> QED BY <2>1, <2>2, DefaultType
<1> QED BY <1>3, <1>4, <1>5

(* A start-up loads the same from two media that agree up to the end of    *)
(* the slots in use.                                                       *)
LEMMA LoadedSame ==
  ASSUME NEW f \in Media, NEW g \in Media, NEW n \in Nat, DataLocation(n) <= AllCells,
         Used(IndexOf(f), n), \A c \in Cells : c < DataLocation(n) => g[c] = f[c]
  PROVE  IndexOf(g) = IndexOf(f) /\ LoadedOf(g) = LoadedOf(f)
<1>1. n \in 0 .. IndexBits  BY SlotHasABit, IndexType
<1>2. IndexCells <= DataLocation(n) /\ DataLocation(n) \in Nat  BY Slots
<1>3. IndexOf(g) = IndexOf(f)
  <2>1. \A i \in 1 .. IndexCells : i - 1 \in Cells /\ i - 1 < DataLocation(n)
    BY <1>2, IndexType, AreaType DEF Cells
  <2> QED BY <2>1 DEF IndexOf
<1>4. FindNextIndex(IndexOf(f)) = n  BY <1>1, NextIndexOfUsed
<1>5. CASE n = 0  BY <1>3, <1>4, <1>5 DEF LoadedOf
<1>6. CASE n # 0
  <2>1. n - 1 \in Nat /\ n - 1 < n  BY <1>6
  <2>2. DataLocation(n - 1) \in Nat /\ DataLocation(n - 1) + DataCells <= DataLocation(n)
    BY <2>1, Slots
  <2>3. \A i \in 1 .. DataCells : DataLocation(n - 1) + i - 1 < DataLocation(n)
    BY <2>2, <1>2, WearLevelingAssumption
  <2>4. DataOf(g, n - 1) = DataOf(f, n - 1)  BY <2>3 DEF DataOf
  <2> QED BY <1>3, <1>4, <2>4 DEF LoadedOf
<1> QED BY <1>3, <1>5, <1>6

(* It loads what lies in the last slot in use *)
LEMMA LoadedMarked ==
  ASSUME NEW f \in Media, NEW n \in Nat, DataLocation(n + 1) <= AllCells,
         Used(IndexOf(f), n + 1), NEW image \in Images,
         image[1] = Version[1], image[2] = Version[2],
         \A i \in 1 .. DataCells : f[DataLocation(n) + i - 1] = image[i]
  PROVE  LoadedOf(f) = image
<1>1. n + 1 \in 0 .. IndexBits /\ n + 1 > 0 /\ (n + 1) - 1 = n  BY SlotHasABit, IndexType
<1>2. FindNextIndex(IndexOf(f)) = n + 1  BY <1>1, NextIndexOfUsed
<1>3. DataCells \in Nat  BY WearLevelingAssumption
<1>4. DataLocation(n) \in Nat /\ DataLocation(n + 1) = DataLocation(n) + DataCells  BY Slots
<1>5. \A i \in 1 .. DataCells : DataLocation(n) + i - 1 \in Cells
  BY <1>3, <1>4, AreaType DEF Cells
<1>6. DataOf(f, n) = [i \in 1 .. DataCells |-> image[i]]  BY <1>5 DEF DataOf
<1>7. DataOf(f, n) = image  BY <1>6 DEF Images
<1> QED BY <1>1, <1>2, <1>7 DEF LoadedOf

(* It loads the default from a medium whose first cell is blank *)
LEMMA LoadedBlank ==
  ASSUME NEW f \in Media, f[0] = Blank
  PROVE  LoadedOf(f) = Default
<1>1. IndexOf(f)[1] = f[0]  BY IndexType DEF IndexOf
<1>2. FindNextIndex(IndexOf(f)) = 0  BY <1>1, BlankType, NextIndexZero
<1> QED BY <1>2 DEF LoadedOf

-----------------------------------------------------------------------------
(* The calls of Flash *)

(* The bytes of the configuration and of the index, as write takes them *)
LEMMA ImagesAreSeqs ==
  /\ \A x \in Images : x \in Seq(Values) /\ Len(x) = DataCells
  /\ \A x \in Indexes : x \in Seq(Values) /\ Len(x) = IndexCells
BY IndexType, WearLevelingAssumption DEF Images, Indexes

(* A call as it begins *)
Fresh(call, step, dest, input) ==
  /\ call \in Calls
  /\ call.step = step /\ call.dest = dest /\ call.input = input
  /\ call.todo = <<>> /\ call.sector = 0 /\ call.ok

LEMMA NewCall ==
  /\ Fresh(NoJob, "none", 0, <<>>)
  /\ \A dest \in Nat, input \in Seq(Values) :
       Fresh([NoJob EXCEPT !.step = "check", !.dest = dest, !.input = input], "check", dest, input)
  /\ Fresh([NoJob EXCEPT !.step = "eraseAll"], "eraseAll", 0, <<>>)
<1>1. 0 \in 0 .. SectorCount  BY FlashAssumption
<1>2. <<>> \in Seq(Values) /\ <<>> \in Seq(Cells \X Values)  OBVIOUS
<1>3. Fresh(NoJob, "none", 0, <<>>)
  <2>1. NoJob \in Calls  BY <1>1, <1>2 DEF NoJob, Calls, Steps
  <2> QED BY <2>1 DEF NoJob, Fresh
<1>4. ASSUME NEW dest \in Nat, NEW input \in Seq(Values)
      PROVE  Fresh([NoJob EXCEPT !.step = "check", !.dest = dest, !.input = input], "check", dest, input)
  BY <1>3 DEF Fresh, Calls, Steps
<1>5. Fresh([NoJob EXCEPT !.step = "eraseAll"], "eraseAll", 0, <<>>)
  BY <1>3 DEF Fresh, Calls, Steps
<1> QED BY <1>3, <1>4, <1>5

(* One program off the list, and what it does to the medium *)
IsTail(rest, todo) ==
  todo # <<>> /\ Len(rest) = Len(todo) - 1 /\ \A i \in 1 .. Len(rest) : rest[i] = todo[i + 1]
Programs(f, g, c, value) == g = [f EXCEPT ![c] = f[c] \cap value]

(* The programs of the input *)
LEMMA DataProgramsType ==
  ASSUME NEW dest \in Nat, NEW input \in Seq(Values), InRange(dest, Len(input))
  PROVE  /\ DataPrograms(dest, input) \in Seq(Cells \X Values)
         /\ Len(DataPrograms(dest, input)) = Len(input)
         /\ \A i \in 1 .. Len(input) :
              DataPrograms(dest, input)[i] = <<dest + i - 1, input[i]>>
<1>1. \A i \in 1 .. Len(input) : dest + i - 1 \in Cells /\ input[i] \in Values
  BY AreaType DEF InRange, Cells
<1>2. Len(input) \in Nat  OBVIOUS
<1> QED BY <1>1, <1>2 DEF DataPrograms

(* An erased sector is blank, the rest is as it was *)
LEMMA ErasedType ==
  ASSUME flash \in Media, NEW s
  PROVE  /\ Erased(s) \in Media
         /\ \A c \in Cells : Erased(s)[c] = IF c \div SectorCells = s THEN Blank ELSE flash[c]
<1>1. \A c \in Cells : c \in Sector(s) <=> c \div SectorCells = s  BY DEF Sector
<1> QED BY <1>1, BlankType DEF Erased, Media

(* The programs that mean to restore the rest of an erased sector: those   *)
(* after the destination all go to the cell behind the input.              *)
LEMMA RetainedType ==
  ASSUME NEW f \in Media, NEW dest \in Nat, NEW len \in Nat \ {0}, InRange(dest, len),
         NEW beyond \in Values
  PROVE  /\ RetainStart(f, dest, beyond) \in Seq(Cells \X Values)
         /\ dest = 0 => RetainStart(f, dest, beyond) = <<>>
         /\ RetainEnd(f, dest, len) \in Seq(Cells \X Values)
         /\ \A k \in 1 .. Len(RetainEnd(f, dest, len)) : RetainEnd(f, dest, len)[k][1] = dest + len
<1> DEFINE start == TableStart(TableSector(dest))
           inside == IF dest - start < SectorCells THEN dest - start ELSE SectorCells
           end == dest + len
           limit == start + SectorCells
           first == [k \in 1 .. inside |-> <<start, f[start + k - 1]>>]
           more == IF dest - start > SectorCells THEN <<<<start, beyond>>>> ELSE <<>>
<1>1. dest \in Cells /\ SectorCells \in Nat  BY AreaType, FlashAssumption DEF InRange, Cells
<1>2. start \in Nat /\ start <= dest /\ limit <= AllCells  BY <1>1, TableInArea
<1>3. RetainStart(f, dest, beyond) = first \o more  BY DEF RetainStart
<1>4. RetainEnd(f, dest, len) = IF OneTableSector(dest, len) /\ end < limit - 1
                                  THEN [k \in 1 .. limit - end |-> <<end, f[end + k - 1]>>]
                                  ELSE <<>>
  BY DEF RetainEnd
<1> HIDE DEF start
<1>5. \A c \in Cells : f[c] \in Values  BY DEF Media
<1>6. \A c \in Nat : c < AllCells => c \in Cells  BY AreaType DEF Cells
<1>7. start \in Cells  BY <1>2, <1>1, <1>6, AreaType DEF Cells
<1>8. inside \in Nat /\ \A k \in 1 .. inside : start + k - 1 \in Cells
  BY <1>1, <1>2, <1>6, AreaType
<1>9. first \in Seq(Cells \X Values)
  <2>1. \A k \in 1 .. inside : <<start, f[start + k - 1]>> \in Cells \X Values
    BY <1>5, <1>7, <1>8
  <2> HIDE DEF inside
  <2> QED BY <2>1, <1>8
<1>10. more \in Seq(Cells \X Values)  BY <1>7
<1>11. first \o more \in Seq(Cells \X Values)
  <2> HIDE DEF first, more
  <2> QED BY <1>9, <1>10, ConcatProperties
<1>12. ASSUME dest = 0 PROVE first \o more = <<>>
  <2>1. start = 0 /\ inside = 0  BY <1>1, <1>2, <1>12, FlashAssumption
  <2>2. first = <<>> /\ more = <<>>  BY <2>1, <1>1, <1>12
  <2> HIDE DEF first, more
  <2> QED BY <2>2
<1>13. CASE OneTableSector(dest, len) /\ end < limit - 1
  <2>1. limit - end \in Nat /\ end \in Nat /\ end \in Cells  BY <1>1, <1>2, <1>13, <1>6, AreaType
  <2>2. \A k \in 1 .. limit - end : end + k - 1 \in Cells  BY <1>1, <1>2, <2>1, <1>6, AreaType
  <2>3. RetainEnd(f, dest, len) = [k \in 1 .. limit - end |-> <<end, f[end + k - 1]>>]
    BY <1>4, <1>13
  <2>4. \A k \in 1 .. limit - end : <<end, f[end + k - 1]>> \in Cells \X Values
    BY <2>1, <2>2, <1>5
  <2> HIDE DEF limit, end
  <2>5. RetainEnd(f, dest, len) \in Seq(Cells \X Values) /\ Len(RetainEnd(f, dest, len)) = limit - end
    BY <2>1, <2>3, <2>4
  <2>6. \A k \in 1 .. limit - end : RetainEnd(f, dest, len)[k][1] = end  BY <2>3
  <2> QED BY <2>5, <2>6, <1>3, <1>11, <1>12 DEF end
<1>14. CASE ~(OneTableSector(dest, len) /\ end < limit - 1)
  <2>1. RetainEnd(f, dest, len) = <<>>  BY <1>4, <1>14
  <2> QED BY <2>1, <1>3, <1>11, <1>12
<1> QED BY <1>13, <1>14

-----------------------------------------------------------------------------
(* Types, and what a call of Flash is about *)

LEMMA CoreIsType == TypeCore => TypeOK
BY DEF TypeCore, TypeOK, FlashType, JobType, Calls, Media, Indexes, Images

(* A write under way has a place and an input *)
LEMMA WriteFacts ==
  ASSUME TypeInv, job.step \in {"check", "erase", "program"}
  PROVE  /\ pc \in {"data", "index"}
         /\ job.dest \in Nat /\ job.input \in Seq(Values) /\ Len(job.input) \in Nat \ {0}
         /\ job.step # "check" => InRange(job.dest, Len(job.input))
         /\ pc = "data" => job.dest = DataLocation(slot) /\ job.input = config /\ Len(job.input) = DataCells
         /\ pc = "index" => job.dest = 0 /\ job.input = ramIndex /\ Len(job.input) = IndexCells
<1>1. TypeCore /\ CallInv  BY DEF TypeInv
<1>2. job.step # "none" /\ job.step # "eraseAll" /\ job.step # "done"  OBVIOUS
<1>3. pc \in {"data", "index"}
  <2>1. pc \notin {"idle", "off"}  BY <1>1, <1>2, NewCall DEF CallInv, Fresh
  <2>2. pc \notin {"wrap", "reset"}  BY <1>1, <1>2 DEF CallInv, EraseCall
  <2> QED BY <1>1, <2>1, <2>2 DEF TypeCore
<1>4. job.dest \in Nat /\ job.input \in Seq(Values)  BY <1>1 DEF TypeCore, Calls
<1>5. pc = "data" => WriteCall(DataLocation(slot), config)  BY <1>1 DEF CallInv
<1>6. pc = "index" => WriteCall(0, ramIndex)  BY <1>1 DEF CallInv
<1>7. Len(config) = DataCells /\ Len(ramIndex) = IndexCells
  BY <1>1, ImagesAreSeqs DEF TypeCore
<1>8. DataCells \in Nat \ {0} /\ IndexCells \in Nat \ {0}  BY IndexType, WearLevelingAssumption
<1> QED BY <1>3, <1>4, <1>5, <1>6, <1>7, <1>8 DEF WriteCall

(* The two kinds of call, and when there is none *)
LEMMA CallOf ==
  ASSUME TypeInv
  PROVE  /\ pc \in {"idle", "off"} => job = NoJob /\ job.step = "none"
         /\ job.step = "eraseAll" => pc \in {"wrap", "reset"}
         /\ job.step \in {"check", "erase", "program"} => pc \in {"data", "index"}
         /\ job.step = "none" => pc \in {"idle", "off"}
<1>1. TypeCore /\ CallInv  BY DEF TypeInv
<1>2. pc \in {"idle", "off"} => job = NoJob /\ job.step = "none"  BY <1>1, NewCall DEF CallInv, Fresh
<1>3. pc \in {"data", "index"} => job.step \in {"check", "erase", "program", "done"}
  BY <1>1 DEF CallInv, WriteCall
<1>4. pc \in {"wrap", "reset"} => job.step \in {"eraseAll", "done"}  BY <1>1 DEF CallInv, EraseCall
<1> QED BY <1>1, <1>2, <1>3, <1>4 DEF TypeCore

(* What each operation of Flash does to the medium and to the call *)
LEMMA RejectFacts ==
  ASSUME TypeInv, RejectRange
  PROVE  /\ job' \in Calls /\ flash' = flash
         /\ job.step = "check" /\ job'.step = "done" /\ ~job'.ok
         /\ ~InRange(job.dest, Len(job.input))
         /\ job'.dest = job.dest /\ job'.input = job.input
BY DEF TypeInv, TypeCore, RejectRange, Calls, Steps

LEMMA AcceptFacts ==
  ASSUME TypeInv, Accept
  PROVE  /\ job' \in Calls /\ flash' = flash
         /\ job.step = "check" /\ InRange(job.dest, Len(job.input))
         /\ job'.ok = job.ok /\ job'.dest = job.dest /\ job'.input = job.input
         /\ \/ NeedsErase(job.dest, job.input) /\ job'.step = "erase"
            \/ /\ ~NeedsErase(job.dest, job.input) /\ job'.step = "program"
               /\ job'.todo = DataPrograms(job.dest, job.input)
<1>1. job \in Calls  BY DEF TypeInv, TypeCore
<1>2. job.dest \in Nat /\ job.input \in Seq(Values) /\ InRange(job.dest, Len(job.input))
      /\ job.step = "check" /\ flash' = flash
  BY WriteFacts DEF Accept
<1> DEFINE todo == DataPrograms(job.dest, job.input)
<1>3. todo \in Seq(Cells \X Values)  BY <1>2, DataProgramsType
<1>4. job' = IF NeedsErase(job.dest, job.input)
              THEN [job EXCEPT !.step = "erase"]
              ELSE [job EXCEPT !.step = "program", !.todo = todo]
  BY DEF Accept
<1> HIDE DEF todo
<1>5. CASE NeedsErase(job.dest, job.input)
  <2>1. job' = [job EXCEPT !.step = "erase"]  BY <1>4, <1>5
  <2> QED BY <1>1, <1>2, <1>5, <2>1 DEF Calls, Steps
<1>6. CASE ~NeedsErase(job.dest, job.input)
  <2>1. job' = [job EXCEPT !.step = "program", !.todo = todo]  BY <1>4, <1>6
  <2>2. /\ job' \in Calls /\ job'.step = "program" /\ job'.todo = todo
        /\ job'.ok = job.ok /\ job'.dest = job.dest /\ job'.input = job.input
    BY <1>1, <1>3, <2>1 DEF Calls, Steps
  <2> QED BY <1>2, <1>6, <2>2 DEF todo
<1> QED BY <1>5, <1>6

LEMMA EraseFacts ==
  ASSUME TypeInv, EraseSector
  PROVE  /\ job' \in Calls /\ flash' \in Media /\ flash' = Erased(TableSector(job.dest))
         /\ job.step = "erase" /\ job'.step = "program"
         /\ job'.ok = job.ok /\ job'.dest = job.dest /\ job'.input = job.input
         /\ \E beyond \in Values :
              job'.todo = RetainStart(flash', job.dest, beyond)
                            \o RetainEnd(flash', job.dest, Len(job.input))
                            \o DataPrograms(job.dest, job.input)
<1>1. job \in Calls /\ flash \in Media  BY DEF TypeInv, TypeCore
<1>2. /\ job.dest \in Nat /\ job.input \in Seq(Values) /\ InRange(job.dest, Len(job.input))
      /\ Len(job.input) \in Nat \ {0} /\ job.step = "erase"
  BY WriteFacts DEF EraseSector
<1>3. flash' = Erased(TableSector(job.dest)) /\ flash' \in Media
  BY <1>1, ErasedType DEF EraseSector
<1> DEFINE todo(beyond) == RetainStart(flash', job.dest, beyond)
                             \o RetainEnd(flash', job.dest, Len(job.input))
                             \o DataPrograms(job.dest, job.input)
<1>4. PICK beyond \in Values : job' = [job EXCEPT !.step = "program", !.todo = todo(beyond)]
  BY DEF EraseSector
<1>5. todo(beyond) \in Seq(Cells \X Values)
  <2>1. /\ RetainStart(flash', job.dest, beyond) \in Seq(Cells \X Values)
        /\ RetainEnd(flash', job.dest, Len(job.input)) \in Seq(Cells \X Values)
    BY <1>2, <1>3, RetainedType
  <2>2. DataPrograms(job.dest, job.input) \in Seq(Cells \X Values)  BY <1>2, DataProgramsType
  <2>3. \A s, t \in Seq(Cells \X Values) : s \o t \in Seq(Cells \X Values)  BY ConcatProperties
  <2> QED BY <2>1, <2>2, <2>3
<1> HIDE DEF todo
<1>6. /\ job' \in Calls /\ job'.step = "program" /\ job'.todo = todo(beyond)
      /\ job'.ok = job.ok /\ job'.dest = job.dest /\ job'.input = job.input
  BY <1>1, <1>4, <1>5 DEF Calls, Steps
<1> QED BY <1>2, <1>3, <1>6 DEF todo

LEMMA ProgramFacts ==
  ASSUME TypeInv, ProgramCell
  PROVE  /\ job' \in Calls /\ flash' \in Media
         /\ job.todo # <<>> /\ job.todo[1] \in Cells \X Values
         /\ Programs(flash, flash', job.todo[1][1], job.todo[1][2])
         /\ job.step = "program" /\ job'.step = "program" /\ Len(job.todo) \in Nat \ {0}
         /\ job'.todo = Tail(job.todo) /\ Len(job'.todo) = Len(job.todo) - 1
         /\ IsTail(job'.todo, job.todo)
         /\ job'.ok = job.ok /\ job'.dest = job.dest /\ job'.input = job.input
<1>1. job \in Calls /\ flash \in Media  BY DEF TypeInv, TypeCore
<1>2. job.todo \in Seq(Cells \X Values) /\ job.todo # <<>> /\ job.step = "program"
  BY <1>1 DEF ProgramCell, Calls
<1> DEFINE todo == job.todo
<1>3. Head(todo) \in Cells \X Values /\ Tail(todo) \in Seq(Cells \X Values)
      /\ Len(Tail(todo)) = Len(todo) - 1 /\ \A i \in 1 .. Len(Tail(todo)) : Tail(todo)[i] = todo[i + 1]
  <2> HIDE DEF todo
  <2>1. todo \in Seq(Cells \X Values) /\ todo # <<>>  BY <1>2 DEF todo
  <2> QED BY <2>1, HeadTailProperties
<1>4. Head(todo) = todo[1] /\ Len(todo) \in Nat \ {0}  BY <1>2
<1>5. flash' = [flash EXCEPT ![todo[1][1]] = flash[todo[1][1]] \cap todo[1][2]]
  BY <1>4 DEF ProgramCell
<1>6. todo[1][1] \in Cells /\ todo[1][2] \in Values  BY <1>3, <1>4
<1>7. flash' \in Media
  <2> DEFINE c == todo[1][1]  v == flash[c] \cap todo[1][2]
  <2>1. v \in Values  BY <1>6 DEF Values
  <2>2. c \in Cells /\ flash' = [flash EXCEPT ![c] = v]  BY <1>5, <1>6
  <2> HIDE DEF c, v
  <2> QED BY <1>1, <2>1, <2>2 DEF Media
<1>8. job' = [job EXCEPT !.todo = Tail(todo)]  BY DEF ProgramCell
<1>9. /\ job' \in Calls /\ job'.todo = Tail(todo) /\ job'.step = "program"
      /\ job'.ok = job.ok /\ job'.dest = job.dest /\ job'.input = job.input
  BY <1>1, <1>2, <1>3, <1>8 DEF Calls
<1> QED BY <1>2, <1>3, <1>4, <1>5, <1>7, <1>9 DEF IsTail, Programs

LEMMA WriteReturnsFacts ==
  ASSUME TypeInv, WriteReturns
  PROVE  /\ job' \in Calls /\ flash' = flash
         /\ job.step = "program" /\ job.todo = <<>> /\ job'.step = "done"
         /\ job'.ok = job.ok /\ job'.dest = job.dest /\ job'.input = job.input
BY DEF TypeInv, TypeCore, WriteReturns, Calls, Steps

LEMMA EraseNextFacts ==
  ASSUME TypeInv, EraseNext
  PROVE  /\ job' \in Calls /\ flash' \in Media
         /\ job.step = "eraseAll" /\ job'.step = "eraseAll" /\ job'.ok = job.ok
         /\ job.sector \in 0 .. SectorCount /\ job'.sector = job.sector + 1
         /\ \A c \in Cells : flash'[c] = IF c \div SectorCells = job.sector THEN Blank ELSE flash[c]
<1>1. job \in Calls /\ flash \in Media /\ SectorCount \in Nat
  BY FlashAssumption DEF TypeInv, TypeCore
<1>2. job.sector \in 0 .. SectorCount /\ job.sector + 1 \in 0 .. SectorCount
  BY <1>1 DEF EraseNext, Calls
<1>3. job' = [job EXCEPT !.sector = job.sector + 1] /\ job.step = "eraseAll"  BY DEF EraseNext
<1>4. job' \in Calls /\ job'.step = "eraseAll" /\ job'.ok = job.ok /\ job'.sector = job.sector + 1
  BY <1>1, <1>2, <1>3 DEF Calls
<1>5. flash' = Erased(job.sector)  BY DEF EraseNext
<1> QED BY <1>1, <1>2, <1>3, <1>4, <1>5, ErasedType

LEMMA EraseAllReturnsFacts ==
  ASSUME TypeInv, EraseAllReturns
  PROVE  /\ job' \in Calls /\ flash' = flash
         /\ job.step = "eraseAll" /\ job.sector = SectorCount /\ job'.step = "done" /\ job'.ok = job.ok
BY DEF TypeInv, TypeCore, EraseAllReturns, Calls, Steps

LEMMA EraseFailsFacts ==
  ASSUME TypeInv, EraseSectorFails
  PROVE  /\ job' \in Calls /\ flash' = flash
         /\ job.step = "erase" /\ job'.step = "program" /\ job'.todo = DataPrograms(job.dest, job.input)
         /\ job'.ok = job.ok /\ job'.dest = job.dest /\ job'.input = job.input
<1>1. job \in Calls  BY DEF TypeInv, TypeCore
<1>2. job.dest \in Nat /\ job.input \in Seq(Values) /\ InRange(job.dest, Len(job.input))
      /\ job.step = "erase" /\ flash' = flash
  BY WriteFacts DEF EraseSectorFails
<1> DEFINE todo == DataPrograms(job.dest, job.input)
<1>3. todo \in Seq(Cells \X Values)  BY <1>2, DataProgramsType
<1>4. job' = [job EXCEPT !.step = "program", !.todo = todo]  BY DEF EraseSectorFails
<1> HIDE DEF todo
<1>5. /\ job' \in Calls /\ job'.step = "program" /\ job'.todo = todo
      /\ job'.ok = job.ok /\ job'.dest = job.dest /\ job'.input = job.input
  BY <1>1, <1>3, <1>4 DEF Calls, Steps
<1> QED BY <1>2, <1>5 DEF todo

LEMMA ProgramFailsFacts ==
  ASSUME TypeInv, ProgramCellFails
  PROVE  /\ job' \in Calls /\ flash' = flash
         /\ job.step = "program" /\ job'.step = "program" /\ job'.todo = <<>> /\ ~job'.ok
         /\ job'.dest = job.dest /\ job'.input = job.input
<1>1. <<>> \in Seq(Cells \X Values)  OBVIOUS
<1> QED BY <1>1 DEF TypeInv, TypeCore, ProgramCellFails, Calls

LEMMA EraseNextFailsFacts ==
  ASSUME TypeInv, EraseNextFails
  PROVE  /\ job' \in Calls /\ flash' = flash
         /\ job.step = "eraseAll" /\ job'.step = "done" /\ ~job'.ok
BY DEF TypeInv, TypeCore, EraseNextFails, Calls, Steps

-----------------------------------------------------------------------------
(* The type invariant *)

LEMMA TypeInit == Init => TypeInv
<1> SUFFICES ASSUME Init PROVE TypeInv  OBVIOUS
<1>1. flash \in Media  BY BlankType DEF Init, InitFlash, Media
<1>2. job = NoJob /\ job \in Calls  BY NewCall DEF Init, InitFlash, Fresh
<1>3. TypeCore
  BY <1>1, <1>2, BlankUsesNone, DefaultType, WearLevelingAssumption DEF Init, TypeCore
<1>4. CallInv  BY <1>2 DEF Init, CallInv
<1>5. ConfigInv  BY DefaultType DEF Init, ConfigInv
<1> QED BY <1>3, <1>4, <1>5 DEF TypeInv

(* A call keeps its arguments *)
LEMMA TypeWrite ==
  ASSUME TypeInv, TypeCore', UNCHANGED <<pc, slot, config, ramIndex, committed>>,
         pc \in {"data", "index"}, job'.dest = job.dest, job'.input = job.input,
         job'.step \in {"check", "erase", "program", "done"},
         job'.step \in {"check", "erase"} => job'.ok,
         job'.step \in {"erase", "program"} => InRange(job'.dest, Len(job'.input))
  PROVE  TypeInv'
<1>1. CallInv  BY DEF TypeInv
<1>2. pc = "data" => WriteCall(DataLocation(slot), config)'  BY <1>1 DEF CallInv, WriteCall
<1>3. pc = "index" => WriteCall(0, ramIndex)'  BY <1>1 DEF CallInv, WriteCall
<1>4. CallInv'  BY <1>2, <1>3 DEF CallInv
<1> QED BY <1>4 DEF TypeInv, ConfigInv

LEMMA TypeErase ==
  ASSUME TypeInv, TypeCore', UNCHANGED <<pc, slot, config, ramIndex, committed>>,
         pc \in {"wrap", "reset"}, EraseCall'
  PROVE  TypeInv'
BY DEF TypeInv, ConfigInv, CallInv

LEMMA TypeFlashWorks ==
  ASSUME TypeInv, FlashWorks
  PROVE  TypeInv'
<1>1. TypeCore /\ CallInv  BY DEF TypeInv
<1>2. UNCHANGED <<ramIndex, config, pc, slot, result, committed, risk, stores, crashes, faults>>
  BY DEF FlashWorks
<1>3. flash' \in Media /\ job' \in Calls => TypeCore'  BY <1>1, <1>2 DEF TypeCore
<1>4. flash \in Media  BY <1>1 DEF TypeCore
<1>5. pc = "data" => WriteCall(DataLocation(slot), config)  BY <1>1 DEF CallInv
<1>6. pc = "index" => WriteCall(0, ramIndex)  BY <1>1 DEF CallInv
<1>7. job.step \in {"check", "erase"} => job.ok
  BY <1>5, <1>6, WriteFacts DEF WriteCall
<1>8. pc \in {"wrap", "reset"} => EraseCall  BY <1>1 DEF CallInv
<1>9. CASE RejectRange
  BY <1>2, <1>3, <1>4, <1>9, RejectFacts, WriteFacts, TypeWrite
<1>10. CASE Accept
  BY <1>2, <1>3, <1>4, <1>7, <1>10, AcceptFacts, WriteFacts, TypeWrite
<1>11. CASE EraseSector
  BY <1>2, <1>3, <1>11, EraseFacts, WriteFacts, TypeWrite
<1>12. CASE ProgramCell
  BY <1>2, <1>3, <1>12, ProgramFacts, WriteFacts, TypeWrite
<1>13. CASE WriteReturns
  BY <1>2, <1>3, <1>4, <1>13, WriteReturnsFacts, WriteFacts, TypeWrite
<1>14. CASE EraseNext
  <2>1. /\ job' \in Calls /\ flash' \in Media
        /\ job.step = "eraseAll" /\ job'.step = "eraseAll"
        /\ job.sector \in 0 .. SectorCount /\ job'.sector = job.sector + 1
        /\ \A c \in Cells : flash'[c] = IF c \div SectorCells = job.sector THEN Blank ELSE flash[c]
    BY <1>14, EraseNextFacts
  <2>2. pc \in {"wrap", "reset"} /\ EraseCall  BY <2>1, <1>8, CallOf
  <2>3. \A c \in Cells : c \div SectorCells < job'.sector => flash'[c] = Blank
    <3> SUFFICES ASSUME NEW c \in Cells, c \div SectorCells < job'.sector PROVE flash'[c] = Blank
      OBVIOUS
    <3>1. c \div SectorCells = job.sector \/ c \div SectorCells < job.sector
      BY <2>1, SectorOf, FlashAssumption
    <3> QED BY <2>1, <2>2, <3>1 DEF EraseCall
  <2>4. EraseCall'  BY <2>1, <2>3 DEF EraseCall
  <2> QED BY <1>2, <1>3, <2>1, <2>2, <2>4, TypeErase
<1>15. CASE EraseAllReturns
  <2>1. /\ job' \in Calls /\ flash' = flash /\ job'.step = "done"
        /\ job.step = "eraseAll" /\ job.sector = SectorCount
    BY <1>15, EraseAllReturnsFacts
  <2>2. pc \in {"wrap", "reset"} /\ EraseCall  BY <2>1, <1>8, CallOf
  <2>3. \A c \in Cells : flash[c] = Blank
    <3> TAKE c \in Cells
    <3>1. c \div SectorCells < job.sector  BY <2>1, SectorOf, FlashAssumption
    <3> QED BY <2>1, <2>2, <3>1 DEF EraseCall
  <2>4. EraseCall'  BY <2>1, <2>3 DEF EraseCall, AllBlank
  <2> QED BY <1>2, <1>3, <1>4, <2>1, <2>2, <2>4, TypeErase
<1> QED BY <1>9, <1>10, <1>11, <1>12, <1>13, <1>14, <1>15 DEF FlashWorks, Works

LEMMA TypeFlashFails ==
  ASSUME TypeInv, FlashFails
  PROVE  TypeInv'
<1>1. TypeCore /\ CallInv  BY DEF TypeInv
<1>2. UNCHANGED <<ramIndex, config, pc, slot, result, committed, stores, crashes>>
      /\ faults < MaxFaults /\ faults' = faults + 1
      /\ risk' = IF risk = "none" THEN "armed" ELSE risk
  BY DEF FlashFails
<1>3. flash' \in Media /\ job' \in Calls => TypeCore'
  <2>1. faults' \in 0 .. MaxFaults
    <3>1. faults \in 0 .. MaxFaults  BY <1>1 DEF TypeCore
    <3> QED BY <1>2, <3>1, WearLevelingAssumption
  <2>2. risk' \in {"none", "armed", "spent"}  BY <1>1, <1>2 DEF TypeCore
  <2> QED BY <1>1, <1>2, <2>1, <2>2 DEF TypeCore
<1>4. flash \in Media  BY <1>1 DEF TypeCore
<1>5. CASE EraseSectorFails
  BY <1>2, <1>3, <1>4, <1>5, EraseFailsFacts, WriteFacts, TypeWrite
<1>6. CASE ProgramCellFails
  BY <1>2, <1>3, <1>4, <1>6, ProgramFailsFacts, WriteFacts, TypeWrite
<1>7. CASE EraseNextFails
  <2>1. /\ job' \in Calls /\ flash' = flash
        /\ job.step = "eraseAll" /\ job'.step = "done" /\ ~job'.ok
    BY <1>7, EraseNextFailsFacts
  <2>2. pc \in {"wrap", "reset"}  BY <2>1, CallOf
  <2>3. EraseCall'  BY <2>1 DEF EraseCall
  <2> QED BY <1>2, <1>3, <1>4, <2>1, <2>2, <2>3, TypeErase
<1> QED BY <1>5, <1>6, <1>7 DEF FlashFails, Fails

(* The calls the wear levelling makes *)
LEMMA TypeCallWrite ==
  ASSUME TypeInv, UNCHANGED <<flash, config>>,
         NEW dest \in Nat, NEW input \in Seq(Values), CallWrite(dest, input)
  PROVE  /\ job' \in Calls /\ job'.step = "check" /\ job'.ok /\ job'.todo = <<>>
         /\ job'.dest = dest /\ job'.input = input
BY NewCall DEF CallWrite, Fresh

LEMMA TypeCallErase ==
  ASSUME TypeInv, UNCHANGED flash, CallEraseAll
  PROVE  job' \in Calls /\ job'.step = "eraseAll" /\ job'.ok /\ job'.sector = 0 /\ EraseCall'
<1>1. job' \in Calls /\ job'.step = "eraseAll" /\ job'.ok /\ job'.sector = 0
  BY NewCall DEF CallEraseAll, Fresh
<1>2. \A c \in Cells : ~(c \div SectorCells < job'.sector)
  BY <1>1, SectorOf, FlashAssumption
<1> QED BY <1>1, <1>2 DEF EraseCall

LEMMA TypeStore ==
  ASSUME TypeInv, Store
  PROVE  TypeInv'
<1>1. TypeCore /\ CallInv  BY DEF TypeInv
<1> DEFINE next == FindNextIndex(ramIndex)
<1>2. next \in Nat  BY NextIndexIsLeast, IndexType
<1>3. /\ pc = "idle" /\ stores < MaxStores /\ stores' = stores + 1 /\ result' = "none"
      /\ risk' = IF risk = "none" THEN "none" ELSE "spent"
      /\ UNCHANGED <<flash, ramIndex, config, crashes, faults>>
  BY DEF Store
<1>4. stores' \in 0 .. MaxStores
  <2>1. stores \in 0 .. MaxStores  BY <1>1 DEF TypeCore
  <2> QED BY <1>3, <2>1, WearLevelingAssumption
<1>5. job' \in Calls /\ pc' \in {"wrap", "data"} /\ slot' \in Nat => TypeCore'
  BY <1>1, <1>3, <1>4 DEF TypeCore
<1>6. config \in Seq(Values)  BY <1>1, ImagesAreSeqs DEF TypeCore
<1>7. DataLocation(next) \in Nat  BY <1>2, Slots
<1>8. ConfigInv'  BY <1>3 DEF TypeInv, ConfigInv
<1>9. CASE next > MaxElements
  <2>1. CallEraseAll /\ pc' = "wrap" /\ slot' = 0 /\ committed' = committed \cup {Default}
    BY <1>9 DEF Store
  <2>2. job' \in Calls /\ EraseCall'  BY <1>3, <2>1, TypeCallErase
  <2>3. CallInv'  BY <2>1, <2>2 DEF CallInv
  <2> QED BY <1>5, <1>8, <2>1, <2>2, <2>3 DEF TypeInv
<1>10. CASE ~(next > MaxElements)
  <2>1. CallWrite(DataLocation(next), config) /\ pc' = "data" /\ slot' = next
    BY <1>10 DEF Store
  <2> HIDE DEF next
  <2>2. /\ job' \in Calls /\ job'.step = "check" /\ job'.ok
        /\ job'.dest = DataLocation(slot') /\ job'.input = config'
    BY <1>3, <1>6, <1>7, <2>1, TypeCallWrite
  <2>3. WriteCall(DataLocation(slot), config)'  BY <2>2 DEF WriteCall
  <2>4. CallInv'  BY <2>1, <2>3 DEF CallInv
  <2> QED BY <1>2, <1>5, <1>8, <2>1, <2>2, <2>4 DEF TypeInv
<1> QED BY <1>9, <1>10

LEMMA TypeWrapped ==
  ASSUME TypeInv, Wrapped
  PROVE  TypeInv'
<1>1. TypeCore /\ CallInv  BY DEF TypeInv
<1>2. /\ pc' = "data" /\ ramIndex' = BlankIndex /\ CallWrite(DataLocation(slot), config)
      /\ risk' = IF job.ok THEN "none" ELSE "spent"
      /\ UNCHANGED <<flash, config, slot, result, committed, stores, crashes, faults>>
  BY DEF Wrapped
<1>3. config \in Seq(Values) /\ DataLocation(slot) \in Nat
  BY <1>1, ImagesAreSeqs, Slots DEF TypeCore
<1>4. job' \in Calls /\ WriteCall(DataLocation(slot), config)'
  <2> DEFINE dest == DataLocation(slot)
  <2>1. dest' = dest  BY <1>2 DEF DataLocation
  <2>2. job' \in Calls /\ job'.step = "check" /\ job'.ok /\ job'.dest = dest /\ job'.input = config
    BY <1>2, <1>3, TypeCallWrite
  <2> QED BY <1>2, <2>1, <2>2 DEF WriteCall
<1>5. TypeCore'  BY <1>1, <1>2, <1>4, BlankUsesNone DEF TypeCore
<1>6. CallInv'  BY <1>2, <1>4 DEF CallInv
<1> QED BY <1>2, <1>5, <1>6 DEF TypeInv, ConfigInv

LEMMA TypeDataWritten ==
  ASSUME TypeInv, DataWritten
  PROVE  TypeInv'
<1>1. TypeCore /\ CallInv  BY DEF TypeInv
<1>2. /\ pc' = "index" /\ ramIndex' = SetUsed(ramIndex, slot) /\ CallWrite(0, ramIndex')
      /\ UNCHANGED <<flash, config, slot, result, committed, risk, stores, crashes, faults>>
  BY DEF DataWritten
<1>3. ramIndex' \in Indexes  BY <1>1, <1>2, SetUsedType DEF TypeCore
<1>4. ramIndex' \in Seq(Values)  BY <1>3, ImagesAreSeqs
<1>5. job' \in Calls /\ WriteCall(0, ramIndex)'
  <2>1. job' \in Calls /\ job'.step = "check" /\ job'.ok /\ job'.dest = 0 /\ job'.input = ramIndex'
    BY <1>2, <1>4, TypeCallWrite
  <2> QED BY <2>1 DEF WriteCall
<1>6. TypeCore'  BY <1>1, <1>2, <1>3, <1>5 DEF TypeCore
<1>7. CallInv'  BY <1>2, <1>5 DEF CallInv
<1> QED BY <1>2, <1>6, <1>7 DEF TypeInv, ConfigInv

LEMMA TypeNext == TypeInv /\ [Next]_vars => TypeInv'
<1> SUFFICES ASSUME TypeInv, [Next]_vars PROVE TypeInv'  OBVIOUS
<1>1. TypeCore /\ CallInv /\ ConfigInv  BY DEF TypeInv
<1>2. CASE \E x \in Payloads : HandleConfiguration(x)
  <2>1. PICK x \in Payloads : HandleConfiguration(x)  BY <1>2
  <2>2. x \in Values  BY WearLevelingAssumption
  <2>3. config' \in Images /\ ConfigInv'  BY <2>1, <2>2, DefaultType DEF HandleConfiguration, ConfigInv
  <2>4. TypeCore'  BY <1>1, <2>1, <2>3 DEF TypeCore, HandleConfiguration
  <2>5. CallInv'  BY <1>1, <2>1 DEF CallInv, HandleConfiguration
  <2> QED BY <2>3, <2>4, <2>5 DEF TypeInv
<1>3. CASE Store  BY <1>3, TypeStore
<1>4. CASE Wrapped  BY <1>4, TypeWrapped
<1>5. CASE DataWritten  BY <1>5, TypeDataWritten
<1>6. CASE DataRefused
  <2>1. TypeCore'  BY <1>1, <1>6, NewCall DEF TypeCore, DataRefused, Return, Fresh
  <2> QED BY <1>1, <1>6, <2>1 DEF TypeInv, CallInv, ConfigInv, DataRefused, Return
<1>7. CASE IndexWritten
  <2>1. TypeCore'  BY <1>1, <1>7, NewCall DEF TypeCore, IndexWritten, Return, Fresh
  <2> QED BY <1>1, <1>7, <2>1 DEF TypeInv, CallInv, ConfigInv, IndexWritten, Return
<1>8. CASE ResetStorage
  <2>1. job' \in Calls /\ EraseCall'  BY <1>8, TypeCallErase DEF ResetStorage
  <2>2. stores' \in 0 .. MaxStores
    <3>1. stores \in 0 .. MaxStores /\ stores < MaxStores /\ stores' = stores + 1
      BY <1>1, <1>8 DEF TypeCore, ResetStorage
    <3> QED BY <3>1, WearLevelingAssumption
  <2>3. TypeCore'  BY <1>1, <1>8, <2>1, <2>2 DEF TypeCore, ResetStorage
  <2>4. CallInv'  BY <1>8, <2>1 DEF CallInv, ResetStorage
  <2> QED BY <1>1, <1>8, <2>3, <2>4 DEF TypeInv, ConfigInv, ResetStorage
<1>9. CASE ResetDone
  <2>1. TypeCore'  BY <1>1, <1>9, NewCall, BlankUsesNone DEF TypeCore, ResetDone, Return, Fresh
  <2> QED BY <1>1, <1>9, <2>1 DEF TypeInv, CallInv, ConfigInv, ResetDone, Return
<1>10. CASE FlashWorks  BY <1>10, TypeFlashWorks
<1>11. CASE FlashFails  BY <1>11, TypeFlashFails
<1>12. CASE PowerFails
  <2>1. crashes' \in 0 .. MaxCrashes
    <3>1. crashes \in 0 .. MaxCrashes /\ crashes < MaxCrashes /\ crashes' = crashes + 1
      BY <1>1, <1>12 DEF TypeCore, PowerFails
    <3> QED BY <3>1, WearLevelingAssumption
  <2>2. TypeCore'  BY <1>1, <1>12, <2>1, NewCall DEF TypeCore, PowerFails, Return, Fresh
  <2> QED BY <1>1, <1>12, <2>2 DEF TypeInv, CallInv, ConfigInv, PowerFails, Return
<1>13. CASE StartUp
  <2>1. flash \in Media /\ job = NoJob  BY <1>1, <1>13 DEF TypeCore, CallInv, StartUp
  <2>2. ramIndex' = IndexOf(flash) /\ config' = LoadedOf(flash)
    BY <1>13 DEF StartUp, ReadIndex, IndexOf, Loaded, LoadedOf, ReadData, DataOf
  <2>3. ramIndex' \in Indexes /\ config' \in Images /\ ConfigInv'
    BY <2>1, <2>2, ReadType DEF ConfigInv
  <2>4. TypeCore'  BY <1>1, <1>13, <2>3 DEF TypeCore, StartUp
  <2> QED BY <1>13, <2>1, <2>3, <2>4 DEF TypeInv, CallInv, StartUp
<1>14. CASE UNCHANGED vars
  BY <1>1, <1>14 DEF TypeInv, TypeCore, CallInv, ConfigInv, WriteCall, EraseCall, vars
<1> QED BY <1>2, <1>3, <1>4, <1>5, <1>6, <1>7, <1>8, <1>9, <1>10, <1>11, <1>12, <1>13, <1>14 DEF Next

(* The variables of the wear levelling keep their types: whatever was cut  *)
(* short before, every cell that is programmed lies in the area, the ones  *)
(* the restoring loops of Flash::write choose among them, and what a       *)
(* start-up loads is a whole configuration.                                *)
THEOREM WearLevelingTyped == Spec => []TypeOK
<1>1. TypeInv => TypeOK  BY CoreIsType DEF TypeInv
<1> QED BY <1>1, TypeInit, TypeNext, PTL DEF Spec

-----------------------------------------------------------------------------
(* How a write gets on *)

(* The programs as they are first: nothing is done, all is ahead *)
LEMMA RestStarts ==
  ASSUME NEW dest \in Nat, NEW input \in Seq(Values), InRange(dest, Len(input)), NEW f
  PROVE  LET todo == DataPrograms(dest, input)
         IN  /\ Rest(todo, dest, input) /\ Len(todo) = Len(input)
             /\ Ahead(todo, input) = 0 /\ Written(f, dest, input, 0)
<1> DEFINE todo == DataPrograms(dest, input)
<1>1. Len(todo) = Len(input) /\ \A i \in 1 .. Len(input) : todo[i] = <<dest + i - 1, input[i]>>
  BY DataProgramsType
<1> HIDE DEF todo
<1>2. Len(input) \in Nat  OBVIOUS
<1>3. Ahead(todo, input) = 0  BY <1>1, <1>2 DEF Ahead
<1>4. Rest(todo, dest, input)  BY <1>1, <1>3 DEF Rest
<1>5. Written(f, dest, input, 0)  BY DEF Written
<1> QED BY <1>1, <1>3, <1>4, <1>5 DEF todo

(* One program less is one half-word more *)
LEMMA RestGoesOn ==
  ASSUME NEW dest \in Nat, NEW input \in Seq(Values),
         NEW todo \in Seq(Cells \X Values), NEW rest \in Seq(Cells \X Values),
         IsTail(rest, todo), Rest(todo, dest, input)
  PROVE  /\ Rest(rest, dest, input) /\ Ahead(rest, input) = Ahead(todo, input) + 1
         /\ Ahead(todo, input) \in Int
         /\ Ahead(todo, input) >= 0 =>
              /\ Ahead(todo, input) + 1 \in 1 .. Len(input)
              /\ todo[1] = <<dest + Ahead(todo, input), input[Ahead(todo, input) + 1]>>
<1>1. /\ Len(todo) \in Nat \ {0} /\ Len(input) \in Nat /\ Len(rest) = Len(todo) - 1
      /\ \A i \in 1 .. Len(rest) : rest[i] = todo[i + 1]
  BY DEF IsTail
<1> DEFINE k == Ahead(todo, input)
<1>2. k \in Int /\ Ahead(rest, input) = k + 1 /\ k = Len(input) - Len(todo)  BY <1>1 DEF Ahead
<1>3. \A i \in 1 .. Len(input) : k < i => todo[i - k] = <<dest + i - 1, input[i]>>  BY DEF Rest
<1> HIDE DEF k
<1>4. \A i \in 1 .. Len(input) : k + 1 < i => rest[i - (k + 1)] = <<dest + i - 1, input[i]>>
  <2> TAKE i \in 1 .. Len(input)
  <2>1. HAVE k + 1 < i
  <2>2. i - (k + 1) \in 1 .. Len(rest) /\ (i - (k + 1)) + 1 = i - k  BY <1>1, <1>2, <2>1
  <2>3. rest[i - (k + 1)] = todo[i - k]  BY <1>1, <2>2
  <2>4. todo[i - k] = <<dest + i - 1, input[i]>>  BY <1>2, <1>3, <2>1
  <2> QED BY <2>3, <2>4
<1>5. Rest(rest, dest, input)  BY <1>2, <1>4 DEF Rest
<1>6. ASSUME k >= 0
      PROVE  k + 1 \in 1 .. Len(input) /\ todo[1] = <<dest + k, input[k + 1]>>
  <2>1. k + 1 \in 1 .. Len(input) /\ k < k + 1 /\ (k + 1) - k = 1 /\ dest + (k + 1) - 1 = dest + k
    BY <1>1, <1>2, <1>6
  <2>2. todo[(k + 1) - k] = <<dest + (k + 1) - 1, input[k + 1]>>  BY <1>3, <2>1
  <2> QED BY <2>1, <2>2
<1> QED BY <1>2, <1>5, <1>6 DEF k

(* The program of the next cell of the input, which holds all its bits *)
ProgramsNext(f, g, dest, input, k) ==
  /\ f \in Media /\ g \in Media /\ dest \in Nat /\ input \in Seq(Values)
  /\ InRange(dest, Len(input)) /\ k \in Nat /\ k + 1 \in 1 .. Len(input)
  /\ input[k + 1] \subseteq f[dest + k] /\ Written(f, dest, input, k)
  /\ Programs(f, g, dest + k, input[k + 1])

LEMMA CellWritten ==
  ASSUME NEW f, NEW g, NEW dest, NEW input, NEW k, ProgramsNext(f, g, dest, input, k)
  PROVE  /\ dest + k \in Cells /\ g[dest + k] = input[k + 1]
         /\ \A c \in Cells : c # dest + k => g[c] = f[c]
         /\ Written(g, dest, input, k + 1)
<1> USE DEF ProgramsNext
<1>1. \A i \in 1 .. Len(input) : dest + i - 1 \in Cells  BY AreaType DEF InRange, Cells
<1>2. dest + (k + 1) - 1 = dest + k /\ dest + k \in Cells  BY <1>1
<1>3. f[dest + k] \cap input[k + 1] = input[k + 1]  OBVIOUS
<1>4. g[dest + k] = input[k + 1]  BY <1>2, <1>3 DEF Media, Programs
<1>5. \A c \in Cells : c # dest + k => g[c] = f[c]  BY DEF Media, Programs
<1>6. Written(g, dest, input, k + 1)
  <2> SUFFICES ASSUME NEW i \in 1 .. Len(input), i <= k + 1 PROVE g[dest + i - 1] = input[i]
    BY DEF Written
  <2>1. CASE i = k + 1  BY <1>2, <1>4, <2>1
  <2>2. CASE i # k + 1
    <3>1. i <= k /\ dest + i - 1 # dest + k  BY <2>2
    <3> QED BY <1>1, <1>5, <3>1 DEF Written
  <2> QED BY <2>1, <2>2
<1> QED BY <1>2, <1>4, <1>5, <1>6

(* A blank medium: no slot is in use *)
LEMMA BlankIsClean ==
  ASSUME NEW f \in Media, AllBlank(f)
  PROVE  /\ Clean(f, 0) /\ IndexOf(f) = BlankIndex /\ LoadedOf(f) = Default
         /\ FreeFrom(f, DataLocation(0))
<1>1. IndexOf(f) = BlankIndex /\ Used(IndexOf(f), 0)  BY BlankUsesNone
<1>2. FreeFrom(f, DataLocation(0))  BY DEF AllBlank, FreeFrom
<1>3. DataLocation(0) <= AllCells  BY Slots, IndexType
<1>4. LoadedOf(f) = Default  BY LoadedBlank, AreaType DEF AllBlank
<1> QED BY <1>1, <1>2, <1>3, <1>4 DEF Clean

LEMMA StorageInit == Init => StorageInv
<1> SUFFICES ASSUME Init PROVE StorageInv  OBVIOUS
<1>1. flash \in Media /\ AllBlank(flash)  BY BlankType DEF Init, InitFlash, Media, AllBlank
<1>2. Clean(flash, 0) /\ IndexOf(flash) = BlankIndex /\ LoadedOf(flash) = Default
  BY <1>1, BlankIsClean
<1>3. 0 \in 0 .. IndexBits  BY IndexType
<1>4. pc = "idle" /\ risk = "none" /\ ramIndex = BlankIndex /\ committed = {Default}  BY DEF Init
<1>5. CleanInv  BY <1>2, <1>3, <1>4 DEF CleanInv
<1>6. LoadInv  BY <1>2, <1>4 DEF LoadInv
<1>7. ArmedInv  BY <1>4 DEF ArmedInv
<1> QED BY <1>5, <1>6, <1>7 DEF StorageInv

-----------------------------------------------------------------------------
(* The commands keep the storage invariant *)

LEMMA StorageStore ==
  ASSUME TypeInv, StorageInv, Store
  PROVE  StorageInv'
<1>1. TypeCore  BY DEF TypeInv
<1> DEFINE next == FindNextIndex(ramIndex)
<1>2. /\ pc = "idle" /\ risk' = IF risk = "none" THEN "none" ELSE "spent"
      /\ UNCHANGED <<flash, ramIndex, config, crashes, faults>>
  BY DEF Store
<1>3. CASE risk # "none"
  BY <1>2, <1>3 DEF StorageInv, CleanInv, LoadInv, ArmedInv
<1>4. CASE risk = "none"
  <2>1. PICK n \in 0 .. IndexBits : Clean(flash, n)
    BY <1>2, <1>4 DEF StorageInv, CleanInv
  <2>2. ramIndex = IndexOf(flash) /\ LoadedOf(flash) \in committed
    BY <1>2, <1>4 DEF StorageInv, CleanInv, LoadInv
  <2>3. next = n  BY <2>1, <2>2, NextIndexOfUsed DEF Clean
  <2>4. risk' = "none"  BY <1>2, <1>4
  <2> HIDE DEF next
  <2>5. CASE next > MaxElements
    <3>1. CallEraseAll /\ pc' = "wrap" /\ committed' = committed \cup {Default}
      BY <2>5 DEF Store, next
    <3>2. job'.ok  BY <1>2, <3>1, TypeCallErase
    <3> QED BY <1>2, <2>2, <2>4, <3>1, <3>2 DEF StorageInv, CleanInv, LoadInv, ArmedInv
  <2>6. CASE ~(next > MaxElements)
    <3>1. CallWrite(DataLocation(next), config) /\ pc' = "data" /\ slot' = next /\ UNCHANGED committed
      BY <2>6 DEF Store, next
    <3>2. config \in Seq(Values) /\ DataLocation(next) \in Nat
      BY <1>1, <2>3, ImagesAreSeqs, Slots, IndexType DEF TypeCore
    <3>3. job'.step = "check"  BY <1>2, <3>1, <3>2, TypeCallWrite
    <3>4. CleanData'  BY <1>2, <2>1, <2>2, <2>3, <3>1, <3>3 DEF CleanData, Clean
    <3> QED BY <1>2, <2>2, <2>4, <3>1, <3>4 DEF StorageInv, CleanInv, LoadInv, ArmedInv
  <2> QED BY <2>5, <2>6
<1> QED BY <1>3, <1>4

LEMMA StorageWrapped ==
  ASSUME TypeInv, StorageInv, Wrapped
  PROVE  StorageInv'
<1>1. TypeCore /\ CallInv  BY DEF TypeInv
<1>2. /\ pc = "wrap" /\ job.step = "done" /\ pc' = "data" /\ ramIndex' = BlankIndex
      /\ CallWrite(DataLocation(slot), config)
      /\ risk' = IF job.ok THEN "none" ELSE "spent"
      /\ UNCHANGED <<flash, config, slot, committed>>
  BY DEF Wrapped
<1>3. CASE ~job.ok
  BY <1>2, <1>3 DEF StorageInv, CleanInv, LoadInv, ArmedInv
<1>4. CASE job.ok
  <2>1. AllBlank(flash) /\ slot = 0 /\ Default \in committed /\ flash \in Media
    BY <1>1, <1>2, <1>4 DEF CallInv, EraseCall, TypeCore
  <2>2. Clean(flash, 0) /\ IndexOf(flash) = BlankIndex /\ LoadedOf(flash) = Default
    BY <2>1, BlankIsClean
  <2>3. config \in Seq(Values) /\ DataLocation(slot) \in Nat
    BY <1>1, ImagesAreSeqs, Slots DEF TypeCore
  <2>4. job'.step = "check"  BY <1>2, <2>3, TypeCallWrite
  <2>5. CleanData'  BY <1>2, <2>1, <2>2, <2>4 DEF CleanData, Clean
  <2> QED BY <1>2, <1>4, <2>1, <2>2, <2>5 DEF StorageInv, CleanInv, LoadInv, ArmedInv
<1> QED BY <1>3, <1>4

LEMMA StorageDataWritten ==
  ASSUME TypeInv, StorageInv, DataWritten
  PROVE  StorageInv'
<1>1. TypeCore  BY DEF TypeInv
<1>2. /\ pc = "data" /\ job.step = "done" /\ job.ok /\ pc' = "index"
      /\ ramIndex' = SetUsed(ramIndex, slot) /\ CallWrite(0, ramIndex')
      /\ UNCHANGED <<flash, config, slot, committed, risk>>
  BY DEF DataWritten
<1>3. risk # "armed"  BY <1>2 DEF StorageInv, ArmedInv
<1>4. CASE risk = "spent"
  BY <1>2, <1>4 DEF StorageInv, CleanInv, LoadInv, ArmedInv
<1>5. CASE risk = "none"
  <2>1. CleanData /\ LoadedOf(flash) \in committed  BY <1>2, <1>5 DEF StorageInv, CleanInv, LoadInv
  <2>2. /\ Used(IndexOf(flash), slot) /\ ramIndex = IndexOf(flash)
        /\ DataLocation(slot) <= AllCells /\ DataLocation(slot + 1) <= AllCells
        /\ Written(flash, DataLocation(slot), config, DataCells)
        /\ FreeFrom(flash, DataLocation(slot + 1))
    BY <1>2, <2>1 DEF CleanData
  <2>3. slot \in Nat /\ slot \in 0 .. IndexBits - 1
    BY <1>1, <2>2, SlotHasABit, IndexType DEF TypeCore
  <2>4. ramIndex \in Indexes  BY <1>1 DEF TypeCore
  <2>5. Used(ramIndex', slot + 1)  BY <1>2, <2>2, <2>3, <2>4, SetUsedUses
  <2>6. ramIndex' \in Seq(Values)  BY <1>2, <2>4, SetUsedType, ImagesAreSeqs
  <2>7. job'.step = "check" /\ job'.ok  BY <1>2, <2>6, TypeCallWrite
  <2>8. CleanIndex'  BY <1>2, <2>2, <2>5, <2>7 DEF CleanIndex
  <2> QED BY <1>2, <1>5, <2>1, <2>8 DEF StorageInv, CleanInv, LoadInv, ArmedInv
<1> QED BY <1>1, <1>3, <1>4, <1>5 DEF TypeCore

LEMMA StorageDataRefused ==
  ASSUME TypeInv, StorageInv, DataRefused
  PROVE  StorageInv'
<1>1. TypeCore  BY DEF TypeInv
<1>2. /\ pc = "data" /\ job.step = "done" /\ ~job.ok /\ pc' = "idle"
      /\ UNCHANGED <<flash, ramIndex, config, slot, committed, risk>>
  BY DEF DataRefused
<1>3. CASE risk = "none"
  <2>1. CleanData /\ LoadedOf(flash) \in committed  BY <1>2, <1>3 DEF StorageInv, CleanInv, LoadInv
  <2>2. Clean(flash, slot) /\ ramIndex = IndexOf(flash)  BY <1>2, <2>1 DEF CleanData, Clean
  <2>3. slot \in 0 .. IndexBits
    BY <1>1, <2>2, SlotHasABit, IndexType DEF TypeCore, Clean
  <2> QED BY <1>2, <1>3, <2>1, <2>2, <2>3 DEF StorageInv, CleanInv, LoadInv, ArmedInv
<1>4. CASE risk # "none"
  BY <1>2, <1>4 DEF StorageInv, CleanInv, LoadInv, ArmedInv
<1> QED BY <1>3, <1>4

(* A marked slot is what a start-up loads *)
LEMMA MarkedIsLoaded ==
  ASSUME TypeInv, NEW f \in Media, Used(IndexOf(f), slot + 1), DataLocation(slot + 1) <= AllCells,
         Written(f, DataLocation(slot), config, DataCells)
  PROVE  LoadedOf(f) = config
<1>1. slot \in Nat /\ config \in Images /\ config[1] = Version[1] /\ config[2] = Version[2]
  BY DEF TypeInv, TypeCore, ConfigInv
<1>2. Len(config) = DataCells /\ DataCells \in Nat  BY <1>1, ImagesAreSeqs, WearLevelingAssumption
<1>3. \A i \in 1 .. DataCells : f[DataLocation(slot) + i - 1] = config[i]  BY <1>2 DEF Written
<1> QED BY <1>1, <1>3, LoadedMarked

LEMMA StorageIndexWritten ==
  ASSUME TypeInv, StorageInv, IndexWritten
  PROVE  StorageInv'
<1>1. TypeCore  BY DEF TypeInv
<1>2. /\ pc = "index" /\ job.step = "done" /\ pc' = "idle"
      /\ committed' = (IF job.ok THEN {config} ELSE committed \cup {config})
      /\ UNCHANGED <<flash, ramIndex, config, slot, risk>>
  BY DEF IndexWritten
<1>3. CASE risk = "none"
  <2>1. CleanIndex  BY <1>2, <1>3 DEF StorageInv, CleanInv
  <2>2. /\ IndexOf(flash) = ramIndex /\ Used(IndexOf(flash), slot + 1)
        /\ DataLocation(slot + 1) <= AllCells /\ FreeFrom(flash, DataLocation(slot + 1))
        /\ Written(flash, DataLocation(slot), config, DataCells)
    BY <1>2, <2>1 DEF CleanIndex
  <2>3. slot + 1 \in Nat  BY <1>1 DEF TypeCore
  <2>4. slot + 1 \in 0 .. IndexBits  BY <2>2, <2>3, SlotHasABit, IndexType
  <2>5. Clean(flash, slot + 1)  BY <2>2 DEF Clean
  <2>6. LoadedOf(flash) = config  BY <1>1, <2>2, MarkedIsLoaded DEF TypeCore
  <2> QED BY <1>2, <1>3, <2>2, <2>4, <2>5, <2>6 DEF StorageInv, CleanInv, LoadInv, ArmedInv
<1>4. CASE risk = "armed"
  <2>1. ~job.ok /\ LoadedOf(flash) \in committed \cup {config}
    BY <1>2, <1>4 DEF StorageInv, LoadInv, ArmedInv
  <2> QED BY <1>2, <1>4, <2>1 DEF StorageInv, CleanInv, LoadInv, ArmedInv
<1>5. CASE risk = "spent"
  BY <1>2, <1>5 DEF StorageInv, CleanInv, LoadInv, ArmedInv
<1> QED BY <1>1, <1>3, <1>4, <1>5 DEF TypeCore

LEMMA StorageReset ==
  ASSUME TypeInv, StorageInv, ResetStorage
  PROVE  StorageInv'
<1>1. /\ pc = "idle" /\ pc' = "reset" /\ CallEraseAll
      /\ UNCHANGED <<flash, ramIndex, config, slot, committed, risk>>
  BY DEF ResetStorage
<1>2. job'.ok  BY <1>1, TypeCallErase
<1> QED BY <1>1, <1>2 DEF StorageInv, CleanInv, LoadInv, ArmedInv

LEMMA StorageResetDone ==
  ASSUME TypeInv, StorageInv, ResetDone
  PROVE  StorageInv'
<1>1. TypeCore /\ CallInv  BY DEF TypeInv
<1>2. /\ pc = "reset" /\ job.step = "done" /\ pc' = "idle" /\ ramIndex' = BlankIndex
      /\ committed' = (IF job.ok THEN {Default} ELSE committed \cup {Default})
      /\ risk' = (IF job.ok THEN "none" ELSE risk)
      /\ UNCHANGED <<flash, config, slot>>
  BY DEF ResetDone
<1>3. CASE job.ok
  <2>1. AllBlank(flash) /\ flash \in Media
    BY <1>1, <1>2, <1>3 DEF CallInv, EraseCall, TypeCore
  <2>2. Clean(flash, 0) /\ IndexOf(flash) = BlankIndex /\ LoadedOf(flash) = Default
    BY <2>1, BlankIsClean
  <2>3. 0 \in 0 .. IndexBits  BY IndexType
  <2> QED BY <1>2, <1>3, <2>2, <2>3 DEF StorageInv, CleanInv, LoadInv, ArmedInv
<1>4. CASE ~job.ok
  <2>1. risk # "none"  BY <1>2, <1>4 DEF StorageInv, CleanInv
  <2> QED BY <1>2, <1>4, <2>1 DEF StorageInv, CleanInv, LoadInv, ArmedInv
<1> QED BY <1>3, <1>4

LEMMA StoragePowerFails ==
  ASSUME TypeInv, StorageInv, PowerFails
  PROVE  StorageInv'
<1>1. TypeCore  BY DEF TypeInv
<1>2. /\ pc # "off" /\ pc' = "off" /\ committed' = MayLoad
      /\ risk' = IF pc # "idle" /\ risk = "none" THEN "armed" ELSE risk
      /\ UNCHANGED <<flash, ramIndex, config, slot>>
  BY DEF PowerFails
<1>3. risk # "spent" => LoadedOf(flash) \in MayLoad
  BY <1>1, <1>2 DEF StorageInv, LoadInv, MayLoad, TypeCore
<1>4. LoadInv'  BY <1>2, <1>3 DEF LoadInv
<1>5. CleanInv'  BY <1>2 DEF StorageInv, CleanInv
<1>6. ArmedInv'  BY <1>2 DEF ArmedInv
<1> QED BY <1>4, <1>5, <1>6 DEF StorageInv

LEMMA StorageStartUp ==
  ASSUME TypeInv, StorageInv, StartUp
  PROVE  StorageInv'
<1>1. /\ pc = "off" /\ pc' = "idle" /\ ramIndex' = IndexOf(flash) /\ committed' = {LoadedOf(flash)}
      /\ UNCHANGED <<flash, risk>>
  BY DEF StartUp, ReadIndex, IndexOf, Loaded, LoadedOf, ReadData, DataOf
<1> QED BY <1>1 DEF StorageInv, CleanInv, LoadInv, ArmedInv

-----------------------------------------------------------------------------
(* The steps of Flash keep the storage invariant *)

(* A cell of the medium after a program of its first *)
LEMMA ProgramOf ==
  ASSUME TypeInv, ProgramCell, NEW dest \in Nat, NEW input, job.input = input,
         input \in Seq(Values), Rest(job.todo, dest, input), Reached \in Nat
  PROVE  /\ Reached + 1 \in 1 .. Len(input) /\ Reached' = Reached + 1
         /\ Programs(flash, flash', dest + Reached, input[Reached + 1])
         /\ Rest(job'.todo, dest, input)
<1>1. /\ job.todo # <<>> /\ job.todo \in Seq(Cells \X Values) /\ job'.todo \in Seq(Cells \X Values)
      /\ IsTail(job'.todo, job.todo) /\ job'.input = job.input
      /\ Programs(flash, flash', job.todo[1][1], job.todo[1][2])
  BY ProgramFacts DEF TypeInv, TypeCore, Calls
<1>2. Reached = Ahead(job.todo, input) /\ Reached' = Ahead(job'.todo, input)
  BY <1>1 DEF Reached
<1>3. /\ Rest(job'.todo, dest, input) /\ Reached' = Reached + 1
      /\ Reached + 1 \in 1 .. Len(input)
      /\ job.todo[1] = <<dest + Reached, input[Reached + 1]>>
  <2>1. Ahead(job.todo, input) \in Nat  BY <1>2
  <2> QED BY <1>1, <1>2, <2>1, RestGoesOn
<1>4. job.todo[1][1] = dest + Reached /\ job.todo[1][2] = input[Reached + 1]  BY <1>3
<1> QED BY <1>1, <1>3, <1>4

(* The data of a store in a clean area *)
LEMMA CleanDataWorks ==
  ASSUME TypeInv, risk = "none", pc = "data", CleanData, Works,
         UNCHANGED <<ramIndex, config, pc, slot>>
  PROVE  CleanData' /\ LoadedOf(flash') = LoadedOf(flash)
<1> DEFINE dest == DataLocation(slot)
<1>1. /\ flash \in Media /\ slot \in Nat /\ dest \in Nat /\ config \in Images
      /\ config \in Seq(Values) /\ Len(config) = DataCells /\ DataCells \in Nat
      /\ job.todo \in Seq(Cells \X Values)
  BY ImagesAreSeqs, Slots, WearLevelingAssumption DEF TypeInv, TypeCore, Calls
<1>2. DataLocation(slot + 1) = dest + DataCells  BY <1>1, Slots
<1>3. dest' = dest /\ DataLocation(slot + 1)' = DataLocation(slot + 1)  BY DEF DataLocation
<1>4. dest <= AllCells /\ Used(IndexOf(flash), slot) /\ ramIndex = IndexOf(flash)
  BY DEF CleanData
<1>5. job.step \in {"check", "erase", "program"} => job.dest = dest /\ job.input = config
  BY WriteFacts
<1>6. \A i \in 1 .. DataCells : config[i] \in Values  BY <1>1 DEF Images
<1> HIDE DEF dest
<1>7. CASE RejectRange
  <2>1. job.step = "check" /\ flash' = flash /\ job'.step = "done" /\ ~job'.ok  BY <1>7, RejectFacts
  <2> QED BY <2>1, <1>3, <1>4 DEF CleanData, dest
<1>8. CASE Accept
  <2>1. job.step = "check" /\ flash' = flash /\ InRange(dest, DataCells) /\ job.ok
        /\ job'.ok = job.ok /\ job'.input = config
    BY <1>1, <1>5, <1>8, AcceptFacts DEF TypeInv, CallInv, WriteCall
  <2>2. FreeFrom(flash, dest)  BY <2>1 DEF CleanData, dest
  <2>3. ~NeedsErase(dest, config)
    <3>1. \A i \in 1 .. DataCells : dest + i - 1 \in Cells /\ dest <= dest + i - 1
      BY <1>1, <2>1, AreaType DEF InRange, Cells
    <3>2. \A i \in 1 .. DataCells : flash[dest + i - 1] = Blank /\ config[i] \subseteq Blank
      BY <1>6, <2>2, <3>1 DEF FreeFrom, Values, Blank
    <3> QED BY <1>1, <3>2 DEF NeedsErase
  <2>4. job'.step = "program" /\ job'.todo = DataPrograms(dest, config)
    BY <1>5, <1>8, <2>1, <2>3, AcceptFacts
  <2>5. /\ Rest(job'.todo, dest, config) /\ Len(job'.todo) = DataCells
        /\ Reached' = 0 /\ Written(flash, dest, config, 0)
    BY <1>1, <2>1, <2>4, RestStarts DEF Reached
  <2>6. FreeFrom(flash', dest + Reached')  BY <1>1, <2>1, <2>2, <2>5
  <2> QED BY <1>1, <1>3, <1>4, <2>1, <2>4, <2>5, <2>6 DEF CleanData, dest
<1>9. CASE EraseSector  BY <1>9, EraseFacts DEF CleanData
<1>10. CASE ProgramCell
  <2>1. /\ job.step = "program" /\ job'.step = "program" /\ job'.ok = job.ok /\ flash' \in Media
        /\ Len(job'.todo) = Len(job.todo) - 1 /\ Len(job.todo) \in Nat
    BY <1>10, ProgramFacts
  <2>2. /\ job.ok /\ Len(job.todo) <= DataCells /\ Rest(job.todo, dest, config)
        /\ Written(flash, dest, config, Reached) /\ FreeFrom(flash, dest + Reached)
    BY <2>1 DEF CleanData, dest
  <2>3. Reached \in Nat  BY <1>1, <1>5, <2>1, <2>2 DEF Reached, Ahead
  <2>4. InRange(dest, Len(config))  BY <1>5, <2>1, WriteFacts
  <2>5. /\ Reached + 1 \in 1 .. Len(config) /\ Reached' = Reached + 1
        /\ Programs(flash, flash', dest + Reached, config[Reached + 1])
        /\ Rest(job'.todo, dest, config)
    BY <1>1, <1>5, <1>10, <2>1, <2>2, <2>3, ProgramOf
  <2> DEFINE k == Reached
  <2>6. dest + k \in Cells  BY <1>1, <2>3, <2>4, <2>5, AreaType DEF InRange, Cells
  <2>7. config[k + 1] \subseteq flash[dest + k]
    <3>1. flash[dest + k] = Blank  BY <1>1, <2>2, <2>3, <2>6 DEF FreeFrom
    <3> QED BY <1>1, <1>6, <2>5, <3>1 DEF Values, Blank
  <2>8. /\ flash'[dest + k] = config[k + 1] /\ Written(flash', dest, config, k + 1)
        /\ \A c \in Cells : c # dest + k => flash'[c] = flash[c]
    <3> HIDE DEF k
    <3>1. /\ flash \in Media /\ flash' \in Media /\ dest \in Nat /\ config \in Seq(Values)
          /\ k \in Nat /\ k + 1 \in 1 .. Len(config)
      BY <1>1, <2>1, <2>3, <2>5 DEF k
    <3>2. Written(flash, dest, config, k) /\ Programs(flash, flash', dest + k, config[k + 1])
      BY <2>2, <2>5 DEF k
    <3>3. ProgramsNext(flash, flash', dest, config, k)  BY <2>4, <2>7, <3>1, <3>2 DEF ProgramsNext
    <3> QED BY <3>3, CellWritten
  <2> HIDE DEF k
  <2>9. FreeFrom(flash', dest + (k + 1))
    <3> SUFFICES ASSUME NEW d \in Cells, dest + (k + 1) <= d PROVE flash'[d] = Blank  BY DEF FreeFrom
    <3>1. d # dest + k /\ dest + k <= d  BY <1>1, <2>3, AreaType DEF k
    <3> QED BY <2>2, <2>8, <3>1 DEF FreeFrom, k
  <2>10. \A c \in Cells : c < dest => flash'[c] = flash[c]  BY <1>1, <2>3, <2>8, AreaType DEF k
  <2>11. IndexOf(flash') = IndexOf(flash) /\ LoadedOf(flash') = LoadedOf(flash)
    BY <1>1, <1>4, <2>1, <2>10, LoadedSame DEF dest
  <2>12. Len(job'.todo) <= DataCells  BY <1>1, <2>1, <2>2
  <2> QED BY <1>3, <1>4, <2>1, <2>2, <2>5, <2>8, <2>9, <2>11, <2>12 DEF CleanData, dest, k
<1>11. CASE WriteReturns
  <2>1. job.step = "program" /\ flash' = flash /\ job'.step = "done" /\ job'.ok = job.ok /\ job.todo = <<>>
    BY <1>11, WriteReturnsFacts
  <2>2. /\ job.ok /\ Written(flash, dest, config, Reached) /\ FreeFrom(flash, dest + Reached)
    BY <2>1 DEF CleanData, dest
  <2>3. Reached = DataCells  BY <1>1, <1>5, <2>1 DEF Reached, Ahead
  <2>4. dest + DataCells <= AllCells  BY <1>1, <1>5, <2>1, WriteFacts DEF InRange
  <2> QED BY <1>2, <1>3, <1>4, <2>1, <2>2, <2>3, <2>4 DEF CleanData, dest
<1>12. CASE EraseNext  BY <1>12, EraseNextFacts, CallOf
<1>13. CASE EraseAllReturns  BY <1>13, EraseAllReturnsFacts, CallOf
<1> QED BY <1>7, <1>8, <1>9, <1>10, <1>11, <1>12, <1>13 DEF Works

(* The index of a store in a clean area *)
LEMMA CleanIndexWorks ==
  ASSUME TypeInv, risk = "none", pc = "index", CleanIndex, Works,
         UNCHANGED <<ramIndex, config, pc, slot>>
  PROVE  CleanIndex' /\ (LoadedOf(flash') = LoadedOf(flash) \/ LoadedOf(flash') = config)
<1> DEFINE dest == DataLocation(slot)  next == DataLocation(slot + 1)
<1>1. /\ flash \in Media /\ slot \in Nat /\ dest \in Nat /\ config \in Images
      /\ ramIndex \in Indexes /\ ramIndex \in Seq(Values) /\ Len(ramIndex) = IndexCells
      /\ IndexCells \in Nat /\ job.todo \in Seq(Cells \X Values)
      /\ Len(config) = DataCells /\ DataCells \in Nat
  BY ImagesAreSeqs, Slots, IndexType, WearLevelingAssumption DEF TypeInv, TypeCore, Calls
<1>2. next = dest + DataCells /\ IndexCells <= dest /\ dest <= next  BY <1>1, Slots
<1>3. dest' = dest /\ next' = next  BY DEF DataLocation
<1>4. /\ Used(ramIndex, slot + 1) /\ next <= AllCells
      /\ Written(flash, dest, config, DataCells) /\ FreeFrom(flash, next) /\ job.ok
      /\ \/ IndexOf(flash) = ramIndex
         \/ Used(IndexOf(flash), slot) /\ ramIndex = SetUsed(IndexOf(flash), slot)
  BY DEF CleanIndex
<1>5. job.step \in {"check", "erase", "program"} => job.dest = 0 /\ job.input = ramIndex
  BY WriteFacts
<1>6. InRange(0, IndexCells) /\ \A i \in 1 .. IndexCells : i - 1 \in Cells
  BY IndexType, AreaType DEF InRange, Cells
<1>7. \A i \in 1 .. IndexCells : ramIndex[i] \subseteq flash[i - 1]
  <2>1. \A i \in 1 .. IndexCells : ramIndex[i] \subseteq IndexOf(flash)[i]
    BY <1>1, <1>4, ReadType, SetUsedType
  <2> QED BY <2>1 DEF IndexOf
<1> HIDE DEF dest, next
<1>8. CASE RejectRange  BY <1>1, <1>5, <1>6, <1>8, RejectFacts
<1>9. CASE Accept
  <2>1. job.step = "check" /\ flash' = flash /\ job'.ok = job.ok /\ job'.input = ramIndex
    BY <1>5, <1>9, AcceptFacts
  <2>2. ~NeedsErase(0, ramIndex)  BY <1>1, <1>7 DEF NeedsErase
  <2>3. job'.step = "program" /\ job'.todo = DataPrograms(0, ramIndex)
    BY <1>5, <1>9, <2>1, <2>2, AcceptFacts
  <2>4. /\ Rest(job'.todo, 0, ramIndex) /\ Len(job'.todo) = IndexCells
        /\ Reached' = 0 /\ Written(flash, 0, ramIndex, 0)
    <3>1. 0 \in Nat /\ ramIndex \in Seq(Values) /\ InRange(0, Len(ramIndex))  BY <1>1, <1>6
    <3>2. Reached' = Ahead(job'.todo, ramIndex)  BY <2>1 DEF Reached
    <3> QED BY <1>1, <2>3, <3>1, <3>2, RestStarts
  <2> QED BY <1>1, <1>3, <1>4, <2>1, <2>3, <2>4 DEF CleanIndex, dest, next
<1>10. CASE EraseSector  BY <1>10, EraseFacts DEF CleanIndex
<1>11. CASE ProgramCell
  <2>1. /\ job.step = "program" /\ job'.step = "program" /\ job'.ok = job.ok /\ flash' \in Media
        /\ Len(job'.todo) = Len(job.todo) - 1 /\ Len(job.todo) \in Nat
    BY <1>11, ProgramFacts
  <2>2. /\ Len(job.todo) <= IndexCells /\ Rest(job.todo, 0, ramIndex)
        /\ Written(flash, 0, ramIndex, Reached)
    BY <2>1 DEF CleanIndex
  <2>3. Reached \in Nat  BY <1>1, <1>5, <2>1, <2>2 DEF Reached, Ahead
  <2>4. /\ Reached + 1 \in 1 .. Len(ramIndex) /\ Reached' = Reached + 1
        /\ Programs(flash, flash', 0 + Reached, ramIndex[Reached + 1])
        /\ Rest(job'.todo, 0, ramIndex)
    BY <1>1, <1>5, <1>11, <2>1, <2>2, <2>3, ProgramOf
  <2> DEFINE k == Reached
  <2>5. 0 + k = k /\ (k + 1) - 1 = k  BY <2>3
  <2>6. ramIndex[k + 1] \subseteq flash[0 + k]  BY <1>1, <1>7, <2>4, <2>5
  <2>7. /\ flash'[0 + k] = ramIndex[k + 1] /\ Written(flash', 0, ramIndex, k + 1)
        /\ \A c \in Cells : c # 0 + k => flash'[c] = flash[c]
    <3> HIDE DEF k
    <3>1. /\ flash \in Media /\ flash' \in Media /\ 0 \in Nat /\ ramIndex \in Seq(Values)
          /\ k \in Nat /\ k + 1 \in 1 .. Len(ramIndex)
      BY <1>1, <2>1, <2>3, <2>4 DEF k
    <3>2. Written(flash, 0, ramIndex, k) /\ Programs(flash, flash', 0 + k, ramIndex[k + 1])
      BY <2>2, <2>4 DEF k
    <3>3. InRange(0, Len(ramIndex))  BY <1>1, <1>6
    <3>4. ProgramsNext(flash, flash', 0, ramIndex, k)
      BY <2>6, <3>1, <3>2, <3>3 DEF ProgramsNext
    <3> QED BY <3>4, CellWritten
  <2>8. Reached' = k + 1  BY <2>4
  <2>9. k \in Nat /\ k + 1 \in 1 .. IndexCells /\ k < IndexCells  BY <1>1, <2>3, <2>4
  <2> HIDE DEF k
  <2>10. \A c \in Cells : IndexCells <= c => flash'[c] = flash[c]  BY <1>1, <2>5, <2>7, <2>9, AreaType
  <2>11. FreeFrom(flash', next)  BY <1>1, <1>2, <1>4, <2>10, AreaType DEF FreeFrom
  <2>12. Written(flash', dest, config, DataCells)
    <3>1. \A i \in 1 .. DataCells : dest + i - 1 \in Cells /\ IndexCells <= dest + i - 1
      BY <1>1, <1>2, <1>4, AreaType DEF Cells
    <3> QED BY <1>1, <1>4, <2>10, <3>1 DEF Written
  <2>13. \A i \in 1 .. IndexCells :
           IndexOf(flash')[i] = IF i = k + 1 THEN ramIndex[i] ELSE IndexOf(flash)[i]
    <3> TAKE i \in 1 .. IndexCells
    <3>1. IndexOf(flash')[i] = flash'[i - 1] /\ IndexOf(flash)[i] = flash[i - 1]  BY DEF IndexOf
    <3>2. i - 1 \in Cells /\ (i - 1 = 0 + k <=> i = k + 1)  BY <1>1, <1>6, <2>9
    <3> QED BY <2>5, <2>7, <3>1, <3>2
  <2>14. IndexOf(flash') \in Indexes /\ IndexOf(flash) \in Indexes  BY <1>1, <2>1, ReadType
  <2>15. IndexOf(flash') = ramIndex \/ IndexOf(flash') = IndexOf(flash)
    <3>1. CASE IndexOf(flash) = ramIndex
      <4>1. \A i \in 1 .. IndexCells : IndexOf(flash')[i] = ramIndex[i]  BY <2>13, <3>1
      <4> QED BY <1>1, <2>14, <4>1, SameIndex
    <3>2. CASE ramIndex = SetUsed(IndexOf(flash), slot)
      <4>1. \A i \in 1 .. IndexCells : i # slot \div Width + 1 => ramIndex[i] = IndexOf(flash)[i]
        BY <2>14, <3>2, SetUsedType
      <4>2. CASE k + 1 = slot \div Width + 1
        <5>1. \A i \in 1 .. IndexCells : IndexOf(flash')[i] = ramIndex[i]  BY <2>13, <4>1, <4>2
        <5>2. IndexOf(flash') = ramIndex  BY <1>1, <2>14, <5>1, SameIndex
        <5> QED BY <5>2
      <4>3. CASE k + 1 # slot \div Width + 1
        <5>1. \A i \in 1 .. IndexCells : IndexOf(flash')[i] = IndexOf(flash)[i]
          BY <2>13, <4>1, <4>3
        <5> QED BY <2>14, <5>1, SameIndex
      <4> QED BY <4>2, <4>3
    <3> QED BY <1>4, <3>1, <3>2
  <2>16. \/ IndexOf(flash') = ramIndex
         \/ Used(IndexOf(flash'), slot) /\ ramIndex = SetUsed(IndexOf(flash'), slot)
    BY <1>4, <2>15
  <2>17. CleanIndex'
    <3>1. Len(job'.todo) <= IndexCells  BY <1>1, <2>1, <2>2
    <3>2. Written(flash', 0, ramIndex, Reached')  BY <2>7, <2>8
    <3> QED BY <1>3, <1>4, <2>1, <2>4, <2>11, <2>12, <2>16, <3>1, <3>2 DEF CleanIndex, dest, next
  <2>18. LoadedOf(flash') = LoadedOf(flash) \/ LoadedOf(flash') = config
    <3>1. CASE IndexOf(flash') = ramIndex
      BY <1>4, <2>1, <2>12, <3>1, MarkedIsLoaded DEF dest, next
    <3>2. CASE IndexOf(flash') # ramIndex
      <4>1. IndexOf(flash') = IndexOf(flash) /\ Used(IndexOf(flash), slot)
        BY <1>4, <2>15, <3>2
      <4>2. flash'[k] = flash[k]
        <5>1. IndexOf(flash')[k + 1] = flash'[k] /\ IndexOf(flash)[k + 1] = flash[k]
          BY <2>5, <2>9 DEF IndexOf
        <5> QED BY <4>1, <5>1
      <4>3. \A c \in Cells : flash'[c] = flash[c]  BY <2>5, <2>7, <4>2
      <4>4. flash' = flash  BY <1>1, <2>1, <4>3 DEF Media
      <4> QED BY <4>4
    <3> QED BY <3>1, <3>2
  <2> QED BY <2>17, <2>18
<1>12. CASE WriteReturns
  <2>1. job.step = "program" /\ flash' = flash /\ job'.step = "done" /\ job'.ok = job.ok /\ job.todo = <<>>
    BY <1>12, WriteReturnsFacts
  <2>2. Reached = IndexCells  BY <1>1, <1>5, <2>1 DEF Reached, Ahead
  <2>3. Written(flash, 0, ramIndex, IndexCells)  BY <2>1, <2>2 DEF CleanIndex
  <2>4. \A i \in 1 .. IndexCells : IndexOf(flash)[i] = ramIndex[i]
    BY <1>1, <2>3 DEF IndexOf, Written
  <2>5. IndexOf(flash) = ramIndex  BY <1>1, <2>4, ReadType DEF Indexes
  <2> QED BY <1>3, <1>4, <2>1, <2>5 DEF CleanIndex, dest, next
<1>13. CASE EraseNext  BY <1>13, EraseNextFacts, CallOf
<1>14. CASE EraseAllReturns  BY <1>14, EraseAllReturnsFacts, CallOf
<1> QED BY <1>8, <1>9, <1>10, <1>11, <1>12, <1>13, <1>14 DEF Works

(* While an eraseAll is under way, nothing else is done, and its first     *)
(* erase leaves nothing to load.                                           *)
LEMMA EraseAllWorks ==
  ASSUME TypeInv, pc \in {"wrap", "reset"}, Works
  PROVE  /\ job.step = "eraseAll" /\ job'.ok = job.ok
         /\ flash' = flash \/ LoadedOf(flash') = Default
<1>1. EraseCall /\ job.step \in {"eraseAll", "done"}  BY DEF TypeInv, CallInv, EraseCall
<1>2. CASE EraseNext
  <2>1. /\ flash' \in Media /\ job.step = "eraseAll" /\ job'.ok = job.ok
        /\ job.sector \in 0 .. SectorCount
        /\ \A c \in Cells : flash'[c] = IF c \div SectorCells = job.sector THEN Blank ELSE flash[c]
    BY <1>2, EraseNextFacts
  <2>2. 0 \div SectorCells = 0
    <3>1. SectorCells \in Nat \ {0}  BY FlashAssumption
    <3>2. 0 \div SectorCells \in Nat /\ 0 % SectorCells \in 0 .. SectorCells - 1
          /\ 0 = SectorCells * (0 \div SectorCells) + (0 % SectorCells)
      BY <3>1, DivMod
    <3> QED BY <3>1, <3>2
  <2>3. 0 \in Cells  BY AreaType
  <2>4. flash'[0] = Blank
    <3>1. CASE job.sector = 0  BY <2>1, <2>2, <2>3, <3>1
    <3>2. CASE job.sector # 0
      <4>1. 0 \div SectorCells < job.sector  BY <2>1, <2>2, <3>2
      <4>2. flash[0] = Blank  BY <1>1, <2>1, <2>3, <4>1 DEF EraseCall
      <4> QED BY <2>1, <2>3, <4>2
    <3> QED BY <3>1, <3>2
  <2> QED BY <2>1, <2>4, LoadedBlank
<1>3. CASE EraseAllReturns  BY <1>3, EraseAllReturnsFacts
<1>4. CASE RejectRange  BY <1>1, <1>4, RejectFacts
<1>5. CASE Accept  BY <1>1, <1>5, AcceptFacts
<1>6. CASE EraseSector  BY <1>1, <1>6, EraseFacts
<1>7. CASE ProgramCell  BY <1>1, <1>7, ProgramFacts
<1>8. CASE WriteReturns  BY <1>1, <1>8, WriteReturnsFacts
<1> QED BY <1>2, <1>3, <1>4, <1>5, <1>6, <1>7, <1>8 DEF Works

(* A write that failed has only to return *)
LEMMA ArmedWorks ==
  ASSUME TypeInv, ArmedInv, risk = "armed", pc \in {"data", "index"}, Works
  PROVE  flash' = flash /\ ~job'.ok /\ job'.step = "done"
<1>1. /\ ~job.ok /\ job.step \in {"program", "done"}
      /\ job.step = "program" => job.todo = <<>>
  BY DEF ArmedInv
<1>2. CASE WriteReturns  BY <1>1, <1>2, WriteReturnsFacts
<1>3. CASE EraseNext  BY <1>1, <1>3, EraseNextFacts
<1>4. CASE RejectRange  BY <1>1, <1>4, RejectFacts
<1>5. CASE Accept  BY <1>1, <1>5, AcceptFacts
<1>6. CASE EraseSector  BY <1>1, <1>6, EraseFacts
<1>7. CASE ProgramCell  BY <1>1, <1>7, ProgramFacts
<1>8. CASE EraseAllReturns  BY <1>1, <1>8, EraseAllReturnsFacts
<1> QED BY <1>2, <1>3, <1>4, <1>5, <1>6, <1>7, <1>8 DEF Works

(* No step of Flash without a call *)
LEMMA NoCallNoWork ==
  ASSUME TypeInv, Works \/ Fails
  PROVE  pc \notin {"idle", "off"}
<1>1. pc \in {"idle", "off"} => job.step = "none"  BY CallOf
<1>2. job.step # "none"
  BY DEF Works, Fails, RejectRange, Accept, EraseSector, EraseSectorFails, ProgramCell,
         ProgramCellFails, WriteReturns, EraseNext, EraseNextFails, EraseAllReturns
<1> QED BY <1>1, <1>2

LEMMA StorageFlashWorks ==
  ASSUME TypeInv, StorageInv, FlashWorks
  PROVE  StorageInv'
<1>1. /\ Works /\ UNCHANGED <<ramIndex, config, pc, slot, committed, risk>>
      /\ risk \in {"none", "armed", "spent"}
      /\ pc \in {"wrap", "data", "index", "reset"}
  BY NoCallNoWork DEF FlashWorks, TypeInv, TypeCore
<1>2. CASE risk = "spent"
  BY <1>1, <1>2 DEF StorageInv, CleanInv, LoadInv, ArmedInv
<1>3. CASE pc \in {"wrap", "reset"} /\ risk # "spent"
  <2>1. /\ job.step = "eraseAll" /\ job'.ok = job.ok
        /\ flash' = flash \/ LoadedOf(flash') = Default
    BY <1>1, <1>3, EraseAllWorks
  <2>2. pc = "wrap" => risk = "none" /\ Default \in committed
    BY <1>1, <1>3, <2>1 DEF StorageInv, ArmedInv, TypeInv, CallInv
  <2>3. LoadInv'  BY <1>1, <1>3, <2>1, <2>2 DEF StorageInv, LoadInv
  <2>4. CleanInv'  BY <1>1, <1>3, <2>1 DEF StorageInv, CleanInv
  <2>5. ArmedInv'  BY <1>1, <1>3, <2>2 DEF ArmedInv
  <2> QED BY <2>3, <2>4, <2>5 DEF StorageInv
<1>4. CASE pc \in {"data", "index"} /\ risk = "armed"
  <2>1. flash' = flash /\ ~job'.ok /\ job'.step = "done"
    BY <1>1, <1>4, ArmedWorks DEF StorageInv
  <2> QED BY <1>1, <1>4, <2>1 DEF StorageInv, CleanInv, LoadInv, ArmedInv
<1>5. CASE pc = "data" /\ risk = "none"
  <2>1. CleanData /\ LoadedOf(flash) \in committed  BY <1>5 DEF StorageInv, CleanInv, LoadInv
  <2>2. CleanData' /\ LoadedOf(flash') = LoadedOf(flash)  BY <1>1, <1>5, <2>1, CleanDataWorks
  <2> QED BY <1>1, <1>5, <2>1, <2>2 DEF StorageInv, CleanInv, LoadInv, ArmedInv
<1>6. CASE pc = "index" /\ risk = "none"
  <2>1. CleanIndex /\ LoadedOf(flash) \in committed \cup {config}
    BY <1>6 DEF StorageInv, CleanInv, LoadInv
  <2>2. CleanIndex' /\ (LoadedOf(flash') = LoadedOf(flash) \/ LoadedOf(flash') = config)
    BY <1>1, <1>6, <2>1, CleanIndexWorks
  <2> QED BY <1>1, <1>6, <2>1, <2>2 DEF StorageInv, CleanInv, LoadInv, ArmedInv
<1> QED BY <1>1, <1>2, <1>3, <1>4, <1>5, <1>6

LEMMA StorageFlashFails ==
  ASSUME TypeInv, StorageInv, FlashFails
  PROVE  StorageInv'
<1>1. /\ Fails /\ UNCHANGED <<ramIndex, config, pc, slot, committed>>
      /\ risk \in {"none", "armed", "spent"}
      /\ risk' = IF risk = "none" THEN "armed" ELSE risk
      /\ pc \in {"wrap", "data", "index", "reset"}
  BY NoCallNoWork DEF FlashFails, TypeInv, TypeCore
<1>2. flash' = flash
  BY <1>1, EraseFailsFacts, ProgramFailsFacts, EraseNextFailsFacts DEF Fails
<1>3. CleanInv'  BY <1>1 DEF CleanInv
<1>4. LoadInv'  BY <1>1, <1>2 DEF StorageInv, LoadInv
<1>5. ArmedInv'
  <2>1. SUFFICES ASSUME risk # "spent" PROVE ArmedInv'  BY <1>1 DEF ArmedInv
  <2>2. risk = "none" \/ risk = "armed"  BY <1>1, <2>1
  <2>3. CASE EraseSectorFails
    <3>1. job.step = "erase" /\ pc \in {"data", "index"}  BY <2>3, EraseFailsFacts, CallOf
    <3>2. risk # "armed"  BY <3>1 DEF StorageInv, ArmedInv
    <3>3. risk # "none"  BY <3>1 DEF StorageInv, CleanInv, CleanData, CleanIndex
    <3> QED BY <2>2, <3>2, <3>3
  <2>4. CASE ProgramCellFails
    <3>1. job.step = "program" /\ job'.step = "program" /\ job'.todo = <<>> /\ ~job'.ok
          /\ pc \in {"data", "index"}
      BY <2>4, ProgramFailsFacts, CallOf
    <3> QED BY <1>1, <3>1 DEF ArmedInv
  <2>5. CASE EraseNextFails
    <3>1. job.step = "eraseAll" /\ job'.step = "done" /\ ~job'.ok /\ pc \in {"wrap", "reset"}
      BY <2>5, EraseNextFailsFacts, CallOf
    <3> QED BY <1>1, <3>1 DEF ArmedInv
  <2> QED BY <1>1, <2>3, <2>4, <2>5 DEF Fails
<1> QED BY <1>3, <1>4, <1>5 DEF StorageInv

LEMMA StorageNext == TypeInv /\ StorageInv /\ [Next]_vars => StorageInv'
<1> SUFFICES ASSUME TypeInv, StorageInv, [Next]_vars PROVE StorageInv'  OBVIOUS
<1>1. CASE \E x \in Payloads : HandleConfiguration(x)
  <2>1. pc = "idle" /\ UNCHANGED <<flash, job, ramIndex, pc, slot, committed, risk>>
    BY <1>1 DEF HandleConfiguration
  <2> QED BY <2>1 DEF StorageInv, CleanInv, LoadInv, ArmedInv
<1>2. CASE Store  BY <1>2, StorageStore
<1>3. CASE Wrapped  BY <1>3, StorageWrapped
<1>4. CASE DataWritten  BY <1>4, StorageDataWritten
<1>5. CASE DataRefused  BY <1>5, StorageDataRefused
<1>6. CASE IndexWritten  BY <1>6, StorageIndexWritten
<1>7. CASE ResetStorage  BY <1>7, StorageReset
<1>8. CASE ResetDone  BY <1>8, StorageResetDone
<1>9. CASE FlashWorks  BY <1>9, StorageFlashWorks
<1>10. CASE FlashFails  BY <1>10, StorageFlashFails
<1>11. CASE PowerFails  BY <1>11, StoragePowerFails
<1>12. CASE StartUp  BY <1>12, StorageStartUp
<1>13. CASE UNCHANGED vars
  BY <1>13 DEF StorageInv, CleanInv, LoadInv, ArmedInv, CleanData, CleanIndex, Reached, vars
<1> QED BY <1>1, <1>2, <1>3, <1>4, <1>5, <1>6, <1>7, <1>8, <1>9, <1>10, <1>11, <1>12, <1>13 DEF Next

-----------------------------------------------------------------------------
(* What a restart loads *)

LEMMA StorageInvariant == Spec => [](TypeInv /\ StorageInv)
BY TypeInit, TypeNext, StorageInit, StorageNext, PTL DEF Spec

LEMMA ReadsOfFlash ==
  /\ ReadIndex = IndexOf(flash) /\ Loaded = LoadedOf(flash)
BY DEF ReadIndex, IndexOf, Loaded, LoadedOf, ReadData, DataOf

(* Power may fail at any half-word of any store or reset, the HAL may fail *)
(* at any call: up to and including the first interruption since the area  *)
(* was last clean, a start-up loads a configuration that was stored, or    *)
(* the one being stored, or the default of an erased area - for any        *)
(* geometry of sectors, slots and index.                                   *)
THEOREM RestartLoadsCommit == Spec => []RestartLoadsACommit
<1>1. TypeInv /\ StorageInv => RestartLoadsACommit
  <2> SUFFICES ASSUME TypeInv, StorageInv, risk # "spent" PROVE LoadedOf(flash) \in MayLoad
    BY ReadsOfFlash DEF RestartLoadsACommit
  <2>1. pc \in {"idle", "wrap", "data", "index", "reset", "off"}  BY DEF TypeInv, TypeCore
  <2> QED BY <2>1 DEF StorageInv, LoadInv, MayLoad
<1> QED BY <1>1, StorageInvariant, PTL

(* As long as nothing was cut short or failed, no store meets a cell that  *)
(* is not blank, so write never erases a sector under it: the index loses  *)
(* one bit for each store and the slots are filled one after the other.    *)
THEOREM NoEraseInStore == Spec => []StoresNeverErase
<1>1. TypeInv /\ StorageInv => StoresNeverErase
  <2> SUFFICES ASSUME TypeInv, StorageInv, risk = "none", job.step = "erase" PROVE FALSE
    BY DEF StoresNeverErase
  <2>1. pc \in {"data", "index"}  BY CallOf
  <2> QED BY <2>1 DEF StorageInv, CleanInv, CleanData, CleanIndex
<1> QED BY <1>1, StorageInvariant, PTL

(* Of all steps, those of commands, of Flash, of power and of start-up,    *)
(* only two change what a start-up would load: the half-word that marks    *)
(* the slot of a store, which makes it the stored configuration, and the   *)
(* erase of the index, which makes it the default.                         *)
THEOREM CommitsChangeLoaded == Spec => OnlyCommitsChangeLoaded
<1>1. ASSUME TypeInv, StorageInv, [Next]_vars, Loaded' # Loaded, risk # "spent"
      PROVE  \/ pc = "index" /\ Loaded' = config
             \/ pc \in {"wrap", "reset"} /\ Loaded' = Default
  <2>1. Loaded = LoadedOf(flash) /\ Loaded' = LoadedOf(flash')
    BY DEF Loaded, LoadedOf, ReadIndex, IndexOf, ReadData, DataOf
  <2>2. flash' # flash  BY <1>1, <2>1
  <2>3. ~FlashFails
    BY <1>1, <2>2, EraseFailsFacts, ProgramFailsFacts, EraseNextFailsFacts DEF FlashFails, Fails
  <2>4. FlashWorks
    BY <1>1, <2>2, <2>3 DEF Next, vars, HandleConfiguration, Store, Wrapped, DataWritten, DataRefused,
       IndexWritten, ResetStorage, ResetDone, PowerFails, StartUp
  <2>5. /\ Works /\ UNCHANGED <<ramIndex, config, pc, slot>>
        /\ risk \in {"none", "armed"} /\ pc \in {"wrap", "data", "index", "reset"}
    BY <1>1, <2>4, NoCallNoWork DEF FlashWorks, TypeInv, TypeCore
  <2>6. CASE pc \in {"wrap", "reset"}
    BY <1>1, <2>1, <2>2, <2>5, <2>6, EraseAllWorks
  <2>7. CASE pc \in {"data", "index"} /\ risk = "armed"
    BY <1>1, <2>2, <2>5, <2>7, ArmedWorks DEF StorageInv
  <2>8. CASE pc = "data" /\ risk = "none"
    <3>1. CleanData  BY <1>1, <2>8 DEF StorageInv, CleanInv
    <3> QED BY <1>1, <2>1, <2>5, <2>8, <3>1, CleanDataWorks
  <2>9. CASE pc = "index" /\ risk = "none"
    <3>1. CleanIndex  BY <1>1, <2>9 DEF StorageInv, CleanInv
    <3> QED BY <1>1, <2>1, <2>5, <2>9, <3>1, CleanIndexWorks
  <2> QED BY <2>5, <2>6, <2>7, <2>8, <2>9
<1>2. TypeInv /\ StorageInv /\ [Next]_vars =>
        (Loaded' # Loaded /\ risk # "spent" =>
           \/ pc = "index" /\ Loaded' = config
           \/ pc \in {"wrap", "reset"} /\ Loaded' = Default)
  BY <1>1
<1> QED BY <1>2, StorageInvariant, PTL DEF Spec, OnlyCommitsChangeLoaded

-----------------------------------------------------------------------------
(* The index in RAM *)

(* The index lies in the first sector, as the 20 bytes of the device do in *)
(* its 6 KiB, so that the erase of the first sector erases all of it.      *)
IndexInOneSector == IndexCells <= SectorCells

(* The programs after an erase of the first sector: those that mean to     *)
(* restore lie behind the index.                                           *)
LEMMA IndexErased ==
  ASSUME TypeInv, IndexInOneSector, pc = "index", EraseSector
  PROVE  /\ Rest(job'.todo, 0, ramIndex)
         /\ \A j \in 1 .. Len(job'.todo) :
              j <= Len(job'.todo) - IndexCells => job'.todo[j][1] >= IndexCells
         /\ Written(flash', 0, ramIndex, Ahead(job'.todo, ramIndex))
         /\ \A i \in 1 .. IndexCells : ramIndex[i] \subseteq flash'[i - 1]
<1>1. /\ flash \in Media /\ ramIndex \in Indexes /\ ramIndex \in Seq(Values) /\ Len(ramIndex) = IndexCells
      /\ IndexCells \in Nat \ {0}
  BY ImagesAreSeqs, IndexType DEF TypeInv, TypeCore
<1>2. /\ flash' \in Media /\ flash' = Erased(TableSector(0))
      /\ \E beyond \in Values :
           job'.todo = RetainStart(flash', 0, beyond)
                         \o RetainEnd(flash', 0, IndexCells)
                         \o DataPrograms(0, ramIndex)
  BY EraseFacts, WriteFacts
<1>3. InRange(0, IndexCells)  BY EraseFacts, WriteFacts
<1>4. PICK beyond \in Values :
        job'.todo = RetainStart(flash', 0, beyond) \o RetainEnd(flash', 0, IndexCells)
                      \o DataPrograms(0, ramIndex)
  BY <1>2
<1> DEFINE end == RetainEnd(flash', 0, IndexCells)  data == DataPrograms(0, ramIndex)
           todo == job'.todo
<1>5. /\ RetainStart(flash', 0, beyond) = <<>>
      /\ end \in Seq(Cells \X Values)
      /\ \A k \in 1 .. Len(end) : end[k][1] = IndexCells
  <2>1. 0 \in Nat /\ 0 + IndexCells = IndexCells  BY <1>1
  <2> QED BY <1>1, <1>2, <1>3, <2>1, RetainedType
<1>6. /\ data \in Seq(Cells \X Values) /\ Len(data) = IndexCells
      /\ \A i \in 1 .. IndexCells : data[i] = <<i - 1, ramIndex[i]>>
  <2>1. 0 \in Nat /\ InRange(0, Len(ramIndex)) /\ \A i \in 1 .. IndexCells : 0 + i - 1 = i - 1
    BY <1>1, <1>3
  <2> QED BY <1>1, <2>1, DataProgramsType
<1> HIDE DEF end, data
<1>7. todo = end \o data
  <2>1. <<>> \o end = end  BY <1>5
  <2> QED BY <1>4, <1>5, <2>1 DEF end, data
<1>8. /\ Len(todo) = Len(end) + IndexCells
      /\ \A i \in 1 .. Len(end) + IndexCells : todo[i] = IF i <= Len(end) THEN end[i] ELSE data[i - Len(end)]
  <2>1. /\ Len(end \o data) = Len(end) + Len(data)
        /\ \A i \in 1 .. Len(end) + Len(data) :
              (end \o data)[i] = IF i <= Len(end) THEN end[i] ELSE data[i - Len(end)]
    BY ONLY <1>5, <1>6, ConcatProperties
  <2> QED BY <1>6, <1>7, <2>1
<1> HIDE DEF todo
<1>9. Len(end) \in Nat  BY <1>5
<1>10. Ahead(todo, ramIndex) = -Len(end)  BY <1>1, <1>8, <1>9 DEF Ahead
<1>11. Rest(todo, 0, ramIndex)
  <2> SUFFICES ASSUME NEW i \in 1 .. IndexCells
               PROVE  todo[i - Ahead(todo, ramIndex)] = <<0 + i - 1, ramIndex[i]>>
    BY <1>1 DEF Rest
  <2>1. i - Ahead(todo, ramIndex) = i + Len(end) /\ 0 + i - 1 = i - 1  BY <1>9, <1>10
  <2>2. i + Len(end) \in 1 .. Len(end) + IndexCells /\ ~(i + Len(end) <= Len(end))
        /\ (i + Len(end)) - Len(end) = i
    BY <1>1, <1>9
  <2> QED BY <1>6, <1>8, <2>1, <2>2
<1>12. \A j \in 1 .. Len(todo) : j <= Len(todo) - IndexCells => todo[j][1] >= IndexCells
  <2> TAKE j \in 1 .. Len(todo)
  <2>1. HAVE j <= Len(todo) - IndexCells
  <2>2. j \in 1 .. Len(end) /\ todo[j] = end[j]  BY <1>1, <1>8, <1>9, <2>1
  <2> QED BY <1>1, <1>5, <2>2
<1>13. Written(flash', 0, ramIndex, Ahead(todo, ramIndex))  BY <1>1, <1>9, <1>10 DEF Written
<1>14. \A i \in 1 .. IndexCells : ramIndex[i] \subseteq flash'[i - 1]
  <2> TAKE i \in 1 .. IndexCells
  <2>1. SectorCells \in Nat \ {0} /\ Stride \in Nat \ {0}  BY FlashAssumption
  <2>2. i - 1 \in Cells /\ i - 1 < SectorCells * 1
    BY <1>1, <2>1, IndexType, AreaType DEF Cells, IndexInOneSector
  <2>3. (i - 1) \div SectorCells < 1 /\ (i - 1) \div SectorCells \in Nat
    <3>1. i - 1 \in Nat  BY <2>2, AreaType
    <3> QED BY <2>1, <2>2, <3>1, DivBelow, DivMod
  <2>4. TableSector(0) = 0
    <3> DEFINE T == Stride * SectorCells
    <3>1. T \in Nat \ {0} /\ 0 \in Nat  BY <2>1
    <3>2. TableSector(0) = 0 \div T  BY DEF TableSector
    <3> HIDE DEF T
    <3>3. 0 < T * 1  BY <3>1
    <3>4. 0 \div T < 1 /\ 0 \div T \in Nat  BY <3>1, <3>3, DivBelow, DivMod
    <3> QED BY <3>2, <3>4
  <2>5. flash'[i - 1] = Blank  BY <1>1, <1>2, <2>2, <2>3, <2>4, ErasedType
  <2>6. ramIndex[i] \in Values  BY <1>1 DEF Indexes
  <2> QED BY <2>5, <2>6 DEF Values, Blank
<1> QED BY <1>11, <1>12, <1>13, <1>14 DEF todo

LEMMA IndexFlashWorks ==
  ASSUME TypeInv, IndexInv, IndexInOneSector, FlashWorks
  PROVE  IndexInv'
<1>1. /\ Works /\ UNCHANGED <<ramIndex, config, pc, slot, faults>>
      /\ pc \in {"wrap", "data", "index", "reset"}
  BY NoCallNoWork DEF FlashWorks, TypeInv, TypeCore
<1>2. SUFFICES ASSUME faults = 0 PROVE IndexInv'  BY <1>1 DEF IndexInv
<1>3. CASE pc \in {"wrap", "reset"}
  <2>1. job'.ok = job.ok  BY <1>1, <1>3, EraseAllWorks
  <2> QED BY <1>1, <1>2, <1>3, <2>1 DEF IndexInv
<1>4. CASE pc = "data"
  <2>1. /\ job.step = "check" \/ (job.step = "done" /\ ~job.ok) => ramIndex = IndexOf(flash)
        /\ job.step = "program" => job.ok
    BY <1>2, <1>4 DEF IndexInv
  <2>2. job.step \in {"check", "erase"} => job.ok  BY <1>4 DEF TypeInv, CallInv, WriteCall
  <2>3. /\ job'.step = "check" \/ (job'.step = "done" /\ ~job'.ok) => ramIndex = IndexOf(flash')
        /\ job'.step = "program" => job'.ok
    <3>1. CASE RejectRange  BY <2>1, <3>1, RejectFacts
    <3>2. CASE Accept  BY <2>1, <2>2, <3>2, AcceptFacts
    <3>3. CASE EraseSector  BY <2>1, <2>2, <3>3, EraseFacts
    <3>4. CASE ProgramCell  BY <2>1, <2>2, <3>4, ProgramFacts
    <3>5. CASE WriteReturns  BY <2>1, <2>2, <3>5, WriteReturnsFacts
    <3>6. CASE EraseNext  BY <1>4, <3>6, EraseNextFacts, CallOf
    <3>7. CASE EraseAllReturns  BY <1>4, <3>7, EraseAllReturnsFacts, CallOf
    <3> QED BY <1>1, <3>1, <3>2, <3>3, <3>4, <3>5, <3>6, <3>7 DEF Works
  <2> QED BY <1>1, <1>4, <2>3 DEF IndexInv
<1>5. CASE pc = "index"
  <2>1. /\ flash \in Media /\ ramIndex \in Indexes /\ ramIndex \in Seq(Values)
        /\ Len(ramIndex) = IndexCells /\ IndexCells \in Nat \ {0}
        /\ job.todo \in Seq(Cells \X Values)
    BY ImagesAreSeqs, IndexType DEF TypeInv, TypeCore, Calls
  <2>2. /\ job.ok
        /\ job.step = "program" =>
             /\ Rest(job.todo, 0, ramIndex)
             /\ \A j \in 1 .. Len(job.todo) :
                  j <= Len(job.todo) - IndexCells => job.todo[j][1] >= IndexCells
             /\ Written(flash, 0, ramIndex, Reached)
             /\ \A i \in 1 .. IndexCells : ramIndex[i] \subseteq flash[i - 1]
    BY <1>2, <1>5 DEF IndexInv
  <2>3. job.step \in {"check", "erase", "program"} => job.dest = 0 /\ job.input = ramIndex
    BY <1>5, WriteFacts
  <2>4. InRange(0, Len(ramIndex)) /\ \A i \in 1 .. IndexCells : i - 1 \in Cells
    BY <2>1, IndexType, AreaType DEF InRange, Cells
  <2> DEFINE Good ==
        /\ Rest(job'.todo, 0, ramIndex)
        /\ \A j \in 1 .. Len(job'.todo) :
             j <= Len(job'.todo) - IndexCells => job'.todo[j][1] >= IndexCells
        /\ Written(flash', 0, ramIndex, Reached')
        /\ \A i \in 1 .. IndexCells : ramIndex[i] \subseteq flash'[i - 1]
  <2>5. SUFFICES /\ job'.ok
                 /\ job'.step = "program" => Good
                 /\ job'.step = "done" => ramIndex = IndexOf(flash')
    BY <1>1, <1>5 DEF IndexInv
  <2> HIDE DEF Good
  <2>6. CASE RejectRange  BY <2>3, <2>4, <2>6, RejectFacts
  <2>7. CASE Accept
    <3>1. /\ job.step = "check" /\ flash' = flash /\ job'.ok = job.ok /\ job'.input = ramIndex
          /\ job'.step \in {"erase", "program"}
          /\ job'.step = "program" =>
               ~NeedsErase(0, ramIndex) /\ job'.todo = DataPrograms(0, ramIndex)
      BY <2>3, <2>7, AcceptFacts
    <3>2. ASSUME job'.step = "program" PROVE Good
      <4>1. ~NeedsErase(0, ramIndex) /\ job'.todo = DataPrograms(0, ramIndex)  BY <3>1, <3>2
      <4>2. \A i \in 1 .. IndexCells : ramIndex[i] \subseteq flash[i - 1]
        <5>1. \A i \in 1 .. IndexCells : 0 + i - 1 = i - 1  BY <2>1
        <5> QED BY <2>1, <4>1, <5>1 DEF NeedsErase
      <4>3. /\ Rest(job'.todo, 0, ramIndex) /\ Len(job'.todo) = IndexCells
            /\ Reached' = 0 /\ Written(flash, 0, ramIndex, 0)
        <5>1. 0 \in Nat  OBVIOUS
        <5>2. Reached' = Ahead(job'.todo, ramIndex)  BY <3>1 DEF Reached
        <5> QED BY <2>1, <2>4, <4>1, <5>1, <5>2, RestStarts
      <4>4. \A j \in 1 .. Len(job'.todo) : ~(j <= Len(job'.todo) - IndexCells)  BY <2>1, <4>3
      <4> QED BY <3>1, <4>2, <4>3, <4>4 DEF Good
    <3> QED BY <2>2, <3>1, <3>2
  <2>8. CASE EraseSector
    <3>1. job'.step = "program" /\ job'.ok = job.ok /\ job'.input = ramIndex
      BY <2>3, <2>8, EraseFacts
    <3>2. Reached' = Ahead(job'.todo, ramIndex)  BY <3>1 DEF Reached
    <3>3. Good  BY <1>5, <2>8, <3>2, IndexErased DEF Good
    <3> QED BY <2>2, <3>1, <3>3
  <2>9. CASE ProgramCell
    <3>1. /\ job.step = "program" /\ job'.step = "program" /\ job'.ok = job.ok
          /\ flash' \in Media /\ job'.todo \in Seq(Cells \X Values) /\ job'.input = job.input
          /\ Len(job.todo) \in Nat \ {0} /\ IsTail(job'.todo, job.todo)
          /\ Programs(flash, flash', job.todo[1][1], job.todo[1][2])
          /\ job.todo[1][1] \in Cells
      BY <2>9, ProgramFacts DEF Calls
    <3>2. /\ Rest(job.todo, 0, ramIndex)
          /\ \A j \in 1 .. Len(job.todo) :
               j <= Len(job.todo) - IndexCells => job.todo[j][1] >= IndexCells
          /\ Written(flash, 0, ramIndex, Reached)
          /\ \A i \in 1 .. IndexCells : ramIndex[i] \subseteq flash[i - 1]
          /\ job.input = ramIndex
      BY <2>2, <2>3, <3>1
    <3>3. /\ Reached = IndexCells - Len(job.todo) /\ Reached = Ahead(job.todo, ramIndex)
          /\ Reached' = Ahead(job'.todo, ramIndex)
      BY <2>1, <3>1, <3>2 DEF Reached, Ahead
    <3>4. Rest(job'.todo, 0, ramIndex) /\ Reached' = Reached + 1
      <4>1. 0 \in Nat  OBVIOUS
      <4>2. Rest(job'.todo, 0, ramIndex) /\ Ahead(job'.todo, ramIndex) = Ahead(job.todo, ramIndex) + 1
        BY ONLY <2>1, <3>1, <3>2, <4>1, RestGoesOn
      <4> QED BY <3>3, <4>2
    <3>5. \A j \in 1 .. Len(job'.todo) :
            j <= Len(job'.todo) - IndexCells => job'.todo[j][1] >= IndexCells
      <4> TAKE j \in 1 .. Len(job'.todo)
      <4>1. HAVE j <= Len(job'.todo) - IndexCells
      <4>2. Len(job'.todo) = Len(job.todo) - 1 /\ job'.todo[j] = job.todo[j + 1]
        BY <3>1 DEF IsTail
      <4>3. j + 1 \in 1 .. Len(job.todo) /\ j + 1 <= Len(job.todo) - IndexCells
        BY <2>1, <3>1, <4>1, <4>2
      <4> QED BY <3>2, <4>2, <4>3
    <3>6. CASE Reached >= 0
      <4> DEFINE k == Reached
      <4>1. Reached \in Nat  BY <2>1, <3>1, <3>3, <3>6
      <4>2. /\ k + 1 \in 1 .. Len(ramIndex)
            /\ Programs(flash, flash', 0 + k, ramIndex[k + 1])
        <5>1. 0 \in Nat  OBVIOUS
        <5> QED BY <2>1, <2>9, <3>2, <4>1, <5>1, ProgramOf
      <4>3. (k + 1) - 1 = k /\ 0 + k = k /\ k \in Nat  BY <4>1
      <4>4. Written(flash, 0, ramIndex, k)  BY <3>2
      <4> HIDE DEF k
      <4>5. ramIndex[k + 1] \subseteq flash[0 + k]  BY <2>1, <3>2, <4>2, <4>3
      <4>6. /\ flash'[0 + k] = ramIndex[k + 1] /\ Written(flash', 0, ramIndex, k + 1)
            /\ \A c \in Cells : c # 0 + k => flash'[c] = flash[c]
        <5>1. 0 \in Nat  OBVIOUS
        <5>2. ProgramsNext(flash, flash', 0, ramIndex, k)
          BY ONLY <5>1, <2>1, <2>4, <3>1, <4>2, <4>3, <4>4, <4>5 DEF ProgramsNext
        <5> QED BY <5>2, CellWritten
      <4>7. \A i \in 1 .. IndexCells : ramIndex[i] \subseteq flash'[i - 1]
        <5> TAKE i \in 1 .. IndexCells
        <5>1. CASE i = k + 1  BY <4>3, <4>6, <5>1
        <5>2. CASE i # k + 1
          <6>1. i - 1 # 0 + k /\ i - 1 \in Cells  BY <2>4, <4>3, <5>2
          <6> QED BY <3>2, <4>6, <6>1
        <5> QED BY <5>1, <5>2
      <4> QED BY <2>2, <3>1, <3>4, <3>5, <4>6, <4>7 DEF Good, k
    <3>7. CASE ~(Reached >= 0)
      <4>1. job.todo[1][1] >= IndexCells
        <5>1. 1 \in 1 .. Len(job.todo) /\ 1 <= Len(job.todo) - IndexCells
          BY <2>1, <3>1, <3>3, <3>7
        <5> QED BY <3>2, <5>1
      <4>2. \A c \in Cells : c # job.todo[1][1] => flash'[c] = flash[c]
        BY <2>1, <3>1 DEF Programs, Media
      <4>3. \A i \in 1 .. IndexCells : flash'[i - 1] = flash[i - 1]
        <5> TAKE i \in 1 .. IndexCells
        <5>1. i - 1 \in Cells /\ i - 1 # job.todo[1][1]  BY <2>1, <2>4, <3>1, <4>1, AreaType
        <5> QED BY <4>2, <5>1
      <4>4. \A i \in 1 .. IndexCells : ~(i <= Reached')  BY <2>1, <3>1, <3>3, <3>4, <3>7
      <4>5. Written(flash', 0, ramIndex, Reached')  BY <2>1, <4>4 DEF Written
      <4> QED BY <2>2, <3>1, <3>2, <3>4, <3>5, <4>3, <4>5 DEF Good
    <3> QED BY <3>6, <3>7
  <2>10. CASE WriteReturns
    <3>1. /\ job.step = "program" /\ flash' = flash /\ job'.step = "done" /\ job'.ok = job.ok
          /\ job.todo = <<>>
      BY <2>10, WriteReturnsFacts
    <3>2. Reached = IndexCells  BY <2>1, <2>3, <3>1 DEF Reached, Ahead
    <3>3. Written(flash, 0, ramIndex, IndexCells)  BY <2>2, <3>1, <3>2
    <3>4. \A i \in 1 .. IndexCells : IndexOf(flash)[i] = ramIndex[i]
      BY <2>1, <3>3 DEF IndexOf, Written
    <3>5. IndexOf(flash) = ramIndex  BY <2>1, <3>4, ReadType, SameIndex
    <3> QED BY <2>2, <3>1, <3>5
  <2>11. CASE EraseNext  BY <1>5, <2>11, EraseNextFacts, CallOf
  <2>12. CASE EraseAllReturns  BY <1>5, <2>12, EraseAllReturnsFacts, CallOf
  <2> QED BY <1>1, <2>6, <2>7, <2>8, <2>9, <2>10, <2>11, <2>12 DEF Works
<1> QED BY <1>1, <1>3, <1>4, <1>5

(* An eraseAll that succeeded leaves an empty index *)
LEMMA ErasedIndex ==
  ASSUME TypeInv, pc \in {"wrap", "reset"}, job.step = "done", job.ok
  PROVE  IndexOf(flash) = BlankIndex
<1>1. AllBlank(flash) /\ flash \in Media  BY DEF TypeInv, TypeCore, CallInv, EraseCall
<1> QED BY <1>1, BlankUsesNone

LEMMA IndexNext == IndexInOneSector /\ TypeInv /\ IndexInv /\ [Next]_vars => IndexInv'
<1> SUFFICES ASSUME IndexInOneSector, TypeInv, IndexInv, [Next]_vars PROVE IndexInv'  OBVIOUS
<1>1. TypeCore  BY DEF TypeInv
<1>2. CASE \E x \in Payloads : HandleConfiguration(x)
  <2>1. pc = "idle" /\ UNCHANGED <<flash, job, ramIndex, pc, slot, faults>>
    BY <1>2 DEF HandleConfiguration
  <2> QED BY <2>1 DEF IndexInv
<1>3. CASE Store
  <2>1. pc = "idle" /\ UNCHANGED <<flash, ramIndex, faults, config>>  BY <1>3 DEF Store
  <2>2. CASE FindNextIndex(ramIndex) > MaxElements
    <3>1. CallEraseAll /\ pc' = "wrap"  BY <1>3, <2>2 DEF Store
    <3>2. job'.ok  BY <2>1, <3>1, TypeCallErase
    <3> QED BY <3>1, <3>2 DEF IndexInv
  <2>3. CASE ~(FindNextIndex(ramIndex) > MaxElements)
    <3>1. pc' = "data" /\ CallWrite(DataLocation(FindNextIndex(ramIndex)), config)
      BY <1>3, <2>3 DEF Store
    <3>4. config \in Seq(Values)  BY <1>1, ImagesAreSeqs DEF TypeCore
    <3>5. FindNextIndex(ramIndex) \in Nat  BY NextIndexIsLeast, IndexType
    <3>2. config \in Seq(Values) /\ DataLocation(FindNextIndex(ramIndex)) \in Nat
      BY <3>4, <3>5, Slots
    <3>3. job'.step = "check"  BY <2>1, <3>1, <3>2, TypeCallWrite
    <3> QED BY <2>1, <3>1, <3>3 DEF IndexInv
  <2> QED BY <2>2, <2>3
<1>4. CASE Wrapped
  <2>1. /\ pc = "wrap" /\ job.step = "done" /\ pc' = "data" /\ ramIndex' = BlankIndex
        /\ CallWrite(DataLocation(slot), config) /\ UNCHANGED <<flash, config, faults>>
    BY <1>4 DEF Wrapped
  <2>2. config \in Seq(Values) /\ DataLocation(slot) \in Nat
    BY <1>1, ImagesAreSeqs, Slots DEF TypeCore
  <2>3. job'.step = "check"  BY <2>1, <2>2, TypeCallWrite
  <2>4. faults = 0 => IndexOf(flash) = BlankIndex  BY <2>1, ErasedIndex DEF IndexInv
  <2> QED BY <2>1, <2>3, <2>4 DEF IndexInv
<1>5. CASE DataWritten
  <2>1. /\ pc' = "index" /\ ramIndex' = SetUsed(ramIndex, slot) /\ CallWrite(0, ramIndex')
        /\ UNCHANGED <<flash, config>>
    BY <1>5 DEF DataWritten
  <2>2. ramIndex' \in Seq(Values)  BY <1>1, <2>1, SetUsedType, ImagesAreSeqs DEF TypeCore
  <2>3. job'.step = "check" /\ job'.ok  BY <2>1, <2>2, TypeCallWrite
  <2> QED BY <2>1, <2>3 DEF IndexInv
<1>6. CASE DataRefused
  <2>1. /\ pc = "data" /\ job.step = "done" /\ ~job.ok /\ pc' = "idle"
        /\ UNCHANGED <<flash, ramIndex, faults>>
    BY <1>6 DEF DataRefused
  <2> QED BY <2>1 DEF IndexInv
<1>7. CASE IndexWritten
  <2>1. pc = "index" /\ job.step = "done" /\ pc' = "idle" /\ UNCHANGED <<flash, ramIndex, faults>>
    BY <1>7 DEF IndexWritten
  <2> QED BY <2>1 DEF IndexInv
<1>8. CASE ResetStorage
  <2>1. pc' = "reset" /\ CallEraseAll /\ UNCHANGED flash  BY <1>8 DEF ResetStorage
  <2>2. job'.ok  BY <2>1, TypeCallErase
  <2> QED BY <2>1, <2>2 DEF IndexInv
<1>9. CASE ResetDone
  <2>1. pc = "reset" /\ job.step = "done" /\ pc' = "idle" /\ ramIndex' = BlankIndex
        /\ UNCHANGED <<flash, faults>>
    BY <1>9 DEF ResetDone
  <2>2. faults = 0 => IndexOf(flash) = BlankIndex  BY <2>1, ErasedIndex DEF IndexInv
  <2> QED BY <2>1, <2>2 DEF IndexInv
<1>10. CASE FlashWorks  BY <1>10, IndexFlashWorks
<1>11. CASE FlashFails
  <2>1. faults' # 0  BY <1>1, <1>11, WearLevelingAssumption DEF FlashFails, TypeCore
  <2> QED BY <2>1 DEF IndexInv
<1>12. CASE PowerFails  BY <1>12 DEF PowerFails, IndexInv
<1>13. CASE StartUp
  <2>1. pc' = "idle" /\ ramIndex' = IndexOf(flash) /\ UNCHANGED flash
    BY <1>13, ReadsOfFlash DEF StartUp
  <2> QED BY <2>1 DEF IndexInv
<1>14. CASE UNCHANGED vars  BY <1>14 DEF IndexInv, Reached, vars
<1> QED BY <1>2, <1>3, <1>4, <1>5, <1>6, <1>7, <1>8, <1>9, <1>10, <1>11, <1>12, <1>13, <1>14 DEF Next

LEMMA IndexInit == Init => IndexInv
<1> SUFFICES ASSUME Init PROVE IndexInv  OBVIOUS
<1>1. flash \in Media /\ AllBlank(flash)  BY BlankType DEF Init, InitFlash, Media, AllBlank
<1>2. IndexOf(flash) = BlankIndex  BY <1>1, BlankUsesNone
<1> QED BY <1>2 DEF Init, IndexInv

(* Between two commands the index in RAM is the one in flash, whatever     *)
(* power failure came before, however often, and whatever the interrupted  *)
(* commands left in the slots, as long as the HAL reported no error.       *)
THEOREM RamIndexAgrees == IndexInOneSector /\ Spec => []IndexAgrees
<1>1. Init => IndexInv  BY IndexInit
<1>2. IndexInv => IndexAgrees  BY ReadsOfFlash DEF IndexInv, IndexAgrees
<1>3. CASE ~IndexInOneSector  BY <1>3
<1>4. CASE IndexInOneSector
  <2>1. TypeInv /\ IndexInv /\ [Next]_vars => IndexInv'  BY <1>4, IndexNext
  <2> QED BY <1>1, <1>2, <2>1, TypeInit, TypeNext, PTL DEF Spec
<1> QED BY <1>3, <1>4

-----------------------------------------------------------------------------
(* When a store is refused *)

(* The first free slot lies behind the area: then none in it is free *)
LEMMA FirstFreeDecides ==
  ASSUME NEW f, NEW n \in Nat, n = FindNextIndex(IndexOf(f)),
         ~InRange(DataLocation(n), DataCells)
  PROVE  FreeOf(f) = {}
<1> SUFFICES ASSUME NEW k \in 0 .. IndexBits - 1, Bit(IndexOf(f), k),
                    DataLocation(k + 1) <= AllCells
             PROVE  FALSE
  BY DEF FreeOf
<1>1. k \in SetBits(IndexOf(f)) /\ k \in Nat  BY IndexType DEF SetBits
<1>2. n <= k  BY <1>1, NextIndexIsLeast
<1>3. DataLocation(n) <= DataLocation(k) /\ DataLocation(k + 1) = DataLocation(k) + DataCells
      /\ DataLocation(n) \in Nat /\ DataLocation(k) \in Nat
  BY <1>1, <1>2, Slots
<1> QED BY <1>3, AreaType, WearLevelingAssumption DEF InRange

LEMMA FullFlashWorks ==
  ASSUME TypeInv, FullInv, FlashWorks
  PROVE  FullInv'
<1>1. Works /\ UNCHANGED <<ramIndex, pc, slot, result, faults>>  BY DEF FlashWorks
<1>2. pc \notin {"idle", "off"}  BY <1>1, NoCallNoWork
<1>3. ASSUME faults = 0, pc = "data" PROVE job'.ok \/ Refused'
  <2>1. job.ok \/ Refused  BY <1>3 DEF FullInv
  <2>2. job.step \in {"check", "erase", "program"} => job.ok  BY <2>1 DEF Refused
  <2>3. CASE RejectRange
    <3>1. /\ job.step = "check" /\ job'.step = "done"
          /\ ~InRange(job.dest, Len(job.input))
      BY <2>3, RejectFacts
    <3>2. ~InRange(DataLocation(slot), DataCells)  BY <1>3, <3>1, WriteFacts
    <3> QED BY <1>1, <3>1, <3>2 DEF Refused
  <2>4. CASE Accept  BY <2>2, <2>4, AcceptFacts
  <2>5. CASE EraseSector  BY <2>2, <2>5, EraseFacts
  <2>6. CASE ProgramCell  BY <2>2, <2>6, ProgramFacts
  <2>7. CASE WriteReturns  BY <2>2, <2>7, WriteReturnsFacts
  <2>8. CASE EraseNext  BY <1>3, <2>8, EraseNextFacts, CallOf
  <2>9. CASE EraseAllReturns  BY <1>3, <2>9, EraseAllReturnsFacts, CallOf
  <2> QED BY <1>1, <2>3, <2>4, <2>5, <2>6, <2>7, <2>8, <2>9 DEF Works
<1> QED BY <1>1, <1>2, <1>3 DEF FullInv

LEMMA FullNext == TypeInv /\ IndexInv /\ FullInv /\ [Next]_vars => FullInv'
<1> SUFFICES ASSUME TypeInv, IndexInv, FullInv, [Next]_vars PROVE FullInv'  OBVIOUS
<1>1. TypeCore  BY DEF TypeInv
<1>2. CASE \E x \in Payloads : HandleConfiguration(x)
  <2>1. pc = "idle" /\ UNCHANGED <<flash, pc, result, faults>>  BY <1>2 DEF HandleConfiguration
  <2> QED BY <2>1 DEF FullInv
<1>3. CASE Store
  <2>1. result' = "none" /\ UNCHANGED <<flash, ramIndex, config>>  BY <1>3 DEF Store
  <2>2. CASE FindNextIndex(ramIndex) > MaxElements
    <3>1. pc' = "wrap"  BY <1>3, <2>2 DEF Store
    <3> QED BY <2>1, <3>1 DEF FullInv
  <2>3. CASE ~(FindNextIndex(ramIndex) > MaxElements)
    <3>1. /\ pc' = "data" /\ slot' = FindNextIndex(ramIndex)
          /\ CallWrite(DataLocation(FindNextIndex(ramIndex)), config)
      BY <1>3, <2>3 DEF Store
    <3>2. config \in Seq(Values)  BY <1>1, ImagesAreSeqs DEF TypeCore
    <3>3. FindNextIndex(ramIndex) \in Nat  BY NextIndexIsLeast, IndexType
    <3>4. DataLocation(FindNextIndex(ramIndex)) \in Nat  BY <3>3, Slots
    <3>5. job'.ok  BY <2>1, <3>1, <3>2, <3>4, TypeCallWrite
    <3> QED BY <2>1, <3>1, <3>5 DEF FullInv
  <2> QED BY <2>2, <2>3
<1>4. CASE Wrapped
  <2>1. /\ pc = "wrap" /\ pc' = "data" /\ CallWrite(DataLocation(slot), config)
        /\ ramIndex' = BlankIndex /\ UNCHANGED <<flash, config, faults, result, slot>>
    BY <1>4 DEF Wrapped
  <2>2. config \in Seq(Values) /\ DataLocation(slot) \in Nat
    BY <1>1, ImagesAreSeqs, Slots DEF TypeCore
  <2>3. job'.ok  BY <2>1, <2>2, TypeCallWrite
  <2>4. slot = 0  BY <2>1 DEF TypeInv, CallInv
  <2>5. FindNextIndex(BlankIndex) = 0
    BY BlankUsesNone, IndexType, NextIndexOfUsed
  <2> QED BY <2>1, <2>3, <2>4, <2>5 DEF FullInv
<1>5. CASE DataWritten
  <2>1. pc = "data" /\ pc' = "index" /\ UNCHANGED <<result, faults>>  BY <1>5 DEF DataWritten
  <2> QED BY <2>1 DEF FullInv
<1>6. CASE DataRefused
  <2>1. /\ pc = "data" /\ job.step = "done" /\ ~job.ok
        /\ pc' = "idle" /\ UNCHANGED <<flash, ramIndex, slot, faults>>
    BY <1>6 DEF DataRefused
  <2>2. ASSUME faults = 0 PROVE FreeOf(flash) = {}
    <3>1. slot = FindNextIndex(IndexOf(flash))  BY <2>1, <2>2 DEF FullInv, IndexInv
    <3>2. ~InRange(DataLocation(slot), DataCells)  BY <2>1, <2>2 DEF FullInv, Refused
    <3>3. slot \in Nat  BY <1>1 DEF TypeCore
    <3> QED BY <3>1, <3>2, <3>3, FirstFreeDecides
  <2> QED BY <2>1, <2>2 DEF FullInv
<1>7. CASE IndexWritten  BY <1>7 DEF IndexWritten, FullInv
<1>8. CASE ResetStorage  BY <1>8 DEF ResetStorage, FullInv
<1>9. CASE ResetDone  BY <1>9 DEF ResetDone, FullInv
<1>10. CASE FlashWorks  BY <1>10, FullFlashWorks
<1>11. CASE FlashFails
  <2>1. faults' # 0  BY <1>1, <1>11, WearLevelingAssumption DEF FlashFails, TypeCore
  <2> QED BY <2>1 DEF FullInv
<1>12. CASE PowerFails
  <2>1. pc' = "off" /\ UNCHANGED <<flash, result, faults>>  BY <1>12 DEF PowerFails
  <2> QED BY <2>1 DEF FullInv
<1>13. CASE StartUp
  <2>1. pc' = "idle" /\ result' = "none"  BY <1>13 DEF StartUp
  <2> QED BY <2>1 DEF FullInv
<1>14. CASE UNCHANGED vars  BY <1>14 DEF FullInv, Refused, vars
<1> QED BY <1>2, <1>3, <1>4, <1>5, <1>6, <1>7, <1>8, <1>9, <1>10, <1>11, <1>12, <1>13, <1>14 DEF Next

(* As long as the HAL reported no error, a store is refused only when no   *)
(* slot of the area is left unmarked in flash: no power failure, however   *)
(* often, and no reset of the storage costs a free slot.  The index has to *)
(* lie in one sector, as on the device; MAX_ELEMENTS may have wrapped.     *)
THEOREM StoreRefusedOnlyWhenFull == IndexInOneSector /\ Spec => []StoreFailsOnlyWhenFull
<1>1. Init => FullInv  BY DEF Init, FullInv
<1>2. FullInv => StoreFailsOnlyWhenFull
  <2>1. FreeSlots = FreeOf(flash)  BY ReadsOfFlash DEF FreeSlots, FreeOf, Bit
  <2> QED BY <2>1 DEF FullInv, StoreFailsOnlyWhenFull
<1>3. CASE ~IndexInOneSector  BY <1>3
<1>4. CASE IndexInOneSector
  <2>1. TypeInv /\ IndexInv /\ [Next]_vars => IndexInv'  BY <1>4, IndexNext
  <2> QED BY <1>1, <1>2, <2>1, IndexInit, FullNext, TypeInit, TypeNext, PTL DEF Spec
<1> QED BY <1>3, <1>4
=============================================================================
