--------------------------------- MODULE Flash ---------------------------------
(***************************************************************************)
(* The flash driver (flash.c): flashWrite in words over a range of bytes   *)
(* of any alignment, flashErase in sectors over a range.  A step is one    *)
(* programming of a word or one erasure of a sector.  Addresses count from *)
(* FLASH_BASE.  A byte is the set of its bits that are 1.                  *)
(***************************************************************************)
EXTENDS Integers

CONSTANTS Sectors,          \* FLASH_SECTOR_COUNT
          flashSectorBegin, \* the first address of each sector, and of what follows the last
          Bits,             \* the bits of a byte
          Buffers,          \* the buffers the callers write: functions from 0..Last-1 to bytes
          MaxCalls          \* bound: the calls

Word == 4 \* sizeof(flashdata_t): the board is at 3.3 V

ASSUME SectorsAssumption ==
  /\ Sectors \in Nat \ {0}
  /\ flashSectorBegin \in [0..Sectors -> Nat]
  /\ flashSectorBegin[0] = 0
  /\ \A s \in 0..Sectors : flashSectorBegin[s] % Word = 0
  /\ \A s, r \in 0..Sectors : r < s => flashSectorBegin[r] < flashSectorBegin[s]

flashSectorEnd(s) == flashSectorBegin[s + 1]
flashSectorSize(s) == flashSectorEnd(s) - flashSectorBegin[s]
Last == flashSectorBegin[Sectors]
Address == 0..(Last - 1)
Sector(s) == flashSectorBegin[s]..(flashSectorEnd(s) - 1)
Byte == SUBSET Bits
Erased == Bits

ASSUME BuffersAssumption == Buffers \subseteq [0..(Last - 1) -> Byte]
ASSUME CallsAssumption == MaxCalls \in Nat

VARIABLES
  mem,     \* the flash
  locked,  \* FLASH_CR_LOCK
  pc,      \* where the call in progress is
  address, size, \* its variables address and size
  at,      \* how far its pointer buffer has advanced
  buffer,  \* what it writes
  calls,   \* bound
  last     \* history: the call, its range, the flash before it, and its result

vars == <<mem, locked, pc, address, size, at, buffer, calls, last>>

Init ==
  /\ mem = [x \in Address |-> Erased] /\ locked = TRUE
  /\ pc = "idle" /\ address = 0 /\ size = 0 /\ at = 0 /\ buffer \in Buffers
  /\ calls = 0
  /\ last = [op |-> "none", from |-> 0, to |-> 0, mem |-> mem, result |-> "none"]

\* Mutant of flashSectorAt: the loop stops at the end of a sector.
SectorUpTo(a) ==
  CHOOSE s \in 0..(Sectors - 1) : a <= flashSectorEnd(s) /\ (s > 0 => a > flashSectorBegin[s])

\* The loop of flashSectorAt, on an address in the flash.
flashSectorAt(a) == CHOOSE s \in 0..(Sectors - 1) : a \in Sector(s)

\* Programming only clears bits.
flashWriteData(a, data) ==
  [x \in Address |-> IF x \in a..(a + Word - 1) THEN mem[x] \cap data[x - a] ELSE mem[x]]

\* Mutant of Present: the bytes around those copied are not read from the flash.
PresentNot(a, o, n) ==
  [i \in 0..(Word - 1) |-> IF i \in o..(o + n - 1) THEN buffer[at + i - o] ELSE {}]

\* The word at a, with n bytes of the buffer copied at offset o.
Present(a, o, n) ==
  [i \in 0..(Word - 1) |-> IF i \in o..(o + n - 1) THEN buffer[at + i - o] ELSE mem[a + i]]

flashIsErased(m, a, n) == \A x \in a..(a + n - 1) : m[x] = Erased

----------------------------------------------------------------------------

Return(result) ==
  /\ pc' = "idle" /\ last' = [last EXCEPT !.result = result]

\* A call on n bytes from a, in the flash.
Begin(op, a, n) ==
  /\ pc = "idle" /\ calls < MaxCalls /\ calls' = calls + 1
  /\ address' = a /\ size' = n /\ at' = 0 /\ mem' = mem

Started(op, a, n) == [op |-> op, from |-> a, to |-> a + n, mem |-> mem, result |-> "none"]

\* flashWrite begins; the unlock sequence may fail.
Write(a, n, b) ==
  /\ Begin("write", a, n)
  /\ buffer' = b
  /\ \/ /\ locked' = FALSE /\ last' = Started("write", a, n)
        /\ pc' = IF a % Word # 0 THEN "head" ELSE "words"
     \/ /\ locked' = locked /\ pc' = "idle"
        /\ last' = [Started("write", a, n) EXCEPT !.result = "NO_PERMISSION"]

Advance(n) == address' = address + n /\ at' = at + n /\ size' = size - n

\* Mutant of Chunk: the range does not end inside the word.
ChunkToEnd(offset) == Word - offset

Chunk(offset) == IF Word - offset > size THEN size ELSE Word - offset

\* The word the range begins in the middle of.
WriteHead ==
  /\ pc = "head" /\ pc' = "words"
  /\ LET offset == address % Word
         aligned == address - offset IN
     /\ mem' = flashWriteData(aligned, Present(aligned, offset, Chunk(offset)))
     /\ Advance(Chunk(offset))
  /\ UNCHANGED <<locked, buffer, calls, last>>

WriteWord ==
  /\ pc = "words" /\ size >= Word
  /\ mem' = flashWriteData(address, Present(address, 0, Word))
  /\ Advance(Word)
  /\ UNCHANGED <<locked, pc, buffer, calls, last>>

\* The word the range ends in the middle of, if any; the flash is locked again.
WriteTail ==
  /\ pc = "words" /\ size < Word
  /\ mem' = IF size > 0 THEN flashWriteData(address, Present(address, 0, size)) ELSE mem
  /\ locked' = TRUE
  /\ Return("SUCCESS")
  /\ UNCHANGED <<address, size, at, buffer, calls>>

\* flashErase begins.
Erase(a, n) ==
  /\ Begin("erase", a, n)
  /\ IF n = 0
     THEN pc' = "idle" /\ last' = [Started("erase", a, n) EXCEPT !.result = "SUCCESS"]
     ELSE pc' = "erase" /\ last' = Started("erase", a, n)
  /\ UNCHANGED <<locked, buffer>>

\* Mutant of SectorDone: off by one.
SectorNearly(s) == flashSectorSize(s) >= size - 1

SectorDone(s) == flashSectorSize(s) >= size

\* flashSectorErase, on the sector of address; the cells of Bad are not erased.  The rest of
\* the range is what is left after the size of the whole sector.
EraseSector(Bad) ==
  LET s == flashSectorAt(address) IN
  /\ pc = "erase"
  /\ mem' = [x \in Address |-> IF x \in Sector(s) \ Bad THEN Erased ELSE mem[x]]
  /\ IF ~flashIsErased(mem', flashSectorBegin[s], flashSectorSize(s))
     THEN Return("BAD_FLASH") /\ UNCHANGED <<address, size>>
     ELSE /\ address' = flashSectorEnd(s)
          /\ IF SectorDone(s)
             THEN Return("SUCCESS") /\ size' = size
             ELSE size' = size - flashSectorSize(s) /\ UNCHANGED <<pc, last>>
  /\ UNCHANGED <<locked, at, buffer, calls>>

EraseDenied ==
  /\ pc = "erase" /\ Return("NO_PERMISSION")
  /\ UNCHANGED <<mem, locked, address, size, at, buffer, calls>>

Next ==
  \/ \E a \in Address : \E n \in 0..(Last - a) :
       Erase(a, n) \/ \E b \in Buffers : Write(a, n, b)
  \/ WriteHead \/ WriteWord \/ WriteTail
  \/ EraseDenied \/ EraseSector({}) \/ \E x \in Address : EraseSector({x})

Spec == Init /\ [][Next]_vars

----------------------------------------------------------------------------

\* The type invariant.
TypeOK ==
  /\ mem \in [Address -> Byte] /\ locked \in BOOLEAN
  /\ pc \in {"idle", "head", "words", "erase"} /\ locked = (pc \notin {"head", "words"})
  /\ address \in 0..Last /\ size \in 0..Last /\ at \in 0..Last
  /\ buffer \in Buffers /\ calls \in 0..MaxCalls
  /\ last \in [op : {"none", "write", "erase"}, from : 0..Last, to : 0..Last,
               mem : [Address -> Byte], result : {"none", "SUCCESS", "NO_PERMISSION", "BAD_FLASH"}]

\* What writing the bytes from last.from to end one by one would have made of the flash.
Written(end) ==
  [x \in Address |-> IF x \in last.from..(end - 1) THEN last.mem[x] \cap buffer[x - last.from]
                     ELSE last.mem[x]]

\* flashWrite changes the bytes of its range and no other, whatever its alignment, although
\* it programs whole words; if it is cut, exactly the bytes it has passed are written
\* (flash.c:217-266).
WriteExact ==
  /\ last.op = "write" /\ pc # "idle" => mem = Written(address)
  /\ last.op = "write" /\ last.result = "SUCCESS" => mem = Written(last.to)

Meets(s) == \E x \in Sector(s) : last.from <= x /\ x < last.to

\* flashErase never touches a sector without a byte of its range.
EraseOnly ==
  last.op = "erase" =>
    \A s \in 0..(Sectors - 1) : ~Meets(s) => \A x \in Sector(s) : mem[x] = last.mem[x]

AtBegin(a) == \E s \in 0..Sectors : a = flashSectorBegin[s]

\* A successful flashErase of a range that begins where a sector does has erased the range.
EraseWhole ==
  last.op = "erase" /\ last.result = "SUCCESS" /\ AtBegin(last.from)
    => \A x \in last.from..(last.to - 1) : mem[x] = Erased

=============================================================================
