------------------------------ MODULE FlashProofs ------------------------------
(***************************************************************************)
(* Theorems about Flash, for any number and sizes of sectors, any bytes,   *)
(* any buffers and any number of calls.                                    *)
(***************************************************************************)
EXTENDS Flash, WellFoundedInduction, TLAPS

\* Where a call in progress has got to.
Place ==
  /\ last.from <= last.to
  /\ pc # "idle" => last.result = "none"
  /\ pc \in {"head", "words"} =>
       /\ last.op = "write"
       /\ last.from <= address /\ address + size = last.to /\ at = address - last.from
  /\ pc = "head" => address = last.from
  /\ pc = "words" /\ size > 0 => address % Word = 0
  /\ pc = "erase" =>
       last.op = "erase" /\ size > 0 /\ last.from <= address /\ address + size <= last.to

\* What an erasure has done so far of a range that begins where a sector does.
EraseBegun ==
  pc = "erase" /\ AtBegin(last.from) =>
    /\ AtBegin(address) /\ address + size = last.to
    /\ \A x \in last.from..(address - 1) : mem[x] = Erased

IInv == TypeOK /\ Place /\ WriteExact /\ EraseOnly /\ EraseWhole /\ EraseBegun

----------------------------------------------------------------------------

\* The sectors lie in the flash, one after the other.
LEMMA SectorIn ==
  ASSUME NEW s \in 0..(Sectors - 1)
  PROVE  /\ s \in 0..Sectors /\ s + 1 \in 0..Sectors
         /\ flashSectorBegin[s] \in Nat /\ flashSectorEnd(s) \in Nat
         /\ flashSectorBegin[s] < flashSectorEnd(s)
         /\ flashSectorEnd(s) <= Last
         /\ Sector(s) \subseteq Address
<1>1. s \in 0..Sectors /\ s + 1 \in 0..Sectors /\ Sectors \in 0..Sectors
  BY SectorsAssumption
<1>2. flashSectorBegin[s] \in Nat /\ flashSectorBegin[s + 1] \in Nat /\ flashSectorBegin[Sectors] \in Nat
  BY <1>1, SectorsAssumption
<1>3. flashSectorBegin[s] < flashSectorBegin[s + 1]
  BY <1>1, SectorsAssumption
<1>4. flashSectorBegin[s + 1] <= flashSectorBegin[Sectors]
  <2>1. CASE s + 1 = Sectors
    BY <2>1, <1>2
  <2>2. CASE s + 1 < Sectors
    BY <2>2, <1>1, <1>2, SectorsAssumption
  <2> QED BY <2>1, <2>2, SectorsAssumption
<1> QED BY <1>1, <1>2, <1>3, <1>4 DEF flashSectorEnd, Sector, Address, Last

LEMMA LastNat == Last \in Nat
BY SectorsAssumption DEF Last

\* Two sectors have no byte in common.
LEMMA SectorsApart ==
  ASSUME NEW s \in 0..(Sectors - 1), NEW r \in 0..(Sectors - 1), NEW x \in Sector(s), x \in Sector(r)
  PROVE  s = r
<1>1. SUFFICES ASSUME s # r PROVE FALSE
  OBVIOUS
<1>2. /\ flashSectorBegin[s] \in Nat /\ flashSectorBegin[s + 1] \in Nat
      /\ flashSectorBegin[r] \in Nat /\ flashSectorBegin[r + 1] \in Nat
      /\ s \in 0..Sectors /\ r \in 0..Sectors /\ s + 1 \in 0..Sectors /\ r + 1 \in 0..Sectors
  BY SectorIn DEF flashSectorEnd
<1>3. /\ flashSectorBegin[s] <= x /\ x < flashSectorBegin[s + 1]
      /\ flashSectorBegin[r] <= x /\ x < flashSectorBegin[r + 1] /\ x \in Int
  BY <1>2 DEF Sector, flashSectorEnd
<1>4. CASE s < r
  <2>1. flashSectorBegin[s + 1] <= flashSectorBegin[r]
    <3>1. CASE s + 1 = r
      BY <3>1, <1>2
    <3>2. CASE s + 1 < r
      BY <3>2, <1>2, SectorsAssumption
    <3> QED BY <1>4, <3>1, <3>2
  <2> QED BY <2>1, <1>2, <1>3
<1>5. CASE r < s
  <2>1. flashSectorBegin[r + 1] <= flashSectorBegin[s]
    <3>1. CASE r + 1 = s
      BY <3>1, <1>2
    <3>2. CASE r + 1 < s
      BY <3>2, <1>2, SectorsAssumption
    <3> QED BY <1>5, <3>1, <3>2
  <2> QED BY <2>1, <1>2, <1>3
<1> QED BY <1>1, <1>4, <1>5

\* Every address is in a sector: the one before the first sector that begins after it.
LEMMA SectorExists ==
  ASSUME NEW a \in Address
  PROVE  \E s \in 0..(Sectors - 1) : a \in Sector(s)
<1> DEFINE T == {t \in Nat : t <= Sectors /\ a < flashSectorBegin[t]}
<1>1. a \in Nat /\ a < flashSectorBegin[Sectors] /\ Sectors \in Nat
  BY SectorsAssumption, LastNat DEF Address, Last
<1>2. PICK t \in T : \A u \in T : ~ (<<u, t>> \in OpToRel(<, Nat))
  <2>1. T \subseteq Nat /\ T # {}
    BY <1>1
  <2> QED BY <2>1, NatLessThanWellFounded, WFMin, Zenon
<1>3. t \in 1..Sectors
  BY <1>1, SectorsAssumption
<1>4. t - 1 \notin T
  <2>1. SUFFICES ASSUME t - 1 \in T PROVE FALSE
    OBVIOUS
  <2>2. <<t - 1, t>> \in OpToRel(<, Nat)
    BY <2>1, <1>3 DEF OpToRel
  <2> QED BY <2>1, <2>2, <1>2
<1>5. /\ t - 1 \in 0..(Sectors - 1) /\ ~(a < flashSectorBegin[t - 1])
      /\ flashSectorEnd(t - 1) = flashSectorBegin[t]
  BY <1>3, <1>4, <1>1 DEF flashSectorEnd
<1>6. a \in Sector(t - 1)
  BY <1>5, <1>3, <1>1, SectorIn, SectorsAssumption DEF Sector
<1> QED BY <1>5, <1>6

LEMMA SectorAtIn ==
  ASSUME NEW a \in Address
  PROVE  flashSectorAt(a) \in 0..(Sectors - 1) /\ a \in Sector(flashSectorAt(a))
BY SectorExists DEF flashSectorAt

----------------------------------------------------------------------------

\* Programming n bytes of the buffer at offset o of the word at a, which is where address is,
\* writes these bytes of the range, and leaves the bytes of the word before them, and after.
LEMMA WordWritten ==
  ASSUME TypeOK, NEW a \in Nat, NEW o \in 0..3, NEW n \in Nat, o + n <= 4,
         address = a + o, last.from <= address, at = address - last.from,
         mem = Written(address),
         o > 0 => address = last.from,
         mem' = flashWriteData(a, Present(a, o, n)),
         address' = address + n, UNCHANGED <<last, buffer>>
  PROVE  mem' = Written(address)'
<1>1. last.from \in Nat /\ address \in Nat /\ at \in Nat /\ last' = last /\ buffer' = buffer
  BY LastNat DEF TypeOK
<1> DEFINE Value(x) == IF x \in last.from..(address + n - 1)
                       THEN last.mem[x] \cap buffer[x - last.from] ELSE last.mem[x]
<1>2. SUFFICES ASSUME NEW x \in Address
               PROVE  flashWriteData(a, Present(a, o, n))[x] = Value(x)
  <2>1. mem' = [x \in Address |-> mem'[x]]
    BY DEF flashWriteData
  <2>2. Written(address)' = [x \in Address |-> Value(x)]
    BY <1>1 DEF Written
  <2> QED BY <2>1, <2>2
<1>3. x \in Nat
  BY LastNat DEF Address
<1>4. mem[x] = IF x \in last.from..(address - 1)
               THEN last.mem[x] \cap buffer[x - last.from] ELSE last.mem[x]
  BY <1>2 DEF Written
<1>5. flashWriteData(a, Present(a, o, n))[x] =
        IF x \in a..(a + 3) THEN mem[x] \cap Present(a, o, n)[x - a] ELSE mem[x]
  BY <1>2, SMT DEF flashWriteData, Word
<1>6. CASE x \notin a..(a + 3)
  BY <1>1, <1>3, <1>4, <1>5, <1>6
<1>7. CASE x \in a..(a + 3)
  <2>1. x - a \in 0..3 /\ a + (x - a) = x
    BY <1>3, <1>7
  <2>2. Present(a, o, n)[x - a] =
          IF x - a \in o..(o + n - 1) THEN buffer[at + (x - a) - o] ELSE mem[a + (x - a)]
    BY <2>1 DEF Present, Word
  <2>3. CASE x - a \in o..(o + n - 1)
    <3>1. at + (x - a) - o = x - last.from
      BY <1>1, <1>3
    <3>2. x \in last.from..(address + n - 1) /\ x \notin last.from..(address - 1)
      BY <1>1, <1>3, <2>3
    <3> QED BY <1>4, <1>5, <1>7, <2>2, <2>3, <3>1, <3>2
  <2>4. CASE x - a \notin o..(o + n - 1)
    <3>1. flashWriteData(a, Present(a, o, n))[x] = mem[x]
      BY <1>5, <1>7, <2>1, <2>2, <2>4
    <3>2. x \in last.from..(address + n - 1) <=> x \in last.from..(address - 1)
      BY <1>1, <1>3, <1>7, <2>4
    <3> QED BY <1>4, <3>1, <3>2
  <2> QED BY <2>3, <2>4
<1> QED BY <1>6, <1>7

\* The flash is made of bytes, whatever is programmed.
LEMMA WrittenType ==
  ASSUME TypeOK, NEW a, NEW data
  PROVE  flashWriteData(a, data) \in [Address -> Byte]
BY DEF TypeOK, flashWriteData, Byte

----------------------------------------------------------------------------
(* Each action preserves the invariant.                                    *)

LEMMA StartInv == Init => IInv
<1> SUFFICES ASSUME Init PROVE IInv
  OBVIOUS
<1>1. mem \in [Address -> Byte] /\ last.mem = mem
  BY DEF Init, Byte, Erased
<1>2. last.op = "none" /\ last.from = 0 /\ last.to = 0 /\ last.result = "none"
  BY DEF Init
<1>3. TypeOK
  <2>1. last \in [op : {"none", "write", "erase"}, from : 0..Last, to : 0..Last, mem : [Address -> Byte],
                  result : {"none", "SUCCESS", "NO_PERMISSION", "BAD_FLASH"}]
    BY <1>1, LastNat DEF Init
  <2>2. locked = (pc \notin {"head", "words"})
    BY DEF Init
  <2> QED BY <1>1, <2>1, <2>2, LastNat, CallsAssumption DEF Init, TypeOK
<1> QED BY <1>2, <1>3 DEF Init, IInv, Place, WriteExact, EraseOnly, EraseWhole, EraseBegun

LEMMA BeginType ==
  ASSUME TypeOK, NEW op \in {"write", "erase"}, NEW a \in Address, NEW n \in 0..(Last - a),
         Begin(op, a, n)
  PROVE  /\ address' \in 0..Last /\ size' \in 0..Last /\ at' \in 0..Last
         /\ calls' \in 0..MaxCalls /\ mem' \in [Address -> Byte]
         /\ a \in 0..Last /\ a + n \in 0..Last /\ a \in Nat /\ n \in Nat
BY LastNat, CallsAssumption DEF TypeOK, Begin, Address

LEMMA WriteInv ==
  ASSUME IInv, NEW a \in Address, NEW n \in 0..(Last - a), NEW b \in Buffers, Write(a, n, b)
  PROVE  IInv'
<1>1. TypeOK /\ Begin("write", a, n) /\ mem' = mem
  BY DEF IInv, Write, Begin
<1>2. /\ a \in 0..Last /\ a + n \in 0..Last /\ a \in Nat /\ n \in Nat
      /\ address' = a /\ size' = n /\ at' = 0 /\ buffer' = b
  BY <1>1, BeginType DEF Begin, Write
<1>3. /\ last'.op = "write" /\ last'.from = a /\ last'.to = a + n /\ last'.mem = mem
      /\ last'.result = IF pc' = "idle" THEN "NO_PERMISSION" ELSE "none"
      /\ pc' = "idle" \/ pc' = IF a % Word # 0 THEN "head" ELSE "words"
      /\ locked' = (pc' \notin {"head", "words"})
  <2>1. CASE locked' = FALSE /\ last' = Started("write", a, n)
             /\ pc' = IF a % Word # 0 THEN "head" ELSE "words"
    <3>1. pc' \in {"head", "words"}
      BY <2>1
    <3> QED BY <2>1, <3>1 DEF Started
  <2>2. CASE locked' = locked /\ pc' = "idle"
             /\ last' = [Started("write", a, n) EXCEPT !.result = "NO_PERMISSION"]
    <3>1. locked = (pc \notin {"head", "words"}) /\ pc = "idle"
      BY <1>1 DEF TypeOK, Begin
    <3>2. locked' = (pc' \notin {"head", "words"})
      BY <2>2, <3>1
    <3> QED BY <2>2, <3>2 DEF Started
  <2> QED BY <2>1, <2>2 DEF Write
<1>4. TypeOK'
  <2>1. last' \in [op : {"none", "write", "erase"}, from : 0..Last, to : 0..Last,
                   mem : [Address -> Byte], result : {"none", "SUCCESS", "NO_PERMISSION", "BAD_FLASH"}]
    BY <1>1, <1>2 DEF Write, Started, TypeOK
  <2> QED BY <1>1, <1>2, <1>3, <2>1, BeginType DEF TypeOK
<1>5. Place'
  BY <1>2, <1>3 DEF Place
<1>6. Written(address)' = mem'
  BY <1>1, <1>2, <1>3 DEF Written, TypeOK
<1> QED BY <1>3, <1>4, <1>5, <1>6 DEF IInv, WriteExact, EraseOnly, EraseWhole, EraseBegun

LEMMA EraseInv ==
  ASSUME IInv, NEW a \in Address, NEW n \in 0..(Last - a), Erase(a, n)
  PROVE  IInv'
<1>1. TypeOK /\ Begin("erase", a, n) /\ mem' = mem
  BY DEF IInv, Erase, Begin
<1>2. /\ a \in 0..Last /\ a + n \in 0..Last /\ a \in Nat /\ n \in Nat
      /\ address' = a /\ size' = n /\ at' = 0
  BY <1>1, BeginType DEF Begin
<1>3. /\ last'.op = "erase" /\ last'.from = a /\ last'.to = a + n /\ last'.mem = mem
      /\ last'.result = (IF pc' = "idle" THEN "SUCCESS" ELSE "none")
      /\ pc' = (IF n = 0 THEN "idle" ELSE "erase")
      /\ locked' = TRUE /\ buffer' = buffer
  <2>1. locked = (pc \notin {"head", "words"}) /\ pc = "idle" /\ locked' = locked /\ buffer' = buffer
    BY <1>1 DEF TypeOK, Begin, Erase
  <2>2. locked' = TRUE
    BY <2>1
  <2>3. CASE n = 0 /\ pc' = "idle" /\ last' = [Started("erase", a, n) EXCEPT !.result = "SUCCESS"]
    BY <2>1, <2>2, <2>3 DEF Started
  <2>4. CASE n # 0 /\ pc' = "erase" /\ last' = Started("erase", a, n)
    BY <2>1, <2>2, <2>4 DEF Started
  <2> QED BY <2>3, <2>4 DEF Erase
<1>4. TypeOK'
  <2>1. last' \in [op : {"none", "write", "erase"}, from : 0..Last, to : 0..Last,
                   mem : [Address -> Byte], result : {"none", "SUCCESS", "NO_PERMISSION", "BAD_FLASH"}]
    BY <1>1, <1>2 DEF Erase, Started, TypeOK
  <2> QED BY <1>1, <1>2, <1>3, <2>1, BeginType DEF TypeOK
<1>5. Place'
  BY <1>2, <1>3 DEF Place
<1> QED BY <1>1, <1>2, <1>3, <1>4, <1>5 DEF IInv, WriteExact, EraseOnly, EraseWhole, EraseBegun

\* What the steps of flashWrite have in common.
LEMMA WriteStepInv ==
  ASSUME IInv, pc \in {"head", "words"}, NEW n \in Nat, n <= size,
         mem' = Written(address)', mem' \in [Address -> Byte], Advance(n),
         pc' = "words", n = size \/ (address + n) % Word = 0,
         UNCHANGED <<locked, buffer, calls, last>>
  PROVE  IInv'
<1>1. /\ last.op = "write" /\ last.result = "none" /\ last.from <= address
      /\ address + size = last.to /\ at = address - last.from /\ last.from <= last.to
  BY DEF IInv, Place
<1>2. address \in Nat /\ size \in Nat /\ last.from \in Nat /\ last.to \in 0..Last /\ Last \in Nat
  BY LastNat DEF IInv, TypeOK
<1>3. address' = address + n /\ size' = size - n /\ at' = at + n
  BY DEF Advance
<1>4. TypeOK'
  BY <1>1, <1>2, <1>3 DEF IInv, TypeOK
<1>5. Place'
  BY <1>1, <1>2, <1>3 DEF Place
<1> QED BY <1>1, <1>4, <1>5 DEF IInv, WriteExact, EraseOnly, EraseWhole, EraseBegun

LEMMA WriteHeadInv == ASSUME IInv, WriteHead PROVE IInv'
<1> DEFINE o == address % Word
           a == address - o
           n == Chunk(o)
<1>1. TypeOK /\ pc = "head" /\ address = last.from /\ at = address - last.from /\ last.op = "write"
  BY DEF IInv, Place, WriteHead
<1>2. address \in Nat /\ size \in Nat
  BY <1>1, LastNat DEF TypeOK
<1>3. o \in 0..3 /\ a \in Nat /\ address = a + o /\ a % Word = 0
  BY <1>2 DEF Word
<1>4. n \in Nat /\ n <= size /\ o + n <= 4 /\ (n = size \/ o + n = 4)
  BY <1>2, <1>3 DEF Chunk, Word
<1>5. mem' = flashWriteData(a, Present(a, o, n)) /\ Advance(n)
  BY DEF WriteHead
<1>6. mem' = Written(address)'
  <2>1. mem = Written(address) /\ last.from <= address /\ address' = address + n /\ UNCHANGED <<last, buffer>>
    BY <1>1, <1>2, <1>5 DEF IInv, WriteExact, Advance, WriteHead
  <2> HIDE DEF o, a, n
  <2> QED BY <1>1, <1>3, <1>4, <1>5, <2>1, WordWritten
<1>7. n = size \/ (address + n) % Word = 0
  BY <1>2, <1>3, <1>4 DEF Word
<1>8. mem' \in [Address -> Byte] /\ pc' = "words" /\ UNCHANGED <<locked, buffer, calls, last>>
  BY <1>1, <1>5, WrittenType DEF WriteHead
<1> HIDE DEF o, a, n
<1> QED BY <1>1, <1>4, <1>5, <1>6, <1>7, <1>8, WriteStepInv

LEMMA WriteWordInv == ASSUME IInv, WriteWord PROVE IInv'
<1>1. /\ TypeOK /\ pc = "words" /\ size >= 4 /\ last.op = "write"
      /\ last.from <= address /\ at = address - last.from
  BY DEF IInv, Place, WriteWord, Word
<1>2. address \in Nat /\ size \in Nat /\ address % 4 = 0
  BY <1>1, LastNat DEF TypeOK, IInv, Place, Word
<1>3. mem' = flashWriteData(address, Present(address, 0, 4)) /\ Advance(4)
  BY DEF WriteWord, Word
<1>4. mem' = Written(address)'
  <2>1. mem = Written(address) /\ address' = address + 4 /\ UNCHANGED <<last, buffer>>
    BY <1>1, <1>3 DEF IInv, WriteExact, Advance, WriteWord
  <2>2. 0 \in 0..3 /\ 4 \in Nat /\ 0 + 4 <= 4 /\ address = address + 0 /\ ~(0 > 0)
    BY <1>2
  <2> QED BY <1>1, <1>2, <1>3, <2>1, <2>2, WordWritten
<1>5. (address + 4) % Word = 0
  BY <1>2 DEF Word
<1>6. mem' \in [Address -> Byte] /\ pc' = "words" /\ UNCHANGED <<locked, buffer, calls, last>>
  BY <1>1, <1>3, WrittenType DEF WriteWord
<1> QED BY <1>1, <1>2, <1>3, <1>4, <1>5, <1>6, WriteStepInv

LEMMA WriteTailInv == ASSUME IInv, WriteTail PROVE IInv'
<1>1. /\ TypeOK /\ pc = "words" /\ size < 4 /\ last.from <= address /\ at = address - last.from
      /\ last.op = "write" /\ address + size = last.to /\ mem = Written(address)
  BY DEF IInv, Place, WriteTail, Word, WriteExact
<1>2. /\ address \in Nat /\ size \in Nat /\ last.from \in Nat /\ last.to = address + size
      /\ UNCHANGED <<address, buffer>> /\ last' = [last EXCEPT !.result = "SUCCESS"]
  BY <1>1, LastNat DEF TypeOK, WriteTail, Return
<1>3. mem' = [x \in Address |-> IF x \in last.from..(last.to - 1) THEN last.mem[x] \cap buffer[x - last.from]
                                ELSE last.mem[x]]
  <2>1. CASE size = 0
    BY <1>1, <1>2, <2>1 DEF Written, WriteTail
  <2>2. CASE size > 0
    <3>1. mem' = flashWriteData(address, Present(address, 0, size))
      BY <2>2 DEF WriteTail
    <3>2. SUFFICES ASSUME NEW x \in Address
                   PROVE  flashWriteData(address, Present(address, 0, size))[x] =
                            IF x \in last.from..(last.to - 1) THEN last.mem[x] \cap buffer[x - last.from]
                            ELSE last.mem[x]
      BY <3>1 DEF flashWriteData
    <3>3. x \in Nat
      BY LastNat DEF Address
    <3>4. mem[x] = IF x \in last.from..(address - 1)
                   THEN last.mem[x] \cap buffer[x - last.from] ELSE last.mem[x]
      BY <1>1 DEF Written
    <3>5. flashWriteData(address, Present(address, 0, size))[x] =
            IF x \in address..(address + 3) THEN mem[x] \cap Present(address, 0, size)[x - address]
            ELSE mem[x]
      BY <3>2, SMT DEF flashWriteData, Word
    <3>6. x \in address..(address + 3) =>
            Present(address, 0, size)[x - address] =
              IF x - address \in 0..(size - 1) THEN buffer[x - last.from] ELSE mem[x]
      <4>1. SUFFICES ASSUME x \in address..(address + 3)
                     PROVE  Present(address, 0, size)[x - address] =
                              IF x - address \in 0..(size - 1) THEN buffer[x - last.from] ELSE mem[x]
        OBVIOUS
      <4>2. x - address \in 0..3 /\ address + (x - address) = x /\ at + (x - address) - 0 = x - last.from
            /\ 0 + size - 1 = size - 1
        BY <1>1, <1>2, <3>3, <4>1
      <4> QED BY <4>2 DEF Present, Word
    <3>7. CASE x \in address..(address + 3)
      <4>1. x - address \in 0..(size - 1) <=> x \in last.from..(last.to - 1)
        BY <1>1, <1>2, <3>3, <3>7
      <4>2. x \notin last.from..(address - 1)
        BY <1>2, <3>3, <3>7
      <4> QED BY <3>4, <3>5, <3>6, <3>7, <4>1, <4>2
    <3>8. CASE x \notin address..(address + 3)
      <4>1. x \in last.from..(last.to - 1) <=> x \in last.from..(address - 1)
        BY <1>1, <1>2, <3>3, <3>8
      <4> QED BY <3>4, <3>5, <3>8, <4>1
    <3> QED BY <3>7, <3>8
  <2> QED BY <1>2, <2>1, <2>2
<1>4. Written(last.to)' = mem' /\ mem' \in [Address -> Byte]
  <2>1. last'.from = last.from /\ last'.to = last.to /\ last'.mem = last.mem /\ buffer' = buffer
    BY <1>1, <1>2 DEF TypeOK
  <2>2. mem' \in [Address -> Byte]
    BY <1>1, WrittenType DEF WriteTail, TypeOK
  <2> QED BY <1>3, <2>1, <2>2 DEF Written
<1>5. TypeOK'
  BY <1>1, <1>2, <1>4 DEF TypeOK, WriteTail, Return
<1>6. Place' /\ last'.op = "write" /\ pc' = "idle"
  BY <1>1, <1>2 DEF Place, WriteTail, Return, TypeOK, IInv
<1> QED BY <1>4, <1>5, <1>6 DEF IInv, WriteExact, EraseOnly, EraseWhole, EraseBegun

\* The erasure of a sector leaves the range of the call alone outside that sector.
LEMMA EraseSectorInv ==
  ASSUME IInv, NEW Bad, EraseSector(Bad)
  PROVE  IInv'
<1> DEFINE s == flashSectorAt(address)
<1>1. /\ TypeOK /\ pc = "erase" /\ last.op = "erase" /\ last.result = "none" /\ size > 0
      /\ last.from <= address /\ address + size <= last.to /\ last.from <= last.to /\ EraseOnly
  BY DEF IInv, Place, EraseSector
<1>2. /\ address \in Nat /\ size \in Nat /\ last.from \in Nat /\ last.to \in Nat /\ Last \in Nat
      /\ last.to <= Last
  BY <1>1, LastNat DEF TypeOK
<1>3. address \in Address
  BY <1>1, <1>2 DEF Address
<1>4. s \in 0..(Sectors - 1) /\ address \in Sector(s)
  BY <1>3, SectorAtIn
<1>5. /\ flashSectorBegin[s] \in Nat /\ flashSectorEnd(s) \in Nat /\ flashSectorEnd(s) <= Last
      /\ flashSectorBegin[s] < flashSectorEnd(s) /\ s \in 0..Sectors /\ s + 1 \in 0..Sectors
  BY <1>4, SectorIn
<1>6. flashSectorBegin[s] <= address /\ address < flashSectorEnd(s)
  BY <1>2, <1>4, <1>5 DEF Sector
<1>7. /\ mem' = [x \in Address |-> IF x \in Sector(s) \ Bad THEN Erased ELSE mem[x]]
      /\ UNCHANGED <<locked, at, buffer, calls>>
  BY DEF EraseSector
<1>8. mem' \in [Address -> Byte]
  BY <1>1, <1>7 DEF TypeOK, Byte, Erased
<1>9. /\ last'.op = "erase" /\ last'.from = last.from /\ last'.to = last.to /\ last'.mem = last.mem
      /\ last' \in [op : {"none", "write", "erase"}, from : 0..Last, to : 0..Last,
                     mem : [Address -> Byte], result : {"none", "SUCCESS", "NO_PERMISSION", "BAD_FLASH"}]
      /\ pc' \in {"idle", "erase"}
  BY <1>1 DEF EraseSector, Return, TypeOK
<1>10. EraseOnly'
  <2>1. SUFFICES ASSUME NEW r \in 0..(Sectors - 1), ~Meets(r)', NEW x \in Sector(r)
                 PROVE  mem'[x] = last.mem[x]
    BY <1>9 DEF EraseOnly
  <2>2. ~Meets(r)
    BY <1>9, <2>1 DEF Meets
  <2>3. Meets(s)
    BY <1>1, <1>2, <1>4 DEF Meets
  <2>4. x \in Address /\ x \notin Sector(s)
    BY <1>4, <2>1, <2>2, <2>3, SectorIn, SectorsApart
  <2>5. mem'[x] = mem[x]
    BY <1>7, <2>4
  <2> QED BY <1>1, <2>1, <2>2, <2>5 DEF EraseOnly
\* An address that begins a sector and is in this one begins this one.
<1>11. AtBegin(address) => address = flashSectorBegin[s]
  <2>1. SUFFICES ASSUME NEW t \in 0..Sectors, address = flashSectorBegin[t] PROVE t = s
    BY DEF AtBegin
  <2>2. t # Sectors
    BY <1>2, <1>5, <1>6, <2>1 DEF Last
  <2>3. t \in 0..(Sectors - 1)
    BY <2>1, <2>2, SectorsAssumption
  <2>4. address \in Sector(t)
    BY <1>2, <2>1, <2>3, SectorIn DEF Sector
  <2> QED BY <1>4, <2>3, <2>4, SectorsApart
<1>12. ASSUME AtBegin(last.from),
              flashIsErased(mem', flashSectorBegin[s], flashSectorSize(s))
       PROVE  /\ address = flashSectorBegin[s] /\ address + size = last.to
              /\ \A x \in last.from..(flashSectorEnd(s) - 1) : x < Last /\ mem'[x] = Erased
  <2>1. /\ AtBegin(address) /\ address + size = last.to
        /\ \A x \in last.from..(address - 1) : mem[x] = Erased
    BY <1>1, <1>12 DEF IInv, EraseBegun
  <2>2. address = flashSectorBegin[s]
    BY <1>11, <2>1
  <2>3. ASSUME NEW x \in last.from..(flashSectorEnd(s) - 1) PROVE x < Last /\ mem'[x] = Erased
    <3>1. x \in Nat /\ x < Last /\ x \in Address
      BY <1>2, <1>5, <2>3 DEF Address
    <3>2. CASE x < address
      <4>1. mem[x] = Erased
        BY <1>2, <2>1, <2>3, <3>1, <3>2
      <4> QED BY <1>7, <3>1, <4>1
    <3>3. CASE x >= address
      <4>1. x \in flashSectorBegin[s]..(flashSectorBegin[s] + flashSectorSize(s) - 1)
        BY <1>2, <1>5, <2>2, <2>3, <3>1, <3>3 DEF flashSectorSize
      <4> QED BY <1>12, <3>1, <4>1 DEF flashIsErased
    <3> QED BY <1>2, <3>1, <3>2, <3>3
  <2> QED BY <2>1, <2>2, <2>3
<1>13. CASE ~flashIsErased(mem', flashSectorBegin[s], flashSectorSize(s))
  <2>1. pc' = "idle" /\ last' = [last EXCEPT !.result = "BAD_FLASH"] /\ UNCHANGED <<address, size>>
    BY <1>13 DEF EraseSector, Return
  <2>2. last'.result = "BAD_FLASH"
    BY <1>1, <2>1 DEF TypeOK
  <2>3. TypeOK'
    BY <1>1, <1>7, <1>8, <1>9, <2>1 DEF TypeOK
  <2>4. Place' /\ WriteExact' /\ EraseWhole' /\ EraseBegun'
    BY <1>1, <1>9, <2>1, <2>2 DEF Place, WriteExact, EraseWhole, EraseBegun
  <2> QED BY <1>10, <2>3, <2>4 DEF IInv
<1>14. CASE flashIsErased(mem', flashSectorBegin[s], flashSectorSize(s)) /\ SectorDone(s)
  <2>1. /\ pc' = "idle" /\ last' = [last EXCEPT !.result = "SUCCESS"] /\ size' = size
        /\ address' = flashSectorEnd(s) /\ size <= flashSectorSize(s)
    BY <1>2, <1>5, <1>14 DEF EraseSector, Return, SectorDone, flashSectorSize
  <2>2. TypeOK'
    BY <1>1, <1>2, <1>5, <1>7, <1>8, <1>9, <2>1 DEF TypeOK
  <2>3. Place' /\ WriteExact' /\ EraseBegun'
    BY <1>1, <1>9, <2>1 DEF Place, WriteExact, EraseBegun
  <2>4. EraseWhole'
    <3>1. SUFFICES ASSUME AtBegin(last.from), NEW x \in last.from..(last.to - 1) PROVE mem'[x] = Erased
      BY <1>9 DEF EraseWhole, AtBegin
    <3>2. x \in last.from..(flashSectorEnd(s) - 1)
      BY <1>2, <1>5, <1>12, <1>14, <2>1, <3>1 DEF flashSectorSize
    <3> QED BY <1>12, <1>14, <3>1, <3>2
  <2> QED BY <1>10, <2>2, <2>3, <2>4 DEF IInv
<1>15. CASE flashIsErased(mem', flashSectorBegin[s], flashSectorSize(s)) /\ ~SectorDone(s)
  <2>1. /\ size' = size - flashSectorSize(s) /\ address' = flashSectorEnd(s) /\ UNCHANGED <<pc, last>>
        /\ size > flashSectorSize(s)
    BY <1>2, <1>5, <1>15 DEF EraseSector, SectorDone, flashSectorSize
  <2>2. /\ size' > 0 /\ size' \in 0..Last /\ address' \in 0..Last /\ last.from <= address'
        /\ address' + size' = flashSectorBegin[s] + size /\ address' + size' <= last.to
    BY <1>1, <1>2, <1>5, <1>6, <2>1 DEF flashSectorSize
  <2>3. TypeOK'
    BY <1>1, <1>7, <1>8, <1>9, <2>1, <2>2 DEF TypeOK
  <2>4. Place' /\ WriteExact' /\ EraseWhole'
    BY <1>1, <1>9, <2>1, <2>2 DEF Place, WriteExact, EraseWhole
  <2>5. EraseBegun'
    <3>1. SUFFICES ASSUME AtBegin(last.from)
                   PROVE  /\ AtBegin(address)' /\ address' + size' = last.to
                          /\ \A x \in last.from..(address' - 1) : mem'[x] = Erased
      BY <2>1 DEF EraseBegun, AtBegin
    <3>2. AtBegin(address)'
      BY <1>5, <2>1 DEF AtBegin, flashSectorEnd
    <3> QED BY <1>12, <1>15, <2>1, <2>2, <3>1, <3>2
  <2> QED BY <1>10, <2>3, <2>4, <2>5 DEF IInv
<1> QED BY <1>13, <1>14, <1>15

LEMMA EraseDeniedInv == ASSUME IInv, EraseDenied PROVE IInv'
<1>1. /\ TypeOK /\ pc = "erase" /\ last.op = "erase" /\ pc' = "idle"
      /\ last' = [last EXCEPT !.result = "NO_PERMISSION"]
      /\ UNCHANGED <<mem, locked, address, size, at, buffer, calls>>
  BY DEF IInv, Place, EraseDenied, Return
<1>2. /\ last'.op = "erase" /\ last'.from = last.from /\ last'.to = last.to /\ last'.mem = last.mem
      /\ last'.result = "NO_PERMISSION"
  BY <1>1 DEF TypeOK
<1>3. TypeOK'
  BY <1>1 DEF TypeOK
<1>4. EraseOnly'
  BY <1>1, <1>2 DEF IInv, EraseOnly, Meets
<1> QED BY <1>1, <1>2, <1>3, <1>4 DEF IInv, Place, WriteExact, EraseWhole, EraseBegun

LEMMA StutterInv == ASSUME IInv, UNCHANGED vars PROVE IInv'
BY DEF vars, IInv, TypeOK, Place, WriteExact, Written, EraseOnly, Meets, EraseWhole, EraseBegun, AtBegin

LEMMA Inductive == Spec => []IInv
<1>1. ASSUME IInv, [Next]_vars PROVE IInv'
  <2>1. ASSUME NEW a \in Address, NEW n \in 0..(Last - a), Erase(a, n) PROVE IInv'
    BY <1>1, <2>1, EraseInv
  <2>2. ASSUME NEW a \in Address, NEW n \in 0..(Last - a), NEW b \in Buffers, Write(a, n, b) PROVE IInv'
    BY <1>1, <2>2, WriteInv
  <2>3. CASE WriteHead
    BY <1>1, <2>3, WriteHeadInv
  <2>4. CASE WriteWord
    BY <1>1, <2>4, WriteWordInv
  <2>5. CASE WriteTail
    BY <1>1, <2>5, WriteTailInv
  <2>6. ASSUME NEW Bad, EraseSector(Bad) PROVE IInv'
    BY <1>1, <2>6, EraseSectorInv
  <2>7. CASE EraseDenied
    BY <1>1, <2>7, EraseDeniedInv
  <2>8. CASE UNCHANGED vars
    BY <1>1, <2>8, StutterInv
  <2> QED BY <1>1, <2>1, <2>2, <2>3, <2>4, <2>5, <2>6, <2>7, <2>8 DEF Next
<1> QED BY <1>1, StartInv, PTL DEF Spec

\* The types of the flash driver hold for ever: sizes and addresses never leave the flash.
THEOREM FlashTypeCorrect == Spec => []TypeOK
BY Inductive, PTL DEF IInv

\* flashWrite changes the bytes of its range and no other (flash.c:217-266), for any
\* alignment, any flash and any buffer, also if it is cut between two words.
THEOREM WritesItsRange == Spec => []WriteExact
BY Inductive, PTL DEF IInv

\* flashErase never touches a sector without a byte of its range (flash.c:116-133).
THEOREM ErasesOnlyItsSectors == Spec => []EraseOnly
BY Inductive, PTL DEF IInv

\* A flashErase that succeeds on a range that begins where a sector does has erased it all.
THEOREM ErasesWholeSectors == Spec => []EraseWhole
BY Inductive, PTL DEF IInv

=============================================================================
