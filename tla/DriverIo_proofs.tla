--------------------------- MODULE DriverIo_proofs ---------------------------
(***************************************************************************)
(* Proofs about the driver's I/O commands: the stores hold what the host   *)
(* was told, a Read delivers it to the bytes of the host's buffer, and a   *)
(* Compare compares with them, for every buffer whose PRP list lies in one *)
(* page and every backend.                                                 *)
(***************************************************************************)
EXTENDS DriverIo, Counters

(* What a byte of a store may be, and a store *)
Stored == Values \ {Junk}
Stores == [Bytes -> Stored]
AllKinds == {"memory", "file", "sparse"}

LEMMA Numbers ==
  /\ Wide \in Nat \ {0} /\ Half \in Nat \ {0} /\ Half <= Wide
  /\ PageSize \in Nat \ {0} /\ BlockSize \in Nat \ {0} /\ TotalBlocks \in Nat
  /\ TotalBytes \in Nat /\ TotalBytes < Wide /\ Bytes \subseteq Nat
  /\ ZeroChunk \in Nat \ {0} /\ ZeroesChunk \in Nat \ {0}
<1>1. TotalBytes \in Nat /\ TotalBytes < Wide
  BY StoreAssumption DEF TotalBytes
<1> QED BY <1>1, WidthAssumption, PageAssumption, StoreAssumption DEF Bytes

LEMMA ZeroIsStored == 0 \in Stored
  BY Numbers DEF Stored, Values, Anything, Junk

LEMMA AnythingIs == Stored \subseteq Anything /\ Anything \subseteq Values
  BY DEF Stored, Values

-----------------------------------------------------------------------------
(* What a write may leave *)

(* result is store with a part of new at offset, and with all of it. *)
PartOf(result, store, offset, new) ==
  \A b \in Bytes : \/ result[b] = store[b]
                   \/ b >= offset /\ b - offset \in DOMAIN new /\ result[b] = new[b - offset]
AllOf(result, offset, new) ==
  \A b \in Bytes : b >= offset /\ b - offset \in DOMAIN new => result[b] = new[b - offset]

Outcome(r, store, offset, new) ==
  /\ r \in [ok : BOOLEAN, store : Stores]
  /\ PartOf(r.store, store, offset, new)
  /\ r.ok => AllOf(r.store, offset, new)

LEMMA ZeroesType ==
  ASSUME NEW length
  PROVE  /\ Zeroes(length) \in [0 .. length - 1 -> Stored]
         /\ DOMAIN Zeroes(length) = 0 .. length - 1
         /\ \A k \in 0 .. length - 1 : Zeroes(length)[k] = 0
  BY ZeroIsStored DEF Zeroes

LEMMA ResultFields ==
  ASSUME NEW store
  PROVE  /\ Done(store).ok /\ Done(store).store = store
         /\ ~ Error(store).ok /\ Error(store).store = store
         /\ store \in Stores => {Done(store), Error(store)} \subseteq [ok : BOOLEAN, store : Stores]
  BY DEF Done, Error

(* The distance of a byte from the offset, in 64 bits *)
LEMMA Distance ==
  ASSUME NEW b \in Bytes, NEW offset \in 0 .. TotalBytes
  PROVE  (b + Wide - offset) % Wide = IF b >= offset THEN b - offset ELSE b + Wide - offset
<1>1. b \in Nat /\ b < Wide /\ offset \in Nat /\ offset < Wide
  BY Numbers DEF Bytes
<1>2. CASE b >= offset
  <2>1. PICK d : d = b - offset
    OBVIOUS
  <2>2. d \in 0 .. Wide - 1 /\ d \in Nat /\ b + Wide - offset = d + Wide
    BY <1>1, <1>2, <2>1, Numbers
  <2>3. Place(d + Wide, Wide) = Place(d, Wide) /\ Place(d, Wide) = d
    BY <2>2, Numbers, PlaceLap, PlaceInFirstLap
  <2> QED BY <1>2, <2>1, <2>2, <2>3 DEF Place
<1>3. CASE ~ (b >= offset)
  <2>1. PICK d : d = b + Wide - offset
    OBVIOUS
  <2>2. d \in 0 .. Wide - 1
    BY <1>1, <1>3, <2>1, Numbers
  <2>3. Place(d, Wide) = d
    BY <2>2, Numbers, PlaceInFirstLap
  <2> QED BY <1>3, <2>1, <2>3 DEF Place
<1> QED BY <1>2, <1>3

LEMMA OverlayIs ==
  ASSUME NEW store \in Stores, NEW offset \in Nat, NEW length \in Nat, offset + length <= TotalBytes,
         NEW E \in SUBSET (0 .. length - 1), NEW new \in [E -> Stored]
  PROVE  /\ Overlay(store, offset, new) \in Stores
         /\ PartOf(Overlay(store, offset, new), store, offset, new)
         /\ AllOf(Overlay(store, offset, new), offset, new)
<1>1. PICK f : f = Overlay(store, offset, new)
  OBVIOUS
<1>2. ASSUME NEW b \in Bytes
      PROVE  f[b] = IF b >= offset /\ b - offset \in E THEN new[b - offset] ELSE store[b]
  <2>1. PICK k : k = (b + Wide - offset) % Wide
    OBVIOUS
  <2>2. f[b] = IF k \in E THEN new[k] ELSE store[b]
    BY <1>1, <2>1 DEF Overlay
  <2>3. offset \in 0 .. TotalBytes /\ b \in Nat
    BY Numbers
  <2>4. k = IF b >= offset THEN b - offset ELSE b + Wide - offset
    BY <2>1, <2>3, Distance
  <2>5. ~ (b >= offset) => k \notin E
    BY <2>3, <2>4, Numbers
  <2> QED BY <2>2, <2>4, <2>5
<1>3. f = [b \in Bytes |-> f[b]]
  BY <1>1 DEF Overlay
<1>4. f \in Stores
  <2>1. \A b \in Bytes : f[b] \in Stored
    BY <1>2 DEF Stores
  <2> QED BY <1>3, <2>1 DEF Stores
<1>5. PartOf(f, store, offset, new)
  BY <1>2 DEF PartOf
<1>6. AllOf(f, offset, new)
  BY <1>2 DEF AllOf
<1> QED BY <1>1, <1>4, <1>5, <1>6

LEMMA WrittenOutcome ==
  ASSUME NEW store \in Stores, NEW offset \in Nat, NEW length \in Nat, offset + length <= TotalBytes,
         NEW E \in SUBSET (0 .. length - 1), NEW new \in [E -> Stored],
         NEW r \in ZwWriteFile(store, offset, new)
  PROVE  Outcome(r, store, offset, new)
<1>1. CASE r = Done(Overlay(store, offset, new))
  <2>1. PICK f : f = Overlay(store, offset, new)
    OBVIOUS
  <2>2. f \in Stores /\ PartOf(f, store, offset, new) /\ AllOf(f, offset, new)
    BY <2>1, OverlayIs
  <2>3. r \in [ok : BOOLEAN, store : Stores] /\ r.store = f
    BY <1>1, <2>1, <2>2, ResultFields
  <2> QED BY <2>2, <2>3 DEF Outcome
<1>2. ASSUME NEW n, r = Error(Overlay(store, offset, Prefix(new, n)))
      PROVE  Outcome(r, store, offset, new)
  <2>1. PICK part, F : part = Prefix(new, n) /\ F = {k \in E : k < n}
    OBVIOUS
  <2>2. F \in SUBSET (0 .. length - 1) /\ part \in [F -> Stored] /\ \A k \in F : k \in E /\ part[k] = new[k]
    <3>1. part = [k \in F |-> new[k]]
      BY <2>1 DEF Prefix
    <3>2. F \subseteq E
      BY <2>1
    <3> QED BY <3>1, <3>2
  <2>3. PICK f : f = Overlay(store, offset, part)
    OBVIOUS
  <2>4. f \in Stores /\ PartOf(f, store, offset, part)
    BY <2>2, <2>3, OverlayIs
  <2>5. PartOf(f, store, offset, new)
    BY <2>2, <2>4 DEF PartOf
  <2>6. r \in [ok : BOOLEAN, store : Stores] /\ ~ r.ok /\ r.store = f
    BY <1>2, <2>1, <2>3, <2>4, ResultFields
  <2> QED BY <2>5, <2>6 DEF Outcome
<1>3. r = Done(Overlay(store, offset, new)) \/ \E n : r = Error(Overlay(store, offset, Prefix(new, n)))
  BY DEF ZwWriteFile
<1> QED BY <1>1, <1>2, <1>3

LEMMA UnchangedOutcome ==
  ASSUME NEW store \in Stores, NEW offset, NEW new
  PROVE  Outcome(Error(store), store, offset, new)
  BY ResultFields DEF Outcome, PartOf

(* StorageFileWrite, and every kind of backend *)
LEMMA FileWriteOutcome ==
  ASSUME NEW store \in Stores, NEW offset \in Nat, NEW length \in Nat, offset + length <= TotalBytes,
         NEW E \in SUBSET (0 .. length - 1), NEW new \in [E -> Stored],
         NEW r \in StorageFileWrite(store, offset, new)
  PROVE  Outcome(r, store, offset, new)
<1>1. CASE r = Error(store)
  BY <1>1, UnchangedOutcome
<1>2. CASE r \in ZwWriteFile(store, offset, new)
  BY <1>2, WrittenOutcome
<1> QED BY <1>1, <1>2 DEF StorageFileWrite

LEMMA WriteOutcome ==
  ASSUME NEW kind \in AllKinds, NEW store \in Stores, NEW offset \in Nat, NEW length \in Nat,
         offset + length <= TotalBytes, NEW E \in SUBSET (0 .. length - 1), NEW new \in [E -> Stored],
         NEW r \in VnvmeStorageWrite(kind, store, offset, new)
  PROVE  Outcome(r, store, offset, new)
<1>1. CASE r = Error(store)
  BY <1>1, UnchangedOutcome
<1>2. CASE r \in ZwWriteFile(store, offset, new)
  BY <1>2, WrittenOutcome
<1>3. Done(Overlay(store, offset, new)) \in ZwWriteFile(store, offset, new)
  BY DEF ZwWriteFile
<1> QED BY <1>1, <1>2, <1>3
        DEF AllKinds, VnvmeStorageWrite, StorageMemoryWrite, StorageFileWrite, StorageSparseWrite

-----------------------------------------------------------------------------
(* Zeroes written in chunks, by a file or by the handler of Write Zeroes *)

Results == [ok : BOOLEAN, store : Stores]
ChunkCount(length, chunk) == (length + chunk - 1) \div chunk

(* Chunk i of a range is the m bytes from `at' on. *)
ChunkAt(i, length, chunk, at, m) ==
  /\ at \in Nat /\ m \in Nat
  /\ at = Laps(i - 1, chunk) /\ Laps(i, chunk) = at + chunk /\ at < length /\ at + m <= length
  /\ m = chunk \/ at + m = length

(* r comes from s by writing m zeroes at a place, unless s has failed. *)
ChunkWritten(r, s, place, m) == IF s.ok THEN Outcome(r, s.store, place, Zeroes(m)) ELSE r = s

LEMMA ChunkCountIs ==
  ASSUME NEW chunk \in Nat \ {0}, NEW length \in Nat
  PROVE  /\ ChunkCount(length, chunk) \in Nat
         /\ Laps(ChunkCount(length, chunk), chunk) \in Nat
         /\ length <= Laps(ChunkCount(length, chunk), chunk)
         /\ \A i \in 1 .. ChunkCount(length, chunk) :
              ChunkAt(i, length, chunk, (i - 1) * chunk, Smaller(chunk, length - (i - 1) * chunk))
<1>1. PICK z : z = length + chunk - 1
  OBVIOUS
<1>2. z \in Nat
  BY <1>1
<1>3. PICK n, p : n = z \div chunk /\ p = Place(z, chunk)
  OBVIOUS
<1>4. n \in Nat /\ p \in 0 .. chunk - 1 /\ z = Laps(n, chunk) + p /\ Laps(n, chunk) \in Nat
  BY <1>2, <1>3, Quotient, LapsAdd
<1>5. ChunkCount(length, chunk) = n
  BY <1>1, <1>3 DEF ChunkCount
<1>6. length <= Laps(n, chunk)
  BY <1>1, <1>4
<1>7. ASSUME NEW i \in 1 .. n
      PROVE  ChunkAt(i, length, chunk, (i - 1) * chunk, Smaller(chunk, length - (i - 1) * chunk))
  <2>1. PICK j : j = i - 1
    OBVIOUS
  <2>2. j \in Nat /\ j < n /\ i = j + 1
    BY <1>4, <2>1
  <2>3. PICK at : at = j * chunk
    OBVIOUS
  <2>4. at = Laps(j, chunk)
    BY <2>2, <2>3 DEF Laps
  <2>5. at \in Nat /\ at + chunk <= Laps(n, chunk)
    BY <1>4, <2>2, <2>4, LapsGrow
  <2>6. Laps(i, chunk) = at + chunk
    BY <2>2, <2>4, LapsAdd, LapsFew
  <2>7. at < length
    BY <1>1, <1>4, <2>5
  <2>8. PICK m : m = Smaller(chunk, length - at)
    OBVIOUS
  <2>9. m \in Nat /\ at + m <= length /\ (m = chunk \/ at + m = length)
    BY <2>5, <2>7, <2>8 DEF Smaller
  <2>10. ChunkAt(i, length, chunk, at, m)
    BY <2>1, <2>4, <2>5, <2>6, <2>7, <2>9 DEF ChunkAt
  <2> QED BY <2>1, <2>3, <2>8, <2>10
<1> QED BY <1>4, <1>5, <1>6, <1>7

(* The bytes before `to' are zero. *)
ZeroedTo(result, offset, length, to) ==
  \A b \in Bytes : b >= offset /\ b - offset \in 0 .. length - 1 /\ b - offset < to => result[b] = 0

(* After chunks up to `to': a part of the zeroes is written, and as long   *)
(* as no chunk has failed all of those up to there.                        *)
AfterChunks(r, to, store, offset, length) ==
  /\ r \in Results
  /\ PartOf(r.store, store, offset, Zeroes(length))
  /\ r.ok => ZeroedTo(r.store, offset, length, to)

LEMMA OneChunk ==
  ASSUME NEW chunk \in Nat \ {0}, NEW store \in Stores, NEW offset \in Nat, NEW length \in Nat,
         NEW at, NEW m, NEW i, ChunkAt(i, length, chunk, at, m),
         NEW s, AfterChunks(s, Laps(i - 1, chunk), store, offset, length),
         NEW r, ChunkWritten(r, s, offset + at, m)
  PROVE  AfterChunks(r, Laps(i, chunk), store, offset, length)
<1>1. /\ at \in Nat /\ m \in Nat /\ at + m <= length
      /\ Laps(i - 1, chunk) = at /\ Laps(i, chunk) = at + chunk
      /\ m = chunk \/ at + m = length
  BY DEF ChunkAt
<1>2. CASE ~ s.ok
  BY <1>2 DEF AfterChunks, ChunkWritten
<1>3. CASE s.ok
  <2>1. Outcome(r, s.store, offset + at, Zeroes(m)) /\ r \in Results
    BY <1>3 DEF ChunkWritten, Outcome, Results
  <2>2. /\ DOMAIN Zeroes(m) = 0 .. m - 1 /\ \A k \in 0 .. m - 1 : Zeroes(m)[k] = 0
        /\ DOMAIN Zeroes(length) = 0 .. length - 1 /\ \A k \in 0 .. length - 1 : Zeroes(length)[k] = 0
    BY ZeroesType
  <2>3. ASSUME NEW b \in Bytes
        PROVE  \/ r.store[b] = s.store[b]
               \/ b >= offset + at /\ b - (offset + at) \in 0 .. m - 1 /\ r.store[b] = 0
    BY <2>1, <2>2 DEF Outcome, PartOf
  <2>4. PartOf(r.store, store, offset, Zeroes(length))
    <3>1. ASSUME NEW b \in Bytes
          PROVE  \/ r.store[b] = store[b]
                 \/ b >= offset /\ b - offset \in 0 .. length - 1 /\ r.store[b] = 0
      <4>1. \/ s.store[b] = store[b]
            \/ b >= offset /\ b - offset \in 0 .. length - 1 /\ s.store[b] = 0
        BY <2>2 DEF AfterChunks, PartOf
      <4>2. CASE b >= offset + at /\ b - (offset + at) \in 0 .. m - 1 /\ r.store[b] = 0
        <5>1. b \in Nat
          BY Numbers
        <5>2. b >= offset /\ b - offset \in 0 .. length - 1
          BY <1>1, <4>2, <5>1
        <5> QED BY <4>2, <5>2
      <4> QED BY <2>3, <4>1, <4>2
    <3> QED BY <2>2, <3>1 DEF PartOf
  <2>5. ASSUME r.ok PROVE ZeroedTo(r.store, offset, length, at + chunk)
    <3>1. ASSUME NEW b \in Bytes, b >= offset, b - offset \in 0 .. length - 1, b - offset < at + chunk
          PROVE  r.store[b] = 0
      <4>0. b \in Nat
        BY Numbers
      <4>1. CASE b - offset < at
        <5>1. s.store[b] = 0
          BY <1>1, <1>3, <3>1, <4>1 DEF AfterChunks, ZeroedTo
        <5> QED BY <2>3, <5>1
      <4>2. CASE ~ (b - offset < at)
        <5>1. b >= offset + at /\ b - (offset + at) \in 0 .. m - 1
          BY <1>1, <3>1, <4>0, <4>2
        <5>2. AllOf(r.store, offset + at, Zeroes(m))
          BY <2>1, <2>5 DEF Outcome
        <5> QED BY <2>2, <5>1, <5>2 DEF AllOf
      <4> QED BY <4>1, <4>2
    <3> QED BY <3>1 DEF ZeroedTo
  <2> QED BY <1>1, <2>1, <2>4, <2>5 DEF AfterChunks
<1> QED BY <1>2, <1>3

(* What chunk i may make of the results of the chunks before *)
ChunkFollows(g, i, offset, length, chunk) ==
  \A r \in g[i] : \E s \in g[i - 1] : \E at, m :
    ChunkAt(i, length, chunk, at, m) /\ ChunkWritten(r, s, offset + at, m)

LEMMA AllChunks ==
  ASSUME NEW chunk \in Nat \ {0}, NEW store \in Stores, NEW offset \in Nat, NEW length \in Nat,
         NEW g, g[0] = {Done(store)},
         \A i \in 1 .. ChunkCount(length, chunk) : ChunkFollows(g, i, offset, length, chunk),
         NEW r \in g[ChunkCount(length, chunk)]
  PROVE  Outcome(r, store, offset, Zeroes(length))
<1> DEFINE n == ChunkCount(length, chunk)
<1> DEFINE T == {i \in Nat : i <= n => \A s \in g[i] : AfterChunks(s, Laps(i, chunk), store, offset, length)}
<1>0. n \in Nat /\ length <= Laps(n, chunk) /\ Laps(n, chunk) \in Nat
  BY ChunkCountIs
<1>1. 0 \in T
  <2>1. Laps(0, chunk) = 0
    BY LapsFew
  <2>2. ZeroedTo(store, offset, length, 0)
    BY DEF ZeroedTo
  <2>3. Done(store) \in Results /\ Done(store).store = store
    BY ResultFields DEF Results
  <2>4. AfterChunks(Done(store), 0, store, offset, length)
    BY <2>2, <2>3 DEF AfterChunks, PartOf
  <2> QED BY <2>1, <2>4
<1>2. ASSUME NEW i \in Nat, i \in T PROVE i + 1 \in T
  <2>1. CASE i + 1 <= n
    <3>1. PICK j : j = i + 1
      OBVIOUS
    <3>2. j \in 1 .. n /\ j - 1 = i
      BY <1>0, <2>1, <3>1
    <3>3. ASSUME NEW s \in g[j] PROVE AfterChunks(s, Laps(j, chunk), store, offset, length)
      <4>1. PICK q \in g[i] : \E at, m : ChunkAt(j, length, chunk, at, m) /\ ChunkWritten(s, q, offset + at, m)
        BY <3>2 DEF ChunkFollows
      <4>2. PICK at, m : ChunkAt(j, length, chunk, at, m) /\ ChunkWritten(s, q, offset + at, m)
        BY <4>1
      <4>3. AfterChunks(q, Laps(j - 1, chunk), store, offset, length)
        BY <1>0, <1>2, <2>1, <3>2
      <4> QED BY <4>2, <4>3, OneChunk
    <3> QED BY <3>1, <3>3
  <2> QED BY <2>1
<1>3. Nat \subseteq T
  <2> HIDE DEF T
  <2> QED BY <1>1, <1>2, NatSetInduction
<1>4. AfterChunks(r, Laps(n, chunk), store, offset, length)
  BY <1>0, <1>3
<1>5. ASSUME r.ok PROVE AllOf(r.store, offset, Zeroes(length))
  <2>1. ZeroedTo(r.store, offset, length, Laps(n, chunk))
    BY <1>4, <1>5 DEF AfterChunks
  <2>2. DOMAIN Zeroes(length) = 0 .. length - 1 /\ \A k \in 0 .. length - 1 : Zeroes(length)[k] = 0
    BY ZeroesType
  <2>3. ASSUME NEW b \in Bytes, b >= offset, b - offset \in 0 .. length - 1 PROVE r.store[b] = 0
    <3>1. b - offset < Laps(n, chunk)
      BY <1>0, <2>3
    <3> QED BY <2>1, <2>3, <3>1 DEF ZeroedTo
  <2> QED BY <2>2, <2>3 DEF AllOf
<1> QED BY <1>4, <1>5 DEF AfterChunks, Outcome, Results

(* The place of a chunk, in 64 bits *)
LEMMA ChunkPlace ==
  ASSUME NEW offset \in Nat, NEW length \in Nat, offset + length <= TotalBytes,
         NEW at \in Nat, NEW m \in Nat, at + m <= length
  PROVE  (offset + at) % Wide = offset + at
<1>1. PICK z : z = offset + at
  OBVIOUS
<1>2. z \in 0 .. Wide - 1
  BY <1>1, Numbers
<1>3. Place(z, Wide) = z
  BY <1>2, Numbers, PlaceInFirstLap
<1> QED BY <1>1, <1>3 DEF Place

ZeroStep(x, offset, length, i) ==
  UNION {IF r.ok THEN StorageFileWrite(r.store, (offset + (i - 1) * ZeroChunk) % Wide,
                                       Zeroes(Smaller(ZeroChunk, length - (i - 1) * ZeroChunk)))
         ELSE {r} : r \in x}

LEMMA ZeroStepIs ==
  ASSUME NEW offset \in Nat, NEW length \in Nat, offset + length <= TotalBytes,
         NEW i \in 1 .. ChunkCount(length, ZeroChunk), NEW x \in SUBSET Results,
         NEW r \in ZeroStep(x, offset, length, i)
  PROVE  /\ r \in Results
         /\ \E s \in x : \E at, m : ChunkAt(i, length, ZeroChunk, at, m) /\ ChunkWritten(r, s, offset + at, m)
<1>1. PICK at, m : at = (i - 1) * ZeroChunk /\ m = Smaller(ZeroChunk, length - at)
  OBVIOUS
<1>2. ChunkAt(i, length, ZeroChunk, at, m)
  BY <1>1, Numbers, ChunkCountIs
<1>3. at \in Nat /\ m \in Nat /\ at + m <= length
  BY <1>2 DEF ChunkAt
<1>4. (offset + at) % Wide = offset + at
  BY <1>3, ChunkPlace
<1>5. PICK s \in x : r \in IF s.ok THEN StorageFileWrite(s.store, offset + at, Zeroes(m)) ELSE {s}
  BY <1>1, <1>4 DEF ZeroStep
<1>6. s.store \in Stores /\ s \in Results
  BY DEF Results
<1>7. CASE s.ok
  <2>1. PICK new, place : new = Zeroes(m) /\ place = offset + at
    OBVIOUS
  <2>2. 0 .. m - 1 \in SUBSET (0 .. m - 1) /\ new \in [0 .. m - 1 -> Stored] /\ place \in Nat
        /\ place + m <= TotalBytes
    BY <1>3, <2>1, ZeroesType, Numbers
  <2>3. r \in StorageFileWrite(s.store, place, new)
    BY <1>5, <1>7, <2>1
  <2>4. Outcome(r, s.store, place, new)
    BY <1>3, <1>6, <2>2, <2>3, FileWriteOutcome
  <2>5. r \in Results /\ ChunkWritten(r, s, offset + at, m)
    BY <1>7, <2>1, <2>4 DEF ChunkWritten, Outcome, Results
  <2> QED BY <1>2, <2>5
<1>8. CASE ~ s.ok
  <2>1. r = s
    BY <1>5, <1>8
  <2> QED BY <1>2, <1>6, <1>8, <2>1 DEF ChunkWritten
<1> QED BY <1>7, <1>8

ZeroSteps(g, store, offset, length) ==
  g = [i \in 0 .. ChunkCount(length, ZeroChunk) |->
         IF i = 0 THEN {Done(store)} ELSE ZeroStep(g[i - 1], offset, length, i)]

(* The recursion of WriteZeroChunks has a solution. *)
LEMMA ZeroStepsExist ==
  ASSUME NEW store \in Stores, NEW offset \in Nat, NEW length \in Nat, offset + length <= TotalBytes
  PROVE  \E g : ZeroSteps(g, store, offset, length)
<1> DEFINE n == ChunkCount(length, ZeroChunk)
<1> DEFINE S == SUBSET Results
<1> DEFINE c == {Done(store)}
<1>1. n \in Nat /\ c \in S
  BY ChunkCountIs, Numbers, ResultFields DEF Results
<1> DEFINE step == [x \in S \X (1 .. n) |-> ZeroStep(x[1], offset, length, x[2])]
<1>2. \A x \in S, i \in 1 .. n : step[<<x, i>>] = ZeroStep(x, offset, length, i)
  OBVIOUS
<1>3. ASSUME NEW x \in S, NEW i \in 1 .. n PROVE step[<<x, i>>] \in S
  <2>1. ZeroStep(x, offset, length, i) \subseteq Results
    BY ZeroStepIs
  <2> QED BY <1>2, <2>1
<1> HIDE DEF step, S, c
<1>4. PICK g : Iterates(g, c, step, n, S)
  BY <1>1, <1>3, IterationExists
<1>5. g = [i \in 0 .. n |-> IF i = 0 THEN c ELSE ZeroStep(g[i - 1], offset, length, i)]
  <2>1. g \in [0 .. n -> S] /\ g[0] = c
    BY <1>4 DEF Iterates
  <2>2. ASSUME NEW i \in 1 .. n PROVE g[i] = ZeroStep(g[i - 1], offset, length, i)
    <3>1. i - 1 \in 0 .. n
      BY <1>1
    <3>2. g[i - 1] \in S
      BY <2>1, <3>1
    <3> QED BY <1>2, <1>4, <3>2 DEF Iterates
  <2>3. \A i \in 0 .. n : i # 0 => i \in 1 .. n
    BY <1>1
  <2> QED BY <2>1, <2>2, <2>3
<1> QED BY <1>5 DEF ZeroSteps, c

LEMMA WriteZeroChunksOutcome ==
  ASSUME NEW store \in Stores, NEW offset \in Nat, NEW length \in Nat, offset + length <= TotalBytes,
         NEW r \in WriteZeroChunks(store, offset, length)
  PROVE  Outcome(r, store, offset, Zeroes(length))
<1> DEFINE done == CHOOSE h : h = [i \in 0 .. (length + ZeroChunk - 1) \div ZeroChunk |->
                     IF i = 0 THEN {Done(store)}
                     ELSE UNION {IF q.ok THEN StorageFileWrite(q.store, (offset + (i - 1) * ZeroChunk) % Wide,
                                                Zeroes(Smaller(ZeroChunk, length - (i - 1) * ZeroChunk)))
                                 ELSE {q} : q \in h[i - 1]}]
<1>1. \E g : ZeroSteps(g, store, offset, length)
  BY ZeroStepsExist
<1>2. ZeroSteps(done, store, offset, length)
  BY <1>1, Zenon DEF ZeroSteps, ZeroStep, ChunkCount
<1>3. WriteZeroChunks(store, offset, length) = done[ChunkCount(length, ZeroChunk)]
  BY Zenon DEF WriteZeroChunks, ChunkCount
<1> HIDE DEF done
<1> DEFINE n == ChunkCount(length, ZeroChunk)
<1>4. n \in Nat
  BY ChunkCountIs, Numbers
<1>5. done[0] = {Done(store)}
  BY <1>2, <1>4 DEF ZeroSteps
<1>6. \A i \in 1 .. n : done[i] = ZeroStep(done[i - 1], offset, length, i)
  <2>1. \A i \in 1 .. n : i \in 0 .. n /\ i # 0
    OBVIOUS
  <2> QED BY <1>2, <2>1 DEF ZeroSteps
<1>7. \A i \in 0 .. n : done[i] \in SUBSET Results
  <2>1. done[0] \in SUBSET Results
    BY <1>5, ResultFields DEF Results
  <2>2. ASSUME NEW i \in 1 .. n, done[i - 1] \in SUBSET Results PROVE done[i] \in SUBSET Results
    <3>1. PICK x : x = done[i - 1]
      OBVIOUS
    <3>2. x \in SUBSET Results /\ done[i] = ZeroStep(x, offset, length, i)
      BY <1>6, <2>2, <3>1
    <3>3. \A r1 \in ZeroStep(x, offset, length, i) : r1 \in Results
      BY <3>2, ZeroStepIs
    <3> QED BY <3>2, <3>3
  <2> HIDE DEF n
  <2> QED BY <1>4, <2>1, <2>2, StepsStay
<1>8. ASSUME NEW i \in 1 .. n PROVE ChunkFollows(done, i, offset, length, ZeroChunk)
  <2>1. i - 1 \in 0 .. n
    BY <1>4
  <2>2. done[i - 1] \in SUBSET Results
    BY <1>7, <2>1
  <2>3. done[i] = ZeroStep(done[i - 1], offset, length, i)
    BY <1>6
  <2> QED BY <2>2, <2>3, ZeroStepIs DEF ChunkFollows
<1> QED BY <1>3, <1>5, <1>8, AllChunks, Numbers

(* The backends' own zeroing: a plain file, a sparse file and memory *)
LEMMA ZeroesOutcome ==
  ASSUME NEW kind \in AllKinds, NEW store \in Stores, NEW offset \in Nat, NEW length \in Nat,
         offset + length <= TotalBytes, NEW r \in VnvmeStorageWriteZeroes(kind, store, offset, length)
  PROVE  Outcome(r, store, offset, Zeroes(length))
<1>1. PICK new : new = Zeroes(length)
  OBVIOUS
<1>2. 0 .. length - 1 \in SUBSET (0 .. length - 1) /\ new \in [0 .. length - 1 -> Stored]
  BY <1>1, ZeroesType
<1>3. CASE r = Error(store)
  BY <1>3, UnchangedOutcome
<1>4. CASE r = Done(Overlay(store, offset, new))
  <2>1. r \in ZwWriteFile(store, offset, new)
    BY <1>4 DEF ZwWriteFile
  <2> QED BY <1>1, <1>2, <2>1, WrittenOutcome
<1>5. CASE r \in WriteZeroChunks(store, offset, length)
  BY <1>5, WriteZeroChunksOutcome
<1> QED BY <1>1, <1>3, <1>4, <1>5
        DEF AllKinds, VnvmeStorageWriteZeroes, StorageMemoryWriteZeroes, StorageSparseWriteZeroes

(* Write Zeroes: chunks that the backend zeroes *)
RangeStep(kind, x, offset, length, i) ==
  UNION {IF r.ok THEN VnvmeStorageWriteZeroes(kind, r.store, (offset + (i - 1) * ZeroesChunk) % Wide,
                                              Smaller(ZeroesChunk, length - (i - 1) * ZeroesChunk))
         ELSE {r} : r \in x}

LEMMA RangeStepIs ==
  ASSUME NEW kind \in AllKinds, NEW offset \in Nat, NEW length \in Nat, offset + length <= TotalBytes,
         NEW i \in 1 .. ChunkCount(length, ZeroesChunk), NEW x \in SUBSET Results,
         NEW r \in RangeStep(kind, x, offset, length, i)
  PROVE  /\ r \in Results
         /\ \E s \in x : \E at, m : ChunkAt(i, length, ZeroesChunk, at, m) /\ ChunkWritten(r, s, offset + at, m)
<1>1. PICK at, m : at = (i - 1) * ZeroesChunk /\ m = Smaller(ZeroesChunk, length - at)
  OBVIOUS
<1>2. ChunkAt(i, length, ZeroesChunk, at, m)
  BY <1>1, Numbers, ChunkCountIs
<1>3. at \in Nat /\ m \in Nat /\ at + m <= length
  BY <1>2 DEF ChunkAt
<1>4. (offset + at) % Wide = offset + at
  BY <1>3, ChunkPlace
<1>5. PICK s \in x : r \in IF s.ok THEN VnvmeStorageWriteZeroes(kind, s.store, offset + at, m) ELSE {s}
  BY <1>1, <1>4 DEF RangeStep
<1>6. s.store \in Stores /\ s \in Results
  BY DEF Results
<1>7. CASE s.ok
  <2>1. PICK place : place = offset + at
    OBVIOUS
  <2>2. place \in Nat /\ place + m <= TotalBytes
    BY <1>3, <2>1, Numbers
  <2>3. r \in VnvmeStorageWriteZeroes(kind, s.store, place, m)
    BY <1>5, <1>7, <2>1
  <2>4. Outcome(r, s.store, place, Zeroes(m))
    BY <1>3, <1>6, <2>2, <2>3, ZeroesOutcome
  <2>5. r \in Results /\ ChunkWritten(r, s, offset + at, m)
    BY <1>7, <2>1, <2>4 DEF ChunkWritten, Outcome, Results
  <2> QED BY <1>2, <2>5
<1>8. CASE ~ s.ok
  <2>1. r = s
    BY <1>5, <1>8
  <2> QED BY <1>2, <1>6, <1>8, <2>1 DEF ChunkWritten
<1> QED BY <1>7, <1>8

RangeSteps(kind, g, store, offset, length) ==
  g = [i \in 0 .. ChunkCount(length, ZeroesChunk) |->
         IF i = 0 THEN {Done(store)} ELSE RangeStep(kind, g[i - 1], offset, length, i)]

(* The recursion of ZeroRange has a solution. *)
LEMMA RangeStepsExist ==
  ASSUME NEW kind \in AllKinds, NEW store \in Stores, NEW offset \in Nat, NEW length \in Nat,
         offset + length <= TotalBytes
  PROVE  \E g : RangeSteps(kind, g, store, offset, length)
<1> DEFINE n == ChunkCount(length, ZeroesChunk)
<1> DEFINE S == SUBSET Results
<1> DEFINE c == {Done(store)}
<1>1. n \in Nat /\ c \in S
  BY ChunkCountIs, Numbers, ResultFields DEF Results
<1> DEFINE step == [x \in S \X (1 .. n) |-> RangeStep(kind, x[1], offset, length, x[2])]
<1>2. \A x \in S, i \in 1 .. n : step[<<x, i>>] = RangeStep(kind, x, offset, length, i)
  OBVIOUS
<1>3. ASSUME NEW x \in S, NEW i \in 1 .. n PROVE step[<<x, i>>] \in S
  <2>1. RangeStep(kind, x, offset, length, i) \subseteq Results
    BY RangeStepIs
  <2> QED BY <1>2, <2>1
<1> HIDE DEF step, S, c
<1>4. PICK g : Iterates(g, c, step, n, S)
  BY <1>1, <1>3, IterationExists
<1>5. g = [i \in 0 .. n |-> IF i = 0 THEN c ELSE RangeStep(kind, g[i - 1], offset, length, i)]
  <2>1. g \in [0 .. n -> S] /\ g[0] = c
    BY <1>4 DEF Iterates
  <2>2. ASSUME NEW i \in 1 .. n PROVE g[i] = RangeStep(kind, g[i - 1], offset, length, i)
    <3>1. i - 1 \in 0 .. n
      BY <1>1
    <3>2. g[i - 1] \in S
      BY <2>1, <3>1
    <3> QED BY <1>2, <1>4, <3>2 DEF Iterates
  <2>3. \A i \in 0 .. n : i # 0 => i \in 1 .. n
    BY <1>1
  <2> QED BY <2>1, <2>2, <2>3
<1> QED BY <1>5 DEF RangeSteps, c

LEMMA ZeroRangeOutcome ==
  ASSUME NEW kind \in AllKinds, NEW store \in Stores, NEW offset \in Nat, NEW length \in Nat,
         offset + length <= TotalBytes,
         NEW r \in ZeroRange(kind, store, offset, length)
  PROVE  Outcome(r, store, offset, Zeroes(length))
<1> DEFINE done == CHOOSE h : h = [i \in 0 .. (length + ZeroesChunk - 1) \div ZeroesChunk |->
                     IF i = 0 THEN {Done(store)}
                     ELSE UNION {IF q.ok THEN VnvmeStorageWriteZeroes(kind, q.store, (offset + (i - 1) * ZeroesChunk) % Wide,
                                                Smaller(ZeroesChunk, length - (i - 1) * ZeroesChunk))
                                 ELSE {q} : q \in h[i - 1]}]
<1>1. \E g : RangeSteps(kind, g, store, offset, length)
  BY RangeStepsExist
<1>2. RangeSteps(kind, done, store, offset, length)
  BY <1>1, Zenon DEF RangeSteps, RangeStep, ChunkCount
<1>3. ZeroRange(kind, store, offset, length) = done[ChunkCount(length, ZeroesChunk)]
  BY Zenon DEF ZeroRange, ChunkCount
<1> HIDE DEF done
<1> DEFINE n == ChunkCount(length, ZeroesChunk)
<1>4. n \in Nat
  BY ChunkCountIs, Numbers
<1>5. done[0] = {Done(store)}
  BY <1>2, <1>4 DEF RangeSteps
<1>6. \A i \in 1 .. n : done[i] = RangeStep(kind, done[i - 1], offset, length, i)
  <2>1. \A i \in 1 .. n : i \in 0 .. n /\ i # 0
    OBVIOUS
  <2> QED BY <1>2, <2>1 DEF RangeSteps
<1>7. \A i \in 0 .. n : done[i] \in SUBSET Results
  <2>1. done[0] \in SUBSET Results
    BY <1>5, ResultFields DEF Results
  <2>2. ASSUME NEW i \in 1 .. n, done[i - 1] \in SUBSET Results PROVE done[i] \in SUBSET Results
    <3>1. PICK x : x = done[i - 1]
      OBVIOUS
    <3>2. x \in SUBSET Results /\ done[i] = RangeStep(kind, x, offset, length, i)
      BY <1>6, <2>2, <3>1
    <3>3. \A r1 \in RangeStep(kind, x, offset, length, i) : r1 \in Results
      BY <3>2, RangeStepIs
    <3> QED BY <3>2, <3>3
  <2> HIDE DEF n
  <2> QED BY <1>4, <2>1, <2>2, StepsStay
<1>8. ASSUME NEW i \in 1 .. n PROVE ChunkFollows(done, i, offset, length, ZeroesChunk)
  <2>1. i - 1 \in 0 .. n
    BY <1>4
  <2>2. done[i - 1] \in SUBSET Results
    BY <1>7, <2>1
  <2>3. done[i] = RangeStep(kind, done[i - 1], offset, length, i)
    BY <1>6
  <2> QED BY <2>2, <2>3, RangeStepIs DEF ChunkFollows
<1> QED BY <1>3, <1>5, <1>8, AllChunks, Numbers

-----------------------------------------------------------------------------
(* Reading *)

LEMMA PartIs ==
  ASSUME NEW store \in Stores, NEW offset \in Nat, NEW length \in Nat, offset + length <= TotalBytes
  PROVE  /\ Part(store, offset, length) = [k \in 0 .. length - 1 |-> store[offset + k]]
         /\ \A k \in 0 .. length - 1 : offset + k \in Bytes
<1>1. ASSUME NEW k \in 0 .. length - 1 PROVE offset + k \in Bytes /\ (offset + k) % Wide = offset + k
  <2>1. k \in Nat /\ k + 1 \in Nat /\ k + 1 <= length /\ offset + k \in Bytes
    BY Numbers DEF Bytes
  <2>2. PICK m : m = 1
    OBVIOUS
  <2>3. (offset + k) % Wide = offset + k
    BY <2>1, <2>2, ChunkPlace
  <2> QED BY <2>1, <2>3
<1> QED BY <1>1 DEF Part

LEMMA ReadIs ==
  ASSUME NEW kind \in AllKinds, NEW store \in Stores, NEW offset \in Nat, NEW length \in Nat,
         offset + length <= TotalBytes, NEW r \in VnvmeStorageRead(kind, store, offset, length), r.ok
  PROVE  r = Done(Part(store, offset, length))
<1>1. r = Error(<< >>) \/ r = Done(Part(store, offset, length))
  BY DEF AllKinds, VnvmeStorageRead, StorageMemoryRead, StorageFileRead, StorageSparseRead, ZwReadFile
<1> QED BY <1>1, ResultFields

-----------------------------------------------------------------------------
(* Entries of a PRP list, and the copy loop over them *)

(* The entries lie end to end: entry i takes the bytes b[i - 1] .. b[i] - 1 *)
(* of the data, and they are where the host's buffer has them.              *)
Covers(entries, b, buf, length) ==
  /\ Len(entries) \in Nat
  /\ b \in [0 .. Len(entries) -> 0 .. length]
  /\ b[0] = 0 /\ b[Len(entries)] = length
  /\ \A i \in 1 .. Len(entries) :
       /\ entries[i].length \in Nat
       /\ b[i] = b[i - 1] + entries[i].length
       /\ \A k \in b[i - 1] .. b[i] - 1 :
            /\ entries[i].address + (k - b[i - 1]) = HostByte(buf, k)
            /\ HostByte(buf, k) # Junk

CopyEnds(end, entries, bad, total) ==
  end = [i \in 0 .. Len(entries) |->
           IF i = 0 THEN 0
           ELSE IF i \in bad THEN end[i - 1] ELSE Smaller(total, end[i - 1] + entries[i].length)]

(* The recursion of CopyMap has a solution. *)
LEMMA CopyEndsExist ==
  ASSUME NEW entries, NEW bad, NEW total \in Nat, Len(entries) \in Nat,
         \A i \in 1 .. Len(entries) : entries[i].length \in Nat
  PROVE  \E end : CopyEnds(end, entries, bad, total)
<1> DEFINE n == Len(entries)
<1> DEFINE step == [x \in Nat \X (1 .. n) |->
                      IF x[2] \in bad THEN x[1] ELSE Smaller(total, x[1] + entries[x[2]].length)]
<1>1. \A x \in Nat, i \in 1 .. n :
        step[<<x, i>>] = IF i \in bad THEN x ELSE Smaller(total, x + entries[i].length)
  OBVIOUS
<1> HIDE DEF step
<1>2. ASSUME NEW x \in Nat, NEW i \in 1 .. n PROVE step[<<x, i>>] \in Nat
  <2>1. x + entries[i].length \in Nat
    OBVIOUS
  <2>2. Smaller(total, x + entries[i].length) \in Nat
    BY <2>1 DEF Smaller
  <2> QED BY <1>1, <2>2
<1>3. PICK g : Iterates(g, 0, step, n, Nat)
  BY <1>2, IterationExists
<1>4. g \in [0 .. n -> Nat] /\ g[0] = 0
  BY <1>3 DEF Iterates
<1>5. ASSUME NEW i \in 1 .. n
      PROVE  g[i] = IF i \in bad THEN g[i - 1] ELSE Smaller(total, g[i - 1] + entries[i].length)
  <2>1. i - 1 \in 0 .. n
    OBVIOUS
  <2>2. g[i - 1] \in Nat /\ g[i] = step[<<g[i - 1], i>>]
    BY <1>3, <1>4, <2>1 DEF Iterates
  <2> QED BY <1>1, <2>2
<1>6. \A i \in 0 .. n : i # 0 => i \in 1 .. n
  OBVIOUS
<1> QED BY <1>4, <1>5, <1>6 DEF CopyEnds

(* Where the copy stands after entry i: not beyond the end of the data,    *)
(* and every byte copied so far belongs to one of the entries.             *)
Copied(end, i, total) ==
  /\ end[i] \in 0 .. total
  /\ \A k \in Nat : k < end[i] => \E j \in 1 .. i : end[j - 1] <= k /\ k < end[j]

LEMMA CopyEndsAre ==
  ASSUME NEW entries, NEW total \in Nat, Len(entries) \in Nat,
         \A i \in 1 .. Len(entries) : entries[i].length \in Nat,
         NEW bad, NEW end, CopyEnds(end, entries, bad, total)
  PROVE  \A i \in 0 .. Len(entries) : Copied(end, i, total)
<1> DEFINE n == Len(entries)
<1> DEFINE T == {i \in Nat : i <= n => Copied(end, i, total)}
<1>2. end[0] = 0
  BY DEF CopyEnds
<1>3. 0 \in T
  BY <1>2 DEF Copied
<1>4. ASSUME NEW i \in Nat, i \in T PROVE i + 1 \in T
  <2>1. CASE i + 1 <= n
    <3>1. PICK j : j = i + 1
      OBVIOUS
    <3>2. j \in 1 .. n /\ j \in 0 .. n /\ j # 0 /\ j - 1 = i /\ i \in 0 .. n /\ i <= n
      BY <2>1, <3>1
    <3>3. end[j] = IF j \in bad THEN end[i] ELSE Smaller(total, end[i] + entries[j].length)
      BY <3>2 DEF CopyEnds
    <3>4. PICK s : s = entries[j].length
      OBVIOUS
    <3>5. Copied(end, i, total) /\ s \in Nat
      BY <1>4, <3>2, <3>4
    <3>6. end[i] \in 0 .. total
      BY <3>5 DEF Copied
    <3>7. end[j] \in 0 .. total
      BY <3>3, <3>4, <3>5, <3>6 DEF Smaller
    <3>8. ASSUME NEW k \in Nat, k < end[j] PROVE \E e \in 1 .. j : end[e - 1] <= k /\ k < end[e]
      <4>1. CASE k < end[i]
        <5>1. PICK e \in 1 .. i : end[e - 1] <= k /\ k < end[e]
          BY <3>5, <4>1 DEF Copied
        <5>2. e \in 1 .. j
          BY <3>1
        <5> QED BY <5>1, <5>2
      <4>2. CASE ~ (k < end[i])
        <5>1. end[j - 1] <= k /\ j \in 1 .. j
          BY <3>2, <3>6, <4>2
        <5> QED BY <3>8, <5>1
      <4> QED BY <4>1, <4>2
    <3>9. Copied(end, j, total)
      BY <3>7, <3>8 DEF Copied
    <3> QED BY <3>1, <3>9
  <2> QED BY <2>1
<1>5. Nat \subseteq T
  <2> HIDE DEF T
  <2> QED BY <1>3, <1>4, NatSetInduction
<1> QED BY <1>5

(* The copy f puts byte k of the data at byte k - end[e - 1] of some entry  *)
(* e, where `end' are the places in the data at which the entries end.      *)
CopyShape(f, end, entries, total) ==
  /\ \A i \in 0 .. Len(entries) : end[i] \in 0 .. total
  /\ f = [k \in 0 .. end[Len(entries)] - 1 |-> f[k]]
  /\ \A k \in 0 .. end[Len(entries)] - 1 :
       \E e \in 1 .. Len(entries) :
         /\ end[e - 1] <= k /\ k < end[e] /\ k < end[e - 1] + entries[e].length
         /\ f[k] = entries[e].address + (k - end[e - 1])

LEMMA CopyMapShape ==
  ASSUME NEW entries, NEW total \in Nat, Len(entries) \in Nat,
         \A i \in 1 .. Len(entries) : entries[i].length \in Nat, NEW bad
  PROVE  \E end : CopyEnds(end, entries, bad, total) /\ CopyShape(CopyMap(entries, bad, total), end, entries, total)
<1> DEFINE n == Len(entries)
<1> DEFINE end == CHOOSE h : h = [i \in 0 .. Len(entries) |->
                    IF i = 0 THEN 0
                    ELSE IF i \in bad THEN h[i - 1] ELSE Smaller(total, h[i - 1] + entries[i].length)]
<1> DEFINE EntryOf(k) == CHOOSE i \in 1 .. Len(entries) : end[i - 1] <= k /\ k < end[i]
<1>1. \E g : CopyEnds(g, entries, bad, total)
  BY CopyEndsExist
<1>2. CopyEnds(end, entries, bad, total)
  BY <1>1, Zenon DEF CopyEnds
<1>3. CopyMap(entries, bad, total) =
        [k \in 0 .. end[n] - 1 |-> entries[EntryOf(k)].address + (k - end[EntryOf(k) - 1])]
  BY Zenon DEF CopyMap
<1>4. PICK f : f = CopyMap(entries, bad, total)
  OBVIOUS
<1>5. ASSUME NEW k \in 0 .. end[n] - 1, Copied(end, n, total)
      PROVE  \E e : /\ e \in 1 .. n /\ end[e - 1] <= k /\ k < end[e]
                    /\ f[k] = entries[e].address + (k - end[e - 1])
  <2> HIDE DEF end
  <2>1. k \in Nat /\ k < end[n]
    BY <1>5 DEF Copied
  <2>2. \E e \in 1 .. n : end[e - 1] <= k /\ k < end[e]
    BY <1>5, <2>1 DEF Copied
  <2>3. EntryOf(k) \in 1 .. n /\ end[EntryOf(k) - 1] <= k /\ k < end[EntryOf(k)]
    BY <2>2
  <2>4. f[k] = entries[EntryOf(k)].address + (k - end[EntryOf(k) - 1])
    BY <1>3, <1>4
  <2> HIDE DEF EntryOf
  <2> QED BY <2>3, <2>4
<1>6. f = [k \in 0 .. end[n] - 1 |-> f[k]]
  BY <1>3, <1>4
<1> HIDE DEF end
<1>7. \A i \in 0 .. n : Copied(end, i, total)
  BY <1>2, CopyEndsAre
<1>8. \A i \in 0 .. n : end[i] \in 0 .. total
  BY <1>7 DEF Copied
<1>9. ASSUME NEW k \in 0 .. end[n] - 1
      PROVE  \E e \in 1 .. n : /\ end[e - 1] <= k /\ k < end[e] /\ k < end[e - 1] + entries[e].length
                               /\ f[k] = entries[e].address + (k - end[e - 1])
  <2>1. PICK e : /\ e \in 1 .. n /\ end[e - 1] <= k /\ k < end[e]
                 /\ f[k] = entries[e].address + (k - end[e - 1])
    BY <1>5, <1>7
  <2>2. e \in 0 .. n /\ e # 0 /\ e - 1 \in 0 .. n
    BY <2>1
  <2>3. end[e] = IF e \in bad THEN end[e - 1] ELSE Smaller(total, end[e - 1] + entries[e].length)
    BY <1>2, <2>2 DEF CopyEnds
  <2>4. PICK p, q, s : p = end[e - 1] /\ q = end[e] /\ s = entries[e].length
    OBVIOUS
  <2>5. p \in Nat /\ q \in Nat /\ s \in Nat /\ k < q /\ q = (IF e \in bad THEN p ELSE Smaller(total, p + s))
    BY <1>8, <2>1, <2>2, <2>3, <2>4
  <2>6. q <= p + s
    BY <2>5 DEF Smaller
  <2>7. end[n] \in Nat
    BY <1>8
  <2>8. k < p + s
    BY <2>5, <2>6, <2>7
  <2> QED BY <2>1, <2>4, <2>8
<1>10. CopyShape(f, end, entries, total)
  BY <1>6, <1>8, <1>9 DEF CopyShape
<1> QED BY <1>2, <1>4, <1>10

(* Every byte an entry names may be stored. *)
Loose(entries) ==
  /\ Len(entries) \in Nat
  /\ \A i \in 1 .. Len(entries) :
       /\ entries[i].length \in Nat
       /\ \A d \in Nat : d < entries[i].length => entries[i].address + d \in Stored

LEMMA Within ==
  ASSUME NEW p \in Nat, NEW s \in Nat, NEW k \in Int, p <= k, k < p + s
  PROVE  k - p \in Nat /\ k - p < s
  OBVIOUS

(* The copy loop takes bytes that the entries name only. *)
LEMMA CopyIsStored ==
  ASSUME NEW entries, NEW length \in Nat, Loose(entries), NEW bad
  PROVE  \E m \in 0 .. length : CopyMap(entries, bad, length) \in [0 .. m - 1 -> Stored]
<1> DEFINE n == Len(entries)
<1>1. n \in Nat /\ \A i \in 1 .. n : entries[i].length \in Nat
  BY DEF Loose
<1>2. PICK end : CopyShape(CopyMap(entries, bad, length), end, entries, length)
  BY <1>1, CopyMapShape
<1>3. PICK f : f = CopyMap(entries, bad, length)
  OBVIOUS
<1>4. CopyShape(f, end, entries, length)
  BY <1>2, <1>3
<1>5. (\A i \in 0 .. n : end[i] \in 0 .. length) /\ f = [k \in 0 .. end[n] - 1 |-> f[k]]
  BY <1>4 DEF CopyShape
<1>6. ASSUME NEW k \in 0 .. end[n] - 1 PROVE f[k] \in Stored
  <2>1. PICK e \in 1 .. n : /\ end[e - 1] <= k /\ k < end[e - 1] + entries[e].length
                            /\ f[k] = entries[e].address + (k - end[e - 1])
    BY <1>4 DEF CopyShape
  <2>2. e - 1 \in 0 .. n
    BY <1>1
  <2>3. PICK p, s, d : p = end[e - 1] /\ s = entries[e].length /\ d = k - p
    OBVIOUS
  <2>4. p \in Nat /\ s \in Nat /\ end[n] \in Nat
    BY <1>1, <1>5, <2>2, <2>3
  <2>5. d \in Nat /\ d < s
    <3>1. p <= k /\ k < p + s /\ k \in Int
      BY <2>1, <2>3
    <3> QED BY <2>3, <2>4, <3>1, Within
  <2>6. \A x \in Nat : x < entries[e].length => entries[e].address + x \in Stored
    BY DEF Loose
  <2>7. entries[e].address + d \in Stored
    BY <2>3, <2>5, <2>6
  <2> QED BY <2>1, <2>3, <2>7
<1>7. end[n] \in 0 .. length
  BY <1>1, <1>5
<1>8. f \in [0 .. end[n] - 1 -> Stored]
  BY <1>5, <1>6
<1> QED BY <1>3, <1>7, <1>8

(* When every entry can be mapped, byte k of the data is byte k of the     *)
(* buffer.                                                                 *)
LEMMA CopyIsWhole ==
  ASSUME NEW entries, NEW b, NEW buf, NEW length \in Nat, Covers(entries, b, buf, length)
  PROVE  CopyMap(entries, {}, length) = [k \in 0 .. length - 1 |-> HostByte(buf, k)]
<1> DEFINE n == Len(entries)
<1>0. n \in Nat /\ b[0] = 0 /\ b[n] = length /\ b \in [0 .. n -> 0 .. length]
  BY Zenon DEF Covers
<1>1. n \in Nat /\ b[0] = 0 /\ b[n] = length /\ \A i \in 0 .. n : b[i] \in Nat /\ b[i] <= length
  BY <1>0
<1>2. \A i \in 1 .. n : entries[i].length \in Nat /\ b[i] = b[i - 1] + entries[i].length
  BY DEF Covers
<1>3. PICK end : CopyEnds(end, entries, {}, length) /\ CopyShape(CopyMap(entries, {}, length), end, entries, length)
  BY <1>1, <1>2, CopyMapShape
<1>4. PICK f : f = CopyMap(entries, {}, length)
  OBVIOUS
<1>5. CopyShape(f, end, entries, length)
  BY <1>3, <1>4
<1> DEFINE T == {i \in Nat : i <= n => end[i] = b[i]}
<1>6. 0 \in T
  BY <1>1, <1>3 DEF CopyEnds
<1>7. ASSUME NEW i \in Nat, i \in T PROVE i + 1 \in T
  <2>1. CASE i + 1 <= n
    <3>1. PICK j : j = i + 1
      OBVIOUS
    <3>2. j \in 1 .. n /\ j \in 0 .. n /\ j # 0 /\ j - 1 = i /\ i \in 0 .. n /\ i <= n
      BY <1>1, <2>1, <3>1
    <3>3. end[j] = Smaller(length, end[i] + entries[j].length)
      BY <1>3, <3>2 DEF CopyEnds
    <3>4. PICK s : s = entries[j].length
      OBVIOUS
    <3>5. end[i] = b[i] /\ s \in Nat /\ b[j] = b[i] + s /\ b[i] \in Nat /\ b[j] \in Nat /\ b[j] <= length
      BY <1>1, <1>2, <1>7, <3>2, <3>4
    <3>6. end[j] = b[j]
      BY <3>3, <3>4, <3>5 DEF Smaller
    <3> QED BY <3>1, <3>6
  <2> QED BY <2>1
<1>8. Nat \subseteq T
  <2> HIDE DEF T
  <2> QED BY <1>6, <1>7, NatSetInduction
<1>9. \A i \in 0 .. n : end[i] = b[i]
  BY <1>8
<1>10. f = [k \in 0 .. length - 1 |-> f[k]]
  BY <1>1, <1>5, <1>9 DEF CopyShape
<1>11. ASSUME NEW k \in 0 .. length - 1 PROVE f[k] = HostByte(buf, k)
  <2>1. PICK e \in 1 .. n : end[e - 1] <= k /\ k < end[e] /\ f[k] = entries[e].address + (k - end[e - 1])
    BY <1>1, <1>5, <1>9 DEF CopyShape
  <2>2. e - 1 \in 0 .. n /\ e \in 0 .. n
    BY <1>1
  <2>3. end[e - 1] = b[e - 1] /\ end[e] = b[e] /\ b[e - 1] \in Nat /\ b[e] \in Nat
    BY <1>1, <1>9, <2>2
  <2>4. k \in b[e - 1] .. b[e] - 1
    BY <2>1, <2>3
  <2>5. entries[e].address + (k - b[e - 1]) = HostByte(buf, k)
    BY <2>4 DEF Covers
  <2> QED BY <2>1, <2>3, <2>5
<1> QED BY <1>4, <1>10, <1>11


-----------------------------------------------------------------------------
(* The parsing of the PRP fields *)

HostBuffer(buf) == buf.pages \in Seq(Nat) /\ buf.off \in 0 .. PageSize - 1 /\ buf.room \in 1 .. ListPage
Holds(buf, length) == buf.off + length <= Laps(Len(buf.pages), PageSize)

LEMMA PageAddressIs ==
  ASSUME NEW buf, HostBuffer(buf), NEW i \in 1 .. Len(buf.pages)
  PROVE  PageAddress(buf, i) \in Nat /\ PageAddress(buf, i) % PageSize = 0
<1>1. PICK p : p = buf.pages[i]
  OBVIOUS
<1>2. p \in Nat
  BY <1>1 DEF HostBuffer
<1>3. PICK a : a = p * PageSize
  OBVIOUS
<1>4. a = Laps(p, PageSize) + 0 /\ a \in Nat
  BY <1>2, <1>3, Numbers DEF Laps
<1>5. Place(a, PageSize) = 0
  BY <1>2, <1>4, Numbers, QuotientUnique
<1> QED BY <1>1, <1>3, <1>4, <1>5 DEF PageAddress, Place

(* The bytes of the host's buffers are among those that may be copied. *)
LEMMA HostByteIs ==
  ASSUME NEW buf \in Buffers, HostBuffer(buf), NEW k \in Nat, Holds(buf, k + 1)
  PROVE  HostByte(buf, k) \in Anything
<1>1. PICK z, len : z = buf.off + k /\ len = Len(buf.pages)
  OBVIOUS
<1>2. z \in Nat /\ len \in Nat
  BY <1>1, Numbers DEF HostBuffer
<1>3. PICK q, p : q = z \div PageSize /\ p = Place(z, PageSize)
  OBVIOUS
<1>4. q \in Nat /\ p \in 0 .. PageSize - 1 /\ z = Laps(q, PageSize) + p
      /\ Laps(q, PageSize) \in Nat /\ Laps(len, PageSize) \in Nat
  BY <1>2, <1>3, Numbers, Quotient, LapsAdd
<1>5. z + 1 <= Laps(len, PageSize)
  <2>1. PICK off : off = buf.off
    OBVIOUS
  <2>2. off \in Nat /\ z = off + k /\ off + (k + 1) <= Laps(len, PageSize)
    BY <1>1, <2>1, Numbers DEF HostBuffer, Holds
  <2> QED BY <1>4, <2>2
<1>6. q < len
  <2>1. ASSUME len < q PROVE FALSE
    <3>1. Laps(len, PageSize) + PageSize <= Laps(q, PageSize)
      BY <1>2, <1>4, <2>1, LapsGrow, Numbers
    <3> QED BY <1>2, <1>4, <1>5, <3>1, Numbers
  <2>2. len # q
    BY <1>2, <1>4, <1>5
  <2> QED BY <1>2, <1>4, <2>1, <2>2
<1>7. PICK i, a : i = 1 + q /\ a = PageAddress(buf, i)
  OBVIOUS
<1>8. i \in 1 .. len
  BY <1>2, <1>4, <1>6, <1>7
<1>9. a \in Addresses
  BY <1>1, <1>7, <1>8 DEF Addresses
<1>10. HostByte(buf, k) = a + p
  BY <1>1, <1>3, <1>7 DEF HostByte, Place
<1> QED BY <1>4, <1>9, <1>10 DEF Anything

(* Byte d of page 1 + j of a buffer whose page has a valid address *)
LEMMA PageByte ==
  ASSUME NEW buf, HostBuffer(buf), NEW j \in Nat, j < Len(buf.pages), PageAddress(buf, 1 + j) <= MaxPhys,
         NEW d \in 0 .. PageSize - 1, NEW k \in Nat, buf.off + k = Laps(j, PageSize) + d
  PROVE  HostByte(buf, k) = PageAddress(buf, 1 + j) + d /\ HostByte(buf, k) # Junk
<1>1. PICK z : z = buf.off + k
  OBVIOUS
<1>2. z \in Nat
  BY <1>1, Numbers DEF HostBuffer
<1>3. Place(z, PageSize) = d /\ z \div PageSize = j
  BY <1>1, <1>2, Numbers, QuotientUnique
<1>4. HostByte(buf, k) = PageAddress(buf, 1 + j) + d
  BY <1>1, <1>3 DEF HostByte, Place
<1>5. 1 + j \in 1 .. Len(buf.pages)
  BY DEF HostBuffer
<1>6. PageAddress(buf, 1 + j) \in Nat
  BY <1>5, PageAddressIs
<1>7. MaxPhys \in Nat /\ MaxPhys + PageSize < Wide
  BY AddressAssumption
<1> QED BY <1>4, <1>6, <1>7, Numbers DEF Junk

LEMMA Prp1Is ==
  ASSUME NEW buf, HostBuffer(buf), 0 < Len(buf.pages)
  PROVE  /\ Prp1(buf) = PageAddress(buf, 1) + buf.off
         /\ PageAddress(buf, 1) \in Nat /\ Prp1(buf) \in Nat
         /\ Prp1(buf) % PageSize = buf.off
<1>1. PICK z : z = buf.off + 0
  OBVIOUS
<1>2. z = buf.off /\ z \in 0 .. PageSize - 1 /\ z \in Nat /\ z = Laps(0, PageSize) + z
  BY <1>1, Numbers, LapsFew DEF HostBuffer
<1>3. Place(z, PageSize) = z /\ z \div PageSize = 0
  BY <1>2, Numbers, QuotientUnique
<1>4. Prp1(buf) = PageAddress(buf, 1) + buf.off
  BY <1>1, <1>2, <1>3 DEF Prp1, HostByte, Place
<1>5. PICK p : p = buf.pages[1]
  OBVIOUS
<1>6. p \in Nat
  BY <1>5 DEF HostBuffer
<1>7. PageAddress(buf, 1) = Laps(p, PageSize) /\ PageAddress(buf, 1) \in Nat
  BY <1>5, <1>6, Numbers DEF PageAddress, Laps
<1>8. PICK a : a = Prp1(buf)
  OBVIOUS
<1>9. a \in Nat /\ a = Laps(p, PageSize) + z
  BY <1>2, <1>4, <1>7, <1>8
<1>10. Place(a, PageSize) = z
  BY <1>2, <1>6, <1>9, Numbers, QuotientUnique
<1> QED BY <1>2, <1>4, <1>7, <1>8, <1>9, <1>10 DEF Place

(* The pages after the first: as many as chunks of a page in the rest. *)
LEMMA PagesIs ==
  ASSUME NEW buf, HostBuffer(buf), 0 < Len(buf.pages), NEW length \in Nat, NEW first, first = PageSize - buf.off
  PROVE  /\ first \in 1 .. PageSize /\ buf.off + first = PageSize
         /\ NumPages(Prp1(buf), length) = IF first >= length THEN 1 ELSE 1 + ChunkCount(length - first, PageSize)
<1>1. first \in 1 .. PageSize /\ buf.off + first = PageSize
  BY Numbers DEF HostBuffer
<1>2. PageSize - (Prp1(buf) % PageSize) = first
  BY Prp1Is
<1> QED BY <1>1, <1>2 DEF NumPages, ChunkCount

(* The data that page 1 + j holds, and that the buffer has that page *)
LEMMA LaterPage ==
  ASSUME NEW buf, HostBuffer(buf), NEW length \in Nat, Holds(buf, length),
         NEW first \in 1 .. PageSize, buf.off + first = PageSize, first < length,
         NEW j \in 1 .. ChunkCount(length - first, PageSize)
  PROVE  /\ j < Len(buf.pages)
         /\ PageAddress(buf, 1 + j) <= MaxPhys =>
              \A k \in Nat : k >= first + Laps(j - 1, PageSize) /\ k < first + Laps(j, PageSize) =>
                /\ HostByte(buf, k) = PageAddress(buf, 1 + j) + (k - (first + Laps(j - 1, PageSize)))
                /\ HostByte(buf, k) # Junk
<1>1. first \in 1 .. PageSize /\ first \in Nat /\ buf.off \in Nat /\ buf.off + first = PageSize
      /\ Len(buf.pages) \in Nat
  BY Numbers DEF HostBuffer
<1>2. PICK rest : rest = length - first
  OBVIOUS
<1>3. rest \in Nat /\ length = first + rest
  BY <1>1, <1>2
<1>4. PICK at : at = (j - 1) * PageSize
  OBVIOUS
<1>5. ChunkAt(j, rest, PageSize, at, Smaller(PageSize, rest - at)) /\ ChunkCount(rest, PageSize) \in Nat
  BY <1>2, <1>3, <1>4, Numbers, ChunkCountIs
<1>6. at \in Nat /\ at = Laps(j - 1, PageSize) /\ Laps(j, PageSize) = at + PageSize /\ at < rest /\ j \in Nat
  BY <1>2, <1>5 DEF ChunkAt
<1>7. j < Len(buf.pages)
  <2>1. PICK n : n = Len(buf.pages)
    OBVIOUS
  <2>2. n \in Nat /\ Laps(n, PageSize) \in Nat
    BY <1>1, <2>1, LapsAdd, Numbers
  <2>3. PICK off, all : off = buf.off /\ all = Laps(n, PageSize)
    OBVIOUS
  <2>4. off + length <= all
    BY <2>1, <2>3 DEF Holds
  <2>5. off \in Nat /\ off + first = PageSize /\ all \in Nat
    BY <1>1, <2>2, <2>3
  <2>6. at + PageSize < all
    BY <1>1, <1>3, <1>6, <2>4, <2>5, Numbers
  <2>7. Laps(j, PageSize) < Laps(n, PageSize)
    BY <1>6, <2>3, <2>6
  <2>8. ASSUME n < j PROVE FALSE
    <3>1. Laps(n, PageSize) + PageSize <= Laps(j, PageSize) /\ Laps(j, PageSize) \in Nat
      BY <1>6, <2>2, <2>8, LapsGrow, Numbers
    <3> QED BY <2>2, <2>7, <3>1, Numbers
  <2>9. n # j
    BY <1>6, <2>7, Numbers
  <2> QED BY <1>6, <2>1, <2>2, <2>8, <2>9
<1>8. ASSUME PageAddress(buf, 1 + j) <= MaxPhys, NEW k \in Nat, k >= first + at, k < first + (at + PageSize)
      PROVE  HostByte(buf, k) = PageAddress(buf, 1 + j) + (k - (first + at)) /\ HostByte(buf, k) # Junk
  <2>1. PICK d : d = k - (first + at)
    OBVIOUS
  <2>2. PICK off : off = buf.off
    OBVIOUS
  <2>3. d \in 0 .. PageSize - 1 /\ off + k = at + PageSize + d
    <3>1. off \in Nat /\ off + first = PageSize /\ PageSize \in Nat
      BY <1>1, <2>2, Numbers
    <3>2. k \in Nat /\ first \in Nat /\ at \in Nat /\ first + at <= k /\ k < first + at + PageSize
      BY <1>1, <1>6, <1>8, <3>1
    <3>3. d \in 0 .. PageSize - 1
      BY <2>1, <3>1, <3>2
    <3>4. off + k = at + PageSize + d
      BY <2>1, <3>1, <3>2
    <3> QED BY <3>3, <3>4
  <2>4. buf.off + k = Laps(j, PageSize) + d
    BY <1>6, <2>2, <2>3
  <2>5. HostByte(buf, k) = PageAddress(buf, 1 + j) + d /\ HostByte(buf, k) # Junk
    BY <1>6, <1>7, <1>8, <2>3, <2>4, PageByte
  <2> QED BY <2>1, <2>5
<1> QED BY <1>6, <1>7, <1>8

(* What remains after i entries of the list *)
ListLeft(left, list, count, remaining) ==
  left = [i \in 0 .. count |->
            IF i = 0 THEN remaining
            ELSE left[i - 1] - Smaller(PageSize - (list[i] % PageSize), left[i - 1])]

LEMMA PageRest ==
  ASSUME NEW a \in Nat
  PROVE  PageSize - (a % PageSize) \in 1 .. PageSize
<1>1. a % PageSize \in 0 .. PageSize - 1
  BY Numbers
<1> QED BY <1>1, Numbers

(* The recursion of ListEntries has a solution. *)
LEMMA ListLeftExists ==
  ASSUME NEW list, NEW count \in Nat, NEW remaining \in Nat, \A i \in 1 .. count : list[i] \in Nat
  PROVE  \E left : ListLeft(left, list, count, remaining)
<1> DEFINE step == [x \in Nat \X (1 .. count) |-> x[1] - Smaller(PageSize - (list[x[2]] % PageSize), x[1])]
<1>1. \A x \in Nat, i \in 1 .. count : step[<<x, i>>] = x - Smaller(PageSize - (list[i] % PageSize), x)
  OBVIOUS
<1> HIDE DEF step
<1>2. ASSUME NEW x \in Nat, NEW i \in 1 .. count PROVE step[<<x, i>>] \in Nat
  <2>1. PageSize - (list[i] % PageSize) \in 1 .. PageSize
    BY PageRest
  <2>2. x - Smaller(PageSize - (list[i] % PageSize), x) \in Nat
    BY <2>1 DEF Smaller
  <2> QED BY <1>1, <2>1, <2>2
<1>3. PICK g : Iterates(g, remaining, step, count, Nat)
  BY <1>2, IterationExists
<1>4. g \in [0 .. count -> Nat] /\ g[0] = remaining
  BY <1>3 DEF Iterates
<1>5. ASSUME NEW i \in 1 .. count
      PROVE  g[i] = g[i - 1] - Smaller(PageSize - (list[i] % PageSize), g[i - 1])
  <2>1. i - 1 \in 0 .. count
    OBVIOUS
  <2>2. g[i - 1] \in Nat /\ g[i] = step[<<g[i - 1], i>>]
    BY <1>3, <1>4, <2>1 DEF Iterates
  <2> QED BY <1>1, <2>2
<1>6. \A i \in 0 .. count : i # 0 => i \in 1 .. count
  OBVIOUS
<1> QED BY <1>4, <1>5, <1>6 DEF ListLeft

(* Entry i of the list takes what is left, at most a page; the last one    *)
(* takes the rest.                                                         *)
PageTaken(left, remaining, i) ==
  /\ Laps(i - 1, PageSize) \in Nat /\ Laps(i, PageSize) = Laps(i - 1, PageSize) + PageSize
  /\ left[i - 1] \in Nat /\ left[i - 1] = remaining - Laps(i - 1, PageSize) /\ left[i - 1] > 0
  /\ left[i] = IF Laps(i, PageSize) < remaining THEN remaining - Laps(i, PageSize) ELSE 0

LEMMA ListLeftIs ==
  ASSUME NEW list, NEW remaining \in Nat, NEW count, count = ChunkCount(remaining, PageSize),
         \A i \in 1 .. count : list[i] % PageSize = 0,
         NEW left, ListLeft(left, list, count, remaining)
  PROVE  /\ left[0] = remaining
         /\ \A i \in 1 .. count : PageTaken(left, remaining, i)
         /\ left[count] = 0
<1>1. count \in Nat /\ Laps(count, PageSize) \in Nat /\ remaining <= Laps(count, PageSize)
  BY Numbers, ChunkCountIs
<1>2. left[0] = remaining
  BY <1>1 DEF ListLeft
<1>3. ASSUME NEW i \in 1 .. count
      PROVE  /\ Laps(i - 1, PageSize) \in Nat /\ Laps(i - 1, PageSize) < remaining
             /\ Laps(i, PageSize) = Laps(i - 1, PageSize) + PageSize
  <2>1. PICK at, m : at = (i - 1) * PageSize /\ m = Smaller(PageSize, remaining - at)
    OBVIOUS
  <2>2. ChunkAt(i, remaining, PageSize, at, m)
    BY <2>1, Numbers, ChunkCountIs
  <2> QED BY <2>2 DEF ChunkAt
<1> DEFINE Rest(i) == IF Laps(i, PageSize) < remaining THEN remaining - Laps(i, PageSize) ELSE 0
<1>4. ASSUME NEW i \in 1 .. count, left[i - 1] = Rest(i - 1)
      PROVE  left[i] = Rest(i) /\ PageTaken(left, remaining, i)
  <2>1. PICK x, y : x = left[i - 1] /\ y = Laps(i - 1, PageSize)
    OBVIOUS
  <2>2. y \in Nat /\ y < remaining /\ Laps(i, PageSize) = y + PageSize /\ x = remaining - y /\ x \in Nat /\ x > 0
    BY <1>3, <1>4, <2>1
  <2>3. i \in 0 .. count /\ i # 0
    BY <1>1
  <2>4. left[i] = x - Smaller(PageSize - (list[i] % PageSize), x)
    BY <2>1, <2>3 DEF ListLeft
  <2>5. left[i] = x - Smaller(PageSize, x)
    BY <2>4, Numbers
  <2>6. left[i] = IF y + PageSize < remaining THEN remaining - (y + PageSize) ELSE 0
    BY <2>2, <2>5, Numbers DEF Smaller
  <2> QED BY <2>1, <2>2, <2>6 DEF PageTaken
<1> DEFINE T == {i \in Nat : i <= count => left[i] = Rest(i)}
<1>5. 0 \in T
  <2>1. Laps(0, PageSize) = 0
    BY Numbers, LapsFew
  <2> QED BY <1>2, <2>1
<1>6. ASSUME NEW i \in Nat, i \in T PROVE i + 1 \in T
  <2>1. CASE i + 1 <= count
    <3>1. PICK j : j = i + 1
      OBVIOUS
    <3>2. j \in 1 .. count /\ j - 1 = i /\ i <= count
      BY <1>1, <2>1, <3>1
    <3> HIDE DEF Rest
    <3>3. left[j] = Rest(j)
      BY <1>4, <1>6, <3>2
    <3> QED BY <3>1, <3>3
  <2> QED BY <2>1
<1>7. Nat \subseteq T
  <2> HIDE DEF T
  <2> QED BY <1>5, <1>6, NatSetInduction
<1>8. \A i \in 0 .. count : left[i] = Rest(i)
  BY <1>7
<1>9. \A i \in 1 .. count : PageTaken(left, remaining, i)
  <2>1. \A i \in 1 .. count : i - 1 \in 0 .. count
    BY <1>1
  <2> HIDE DEF Rest
  <2> QED BY <1>4, <1>8, <2>1
<1>10. left[count] = 0
  BY <1>1, <1>8
<1> QED BY <1>2, <1>9, <1>10
(* left is what remains before and after each entry that is made. *)
Listed(left, list, count, remaining) ==
  /\ ListLeft(left, list, count, remaining)
  /\ ListEntries(list, count, remaining) =
       [i \in {i \in 1 .. count : left[i - 1] > 0} |-> Entry(list[i], left[i - 1] - left[i])]

LEMMA ListEntriesFrom ==
  ASSUME NEW list, NEW count \in Nat, NEW remaining \in Nat, \A i \in 1 .. count : list[i] \in Nat
  PROVE  \E left : Listed(left, list, count, remaining)
<1> DEFINE left == CHOOSE h : h = [i \in 0 .. count |->
                     IF i = 0 THEN remaining
                     ELSE h[i - 1] - Smaller(PageSize - (list[i] % PageSize), h[i - 1])]
<1>1. \E g : ListLeft(g, list, count, remaining)
  BY ListLeftExists
<1>2. ListLeft(left, list, count, remaining)
  BY <1>1, Zenon DEF ListLeft
<1>3. ListEntries(list, count, remaining) =
        [i \in {i \in 1 .. count : left[i - 1] > 0} |-> Entry(list[i], left[i - 1] - left[i])]
  BY Zenon DEF ListEntries
<1> HIDE DEF left
<1> QED BY <1>2, <1>3 DEF Listed

(* The list of a buffer's own pages *)
Listing(left, list, count, remaining) ==
  /\ left[0] = remaining
  /\ \A i \in 1 .. count : PageTaken(left, remaining, i)
  /\ left[count] = 0
  /\ ListEntries(list, count, remaining) = [i \in 1 .. count |-> Entry(list[i], left[i - 1] - left[i])]

LEMMA ListEntriesAre ==
  ASSUME NEW list, NEW remaining \in Nat, NEW count, count = ChunkCount(remaining, PageSize),
         \A i \in 1 .. count : list[i] \in Nat /\ list[i] % PageSize = 0
  PROVE  \E left : Listing(left, list, count, remaining)
<1>1. count \in Nat
  BY Numbers, ChunkCountIs
<1>2. PICK left : Listed(left, list, count, remaining)
  BY <1>1, ListEntriesFrom
<1>3. left[0] = remaining /\ (\A i \in 1 .. count : PageTaken(left, remaining, i)) /\ left[count] = 0
  BY <1>2, ListLeftIs DEF Listed
<1>4. {i \in 1 .. count : left[i - 1] > 0} = 1 .. count
  BY <1>3 DEF PageTaken
<1>5. ListEntries(list, count, remaining) = [i \in 1 .. count |-> Entry(list[i], left[i - 1] - left[i])]
  BY <1>2, <1>4 DEF Listed
<1> QED BY <1>3, <1>5 DEF Listing

(* Any list, of any addresses: an entry takes no more than a page, so      *)
(* every one of them is made.                                              *)
StrayListing(left, list, count, remaining) ==
  /\ \A i \in 1 .. count : left[i - 1] - left[i] \in 0 .. PageSize
  /\ ListEntries(list, count, remaining) = [i \in 1 .. count |-> Entry(list[i], left[i - 1] - left[i])]

LEMMA StrayEntriesAre ==
  ASSUME NEW list, NEW remaining \in Nat, NEW count, count = ChunkCount(remaining, PageSize),
         \A i \in 1 .. count : list[i] \in Nat
  PROVE  \E left : StrayListing(left, list, count, remaining)
<1>1. count \in Nat
  BY Numbers, ChunkCountIs
<1>2. PICK left : Listed(left, list, count, remaining)
  BY <1>1, ListEntriesFrom
<1>3. ASSUME NEW i \in 1 .. count
      PROVE  /\ Laps(i - 1, PageSize) \in Nat /\ Laps(i - 1, PageSize) < remaining
             /\ Laps(i, PageSize) = Laps(i - 1, PageSize) + PageSize
  <2>1. PICK at, m : at = (i - 1) * PageSize /\ m = Smaller(PageSize, remaining - at)
    OBVIOUS
  <2>2. ChunkAt(i, remaining, PageSize, at, m)
    BY <2>1, Numbers, ChunkCountIs
  <2> QED BY <2>2 DEF ChunkAt
<1> DEFINE Enough(i) == left[i] \in Nat /\ left[i] + Laps(i, PageSize) >= remaining
<1>4. ASSUME NEW i \in 1 .. count, Enough(i - 1)
      PROVE  Enough(i) /\ left[i - 1] > 0 /\ left[i - 1] - left[i] \in 0 .. PageSize
  <2>1. PICK x, y, t : x = left[i - 1] /\ y = Laps(i - 1, PageSize) /\ t = PageSize - (list[i] % PageSize)
    OBVIOUS
  <2>2. /\ x \in Nat /\ y \in Nat /\ y < remaining /\ Laps(i, PageSize) = y + PageSize /\ x + y >= remaining
        /\ t \in 1 .. PageSize
    BY <1>3, <1>4, <2>1, PageRest
  <2>3. left[i] = x - Smaller(t, x)
    <3>1. i \in 0 .. count /\ i # 0
      BY <1>1
    <3> QED BY <1>2, <2>1, <3>1 DEF Listed, ListLeft
  <2>4. PICK z : z = left[i]
    OBVIOUS
  <2>5. z \in Nat /\ x - z \in 0 .. PageSize /\ z + (y + PageSize) >= remaining /\ x > 0
    BY <2>2, <2>3, <2>4, Numbers DEF Smaller
  <2> QED BY <2>1, <2>2, <2>4, <2>5
<1> DEFINE T == {i \in Nat : i <= count => Enough(i)}
<1>5. 0 \in T
  <2>1. Laps(0, PageSize) = 0
    BY Numbers, LapsFew
  <2>2. left[0] = remaining
    BY <1>1, <1>2 DEF Listed, ListLeft
  <2> QED BY <2>1, <2>2
<1>6. ASSUME NEW i \in Nat, i \in T PROVE i + 1 \in T
  <2>1. CASE i + 1 <= count
    <3>1. PICK j : j = i + 1
      OBVIOUS
    <3>2. j \in 1 .. count /\ j - 1 = i /\ i <= count
      BY <1>1, <2>1, <3>1
    <3> HIDE DEF Enough
    <3>3. Enough(j)
      BY <1>4, <1>6, <3>2
    <3> QED BY <3>1, <3>3
  <2> QED BY <2>1
<1>7. Nat \subseteq T
  <2> HIDE DEF T
  <2> QED BY <1>5, <1>6, NatSetInduction
<1>8. ASSUME NEW i \in 1 .. count PROVE left[i - 1] > 0 /\ left[i - 1] - left[i] \in 0 .. PageSize
  <2>1. i - 1 \in Nat /\ i - 1 <= count
    BY <1>1
  <2> HIDE DEF Enough
  <2>2. Enough(i - 1)
    BY <1>7, <2>1
  <2> QED BY <1>4, <2>2
<1>9. {i \in 1 .. count : left[i - 1] > 0} = 1 .. count
  BY <1>8
<1>10. ListEntries(list, count, remaining) = [i \in 1 .. count |-> Entry(list[i], left[i - 1] - left[i])]
  BY <1>2, <1>9 DEF Listed
<1> QED BY <1>8, <1>10 DEF StrayListing

LEMMA HeadBytes ==
  ASSUME NEW buf, HostBuffer(buf), 0 < Len(buf.pages), Prp1(buf) <= MaxPhys,
         NEW first \in 1 .. PageSize, buf.off + first = PageSize, NEW k \in Nat, k < first
  PROVE  Prp1(buf) + k = HostByte(buf, k) /\ HostByte(buf, k) # Junk
<1>1. PICK off, a : off = buf.off /\ a = PageAddress(buf, 1)
  OBVIOUS
<1>2. off \in Nat /\ a \in Nat /\ Prp1(buf) = a + off /\ off + first = PageSize
  BY <1>1, Prp1Is, Numbers DEF HostBuffer
<1>3. MaxPhys \in Nat
  BY AddressAssumption
<1>4. a <= MaxPhys
  BY <1>2, <1>3
<1>5. PICK d, j : d = off + k /\ j = 0
  OBVIOUS
<1>6. d \in 0 .. PageSize - 1 /\ d \in Nat
  BY <1>2, <1>5, Numbers
<1>7. Laps(j, PageSize) = 0
  BY <1>5, LapsFew, Numbers
<1>8. j \in Nat /\ j < Len(buf.pages) /\ PageAddress(buf, 1 + j) = a /\ buf.off + k = Laps(j, PageSize) + d
  BY <1>1, <1>5, <1>6, <1>7
<1>9. HostByte(buf, k) = a + d /\ HostByte(buf, k) # Junk
  BY <1>4, <1>6, <1>8, PageByte
<1> QED BY <1>2, <1>5, <1>9

(* One page holds all of the data. *)
LEMMA OnePageCovers ==
  ASSUME NEW buf, HostBuffer(buf), 0 < Len(buf.pages), Prp1(buf) <= MaxPhys,
         NEW first \in 1 .. PageSize, buf.off + first = PageSize, NEW length \in Nat, first >= length
  PROVE  \E b : Covers(<<Entry(Prp1(buf), length)>>, b, buf, length)
<1>1. PICK b : b = [i \in 0 .. 1 |-> IF i = 0 THEN 0 ELSE length]
  OBVIOUS
<1>2. b \in [0 .. 1 -> 0 .. length] /\ b[0] = 0 /\ b[1] = length
  BY <1>1
<1>3. PICK entries : entries = <<Entry(Prp1(buf), length)>>
  OBVIOUS
<1>4. Len(entries) = 1 /\ entries[1].length = length /\ entries[1].address = Prp1(buf)
  BY <1>3 DEF Entry
<1>5. ASSUME NEW k \in 0 .. length - 1
      PROVE  Prp1(buf) + k = HostByte(buf, k) /\ HostByte(buf, k) # Junk
  <2>1. k \in Nat /\ k < first
    BY Numbers
  <2> QED BY <2>1, HeadBytes
<1>6. ASSUME NEW i \in 1 .. 1
      PROVE  /\ entries[i].length \in Nat
             /\ b[i] = b[i - 1] + entries[i].length
             /\ \A k \in b[i - 1] .. b[i] - 1 :
                  entries[i].address + (k - b[i - 1]) = HostByte(buf, k) /\ HostByte(buf, k) # Junk
  <2>1. i = 1
    OBVIOUS
  <2>2. \A k \in 0 .. length - 1 : Prp1(buf) + (k - 0) = HostByte(buf, k) /\ HostByte(buf, k) # Junk
    BY <1>5
  <2> QED BY <1>2, <1>4, <2>1, <2>2
<1>7. Covers(entries, b, buf, length)
  BY <1>2, <1>4, <1>6 DEF Covers
<1> QED BY <1>3, <1>7

(* The first page, and c more that take what is left. *)
Spread(entries, buf, first, c, left) ==
  /\ Len(entries) = 1 + c
  /\ entries[1] = Entry(Prp1(buf), first)
  /\ \A j \in 1 .. c : entries[1 + j] = Entry(PageAddress(buf, 1 + j), left[j - 1] - left[j])

LEMMA ManyPagesCover ==
  ASSUME NEW buf, HostBuffer(buf), 0 < Len(buf.pages), Prp1(buf) <= MaxPhys,
         NEW first \in 1 .. PageSize, buf.off + first = PageSize,
         NEW length \in Nat, first < length, Holds(buf, length),
         NEW c, c = ChunkCount(length - first, PageSize),
         \A j \in 1 .. c : PageAddress(buf, 1 + j) <= MaxPhys,
         NEW left, left[0] = length - first, \A j \in 1 .. c : PageTaken(left, length - first, j), left[c] = 0,
         NEW entries, Spread(entries, buf, first, c, left)
  PROVE  \E b : Covers(entries, b, buf, length)
<1>1. first \in Nat /\ length - first \in Nat
  BY Numbers
<1>2. c \in Nat
  BY <1>1, ChunkCountIs, Numbers
<1>3. \A j \in 0 .. c : left[j] \in 0 .. length - first
  <2>1. ASSUME NEW j \in 1 .. c PROVE left[j] \in 0 .. length - first
    <3>1. Laps(j, PageSize) \in Nat
      BY Numbers DEF PageTaken
    <3>2. left[j] = IF Laps(j, PageSize) < length - first THEN length - first - Laps(j, PageSize) ELSE 0
      BY DEF PageTaken
    <3> QED BY <1>1, <3>1, <3>2
  <2>2. left[0] \in 0 .. length - first
    BY <1>1
  <2>3. \A j \in 0 .. c : j # 0 => j \in 1 .. c
    BY <1>2
  <2> QED BY <2>1, <2>2, <2>3
<1>4. PICK b : b = [i \in 0 .. 1 + c |-> IF i = 0 THEN 0 ELSE length - left[i - 1]]
  OBVIOUS
<1>5. b[0] = 0 /\ \A j \in 0 .. c : b[1 + j] = length - left[j]
  BY <1>2, <1>4
<1>6. b \in [0 .. 1 + c -> 0 .. length]
  <2>1. \A i \in 0 .. 1 + c : i # 0 => i - 1 \in 0 .. c
    BY <1>2
  <2>2. ASSUME NEW i \in 0 .. 1 + c PROVE b[i] \in 0 .. length
    <3>1. CASE i = 0
      BY <1>5, <3>1
    <3>2. CASE i # 0
      BY <1>1, <1>3, <1>4, <2>1, <3>2
    <3> QED BY <3>1, <3>2
  <2> QED BY <1>4, <2>2
<1>7. b[1 + c] = length /\ b[1] = first
  BY <1>1, <1>2, <1>5
<1>8. /\ entries[1].length \in Nat
      /\ b[1] = b[0] + entries[1].length
      /\ \A k \in b[0] .. b[1] - 1 :
           entries[1].address + (k - b[0]) = HostByte(buf, k) /\ HostByte(buf, k) # Junk
  <2>1. entries[1].length = first /\ entries[1].address = Prp1(buf)
    BY DEF Spread, Entry
  <2>2. ASSUME NEW k \in 0 .. first - 1
        PROVE  Prp1(buf) + (k - 0) = HostByte(buf, k) /\ HostByte(buf, k) # Junk
    <3>1. k \in Nat /\ k < first /\ k - 0 = k
      BY <1>1
    <3> QED BY <3>1, HeadBytes
  <2> QED BY <1>1, <1>5, <1>7, <2>1, <2>2
<1>9. ASSUME NEW j \in 1 .. c
      PROVE  /\ entries[1 + j].length \in Nat
             /\ b[1 + j] = b[j] + entries[1 + j].length
             /\ \A k \in b[j] .. b[1 + j] - 1 :
                  entries[1 + j].address + (k - b[j]) = HostByte(buf, k) /\ HostByte(buf, k) # Junk
  <2>1. PICK x, y, at, a : x = left[j - 1] /\ y = left[j] /\ at = Laps(j - 1, PageSize) /\ a = PageAddress(buf, 1 + j)
    OBVIOUS
  <2>2. entries[1 + j].length = x - y /\ entries[1 + j].address = a
    <3>1. entries[1 + j] = Entry(a, x - y)
      BY <2>1 DEF Spread
    <3> QED BY <3>1 DEF Entry
  <2>3. j \in 0 .. c /\ j - 1 \in 0 .. c /\ 1 + (j - 1) = j
    BY <1>2
  <2>4. b[1 + j] = length - y /\ b[j] = length - x
    BY <1>5, <2>1, <2>3
  <2>5. /\ at \in Nat /\ x \in Nat /\ x = (length - first) - at /\ Laps(j, PageSize) = at + PageSize
        /\ y = IF at + PageSize < length - first THEN (length - first) - (at + PageSize) ELSE 0
    BY <2>1 DEF PageTaken
  <2>6. length - x = first + at /\ y \in Nat /\ y <= x /\ length - y <= first + (at + PageSize)
    <3>1. PICK rest : rest = length - first
      OBVIOUS
    <3>2. rest \in Nat /\ length = rest + first /\ PageSize \in Nat
      BY <1>1, <3>1, Numbers
    <3>3. x = rest - at /\ y = IF at + PageSize < rest THEN rest - (at + PageSize) ELSE 0
      BY <2>5, <3>1
    <3> QED BY <1>1, <2>5, <3>2, <3>3
  <2>7. ASSUME NEW k \in length - x .. length - y - 1
        PROVE  a + (k - (length - x)) = HostByte(buf, k) /\ HostByte(buf, k) # Junk
    <3>1. k \in Nat /\ k >= first + at /\ k < first + (at + PageSize)
      BY <1>1, <2>5, <2>6, Numbers
    <3>2. \A q \in Nat : q >= first + Laps(j - 1, PageSize) /\ q < first + Laps(j, PageSize) =>
            /\ HostByte(buf, q) = PageAddress(buf, 1 + j) + (q - (first + Laps(j - 1, PageSize)))
            /\ HostByte(buf, q) # Junk
      BY LaterPage
    <3>3. HostByte(buf, k) = a + (k - (first + at)) /\ HostByte(buf, k) # Junk
      BY <2>1, <2>5, <3>1, <3>2
    <3> QED BY <2>6, <3>3
  <2>8. x - y \in Nat /\ length - y = (length - x) + (x - y)
    BY <2>5, <2>6
  <2> QED BY <2>2, <2>4, <2>7, <2>8
<1>10. ASSUME NEW i \in 1 .. 1 + c
       PROVE  /\ entries[i].length \in Nat
              /\ b[i] = b[i - 1] + entries[i].length
              /\ \A k \in b[i - 1] .. b[i] - 1 :
                   entries[i].address + (k - b[i - 1]) = HostByte(buf, k) /\ HostByte(buf, k) # Junk
  <2>1. CASE i = 1
    BY <1>8, <2>1
  <2>2. CASE i # 1
    <3>1. PICK j : j = i - 1
      OBVIOUS
    <3>2. j \in 1 .. c /\ i = 1 + j
      BY <1>2, <2>2, <3>1
    <3> QED BY <1>9, <3>1, <3>2
  <2> QED BY <2>1, <2>2
<1>11. Covers(entries, b, buf, length)
  BY <1>2, <1>5, <1>6, <1>7, <1>10 DEF Covers, Spread
<1> QED BY <1>11

LEMMA PrependIs ==
  ASSUME NEW h, NEW c \in Nat, NEW L, L = [j \in 1 .. c |-> L[j]]
  PROVE  /\ Len(<<h>> \o L) = 1 + c
         /\ (<<h>> \o L)[1] = h
         /\ \A j \in 1 .. c : (<<h>> \o L)[1 + j] = L[j]
<1> DEFINE X == {L[j] : j \in 1 .. c} \cup {h}
<1>1. L \in [1 .. c -> X] /\ h \in X
  OBVIOUS
<1> HIDE DEF X
<1>2. L \in Seq(X) /\ Len(L) = c /\ <<h>> \in Seq(X)
  BY <1>1
<1> QED BY <1>2

LEMMA ValidAddress ==
  ASSUME NEW a, VnvmeIsValidPhysicalAddress(a, PageSize)
  PROVE  a <= MaxPhys
  BY DEF VnvmeIsValidPhysicalAddress

(* Two pages: the second address is that of the other page. *)
LEMMA TwoPagesCover ==
  ASSUME NEW buf, HostBuffer(buf), 0 < Len(buf.pages), Prp1(buf) <= MaxPhys,
         NEW first \in 1 .. PageSize, buf.off + first = PageSize,
         NEW length \in Nat, first < length, Holds(buf, length),
         ChunkCount(length - first, PageSize) = 1, PageAddress(buf, 2) <= MaxPhys
  PROVE  \E b : Covers(<<Entry(Prp1(buf), first), Entry(PageBase(PageAddress(buf, 2)), length - first)>>,
                       b, buf, length)
<1>1. PICK rest, c : rest = length - first /\ c = 1
  OBVIOUS
<1>2. rest \in Nat /\ rest > 0 /\ first \in Nat /\ c = ChunkCount(length - first, PageSize)
  BY <1>1, Numbers
<1>3. rest <= Laps(1, PageSize) /\ Laps(1, PageSize) = PageSize /\ Laps(0, PageSize) = 0
  BY <1>1, <1>2, Numbers, ChunkCountIs, LapsFew
<1>4. PICK left : left = [i \in 0 .. 1 |-> IF i = 0 THEN rest ELSE 0]
  OBVIOUS
<1>5. left[0] = rest /\ left[1] = 0
  BY <1>4
<1>6. PageTaken(left, rest, 1)
  <2>1. 1 - 1 = 0 /\ rest - 0 = rest /\ 0 + PageSize = PageSize /\ ~ (PageSize < rest)
    BY <1>2, <1>3, Numbers
  <2> QED BY <1>2, <1>3, <1>5, <2>1, Numbers DEF PageTaken
<1>7. \A j \in 1 .. c : j = 1
  BY <1>1
<1>8. 1 < Len(buf.pages)
  BY <1>1, <1>2, LaterPage
<1>9. PageBase(PageAddress(buf, 2)) = PageAddress(buf, 2)
  <2>1. 2 \in 1 .. Len(buf.pages)
    BY <1>8 DEF HostBuffer
  <2>2. PageAddress(buf, 2) \in Nat /\ PageAddress(buf, 2) % PageSize = 0
    BY <2>1, PageAddressIs
  <2> QED BY <2>2 DEF PageBase
<1>10. PICK entries : entries = <<Entry(Prp1(buf), first), Entry(PageAddress(buf, 2), rest)>>
  OBVIOUS
<1>11. Spread(entries, buf, first, c, left)
  <2>1. Len(entries) = 2 /\ entries[1] = Entry(Prp1(buf), first) /\ entries[2] = Entry(PageAddress(buf, 2), rest)
    BY <1>10
  <2>2. left[1 - 1] - left[1] = rest /\ 1 + 1 = 2 /\ 1 + c = 2
    BY <1>1, <1>2, <1>5
  <2> QED BY <1>7, <2>1, <2>2 DEF Spread
<1>12. \A j \in 1 .. c : PageTaken(left, length - first, j) /\ PageAddress(buf, 1 + j) <= MaxPhys
  BY <1>1, <1>6, <1>7
<1>13. left[0] = length - first /\ left[c] = 0
  BY <1>1, <1>5
<1>14. \E b : Covers(entries, b, buf, length)
  BY <1>2, <1>11, <1>12, <1>13, ManyPagesCover
<1> QED BY <1>1, <1>9, <1>10, <1>14

(* More pages: the host keeps a list of their addresses. *)
LEMMA ListCovers ==
  ASSUME NEW buf, HostBuffer(buf), 0 < Len(buf.pages), Prp1(buf) <= MaxPhys,
         NEW first \in 1 .. PageSize, buf.off + first = PageSize,
         NEW length \in Nat, first < length, Holds(buf, length),
         NEW c, c = ChunkCount(length - first, PageSize),
         NEW list, \A j \in 1 .. c : list[j] = PageAddress(buf, j + 1),
         \A j \in 1 .. c : list[j] <= MaxPhys
  PROVE  \E b : Covers(<<Entry(Prp1(buf), first)>> \o ListEntries(list, c, length - first), b, buf, length)
<1>1. PICK rest : rest = length - first
  OBVIOUS
<1>2. rest \in Nat /\ first \in Nat
  BY <1>1, Numbers
<1>3. c \in Nat
  BY <1>1, <1>2, ChunkCountIs, Numbers
<1>4. ASSUME NEW j \in 1 .. c
      PROVE  list[j] = PageAddress(buf, 1 + j) /\ list[j] \in Nat /\ list[j] % PageSize = 0
  <2>1. j < Len(buf.pages) /\ j \in Nat /\ Len(buf.pages) \in Nat
    BY <1>3, LaterPage DEF HostBuffer
  <2>2. 1 + j \in 1 .. Len(buf.pages) /\ 1 + j = j + 1
    BY <2>1
  <2> QED BY <2>2, PageAddressIs
<1>5. \A j \in 1 .. c : list[j] \in Nat /\ list[j] % PageSize = 0
  BY <1>4
<1>6. PICK left : Listing(left, list, c, rest)
  BY <1>1, <1>2, <1>5, ListEntriesAre
<1>7. PICK L, entries : L = ListEntries(list, c, rest) /\ entries = <<Entry(Prp1(buf), first)>> \o L
  OBVIOUS
<1>8. L = [j \in 1 .. c |-> L[j]] /\ \A j \in 1 .. c : L[j] = Entry(list[j], left[j - 1] - left[j])
  BY <1>6, <1>7 DEF Listing
<1>9. /\ Len(entries) = 1 + c /\ entries[1] = Entry(Prp1(buf), first)
      /\ \A j \in 1 .. c : entries[1 + j] = L[j]
  <2>1. PICK e : e = Entry(Prp1(buf), first)
    OBVIOUS
  <2>2. entries = <<e>> \o L
    BY <1>7, <2>1
  <2>3. L = [j \in 1 .. c |-> L[j]]
    BY <1>8
  <2> QED BY <1>3, <2>1, <2>2, <2>3, PrependIs
<1>10. Spread(entries, buf, first, c, left)
  <2>1. \A j \in 1 .. c : entries[1 + j] = Entry(list[j], left[j - 1] - left[j])
    BY <1>8, <1>9, Zenon
  <2>2. \A j \in 1 .. c : list[j] = PageAddress(buf, 1 + j)
    BY <1>4
  <2> QED BY <1>9, <2>1, <2>2, Zenon DEF Spread
<1>11. \A j \in 1 .. c : PageAddress(buf, 1 + j) <= MaxPhys
  BY <1>4
<1>12. \E b : Covers(entries, b, buf, length)
  BY <1>1, <1>6, <1>10, <1>11, ManyPagesCover DEF Listing
<1> QED BY <1>1, <1>7, <1>12

(* What the parsing of the two fields returns for data of more than no     *)
(* byte: one page, two, or what may be read as a list of c pages.          *)
Fields(entries, buf, length, first, c) ==
  /\ Prp1(buf) <= MaxPhys
  /\ first >= length => entries = <<Entry(Prp1(buf), length)>>
  /\ first < length /\ c = 1 =>
       /\ PageAddress(buf, 2) <= MaxPhys
       /\ entries = <<Entry(Prp1(buf), first), Entry(PageBase(PageAddress(buf, 2)), length - first)>>
  /\ first < length /\ c # 1 =>
       \E list \in PrpListReads(HostList(buf, length), c) :
         /\ \A j \in 1 .. c : list[j] <= MaxPhys
         /\ entries = <<Entry(Prp1(buf), first)>> \o ListEntries(list, c, length - first)

LEMMA ParseIs ==
  ASSUME NEW buf, HostBuffer(buf), NEW length \in Nat, length # 0, 0 < Len(buf.pages),
         NEW first, first = PageSize - buf.off, NEW c, c = ChunkCount(length - first, PageSize),
         NEW prps \in Parse(buf, length), prps.ok
  PROVE  /\ first \in 1 .. PageSize /\ buf.off + first = PageSize
         /\ first < length => c \in Nat \ {0} /\ NumPages(Prp1(buf), length) - 1 = c
         /\ Fields(prps.entries, buf, length, first, c)
<1>1. PICK prp1, prp2, pages, memory :
        /\ prp1 = Prp1(buf) /\ prp2 = Prp2(buf, length) /\ pages = NumPages(prp1, length)
        /\ memory = HostList(buf, length)
  OBVIOUS
<1>2. prps \in VnvmeParsePrpList(prp1, prp2, length, memory)
  BY <1>1 DEF Parse
<1>3. /\ first \in 1 .. PageSize /\ buf.off + first = PageSize
      /\ pages = IF first >= length THEN 1 ELSE 1 + c
  BY <1>1, PagesIs
<1>4. PageSize - (prp1 % PageSize) = first
  BY <1>1, Prp1Is
<1> DEFINE Listings == {IF \E i \in 1 .. pages - 1 : ~ VnvmeIsValidPhysicalAddress(list[i], PageSize) THEN Failed
                        ELSE Parsed(<<Entry(prp1, Smaller(first, length))>> \o ListEntries(list, pages - 1, length - first)) :
                          list \in PrpListReads(memory, pages - 1)}
<1>5. prps \in IF ~ VnvmeIsValidPhysicalAddress(prp1, PageSize) THEN {Failed}
              ELSE IF pages = 1 THEN {Parsed(<<Entry(prp1, Smaller(first, length))>>)}
              ELSE IF ~ VnvmeIsValidPhysicalAddress(prp2, PageSize) THEN {Failed}
              ELSE IF pages = 2 THEN {Parsed(<<Entry(prp1, Smaller(first, length)),
                                               Entry(PageBase(prp2), length - first)>>)}
              ELSE Listings
  BY <1>1, <1>2, <1>4 DEF VnvmeParsePrpList
<1> HIDE DEF Listings
<1>6. prps # Failed
  BY DEF Failed
<1>7. VnvmeIsValidPhysicalAddress(prp1, PageSize)
  BY <1>5, <1>6
<1>8. Prp1(buf) <= MaxPhys
  BY <1>1, <1>7, ValidAddress
<1>9. first \in Nat
  BY <1>3, Numbers
<1>10. ASSUME first >= length PROVE prps.entries = <<Entry(Prp1(buf), length)>>
  <2>1. pages = 1 /\ Smaller(first, length) = length
    BY <1>3, <1>9, <1>10 DEF Smaller
  <2> QED BY <1>1, <1>5, <1>7, <2>1 DEF Parsed
<1>11. ASSUME first < length
       PROVE  c \in Nat \ {0} /\ pages = 1 + c /\ pages - 1 = c /\ Smaller(first, length) = first
  <2>1. length - first \in Nat /\ c \in Nat /\ Smaller(first, length) = first /\ length - first > 0
    <3>1. PICK rest : rest = length - first
      OBVIOUS
    <3>2. rest \in Nat /\ rest > 0 /\ Smaller(first, length) = first
      BY <1>9, <1>11, <3>1 DEF Smaller
    <3>3. ChunkCount(rest, PageSize) \in Nat
      BY <3>2, ChunkCountIs, Numbers
    <3> QED BY <3>1, <3>2, <3>3
  <2>2. c # 0
    <3>1. length - first <= Laps(c, PageSize) /\ Laps(0, PageSize) = 0
      BY <2>1, ChunkCountIs, LapsFew, Numbers
    <3> QED BY <2>1, <3>1
  <2>3. pages = 1 + c
    BY <1>3, <1>9, <1>11
  <2> QED BY <2>1, <2>2, <2>3
<1>12. ASSUME first < length, c = 1
       PROVE  /\ PageAddress(buf, 2) <= MaxPhys
              /\ prps.entries = <<Entry(Prp1(buf), first), Entry(PageBase(PageAddress(buf, 2)), length - first)>>
  <2>1. pages = 2 /\ Smaller(first, length) = first
    BY <1>11, <1>12
  <2>2. prp2 = PageAddress(buf, 2)
    BY <1>1, <2>1 DEF Prp2
  <2>3. VnvmeIsValidPhysicalAddress(prp2, PageSize)
    BY <1>5, <1>6, <1>7, <2>1
  <2>4. prps = Parsed(<<Entry(prp1, first), Entry(PageBase(prp2), length - first)>>)
    BY <1>5, <1>7, <2>1, <2>3
  <2> QED BY <1>1, <2>2, <2>3, <2>4, ValidAddress DEF Parsed
<1>13. ASSUME first < length, c # 1
       PROVE  \E list \in PrpListReads(HostList(buf, length), c) :
                /\ \A j \in 1 .. c : list[j] <= MaxPhys
                /\ prps.entries = <<Entry(Prp1(buf), first)>> \o ListEntries(list, c, length - first)
  <2>1. pages # 1 /\ pages # 2 /\ pages - 1 = c /\ Smaller(first, length) = first
    BY <1>11, <1>13
  <2>2. prps \in Listings
    BY <1>5, <1>6, <1>7, <2>1
  <2>3. PICK list \in PrpListReads(memory, c) :
          prps = IF \E i \in 1 .. c : ~ VnvmeIsValidPhysicalAddress(list[i], PageSize) THEN Failed
                 ELSE Parsed(<<Entry(prp1, first)>> \o ListEntries(list, c, length - first))
    BY <2>1, <2>2, Zenon DEF Listings
  <2>4. \A i \in 1 .. c : VnvmeIsValidPhysicalAddress(list[i], PageSize)
    BY <1>6, <2>3
  <2>5. \A i \in 1 .. c : list[i] <= MaxPhys
    BY <2>4, ValidAddress
  <2>6. prps = Parsed(<<Entry(prp1, first)>> \o ListEntries(list, c, length - first))
    BY <2>3, <2>4
  <2>7. prps.entries = <<Entry(prp1, first)>> \o ListEntries(list, c, length - first)
    BY <2>6 DEF Parsed
  <2> QED BY <1>1, <2>3, <2>5, <2>7
<1>14. Fields(prps.entries, buf, length, first, c)
  BY <1>8, <1>10, <1>12, <1>13, Zenon DEF Fields
<1> QED BY <1>1, <1>3, <1>11, <1>14

LEMMA HoldsLess ==
  ASSUME NEW buf, HostBuffer(buf), NEW length \in Nat, Holds(buf, length), NEW less \in Nat, less <= length
  PROVE  Holds(buf, less)
<1>1. PICK off, n, all : off = buf.off /\ n = Len(buf.pages) /\ all = Laps(n, PageSize)
  OBVIOUS
<1>2. off \in Nat /\ n \in Nat /\ off + length <= all
  BY <1>1, Numbers DEF HostBuffer, Holds
<1>3. all \in Nat
  BY <1>1, <1>2, LapsAdd, Numbers
<1>4. off + less <= all
  BY <1>2, <1>3
<1> QED BY <1>1, <1>4 DEF Holds

(* A buffer that holds data has a page. *)
LEMMA SomePage ==
  ASSUME NEW buf, HostBuffer(buf), NEW length \in Nat, length # 0, Holds(buf, length)
  PROVE  0 < Len(buf.pages)
<1>1. PICK n, off : n = Len(buf.pages) /\ off = buf.off
  OBVIOUS
<1>2. n \in Nat /\ off \in Nat
  BY <1>1, Numbers DEF HostBuffer
<1>3. ASSUME n = 0 PROVE FALSE
  <2>1. Laps(n, PageSize) = 0
    BY <1>3, LapsFew, Numbers
  <2>2. off + length <= 0
    BY <1>1, <2>1 DEF Holds
  <2> QED BY <1>2, <2>2
<1> QED BY <1>1, <1>2, <1>3

(* A list that lies in one page is read as the host wrote it. *)
LEMMA ListIsRead ==
  ASSUME NEW buf, HostBuffer(buf), NEW length, NEW c \in Nat, NumPages(Prp1(buf), length) - 1 = c,
         InOnePage(buf, length), NEW list \in PrpListReads(HostList(buf, length), c)
  PROVE  \A j \in 1 .. c : list[j] = PageAddress(buf, j + 1)
<1>1. PICK memory, room : memory = HostList(buf, length) /\ room = buf.room
  OBVIOUS
<1>2. c <= room /\ room \in 1 .. ListPage /\ ListPage \in Nat
  BY <1>1, ListAssumption DEF InOnePage, HostBuffer
<1>3. Smaller(c, room) = c
  BY <1>2 DEF Smaller
<1>4. memory = [i \in 1 .. c |-> PageAddress(buf, i + 1)]
  BY <1>1, <1>3 DEF HostList
<1>5. PICK stray : list = [i \in 1 .. c |-> IF i \in DOMAIN memory /\ i <= ListPage THEN memory[i] ELSE stray[i]]
  BY <1>1 DEF PrpListReads
<1>6. ASSUME NEW j \in 1 .. c PROVE list[j] = PageAddress(buf, j + 1)
  <2>1. j \in DOMAIN memory /\ j <= ListPage
    BY <1>2, <1>4
  <2>2. list[j] = memory[j]
    BY <1>5, <2>1
  <2> QED BY <1>4, <2>2
<1> QED BY <1>6

(* The entries that the parsing of the two fields returns cover the data,  *)
(* through one page, two or a list in one page.                            *)
LEMMA ParseCovers ==
  ASSUME NEW buf, HostBuffer(buf), NEW length \in Nat, Holds(buf, length), InOnePage(buf, length),
         NEW prps \in Parse(buf, length), prps.ok
  PROVE  \E b : Covers(prps.entries, b, buf, length)
<1>1. CASE length = 0
  <2>1. prps = Parsed(<< >>)
    BY <1>1 DEF Parse, VnvmeParsePrpList
  <2>2. PICK b : b = [i \in 0 .. 0 |-> 0]
    OBVIOUS
  <2>3. b \in [0 .. 0 -> 0 .. length] /\ b[0] = 0
    BY <1>1, <2>2
  <2>4. Covers(<< >>, b, buf, length)
    BY <1>1, <2>3 DEF Covers
  <2>5. prps.entries = << >>
    BY <2>1 DEF Parsed
  <2> QED BY <2>4, <2>5
<1>2. CASE length # 0
  <2>1. 0 < Len(buf.pages)
    BY <1>2, SomePage
  <2>2. PICK first : first = PageSize - buf.off
    OBVIOUS
  <2>3. PICK c : c = ChunkCount(length - first, PageSize)
    OBVIOUS
  <2>4. /\ first \in 1 .. PageSize /\ buf.off + first = PageSize
        /\ first < length => c \in Nat \ {0} /\ NumPages(Prp1(buf), length) - 1 = c
        /\ Fields(prps.entries, buf, length, first, c)
    BY <1>2, <2>1, <2>2, <2>3, ParseIs
  <2>5. Prp1(buf) <= MaxPhys /\ first \in Nat
    <3>1. Prp1(buf) <= MaxPhys
      BY <2>4, Zenon DEF Fields
    <3>2. first \in Nat
      BY <2>4, Numbers
    <3> QED BY <3>1, <3>2
  <2>6. CASE first >= length
    <3>1. prps.entries = <<Entry(Prp1(buf), length)>>
      BY <2>4, <2>6, Zenon DEF Fields
    <3>2. \E b : Covers(<<Entry(Prp1(buf), length)>>, b, buf, length)
      BY <2>1, <2>4, <2>5, <2>6, OnePageCovers
    <3> QED BY <3>1, <3>2
  <2>7. CASE first < length /\ c = 1
    <3>1. /\ PageAddress(buf, 2) <= MaxPhys
          /\ prps.entries = <<Entry(Prp1(buf), first), Entry(PageBase(PageAddress(buf, 2)), length - first)>>
      BY <2>4, <2>7, Zenon DEF Fields
    <3>2. \E b : Covers(<<Entry(Prp1(buf), first), Entry(PageBase(PageAddress(buf, 2)), length - first)>>,
                        b, buf, length)
      BY <2>1, <2>3, <2>4, <2>5, <2>7, <3>1, TwoPagesCover
    <3> QED BY <3>1, <3>2
  <2>8. CASE first < length /\ c # 1
    <3>1. PICK list \in PrpListReads(HostList(buf, length), c) :
            /\ \A j \in 1 .. c : list[j] <= MaxPhys
            /\ prps.entries = <<Entry(Prp1(buf), first)>> \o ListEntries(list, c, length - first)
      BY <2>4, <2>8, Zenon DEF Fields
    <3>2. \A j \in 1 .. c : list[j] = PageAddress(buf, j + 1)
      BY <2>4, <2>8, ListIsRead
    <3>3. \E b : Covers(<<Entry(Prp1(buf), first)>> \o ListEntries(list, c, length - first), b, buf, length)
      BY <2>1, <2>3, <2>4, <2>5, <2>8, <3>1, <3>2, ListCovers
    <3> QED BY <3>1, <3>3
  <2> QED BY <2>5, <2>6, <2>7, <2>8
<1> QED BY <1>1, <1>2

-----------------------------------------------------------------------------
(* What a list that is not followed leads to *)

(* The bytes of a page at an address that is accepted may be stored. *)
LEMMA PageIsStored ==
  ASSUME NEW a \in Addresses, a \in Nat, a <= MaxPhys, NEW d \in Nat, d < PageSize
  PROVE  a + d \in Stored
<1>1. MaxPhys \in Nat /\ MaxPhys + PageSize < Wide
  BY AddressAssumption
<1>2. a + d # Junk
  BY <1>1, Numbers DEF Junk
<1>3. d \in 0 .. PageSize - 1
  BY Numbers
<1> QED BY <1>2, <1>3 DEF Stored, Values, Anything

(* Entries that cover the data of a buffer *)
LEMMA CoversLoose ==
  ASSUME NEW buf \in Buffers, HostBuffer(buf), NEW length \in Nat, Holds(buf, length),
         NEW entries, NEW b, Covers(entries, b, buf, length)
  PROVE  Loose(entries)
<1> DEFINE n == Len(entries)
<1>1. n \in Nat /\ \A i \in 0 .. n : b[i] \in 0 .. length
  BY DEF Covers
<1>2. ASSUME NEW i \in 1 .. n
      PROVE  /\ entries[i].length \in Nat
             /\ \A d \in Nat : d < entries[i].length => entries[i].address + d \in Stored
  <2>1. i \in 0 .. n /\ i - 1 \in 0 .. n
    BY <1>1
  <2>2. PICK p, q, s, a : p = b[i - 1] /\ q = b[i] /\ s = entries[i].length /\ a = entries[i].address
    OBVIOUS
  <2>3. /\ p \in 0 .. length /\ q \in 0 .. length /\ s \in Nat /\ q = p + s
        /\ \A k \in p .. q - 1 : a + (k - p) = HostByte(buf, k) /\ HostByte(buf, k) # Junk
    BY <1>1, <2>1, <2>2 DEF Covers
  <2>4. ASSUME NEW d \in Nat, d < s PROVE a + d \in Stored
    <3>1. PICK k : k = p + d
      OBVIOUS
    <3>2. k \in p .. q - 1 /\ k - p = d /\ k \in Nat /\ k + 1 <= length
      BY <2>3, <2>4, <3>1
    <3>3. Holds(buf, k + 1)
      <4>1. k + 1 \in Nat
        BY <3>2
      <4> QED BY <3>2, <4>1, HoldsLess
    <3>4. HostByte(buf, k) \in Anything
      BY <3>2, <3>3, HostByteIs
    <3>5. a + d = HostByte(buf, k) /\ HostByte(buf, k) # Junk
      BY <2>3, <3>2
    <3> QED BY <3>4, <3>5 DEF Stored, Values
  <2> QED BY <2>2, <2>3, <2>4
<1> QED BY <1>1, <1>2 DEF Loose

(* Whatever is read as a list, its entries name bytes of pages it led to. *)
LEMMA ListLoose ==
  ASSUME NEW buf \in Buffers, HostBuffer(buf), NEW length \in Nat, Holds(buf, length), 0 < Len(buf.pages),
         NEW first \in 1 .. PageSize, buf.off + first = PageSize, first < length, Prp1(buf) <= MaxPhys,
         NEW c \in Nat, c = ChunkCount(length - first, PageSize), NumPages(Prp1(buf), length) - 1 = c,
         NEW list \in PrpListReads(HostList(buf, length), c), \A j \in 1 .. c : list[j] <= MaxPhys
  PROVE  Loose(<<Entry(Prp1(buf), first)>> \o ListEntries(list, c, length - first))
<1>1. PICK rest, memory : rest = length - first /\ memory = HostList(buf, length)
  OBVIOUS
<1>2. rest \in Nat /\ first \in Nat
  BY <1>1, Numbers
<1>3. ASSUME NEW j \in 1 .. c PROVE list[j] \in Addresses /\ list[j] \in Nat
  <2>1. PICK stray \in [1 .. c -> Strays] :
          list = [i \in 1 .. c |-> IF i \in DOMAIN memory /\ i <= ListPage THEN memory[i] ELSE stray[i]]
    BY <1>1 DEF PrpListReads
  <2>2. (list[j] = memory[j] /\ j \in DOMAIN memory) \/ list[j] = stray[j]
    BY <2>1
  <2>3. j \in DOMAIN memory => memory[j] = NextList \/ memory[j] = PageAddress(buf, j + 1)
    BY <1>1 DEF HostList
  <2>4. stray[j] \in Strays
    BY <2>1
  <2>5. j < Len(buf.pages)
    BY LaterPage
  <2>6. j + 1 \in 1 .. Len(buf.pages)
    BY <2>5 DEF HostBuffer
  <2>7. PageAddress(buf, j + 1) \in Nat
    BY <2>6, PageAddressIs
  <2>8. PageAddress(buf, j + 1) \in Addresses
    BY <2>6 DEF Addresses
  <2>9. Strays \subseteq Addresses /\ NextList \in Addresses /\ Strays \subseteq Nat /\ NextList \in Nat
    BY ListAssumption, BufferAssumption DEF Addresses
  <2> QED BY <2>2, <2>3, <2>4, <2>7, <2>8, <2>9
<1>4. PICK left : StrayListing(left, list, c, rest)
  BY <1>1, <1>2, <1>3, StrayEntriesAre
<1>5. PICK L, e, entries : L = ListEntries(list, c, rest) /\ e = Entry(Prp1(buf), first) /\ entries = <<e>> \o L
  OBVIOUS
<1>6. L = [j \in 1 .. c |-> L[j]] /\ \A j \in 1 .. c : L[j] = Entry(list[j], left[j - 1] - left[j])
  BY <1>4, <1>5 DEF StrayListing
<1>7. Len(entries) = 1 + c /\ entries[1] = e /\ \A j \in 1 .. c : entries[1 + j] = L[j]
  BY <1>5, <1>6, PrependIs
<1>8. e.length = first /\ e.address = Prp1(buf)
  BY <1>5 DEF Entry
<1>9. ASSUME NEW d \in Nat, d < first PROVE Prp1(buf) + d \in Stored
  <2>1. Prp1(buf) + d = HostByte(buf, d) /\ HostByte(buf, d) # Junk
    BY <1>2, <1>9, HeadBytes
  <2>2. Holds(buf, d + 1)
    <3>1. d + 1 \in Nat /\ d + 1 <= length
      BY <1>2, <1>9
    <3> QED BY <3>1, HoldsLess
  <2>3. HostByte(buf, d) \in Anything
    BY <2>2, HostByteIs
  <2> QED BY <2>1, <2>3 DEF Stored, Values
<1>10. ASSUME NEW j \in 1 .. c
       PROVE  /\ L[j].length \in Nat
              /\ \A d \in Nat : d < L[j].length => L[j].address + d \in Stored
  <2>1. PICK s, a : s = left[j - 1] - left[j] /\ a = list[j]
    OBVIOUS
  <2>2. L[j].length = s /\ L[j].address = a
    BY <1>6, <2>1 DEF Entry
  <2>3. s \in 0 .. PageSize
    BY <1>4, <2>1 DEF StrayListing
  <2>4. a \in Addresses /\ a \in Nat /\ a <= MaxPhys
    BY <1>3, <2>1
  <2>5. ASSUME NEW d \in Nat, d < s PROVE a + d \in Stored
    <3>1. d < PageSize
      BY <2>3, <2>5, Numbers
    <3> QED BY <2>4, <3>1, PageIsStored
  <2>6. s \in Nat
    BY <2>3, Numbers
  <2> QED BY <2>2, <2>5, <2>6
<1>11. ASSUME NEW i \in 1 .. 1 + c
       PROVE  /\ entries[i].length \in Nat
              /\ \A d \in Nat : d < entries[i].length => entries[i].address + d \in Stored
  <2>1. CASE i = 1
    BY <1>2, <1>7, <1>8, <1>9, <2>1
  <2>2. CASE i # 1
    <3>1. PICK j : j = i - 1
      OBVIOUS
    <3>2. j \in 1 .. c /\ i = 1 + j
      BY <2>2, <3>1
    <3>3. entries[i] = L[j]
      BY <1>7, <3>2
    <3> QED BY <1>10, <3>2, <3>3
  <2> QED BY <2>1, <2>2
<1>12. Loose(entries)
  BY <1>7, <1>11 DEF Loose
<1> QED BY <1>1, <1>5, <1>12

LEMMA ParseLoose ==
  ASSUME NEW buf \in Buffers, HostBuffer(buf), NEW length \in Nat, Holds(buf, length),
         NEW prps \in Parse(buf, length), prps.ok
  PROVE  Loose(prps.entries)
<1>1. CASE InOnePage(buf, length)
  BY <1>1, ParseCovers, CoversLoose
<1>2. CASE length = 0
  <2>1. prps = Parsed(<< >>)
    BY <1>2 DEF Parse, VnvmeParsePrpList
  <2>2. prps.entries = << >>
    BY <2>1 DEF Parsed
  <2> QED BY <2>2 DEF Loose
<1>3. CASE ~ InOnePage(buf, length) /\ length # 0
  <2>1. 0 < Len(buf.pages)
    BY <1>3, SomePage
  <2>2. PICK first : first = PageSize - buf.off
    OBVIOUS
  <2>3. PICK c : c = ChunkCount(length - first, PageSize)
    OBVIOUS
  <2>4. /\ first \in 1 .. PageSize /\ buf.off + first = PageSize
        /\ first < length => c \in Nat \ {0} /\ NumPages(Prp1(buf), length) - 1 = c
        /\ Fields(prps.entries, buf, length, first, c)
    BY <1>3, <2>1, <2>2, <2>3, ParseIs
  <2>5. PICK room : room = buf.room
    OBVIOUS
  <2>6. room \in Nat \ {0} /\ first \in Nat /\ Prp1(buf) <= MaxPhys
    <3>1. room \in Nat \ {0} /\ first \in Nat
      BY <2>4, <2>5, Numbers, ListAssumption DEF HostBuffer
    <3>2. Prp1(buf) <= MaxPhys
      BY <2>4, Zenon DEF Fields
    <3> QED BY <3>1, <3>2
  <2>7. first < length
    <3>1. ASSUME first >= length PROVE FALSE
      <4>1. NumPages(Prp1(buf), length) = 1
        BY <2>1, <2>2, <3>1, PagesIs
      <4> QED BY <1>3, <2>5, <2>6, <4>1 DEF InOnePage
    <3> QED BY <2>6, <3>1
  <2>8. c \in Nat /\ NumPages(Prp1(buf), length) - 1 = c /\ c # 1
    <3>1. c \in Nat /\ NumPages(Prp1(buf), length) - 1 = c
      BY <2>4, <2>7
    <3>2. ~ (c <= room)
      BY <1>3, <2>5, <3>1 DEF InOnePage
    <3> QED BY <2>6, <3>1, <3>2
  <2>9. PICK list \in PrpListReads(HostList(buf, length), c) :
          /\ \A j \in 1 .. c : list[j] <= MaxPhys
          /\ prps.entries = <<Entry(Prp1(buf), first)>> \o ListEntries(list, c, length - first)
    BY <2>4, <2>7, <2>8, Zenon DEF Fields
  <2>10. Loose(<<Entry(Prp1(buf), first)>> \o ListEntries(list, c, length - first))
    BY <2>1, <2>3, <2>4, <2>6, <2>7, <2>8, <2>9, ListLoose
  <2> QED BY <2>9, <2>10
<1> QED BY <1>1, <1>2, <1>3

-----------------------------------------------------------------------------
(* Commands: their ranges, buffers and effects *)

(* Hypotheses about what commands carry: no range reaches beyond the last  *)
(* 64-bit number, and no command the largest block count.                  *)
Unwrapped ==
  /\ \A slba \in Slbas, raw \in RawNlbs : slba + raw + 1 < Wide
  /\ \A ranges \in Trims : \A i \in 1 .. Len(ranges) : ranges[i].slba + ranges[i].nlb < Wide
Counted == \A raw \in RawNlbs : raw + 1 < Half

LEMMA Unreduced ==
  ASSUME NEW z \in Nat, NEW size \in Nat \ {0}, z < size
  PROVE  z % size = z
<1>1. z \in 0 .. size - 1
  OBVIOUS
<1> QED BY <1>1, PlaceInFirstLap DEF Place

(* A product with a larger factor is not smaller. *)
LEMMA LapsMonotone ==
  ASSUME NEW size \in Nat, NEW m \in Nat, NEW n \in Nat, m <= n
  PROVE  Laps(m, size) \in Nat /\ Laps(n, size) \in Nat /\ Laps(m, size) <= Laps(n, size)
<1>1. CASE m < n
  BY <1>1, LapsGrow
<1>2. CASE m = n
  BY <1>2, LapsAdd
<1> QED BY <1>1, <1>2

LEMMA NlbIs ==
  ASSUME NEW raw \in RawNlbs
  PROVE  raw \in Nat /\ Nlb(raw) \in Nat /\ Nlb(raw) <= raw + 1 /\ (Counted => Nlb(raw) = raw + 1)
<1>1. raw \in Nat /\ raw + 1 \in Nat /\ raw + 1 <= Half /\ Half \in Nat \ {0}
  BY SizeAssumption, Numbers
<1>2. CASE raw + 1 < Half
  <2>1. (raw + 1) % Half = raw + 1
    BY <1>1, <1>2, Unreduced
  <2> QED BY <1>1, <2>1 DEF Nlb
<1>3. CASE raw + 1 = Half
  <2>1. (raw + 1) % Half = 0
    BY <1>1, <1>3
  <2> QED BY <1>1, <1>3, <2>1 DEF Nlb, Counted
<1> QED BY <1>1, <1>2, <1>3

(* Blocks that exist have bytes that exist. *)
LEMMA BlocksFit ==
  ASSUME NEW slba \in Nat, NEW nlb \in Nat, slba + nlb <= TotalBlocks
  PROVE  /\ slba * BlockSize \in Nat /\ nlb * BlockSize \in Nat
         /\ slba * BlockSize + nlb * BlockSize <= TotalBytes
         /\ ByteOffset(slba) = slba * BlockSize
<1>1. slba * BlockSize = Laps(slba, BlockSize) /\ nlb * BlockSize = Laps(nlb, BlockSize)
      /\ TotalBytes = Laps(TotalBlocks, BlockSize)
  BY Numbers DEF Laps, TotalBytes
<1>2. Laps(slba, BlockSize) \in Nat /\ Laps(nlb, BlockSize) \in Nat
      /\ Laps(slba + nlb, BlockSize) = Laps(slba, BlockSize) + Laps(nlb, BlockSize)
  BY LapsAdd, Numbers
<1>3. PICK n : n = slba + nlb
  OBVIOUS
<1>4. n \in Nat /\ n <= TotalBlocks
  BY <1>3
<1>5. Laps(n, BlockSize) <= Laps(TotalBlocks, BlockSize)
  BY <1>4, LapsMonotone, Numbers
<1>6. slba * BlockSize \in Nat /\ nlb * BlockSize \in Nat /\ slba * BlockSize + nlb * BlockSize <= TotalBytes
  BY <1>1, <1>2, <1>3, <1>5, Numbers
<1>7. PICK at : at = slba * BlockSize
  OBVIOUS
<1>8. at \in Nat /\ at < Wide
  BY <1>6, <1>7, Numbers
<1>9. at % Wide = at
  BY <1>8, Unreduced, Numbers
<1> QED BY <1>6, <1>7, <1>9 DEF ByteOffset

(* Where the data of a command that is not refused lies *)
Located(slba, raw, offset, length) ==
  /\ offset = slba * BlockSize /\ length = Nlb(raw) * BlockSize
  /\ offset \in Nat /\ length \in Nat /\ offset + length <= TotalBytes
  /\ ByteOffset(slba) = offset
  /\ Counted => Asked(raw) = 0 .. length - 1
  /\ 0 .. length - 1 \subseteq Asked(raw)

LEMMA CommandLocated ==
  ASSUME Unwrapped, NEW slba \in Slbas, NEW raw \in RawNlbs, LbaRangeValid(slba, Nlb(raw))
  PROVE  \E offset, length : Located(slba, raw, offset, length)
<1>1. PICK nlb : nlb = Nlb(raw)
  OBVIOUS
<1>2. slba \in Nat /\ raw \in Nat /\ nlb \in Nat /\ nlb <= raw + 1 /\ (Counted => nlb = raw + 1)
  BY <1>1, NlbIs, SizeAssumption, Numbers
<1>3. PICK z : z = slba + nlb
  OBVIOUS
<1>4. z \in Nat /\ z < Wide
  <2>1. slba + raw + 1 < Wide
    BY DEF Unwrapped
  <2> QED BY <1>2, <1>3, <2>1, Numbers
<1>5. z % Wide = z
  BY <1>4, Unreduced, Numbers
<1>6. slba + nlb <= TotalBlocks
  BY <1>1, <1>3, <1>5 DEF LbaRangeValid
<1>7. PICK offset, length : offset = slba * BlockSize /\ length = nlb * BlockSize
  OBVIOUS
<1>8. offset \in Nat /\ length \in Nat /\ offset + length <= TotalBytes /\ ByteOffset(slba) = offset
  BY <1>2, <1>6, <1>7, BlocksFit
<1>9. PICK n : n = raw + 1
  OBVIOUS
<1>10. n \in Nat /\ nlb <= n /\ nlb * BlockSize = Laps(nlb, BlockSize) /\ n * BlockSize = Laps(n, BlockSize)
  BY <1>2, <1>9, Numbers DEF Laps
<1>11. n * BlockSize \in Nat /\ length <= n * BlockSize
  BY <1>2, <1>7, <1>10, LapsMonotone, Numbers
<1>12. Asked(raw) = 0 .. n * BlockSize - 1
  BY <1>9 DEF Asked
<1>13. 0 .. length - 1 \subseteq Asked(raw)
  BY <1>8, <1>11, <1>12
<1>14. Counted => Asked(raw) = 0 .. length - 1
  BY <1>2, <1>7, <1>9, <1>12
<1> QED BY <1>1, <1>7, <1>8, <1>13, <1>14 DEF Located

LEMMA BufferHolds ==
  ASSUME NEW buf \in Buffers, NEW raw \in RawNlbs, NEW length, length = Nlb(raw) * BlockSize
  PROVE  HostBuffer(buf) /\ Holds(buf, length)
<1>1. HostBuffer(buf)
  BY BufferAssumption DEF HostBuffer
<1>2. PICK nlb, n, len, off :
        nlb = Nlb(raw) /\ n = raw + 1 /\ len = Len(buf.pages) /\ off = buf.off
  OBVIOUS
<1>3. nlb \in Nat /\ n \in Nat /\ nlb <= n /\ len \in Nat /\ off \in Nat
  BY <1>1, <1>2, NlbIs, Numbers DEF HostBuffer
<1>4. off + n * BlockSize <= len * PageSize
  BY <1>2, BufferAssumption
<1>5. /\ nlb * BlockSize = Laps(nlb, BlockSize) /\ n * BlockSize = Laps(n, BlockSize)
      /\ len * PageSize = Laps(len, PageSize)
  BY <1>3, Numbers DEF Laps
<1>6. Laps(nlb, BlockSize) \in Nat /\ Laps(n, BlockSize) \in Nat /\ Laps(nlb, BlockSize) <= Laps(n, BlockSize)
      /\ Laps(len, PageSize) \in Nat
  BY <1>3, LapsMonotone, LapsAdd, Numbers
<1>7. off + Laps(nlb, BlockSize) <= Laps(len, PageSize)
  BY <1>3, <1>4, <1>5, <1>6
<1> QED BY <1>1, <1>2, <1>5, <1>7 DEF Holds

(* The bytes a command asks for are there in the host's buffer. *)
LEMMA AskedIs ==
  ASSUME NEW buf \in Buffers, NEW raw \in RawNlbs, NEW k \in Nat, k \in Asked(raw)
  PROVE  HostByte(buf, k) \in Anything
<1>1. HostBuffer(buf)
  BY BufferAssumption DEF HostBuffer
<1>2. PICK n, len, all : n = (raw + 1) * BlockSize /\ len = Len(buf.pages) /\ all = len * PageSize
  OBVIOUS
<1>3. len \in Nat /\ all = Laps(len, PageSize)
  BY <1>1, <1>2, Numbers DEF HostBuffer, Laps
<1>4. n \in Nat
  BY <1>2, SizeAssumption, Numbers
<1>5. Holds(buf, n)
  <2>1. buf.off + n <= all
    BY <1>2, BufferAssumption
  <2> QED BY <1>2, <1>3, <2>1 DEF Holds
<1>6. k + 1 \in Nat /\ k + 1 <= n
  BY <1>2, <1>4 DEF Asked
<1>7. Holds(buf, k + 1)
  BY <1>1, <1>4, <1>5, <1>6, HoldsLess
<1> QED BY <1>1, <1>7, HostByteIs

(* All of the data, to or from where the host has it *)
Sound(bad, buf, length) == bad = {} /\ InOnePage(buf, length)

(* What the copy loop moves for a command whose PRPs were parsed *)
TakenFrom(copy, bad, buf, length) ==
  /\ \E m \in 0 .. length : copy \in [0 .. m - 1 -> Stored]
  /\ Sound(bad, buf, length) => copy = [k \in 0 .. length - 1 |-> HostByte(buf, k)]

LEMMA CopyIs ==
  ASSUME NEW buf \in Buffers, NEW raw \in RawNlbs, NEW length \in Nat, length = Nlb(raw) * BlockSize,
         NEW prps \in Parse(buf, length), prps.ok,
         NEW bad, NEW copy, copy = CopyMap(prps.entries, bad, length)
  PROVE  TakenFrom(copy, bad, buf, length)
<1>1. PICK entries : entries = prps.entries
  OBVIOUS
<1>2. HostBuffer(buf) /\ Holds(buf, length)
  BY BufferHolds
<1>3. Loose(entries)
  BY <1>1, <1>2, ParseLoose
<1>4. copy = CopyMap(entries, bad, length)
  BY <1>1
<1>5. PICK m \in 0 .. length : copy \in [0 .. m - 1 -> Stored]
  <2>1. \E m \in 0 .. length : CopyMap(entries, bad, length) \in [0 .. m - 1 -> Stored]
    BY <1>3, CopyIsStored, Zenon
  <2> QED BY <1>4, <2>1, Zenon
<1>6. ASSUME Sound(bad, buf, length) PROVE copy = [k \in 0 .. length - 1 |-> HostByte(buf, k)]
  <2>1. bad = {} /\ InOnePage(buf, length)
    BY <1>6 DEF Sound
  <2>2. PICK b : Covers(entries, b, buf, length)
    BY <1>1, <1>2, <2>1, ParseCovers
  <2>3. copy = CopyMap(entries, {}, length)
    BY <1>4, <2>1, Zenon
  <2> QED BY <2>2, <2>3, CopyIsWhole
<1> QED BY <1>5, <1>6, Zenon DEF TakenFrom

LEMMA FillBufferIs ==
  ASSUME NEW length \in Nat, NEW m \in 0 .. length, NEW copy \in [0 .. m - 1 -> Stored]
  PROVE  /\ FillBuffer(copy, length) \in [0 .. length - 1 -> Stored]
         /\ m = length => FillBuffer(copy, length) = copy
  BY ZeroIsStored DEF FillBuffer

-----------------------------------------------------------------------------
(* The invariant: types and, with Counted, what the host was told *)

DataInv == TypeOK /\ (Counted => StoreIsAsTold)

LEMMA InitInv == Init => DataInv
<1> SUFFICES ASSUME Init PROVE DataInv
  OBVIOUS
<1>1. Empty \in Stores /\ \A b \in Bytes : Empty[b] = 0
  BY ZeroIsStored DEF Empty, Stores
<1>2. data \in [Slots -> Stores] /\ \A n \in Slots : data[n] = Empty
  BY <1>1 DEF Init
<1>3. belief \in [Slots -> [Bytes -> SUBSET Values]]
  BY DEF Init, Values, Anything
<1>4. ns \in [Slots -> [Active : BOOLEAN, kind : {"memory", "file", "sparse"}]]
  BY DEF Init
<1>5. changes \in 0 .. MaxChanges /\ last.status \in Statuses
  BY SizeAssumption DEF Init, Quiet, Statuses
<1>6. TypeOK
  BY <1>2, <1>3, <1>4, <1>5 DEF TypeOK, Stores, Stored
<1>7. StoreIsAsTold
  BY DEF StoreIsAsTold, Init
<1> QED BY <1>6, <1>7 DEF DataInv

LEMMA TypeParts ==
  TypeOK <=> /\ ns \in [Slots -> [Active : BOOLEAN, kind : AllKinds]]
             /\ data \in [Slots -> Stores]
             /\ belief \in [Slots -> [Bytes -> SUBSET Values]]
             /\ changes \in 0 .. MaxChanges
             /\ last.status \in Statuses
  BY DEF TypeOK, Stores, Stored, AllKinds

(* A command that is answered without an effect *)
LEMMA AnswerKeeps ==
  ASSUME DataInv, NEW op, NEW status \in Statuses, Answer(op, status)
  PROVE  DataInv'
<1>1. ns' = ns /\ data' = data /\ belief' = belief /\ changes' = changes /\ last'.status = status
  BY DEF Answer
<1>2. TypeOK'
  BY <1>1 DEF TypeOK, DataInv
<1>3. Counted => StoreIsAsTold'
  BY <1>1 DEF StoreIsAsTold, DataInv
<1> QED BY <1>2, <1>3 DEF DataInv

LEMMA LastKeeps ==
  ASSUME DataInv, ns' = ns, data' = data, belief' = belief, changes' = changes, last'.status \in Statuses
  PROVE  DataInv'
<1>1. TypeOK'
  BY DEF TypeOK, DataInv
<1>2. Counted => StoreIsAsTold'
  BY DEF StoreIsAsTold, DataInv
<1> QED BY <1>1, <1>2 DEF DataInv

(* A change of one store, with what the host may then expect of each byte *)
LEMMA ChangeKeeps ==
  ASSUME DataInv, NEW n \in Slots, NEW store \in Stores, Change(n, store), last'.status \in Statuses,
         NEW expect \in [Bytes -> SUBSET Values], belief' = [belief EXCEPT ![n] = expect],
         Counted => (ns[n].Active => \A b \in Bytes : store[b] \in expect[b])
  PROVE  DataInv'
<1>1. TypeOK
  BY DEF DataInv
<1>2. /\ ns' = ns /\ data' = [data EXCEPT ![n] = store] /\ changes < MaxChanges /\ changes' = changes + 1
  BY DEF Change
<1>3. data' \in [Slots -> Stores] /\ belief' \in [Slots -> [Bytes -> SUBSET Values]]
  BY <1>1, <1>2, TypeParts
<1>4. changes' \in 0 .. MaxChanges
  BY <1>1, <1>2, SizeAssumption DEF TypeOK
<1>5. TypeOK'
  BY <1>1, <1>2, <1>3, <1>4 DEF TypeOK, Stores, Stored
<1>6. ASSUME Counted PROVE StoreIsAsTold'
  <2>1. ASSUME NEW i \in Slots, ns[i].Active, NEW b \in Bytes PROVE data'[i][b] \in belief'[i][b]
    <3>1. CASE i = n
      <4>1. data'[i] = store /\ belief'[i] = expect
        BY <1>1, <1>2, <3>1, TypeParts
      <4> QED BY <1>6, <2>1, <3>1, <4>1
    <3>2. CASE i # n
      <4>1. data'[i] = data[i] /\ belief'[i] = belief[i]
        BY <1>1, <1>2, <3>2, TypeParts
      <4> QED BY <1>6, <2>1, <4>1 DEF DataInv, StoreIsAsTold
    <3> QED BY <3>1, <3>2
  <2> QED BY <1>2, <2>1 DEF StoreIsAsTold
<1> QED BY <1>5, <1>6 DEF DataInv

(* A change that the host concludes from the status *)
LEMMA ConcludeKeeps ==
  ASSUME DataInv, NEW n \in Slots, ns[n].Active,
         NEW slba, NEW raw, NEW offset, NEW length, Located(slba, raw, offset, length),
         NEW asked, DOMAIN asked = Asked(raw), \A k \in 0 .. TotalBytes - 1 : k \in Asked(raw) => asked[k] \in Values,
         NEW new, NEW r, Outcome(r, data[n], offset, new), Counted => new = asked,
         NEW status \in Statuses, status = "SUCCESS" <=> r.ok,
         Change(n, r.store), Conclude(n, slba, asked, status), last'.status \in Statuses
  PROVE  DataInv'
<1> DEFINE expect == [b \in Bytes |->
              IF b < offset \/ b - offset \notin Asked(raw) THEN belief[n][b]
              ELSE IF status = "SUCCESS" THEN {asked[b - offset]} ELSE belief[n][b] \cup {asked[b - offset]}]
<1>1. offset \in Nat /\ offset = slba * BlockSize
  BY DEF Located
<1>2. belief' = [belief EXCEPT ![n] = expect]
  BY <1>1 DEF Conclude
<1>3. belief[n] \in [Bytes -> SUBSET Values] /\ data[n] \in Stores
  BY TypeParts DEF DataInv
<1>4. ASSUME NEW b \in Bytes, ~ (b < offset), b - offset \in Asked(raw) PROVE asked[b - offset] \in Values
  <2>1. b - offset \in 0 .. TotalBytes - 1
    BY <1>1, <1>4, Numbers DEF Bytes
  <2> QED BY <1>4, <2>1
<1>5. expect \in [Bytes -> SUBSET Values]
  BY <1>3, <1>4
<1>6. r.store \in Stores
  BY DEF Outcome
<1>7. ASSUME Counted, NEW b \in Bytes PROVE r.store[b] \in expect[b]
  <2>1. data[n][b] \in belief[n][b] /\ new = asked /\ b \in Nat
    BY <1>7, Numbers DEF DataInv, StoreIsAsTold
  <2>2. \/ r.store[b] = data[n][b]
        \/ b >= offset /\ b - offset \in Asked(raw) /\ r.store[b] = asked[b - offset]
    BY <2>1 DEF Outcome, PartOf
  <2>3. r.ok /\ b >= offset /\ b - offset \in Asked(raw) => r.store[b] = asked[b - offset]
    BY <2>1 DEF Outcome, AllOf
  <2>4. expect[b] = IF b < offset \/ b - offset \notin Asked(raw) THEN belief[n][b]
                    ELSE IF status = "SUCCESS" THEN {asked[b - offset]} ELSE belief[n][b] \cup {asked[b - offset]}
    OBVIOUS
  <2>5. b < offset <=> ~ (b >= offset)
    BY <1>1, <2>1
  <2> HIDE DEF expect
  <2> QED BY <2>1, <2>2, <2>3, <2>4, <2>5
<1> HIDE DEF expect
<1> QED BY <1>2, <1>5, <1>6, <1>7, ChangeKeeps

-----------------------------------------------------------------------------
(* The commands that only read *)

(* What an answer that nothing was done may carry *)
Refusals == Statuses \ {"SUCCESS", "COMPARE_FAILURE"}

LEMMA RefusalIs ==
  ASSUME NEW nsid, NEW slba, NEW nlb
  PROVE  /\ Refusal(nsid, slba, nlb) # "NONE" => Refusal(nsid, slba, nlb) \in Refusals
         /\ Refusal(nsid, slba, nlb) = "NONE" => nsid \in Slots /\ ns[nsid].Active /\ LbaRangeValid(slba, nlb)
  BY DEF Refusal, Refusals, Statuses

(* The whole invariant *)
IoInv == DataInv /\ (Counted => ReadDelivers /\ CompareTells)

LEMMA RefusedKeeps ==
  ASSUME DataInv, NEW op, NEW status \in Refusals, Answer(op, status)
  PROVE  IoInv'
<1>1. DataInv'
  BY AnswerKeeps DEF Refusals
<1>2. last'.status = status /\ status # "SUCCESS" /\ status # "COMPARE_FAILURE"
  BY DEF Answer, Refusals
<1> QED BY <1>1, <1>2 DEF IoInv, ReadDelivers, CompareTells

LEMMA OtherKeeps ==
  ASSUME DataInv', last'.op \notin {"read", "compare"}
  PROVE  IoInv'
  BY DEF IoInv, ReadDelivers, CompareTells

LEMMA StoreTyped ==
  ASSUME DataInv, NEW n \in Slots
  PROVE  ns[n].kind \in AllKinds /\ data[n] \in Stores /\ belief[n] \in [Bytes -> SUBSET Values]
  BY TypeParts DEF DataInv

(* What a Read that succeeds reports *)
Delivered(nsid, slba, raw, buf, bad, to, store) ==
  [op |-> "read", status |-> "SUCCESS", nsid |-> nsid, slba |-> slba, raw |-> raw, buf |-> buf,
   mapped |-> bad = {}, host |-> {<<to[k], store[k]>> : k \in DOMAIN to}]

ReadDone(nsid, slba, raw, buf, length, prps) ==
  /\ Refusal(nsid, slba, Nlb(raw)) = "NONE" /\ prps.ok
  /\ UNCHANGED <<ns, data, belief, changes>>
  /\ \E bad, r :
       /\ \/ r = Done(Part(data[nsid], ByteOffset(slba), length))
          \/ r \in VnvmeStorageRead(ns[nsid].kind, data[nsid], ByteOffset(slba), length)
       /\ r.ok
       /\ last' = Delivered(nsid, slba, raw, buf, bad, CopyMap(prps.entries, bad, length), r.store)

LEMMA ReadCases ==
  ASSUME NEW nsid, NEW slba, NEW raw, NEW buf, HandleRead(nsid, slba, raw, buf),
         NEW length, length = Nlb(raw) * BlockSize
  PROVE  \/ \E status \in Refusals : Answer("read", status)
         \/ \E prps \in Parse(buf, length) : ReadDone(nsid, slba, raw, buf, length, prps)
<1>1. CASE Refusal(nsid, slba, Nlb(raw)) # "NONE"
  BY <1>1, RefusalIs DEF HandleRead
<1>2. CASE Refusal(nsid, slba, Nlb(raw)) = "NONE"
  <2>1. "INTERNAL_ERROR" \in Refusals /\ "INVALID_FIELD" \in Refusals /\ "UNRECOVERED_READ_ERROR" \in Refusals
    BY DEF Refusals, Statuses
  <2> DEFINE direct == VnvmeStorageGetDirect(ns[nsid].kind, ByteOffset(slba), length)
  <2>2. \/ Answer("read", "INVALID_FIELD")
        \/ Answer("read", "INTERNAL_ERROR")
        \/ \E prps \in Parse(buf, length) :
           \E r \in IF direct THEN {Done(Part(data[nsid], ByteOffset(slba), length))}
                    ELSE VnvmeStorageRead(ns[nsid].kind, data[nsid], ByteOffset(slba), length) :
             IF ~ r.ok THEN Answer("read", "UNRECOVERED_READ_ERROR")
             ELSE IF ~ prps.ok THEN Answer("read", "INTERNAL_ERROR")
             ELSE \E bad \in MapFaults(prps.entries) :
                    /\ last' = Delivered(nsid, slba, raw, buf, bad, CopyMap(prps.entries, bad, length), r.store)
                    /\ UNCHANGED <<ns, data, belief, changes>>
    BY <1>2 DEF HandleRead, Delivered
  <2> HIDE DEF direct
  <2>3. CASE ~ \E status \in Refusals : Answer("read", status)
    <3>1. PICK prps \in Parse(buf, length) :
           \E r \in IF direct THEN {Done(Part(data[nsid], ByteOffset(slba), length))}
                    ELSE VnvmeStorageRead(ns[nsid].kind, data[nsid], ByteOffset(slba), length) :
             IF ~ r.ok THEN Answer("read", "UNRECOVERED_READ_ERROR")
             ELSE IF ~ prps.ok THEN Answer("read", "INTERNAL_ERROR")
             ELSE \E bad \in MapFaults(prps.entries) :
                    /\ last' = Delivered(nsid, slba, raw, buf, bad, CopyMap(prps.entries, bad, length), r.store)
                    /\ UNCHANGED <<ns, data, belief, changes>>
      BY <2>1, <2>2, <2>3, Zenon
    <3>2. PICK r \in IF direct THEN {Done(Part(data[nsid], ByteOffset(slba), length))}
                    ELSE VnvmeStorageRead(ns[nsid].kind, data[nsid], ByteOffset(slba), length) :
             IF ~ r.ok THEN Answer("read", "UNRECOVERED_READ_ERROR")
             ELSE IF ~ prps.ok THEN Answer("read", "INTERNAL_ERROR")
             ELSE \E bad \in MapFaults(prps.entries) :
                    /\ last' = Delivered(nsid, slba, raw, buf, bad, CopyMap(prps.entries, bad, length), r.store)
                    /\ UNCHANGED <<ns, data, belief, changes>>
      BY <3>1, Zenon
    <3>3. r.ok /\ prps.ok
      BY <2>1, <2>3, <3>2, Zenon
    <3>4. PICK bad :
            /\ last' = Delivered(nsid, slba, raw, buf, bad, CopyMap(prps.entries, bad, length), r.store)
            /\ UNCHANGED <<ns, data, belief, changes>>
      BY <3>2, <3>3, Zenon
    <3>5. \/ r = Done(Part(data[nsid], ByteOffset(slba), length))
          \/ r \in VnvmeStorageRead(ns[nsid].kind, data[nsid], ByteOffset(slba), length)
      BY <3>2, Zenon
    <3>6. ReadDone(nsid, slba, raw, buf, length, prps)
      BY <1>2, <3>3, <3>4, <3>5, Zenon DEF ReadDone
    <3> QED BY <3>6
  <2> QED BY <2>3
<1> QED BY <1>1, <1>2

LEMMA ReadKeeps ==
  ASSUME Unwrapped, DataInv, NEW nsid, NEW slba \in Slbas, NEW raw \in RawNlbs, NEW buf \in Buffers,
         HandleRead(nsid, slba, raw, buf)
  PROVE  IoInv'
<1>1. CASE \E status \in Refusals : Answer("read", status)
  BY <1>1, RefusedKeeps
<1>2. CASE ~ \E status \in Refusals : Answer("read", status)
  <2>1. PICK length : length = Nlb(raw) * BlockSize
    OBVIOUS
  <2>2. PICK prps \in Parse(buf, length) : ReadDone(nsid, slba, raw, buf, length, prps)
    BY <1>2, <2>1, ReadCases
  <2>3. Refusal(nsid, slba, Nlb(raw)) = "NONE" /\ prps.ok /\ UNCHANGED <<ns, data, belief, changes>>
    BY <2>2, Zenon DEF ReadDone
  <2>4. PICK bad, r :
             /\ \/ r = Done(Part(data[nsid], ByteOffset(slba), length))
                \/ r \in VnvmeStorageRead(ns[nsid].kind, data[nsid], ByteOffset(slba), length)
             /\ r.ok
             /\ last' = Delivered(nsid, slba, raw, buf, bad, CopyMap(prps.entries, bad, length), r.store)
    BY <2>2, Zenon DEF ReadDone
  <2>5. nsid \in Slots /\ ns[nsid].Active /\ LbaRangeValid(slba, Nlb(raw))
    BY <2>3, RefusalIs
  <2>6. PICK offset, size : Located(slba, raw, offset, size)
    BY <2>5, CommandLocated
  <2>7. size = length /\ length \in Nat /\ offset \in Nat /\ offset + length <= TotalBytes /\ ByteOffset(slba) = offset
        /\ offset = slba * BlockSize /\ (Counted => Asked(raw) = 0 .. length - 1)
        /\ (Counted => Followed(raw, buf) = InOnePage(buf, length))
    BY <2>1, <2>6, NlbIs DEF Located, Followed
  <2>8. PICK store, kind : store = data[nsid] /\ kind = ns[nsid].kind
    OBVIOUS
  <2>9. store \in Stores /\ kind \in AllKinds
    BY <2>5, <2>8, StoreTyped
  <2>10. r.store = Part(store, offset, length)
    <3>1. r = Done(Part(store, offset, length))
      BY <2>4, <2>7, <2>8, <2>9, ReadIs
    <3> QED BY <3>1, ResultFields
  <2>11. PICK got : got = r.store
    OBVIOUS
  <2>12. got = [k \in 0 .. length - 1 |-> store[offset + k]] /\ \A k \in 0 .. length - 1 : offset + k \in Bytes
    BY <2>7, <2>9, <2>10, <2>11, PartIs
  <2>13. PICK to : to = CopyMap(prps.entries, bad, length)
    OBVIOUS
  <2>14. Sound(bad, buf, length) => to = [k \in 0 .. length - 1 |-> HostByte(buf, k)]
    <3>1. TakenFrom(to, bad, buf, length)
      BY <2>1, <2>3, <2>7, <2>13, CopyIs, Zenon
    <3> QED BY <3>1, Zenon DEF TakenFrom
  <2>15. last' = Delivered(nsid, slba, raw, buf, bad, to, got)
    BY <2>4, <2>11, <2>13
  <2>16. /\ last'.op = "read" /\ last'.status = "SUCCESS" /\ last'.nsid = nsid /\ last'.slba = slba /\ last'.raw = raw
         /\ last'.buf = buf /\ last'.mapped = (bad = {}) /\ last'.host = {<<to[k], got[k]>> : k \in DOMAIN to}
    BY <2>15 DEF Delivered
  <2>17. DataInv'
    BY <2>3, <2>16, LastKeeps DEF Statuses
  <2>18. ASSUME Counted PROVE ReadDelivers'
    <3>1. SUFFICES ASSUME bad = {}, InOnePage(buf, length)
                   PROVE  /\ \A k \in Asked(raw) :
                               \E v \in belief[nsid][offset + k] : <<HostByte(buf, k), v>> \in last'.host
                          /\ \A w \in last'.host : \E k \in Asked(raw) : w[1] = HostByte(buf, k)
      BY <2>3, <2>7, <2>16, <2>18 DEF ReadDelivers
    <3>2. last'.host = {<<HostByte(buf, k), store[offset + k]>> : k \in 0 .. length - 1}
      <4>1. to = [k \in 0 .. length - 1 |-> HostByte(buf, k)]
        BY <2>14, <3>1 DEF Sound
      <4>2. DOMAIN to = 0 .. length - 1 /\ \A k \in 0 .. length - 1 : to[k] = HostByte(buf, k)
        BY <4>1
      <4>3. \A k \in 0 .. length - 1 : got[k] = store[offset + k]
        BY <2>12
      <4> QED BY <2>16, <4>2, <4>3
    <3>3. ASSUME NEW k \in 0 .. length - 1 PROVE store[offset + k] \in belief[nsid][offset + k]
      BY <2>5, <2>8, <2>12, <2>18 DEF DataInv, StoreIsAsTold
    <3>4. Asked(raw) = 0 .. length - 1
      BY <2>7, <2>18
    <3>5. \A k \in Asked(raw) : \E v \in belief[nsid][offset + k] : <<HostByte(buf, k), v>> \in last'.host
      BY <3>2, <3>3, <3>4
    <3>6. \A w \in last'.host : \E k \in Asked(raw) : w[1] = HostByte(buf, k)
      BY <3>2, <3>4
    <3> QED BY <3>5, <3>6
  <2> QED BY <2>16, <2>17, <2>18 DEF IoInv, CompareTells
<1> QED BY <1>1, <1>2

(* What a Compare that was carried out reports *)
Compared(nsid, slba, raw, buf, bad, same) ==
  [op |-> "compare", nsid |-> nsid, slba |-> slba, raw |-> raw, buf |-> buf, mapped |-> bad = {},
   status |-> IF same THEN "SUCCESS" ELSE "COMPARE_FAILURE"]

CompareDone(nsid, slba, raw, buf, length, prps) ==
  /\ Refusal(nsid, slba, Nlb(raw)) = "NONE" /\ prps.ok
  /\ UNCHANGED <<ns, data, belief, changes>>
  /\ \E bad, r :
       /\ r \in VnvmeStorageRead(ns[nsid].kind, data[nsid], ByteOffset(slba), length)
       /\ r.ok
       /\ last' = Compared(nsid, slba, raw, buf, bad,
                           r.store = FillBuffer(CopyMap(prps.entries, bad, length), length))

LEMMA CompareCases ==
  ASSUME NEW nsid, NEW slba, NEW raw, NEW buf, HandleCompare(nsid, slba, raw, buf),
         NEW length, length = Nlb(raw) * BlockSize
  PROVE  \/ \E status \in Refusals : Answer("compare", status)
         \/ \E prps \in Parse(buf, length) : CompareDone(nsid, slba, raw, buf, length, prps)
<1>1. CASE Refusal(nsid, slba, Nlb(raw)) # "NONE"
  BY <1>1, RefusalIs DEF HandleCompare
<1>2. CASE Refusal(nsid, slba, Nlb(raw)) = "NONE"
  <2>1. "INTERNAL_ERROR" \in Refusals /\ "INVALID_FIELD" \in Refusals /\ "UNRECOVERED_READ_ERROR" \in Refusals
    BY DEF Refusals, Statuses
  <2>2. \/ Answer("compare", "INVALID_FIELD")
        \/ Answer("compare", "INTERNAL_ERROR")
        \/ \E prps \in Parse(buf, length) :
           /\ prps.ok
           /\ \E bad \in MapFaults(prps.entries),
                 r \in VnvmeStorageRead(ns[nsid].kind, data[nsid], ByteOffset(slba), length) :
                IF ~ r.ok THEN Answer("compare", "UNRECOVERED_READ_ERROR")
                ELSE /\ last' = Compared(nsid, slba, raw, buf, bad,
                                         r.store = FillBuffer(CopyMap(prps.entries, bad, length), length))
                     /\ UNCHANGED <<ns, data, belief, changes>>
    BY <1>2 DEF HandleCompare, Compared
  <2>3. CASE ~ \E status \in Refusals : Answer("compare", status)
    <3>1. PICK prps \in Parse(buf, length) :
           /\ prps.ok
           /\ \E bad \in MapFaults(prps.entries),
                 r \in VnvmeStorageRead(ns[nsid].kind, data[nsid], ByteOffset(slba), length) :
                IF ~ r.ok THEN Answer("compare", "UNRECOVERED_READ_ERROR")
                ELSE /\ last' = Compared(nsid, slba, raw, buf, bad,
                                         r.store = FillBuffer(CopyMap(prps.entries, bad, length), length))
                     /\ UNCHANGED <<ns, data, belief, changes>>
      BY <2>1, <2>2, <2>3, Zenon
    <3>2. PICK bad, r :
            /\ r \in VnvmeStorageRead(ns[nsid].kind, data[nsid], ByteOffset(slba), length)
            /\ r.ok
            /\ last' = Compared(nsid, slba, raw, buf, bad,
                                r.store = FillBuffer(CopyMap(prps.entries, bad, length), length))
            /\ UNCHANGED <<ns, data, belief, changes>>
      BY <2>1, <2>3, <3>1, Zenon
    <3> QED BY <1>2, <3>1, <3>2, Zenon DEF CompareDone
  <2> QED BY <2>3
<1> QED BY <1>1, <1>2

LEMMA CompareKeeps ==
  ASSUME Unwrapped, DataInv, NEW nsid, NEW slba \in Slbas, NEW raw \in RawNlbs, NEW buf \in Buffers,
         HandleCompare(nsid, slba, raw, buf)
  PROVE  IoInv'
<1>1. CASE \E status \in Refusals : Answer("compare", status)
  BY <1>1, RefusedKeeps
<1>2. CASE ~ \E status \in Refusals : Answer("compare", status)
  <2>1. PICK length : length = Nlb(raw) * BlockSize
    OBVIOUS
  <2>2. PICK prps \in Parse(buf, length) : CompareDone(nsid, slba, raw, buf, length, prps)
    BY <1>2, <2>1, CompareCases
  <2>3. Refusal(nsid, slba, Nlb(raw)) = "NONE" /\ prps.ok /\ UNCHANGED <<ns, data, belief, changes>>
    BY <2>2, Zenon DEF CompareDone
  <2>4. PICK bad, r :
             /\ r \in VnvmeStorageRead(ns[nsid].kind, data[nsid], ByteOffset(slba), length)
             /\ r.ok
             /\ last' = Compared(nsid, slba, raw, buf, bad,
                                 r.store = FillBuffer(CopyMap(prps.entries, bad, length), length))
    BY <2>2, Zenon DEF CompareDone
  <2>5. nsid \in Slots /\ ns[nsid].Active /\ LbaRangeValid(slba, Nlb(raw))
    BY <2>3, RefusalIs
  <2>6. PICK offset, size : Located(slba, raw, offset, size)
    BY <2>5, CommandLocated
  <2>7. size = length /\ length \in Nat /\ offset \in Nat /\ offset + length <= TotalBytes /\ ByteOffset(slba) = offset
        /\ offset = slba * BlockSize /\ (Counted => Asked(raw) = 0 .. length - 1)
        /\ (Counted => Followed(raw, buf) = InOnePage(buf, length))
    BY <2>1, <2>6, NlbIs DEF Located, Followed
  <2>8. PICK store, kind : store = data[nsid] /\ kind = ns[nsid].kind
    OBVIOUS
  <2>9. store \in Stores /\ kind \in AllKinds
    BY <2>5, <2>8, StoreTyped
  <2>10. r.store = Part(store, offset, length)
    <3>1. r = Done(Part(store, offset, length))
      BY <2>4, <2>7, <2>8, <2>9, ReadIs
    <3> QED BY <3>1, ResultFields
  <2>11. PICK got, copy, buffer :
           got = r.store /\ copy = CopyMap(prps.entries, bad, length) /\ buffer = FillBuffer(copy, length)
    OBVIOUS
  <2>12. got = [k \in 0 .. length - 1 |-> store[offset + k]]
    BY <2>7, <2>9, <2>10, <2>11, PartIs
  <2>13. Sound(bad, buf, length) => copy = [k \in 0 .. length - 1 |-> HostByte(buf, k)]
    <3>1. TakenFrom(copy, bad, buf, length)
      BY <2>1, <2>3, <2>7, <2>11, CopyIs, Zenon
    <3> QED BY <3>1, Zenon DEF TakenFrom
  <2>14. last' = Compared(nsid, slba, raw, buf, bad, got = buffer)
    BY <2>4, <2>11, Zenon
  <2>15. /\ last'.op = "compare" /\ last'.nsid = nsid /\ last'.slba = slba /\ last'.raw = raw
         /\ last'.buf = buf /\ last'.mapped = (bad = {})
         /\ last'.status = IF got = buffer THEN "SUCCESS" ELSE "COMPARE_FAILURE"
    BY <2>14 DEF Compared
  <2>16. DataInv'
    BY <2>3, <2>15, LastKeeps DEF Statuses
  <2>17. ASSUME Counted PROVE CompareTells'
    <3>1. SUFFICES ASSUME bad = {}, InOnePage(buf, length)
                   PROVE  (got = buffer) <=> \A k \in Asked(raw) : store[offset + k] = HostByte(buf, k)
      BY <2>3, <2>7, <2>8, <2>15, <2>17 DEF CompareTells
    <3>2. buffer = [k \in 0 .. length - 1 |-> HostByte(buf, k)]
      BY <2>11, <2>13, <3>1 DEF FillBuffer, Sound
    <3>3. (got = buffer) <=> \A k \in 0 .. length - 1 : store[offset + k] = HostByte(buf, k)
      BY <2>12, <3>2
    <3> QED BY <2>7, <2>17, <3>3
  <2> QED BY <2>15, <2>16, <2>17 DEF IoInv, ReadDelivers
<1> QED BY <1>1, <1>2

-----------------------------------------------------------------------------
(* The commands that write *)

(* What the host may expect of blocks whose Write lost part of the data *)
Unknown(nsid, slba, raw) ==
  [b \in Bytes |-> IF \E k \in Asked(raw) : b = slba * BlockSize + k THEN Anything ELSE belief[nsid][b]]

(* Where the result of a Write comes from, and what is made of it *)
WriteGives(r, nsid, slba, length, from) ==
  \/ r = Done(Overlay(data[nsid], ByteOffset(slba), from))
  \/ r \in VnvmeStorageWrite(ns[nsid].kind, data[nsid], ByteOffset(slba), FillBuffer(from, length))

WriteTells(r, status, nsid, slba, raw, buf, length, bad) ==
  /\ status = IF r.ok THEN "SUCCESS" ELSE "WRITE_FAULT"
  /\ Change(nsid, r.store)
  /\ last' = [op |-> "write", status |-> status]
  /\ Sound(bad, buf, length) => Conclude(nsid, slba, [k \in Asked(raw) |-> HostByte(buf, k)], status)
  /\ ~ Sound(bad, buf, length) => belief' = [belief EXCEPT ![nsid] = Unknown(nsid, slba, raw)]

WriteDone(nsid, slba, raw, buf, length, prps) ==
  /\ Refusal(nsid, slba, Nlb(raw)) = "NONE" /\ prps.ok
  /\ \E bad, r, status :
       /\ WriteGives(r, nsid, slba, length, CopyMap(prps.entries, bad, length))
       /\ WriteTells(r, status, nsid, slba, raw, buf, length, bad)

LEMMA WriteCases ==
  ASSUME NEW nsid, NEW slba, NEW raw, NEW buf, HandleWrite(nsid, slba, raw, buf),
         NEW length, length = Nlb(raw) * BlockSize
  PROVE  \/ \E status \in Refusals : Answer("write", status)
         \/ \E prps \in Parse(buf, length) : WriteDone(nsid, slba, raw, buf, length, prps)
<1>1. CASE Refusal(nsid, slba, Nlb(raw)) # "NONE"
  BY <1>1, RefusalIs DEF HandleWrite
<1>2. CASE Refusal(nsid, slba, Nlb(raw)) = "NONE"
  <2>1. "INTERNAL_ERROR" \in Refusals /\ "INVALID_FIELD" \in Refusals
    BY DEF Refusals, Statuses
  <2> DEFINE direct == VnvmeStorageGetDirect(ns[nsid].kind, ByteOffset(slba), length)
  <2> DEFINE Given(from) == IF direct THEN {Done(Overlay(data[nsid], ByteOffset(slba), from))}
                            ELSE VnvmeStorageWrite(ns[nsid].kind, data[nsid], ByteOffset(slba), FillBuffer(from, length))
  <2> DEFINE Tells(r, bad, status) ==
        /\ Change(nsid, r.store)
        /\ last' = [op |-> "write", status |-> status]
        /\ IF bad = {} /\ InOnePage(buf, length)
           THEN Conclude(nsid, slba, [k \in Asked(raw) |-> HostByte(buf, k)], status)
           ELSE belief' = [belief EXCEPT ![nsid] =
                  [b \in Bytes |-> IF \E k \in Asked(raw) : b = slba * BlockSize + k
                                   THEN Anything ELSE belief[nsid][b]]]
  <2>2. \/ Answer("write", "INVALID_FIELD")
        \/ Answer("write", "INTERNAL_ERROR")
        \/ \E prps \in Parse(buf, length) :
             IF ~ prps.ok THEN Answer("write", "INTERNAL_ERROR")
             ELSE \E bad \in MapFaults(prps.entries) : \E r \in Given(CopyMap(prps.entries, bad, length)) :
                    Tells(r, bad, IF r.ok THEN "SUCCESS" ELSE "WRITE_FAULT")
    BY <1>2, ZenonT(60) DEF HandleWrite
  <2>3. ASSUME NEW r, NEW bad, NEW status, status = IF r.ok THEN "SUCCESS" ELSE "WRITE_FAULT", Tells(r, bad, status)
        PROVE  WriteTells(r, status, nsid, slba, raw, buf, length, bad)
    BY <2>3, Zenon DEF WriteTells, Sound, Unknown
  <2>4. ASSUME NEW from, NEW r \in Given(from)
        PROVE  WriteGives(r, nsid, slba, length, from)
    BY DEF WriteGives
  <2> HIDE DEF Given, Tells
  <2>5. CASE ~ \E status \in Refusals : Answer("write", status)
    <3>1. PICK prps \in Parse(buf, length) :
             IF ~ prps.ok THEN Answer("write", "INTERNAL_ERROR")
             ELSE \E bad \in MapFaults(prps.entries) : \E r \in Given(CopyMap(prps.entries, bad, length)) :
                    Tells(r, bad, IF r.ok THEN "SUCCESS" ELSE "WRITE_FAULT")
      BY <2>1, <2>2, <2>5, Zenon
    <3>2. prps.ok
      BY <2>1, <2>5, <3>1, Zenon
    <3>3. PICK bad \in MapFaults(prps.entries) : \E r \in Given(CopyMap(prps.entries, bad, length)) :
             Tells(r, bad, IF r.ok THEN "SUCCESS" ELSE "WRITE_FAULT")
      BY <3>1, <3>2, Zenon
    <3>4. PICK r \in Given(CopyMap(prps.entries, bad, length)) :
             Tells(r, bad, IF r.ok THEN "SUCCESS" ELSE "WRITE_FAULT")
      BY <3>3, Zenon
    <3>5. PICK status : status = IF r.ok THEN "SUCCESS" ELSE "WRITE_FAULT"
      OBVIOUS
    <3>6. WriteTells(r, status, nsid, slba, raw, buf, length, bad)
      BY <2>3, <3>4, <3>5, Zenon
    <3>7. WriteGives(r, nsid, slba, length, CopyMap(prps.entries, bad, length))
      BY <2>4, <3>4, Zenon
    <3>8. WriteDone(nsid, slba, raw, buf, length, prps)
      BY <1>2, <3>2, <3>6, <3>7, Zenon DEF WriteDone
    <3> QED BY <3>8
  <2> QED BY <2>5
<1> QED BY <1>1, <1>2

(* The outcome of a Write in the store *)
WrittenAs(r, store, offset, length, buf, bad) ==
  \E new : /\ DOMAIN new \subseteq 0 .. length - 1
           /\ Outcome(r, store, offset, new)
           /\ Sound(bad, buf, length) => new = [k \in 0 .. length - 1 |-> HostByte(buf, k)]

LEMMA WrittenIs ==
  ASSUME NEW kind \in AllKinds, NEW store \in Stores, NEW offset \in Nat, NEW length \in Nat,
         offset + length <= TotalBytes, NEW buf, NEW bad, NEW from, TakenFrom(from, bad, buf, length),
         NEW r, \/ r = Done(Overlay(store, offset, from))
                \/ r \in VnvmeStorageWrite(kind, store, offset, FillBuffer(from, length))
  PROVE  WrittenAs(r, store, offset, length, buf, bad)
<1>1. PICK m \in 0 .. length : from \in [0 .. m - 1 -> Stored]
  BY Zenon DEF TakenFrom
<1>2. Sound(bad, buf, length) => from = [k \in 0 .. length - 1 |-> HostByte(buf, k)]
  BY Zenon DEF TakenFrom
<1>3. CASE r = Done(Overlay(store, offset, from))
  <2>1. 0 .. m - 1 \in SUBSET (0 .. length - 1)
    BY <1>1
  <2>2. r \in ZwWriteFile(store, offset, from)
    BY <1>3 DEF ZwWriteFile
  <2>3. Outcome(r, store, offset, from)
    BY <1>1, <2>1, <2>2, WrittenOutcome
  <2>4. DOMAIN from \subseteq 0 .. length - 1
    BY <1>1, <2>1
  <2> QED BY <1>2, <2>3, <2>4, Zenon DEF WrittenAs
<1>4. CASE r \in VnvmeStorageWrite(kind, store, offset, FillBuffer(from, length))
  <2>1. PICK buffer : buffer = FillBuffer(from, length)
    OBVIOUS
  <2>2. buffer \in [0 .. length - 1 -> Stored]
    BY <1>1, <2>1, FillBufferIs
  <2>3. PICK E : E = 0 .. length - 1
    OBVIOUS
  <2>4. E \in SUBSET (0 .. length - 1) /\ buffer \in [E -> Stored]
    BY <2>2, <2>3
  <2>5. r \in VnvmeStorageWrite(kind, store, offset, buffer)
    BY <1>4, <2>1
  <2>6. Outcome(r, store, offset, buffer)
    BY <2>4, <2>5, WriteOutcome
  <2>7. Sound(bad, buf, length) => buffer = [k \in 0 .. length - 1 |-> HostByte(buf, k)]
    BY <1>2, <2>1 DEF FillBuffer
  <2>8. DOMAIN buffer \subseteq 0 .. length - 1
    BY <2>2
  <2> QED BY <2>6, <2>7, <2>8, Zenon DEF WrittenAs
<1> QED BY <1>3, <1>4

LEMMA WriteKeeps ==
  ASSUME Unwrapped, DataInv, NEW nsid, NEW slba \in Slbas, NEW raw \in RawNlbs, NEW buf \in Buffers,
         HandleWrite(nsid, slba, raw, buf)
  PROVE  IoInv'
<1>1. CASE \E status \in Refusals : Answer("write", status)
  BY <1>1, RefusedKeeps
<1>2. CASE ~ \E status \in Refusals : Answer("write", status)
  <2>1. PICK length : length = Nlb(raw) * BlockSize
    OBVIOUS
  <2>2. PICK prps \in Parse(buf, length) : WriteDone(nsid, slba, raw, buf, length, prps)
    BY <1>2, <2>1, WriteCases
  <2>3. Refusal(nsid, slba, Nlb(raw)) = "NONE" /\ prps.ok
    BY <2>2, Zenon DEF WriteDone
  <2> DEFINE asked == [k \in Asked(raw) |-> HostByte(buf, k)]
  <2>4. PICK bad, r, from, status :
       /\ from = CopyMap(prps.entries, bad, length)
       /\ WriteGives(r, nsid, slba, length, from)
       /\ WriteTells(r, status, nsid, slba, raw, buf, length, bad)
    BY <2>2, Zenon DEF WriteDone
  <2>15. /\ status = IF r.ok THEN "SUCCESS" ELSE "WRITE_FAULT"
         /\ Change(nsid, r.store)
         /\ last' = [op |-> "write", status |-> status]
         /\ Sound(bad, buf, length) => Conclude(nsid, slba, asked, status)
         /\ ~ Sound(bad, buf, length) => belief' = [belief EXCEPT ![nsid] = Unknown(nsid, slba, raw)]
    BY <2>4, Zenon DEF WriteTells
  <2>5. nsid \in Slots /\ ns[nsid].Active /\ LbaRangeValid(slba, Nlb(raw))
    BY <2>3, RefusalIs
  <2>6. PICK offset, size : Located(slba, raw, offset, size)
    BY <2>5, CommandLocated
  <2>7. size = length /\ length \in Nat /\ offset \in Nat /\ offset + length <= TotalBytes /\ ByteOffset(slba) = offset
        /\ offset = slba * BlockSize /\ (Counted => Asked(raw) = 0 .. length - 1) /\ 0 .. length - 1 \subseteq Asked(raw)
    BY <2>1, <2>6 DEF Located
  <2>8. PICK store, kind : store = data[nsid] /\ kind = ns[nsid].kind
    OBVIOUS
  <2>9. store \in Stores /\ kind \in AllKinds /\ belief[nsid] \in [Bytes -> SUBSET Values]
    BY <2>5, <2>8, StoreTyped
  <2>10. TakenFrom(from, bad, buf, length)
    BY <2>1, <2>3, <2>4, <2>7, CopyIs, Zenon
  <2>11. PICK new : /\ DOMAIN new \subseteq 0 .. length - 1
                    /\ Outcome(r, store, offset, new)
                    /\ Sound(bad, buf, length) => new = [k \in 0 .. length - 1 |-> HostByte(buf, k)]
    <3>1. \/ r = Done(Overlay(store, offset, from))
          \/ r \in VnvmeStorageWrite(kind, store, offset, FillBuffer(from, length))
      BY <2>4, <2>7, <2>8, Zenon DEF WriteGives
    <3>2. offset \in Nat /\ length \in Nat /\ offset + length <= TotalBytes
      BY <2>7
    <3>3. WrittenAs(r, store, offset, length, buf, bad)
      BY <2>9, <2>10, <3>1, <3>2, WrittenIs, Zenon
    <3> QED BY <3>3, Zenon DEF WrittenAs
  <2>12. status \in Statuses /\ (status = "SUCCESS" <=> r.ok) /\ last'.status = status /\ last'.op = "write"
    BY <2>15 DEF Statuses
  <2>13. CASE Sound(bad, buf, length)
    <3>1. DOMAIN asked = Asked(raw) /\ (Counted => new = asked)
      BY <2>7, <2>11, <2>13
    <3>2. \A k \in 0 .. TotalBytes - 1 : k \in Asked(raw) => asked[k] \in Values
      BY AskedIs, AnythingIs
    <3>3. Conclude(nsid, slba, asked, status) /\ Change(nsid, r.store)
      BY <2>15, <2>13
    <3> HIDE DEF asked
    <3>4. DataInv'
      BY <2>5, <2>6, <2>8, <2>11, <2>12, <3>1, <3>2, <3>3, ConcludeKeeps
    <3> QED BY <2>12, <3>4, OtherKeeps
  <2>14. CASE ~ Sound(bad, buf, length)
    <3>1. PICK expect : expect = Unknown(nsid, slba, raw)
      OBVIOUS
    <3>2. belief' = [belief EXCEPT ![nsid] = expect] /\ Change(nsid, r.store)
      BY <2>15, <2>14, <3>1
    <3>3. \A b \in Bytes : expect[b] = IF \E k \in Asked(raw) : b = offset + k THEN Anything ELSE belief[nsid][b]
      BY <2>7, <3>1 DEF Unknown
    <3>4. expect \in [Bytes -> SUBSET Values]
      BY <2>9, <3>1, AnythingIs DEF Unknown
    <3>5. r.store \in Stores
      BY <2>11 DEF Outcome
    <3>6. ASSUME Counted, NEW b \in Bytes PROVE r.store[b] \in expect[b]
      <4>1. CASE \E k \in Asked(raw) : b = offset + k
        BY <3>3, <3>5, <4>1, AnythingIs DEF Stores
      <4>2. CASE ~ \E k \in Asked(raw) : b = offset + k
        <5>1. r.store[b] = store[b] \/ (b >= offset /\ b - offset \in DOMAIN new)
          BY <2>11 DEF Outcome, PartOf
        <5>2. ASSUME b - offset \in DOMAIN new PROVE FALSE
          <6>1. b - offset \in Asked(raw) /\ b = offset + (b - offset)
            BY <2>7, <2>11, <5>2, Numbers
          <6> QED BY <4>2, <6>1
        <5>3. store[b] \in belief[nsid][b]
          BY <2>5, <2>8, <3>6 DEF DataInv, StoreIsAsTold
        <5> QED BY <3>3, <4>2, <5>1, <5>2, <5>3
      <4> QED BY <4>1, <4>2
    <3>7. DataInv'
      BY <2>5, <2>12, <3>2, <3>4, <3>5, <3>6, ChangeKeeps
    <3> QED BY <2>12, <3>7, OtherKeeps
  <2> QED BY <2>13, <2>14
<1> QED BY <1>1, <1>2

LEMMA WriteZeroesKeeps ==
  ASSUME Unwrapped, DataInv, NEW nsid, NEW slba \in Slbas, NEW raw \in RawNlbs,
         HandleWriteZeroes(nsid, slba, raw)
  PROVE  IoInv'
<1>1. CASE Refusal(nsid, slba, Nlb(raw)) # "NONE"
  <2>1. Answer("zeroes", Refusal(nsid, slba, Nlb(raw)))
    BY <1>1, Zenon DEF HandleWriteZeroes
  <2> QED BY <1>1, <2>1, RefusalIs, RefusedKeeps
<1>2. CASE Refusal(nsid, slba, Nlb(raw)) = "NONE"
  <2>1. nsid \in Slots /\ ns[nsid].Active /\ LbaRangeValid(slba, Nlb(raw))
    BY <1>2, RefusalIs
  <2>2. PICK offset, length : Located(slba, raw, offset, length)
    BY <2>1, CommandLocated
  <2>3. length \in Nat /\ offset \in Nat /\ offset + length <= TotalBytes /\ ByteOffset(slba) = offset
        /\ length = Nlb(raw) * BlockSize /\ (Counted => Asked(raw) = 0 .. length - 1)
    BY <2>2 DEF Located
  <2>4. PICK store, kind : store = data[nsid] /\ kind = ns[nsid].kind
    OBVIOUS
  <2>5. store \in Stores /\ kind \in AllKinds
    BY <2>1, <2>4, StoreTyped
  <2> DEFINE asked == [k \in Asked(raw) |-> 0]
  <2>6. PICK r, status :
          /\ r \in ZeroRange(kind, store, offset, length)
          /\ status = IF r.ok THEN "SUCCESS" ELSE "WRITE_FAULT"
          /\ Change(nsid, r.store)
          /\ last' = [op |-> "zeroes", status |-> status]
          /\ Conclude(nsid, slba, asked, status)
    <3>1. PICK r \in ZeroRange(ns[nsid].kind, data[nsid], ByteOffset(slba), Nlb(raw) * BlockSize) :
            LET status == IF r.ok THEN "SUCCESS" ELSE "WRITE_FAULT" IN
            /\ Change(nsid, r.store)
            /\ last' = [op |-> "zeroes", status |-> status]
            /\ Conclude(nsid, slba, asked, status)
      BY <1>2, Zenon DEF HandleWriteZeroes
    <3> QED BY <2>3, <2>4, <3>1, Zenon
  <2>7. Outcome(r, store, offset, Zeroes(length))
    BY <2>3, <2>5, <2>6, ZeroRangeOutcome
  <2>8. status \in Statuses /\ (status = "SUCCESS" <=> r.ok) /\ last'.status = status /\ last'.op = "zeroes"
    BY <2>6 DEF Statuses
  <2>9. DOMAIN asked = Asked(raw) /\ (Counted => Zeroes(length) = asked)
    BY <2>3 DEF Zeroes
  <2>10. \A k \in 0 .. TotalBytes - 1 : k \in Asked(raw) => asked[k] \in Values
    BY DEF Values, Anything
  <2>11. Change(nsid, r.store) /\ Conclude(nsid, slba, asked, status)
    BY <2>6
  <2> HIDE DEF asked
  <2>12. PICK new : new = Zeroes(length)
    OBVIOUS
  <2>13. DataInv'
    BY <2>1, <2>2, <2>4, <2>7, <2>8, <2>9, <2>10, <2>11, <2>12, ConcludeKeeps
  <2> QED BY <2>8, <2>13, OtherKeeps
<1> QED BY <1>1, <1>2

-----------------------------------------------------------------------------
(* Dataset Management *)

NamedBy(ranges, b) ==
  \E i \in 1 .. Len(ranges) : b \div BlockSize \in ranges[i].slba .. ranges[i].slba + ranges[i].nlb - 1

(* What trimming may leave of a store: named blocks may be zero. *)
Trimmed(store, ranges) ==
  {s \in Stores : \A b \in Bytes : s[b] = store[b] \/ (s[b] = 0 /\ NamedBy(ranges, b))}

LEMMA BlockOfByte ==
  ASSUME NEW slba \in Nat, NEW nlb \in Nat, NEW b \in Nat,
         slba * BlockSize <= b, b < slba * BlockSize + nlb * BlockSize
  PROVE  b \div BlockSize \in slba .. slba + nlb - 1
<1>1. PICK q, p : q = b \div BlockSize /\ p = Place(b, BlockSize)
  OBVIOUS
<1>2. q \in Nat /\ p \in Nat /\ p < BlockSize /\ b = Laps(q, BlockSize) + p
  <2>1. BlockSize \in Nat \ {0}
    BY Numbers
  <2>2. p \in 0 .. BlockSize - 1 /\ q \in Nat /\ b = Laps(q, BlockSize) + p
    BY <1>1, <2>1, Quotient
  <2> QED BY <2>1, <2>2
<1>3. slba * BlockSize = Laps(slba, BlockSize) /\ nlb * BlockSize = Laps(nlb, BlockSize)
  BY Numbers DEF Laps
<1>4. PICK e : e = slba + nlb
  OBVIOUS
<1>5. e \in Nat /\ Laps(e, BlockSize) = Laps(slba, BlockSize) + Laps(nlb, BlockSize)
      /\ Laps(q, BlockSize) \in Nat /\ Laps(slba, BlockSize) \in Nat /\ Laps(e, BlockSize) \in Nat
  <2>1. e \in Nat /\ BlockSize \in Nat
    BY <1>4, Numbers
  <2>2. Laps(slba + nlb, BlockSize) = Laps(slba, BlockSize) + Laps(nlb, BlockSize) /\ Laps(slba, BlockSize) \in Nat
    BY <2>1, LapsAdd
  <2>3. Laps(q, BlockSize) \in Nat /\ Laps(e, BlockSize) \in Nat
    BY <1>2, <2>1, LapsAdd
  <2> QED BY <1>4, <2>1, <2>2, <2>3
<1>6. Laps(slba, BlockSize) <= b /\ b < Laps(e, BlockSize)
  BY <1>3, <1>5
<1>7. ASSUME q < slba PROVE FALSE
  <2>1. Laps(q, BlockSize) + BlockSize <= Laps(slba, BlockSize)
    BY <1>2, <1>7, LapsGrow, Numbers
  <2> QED BY <1>2, <1>5, <1>6, <2>1, Numbers
<1>8. ASSUME e <= q PROVE FALSE
  <2>1. Laps(e, BlockSize) <= Laps(q, BlockSize)
    BY <1>2, <1>5, <1>8, LapsMonotone, Numbers
  <2> QED BY <1>2, <1>5, <1>6, <2>1, Numbers
<1>9. q >= slba /\ q < e
  BY <1>2, <1>5, <1>7, <1>8
<1> QED BY <1>1, <1>2, <1>4, <1>9

LEMMA CutAtMost ==
  ASSUME NEW z \in Nat, NEW size \in Nat \ {0}
  PROVE  z % size \in Nat /\ z % size <= z
<1>1. PICK q, p : q = z \div size /\ p = Place(z, size)
  OBVIOUS
<1>2. q \in Nat /\ p \in Nat /\ z = Laps(q, size) + p /\ Laps(q, size) \in Nat
  <2>1. q \in Nat /\ p \in 0 .. size - 1 /\ z = Laps(q, size) + p
    BY <1>1, Quotient
  <2>2. Laps(q, size) \in Nat
    BY <2>1, LapsAdd
  <2> QED BY <2>1, <2>2
<1>3. p \in Nat /\ p <= z
  BY <1>2
<1> QED BY <1>1, <1>3 DEF Place

LEMMA TrimRangeIs ==
  ASSUME Unwrapped, NEW kind \in AllKinds, NEW ranges \in Trims, NEW i \in 1 .. Len(ranges),
         NEW store, NEW s \in Trimmed(store, ranges), NEW t \in TrimRange(kind, s, ranges[i])
  PROVE  t \in Trimmed(store, ranges)
<1>1. PICK slba, nlb : slba = ranges[i].slba /\ nlb = ranges[i].nlb
  OBVIOUS
<1>2. slba \in 0 .. Wide - 1 /\ nlb \in 0 .. Long - 1 /\ slba + nlb < Wide
  <2>1. ranges \in Seq([slba : 0 .. Wide - 1, nlb : 0 .. Long - 1])
    BY SizeAssumption
  <2>2. ranges[i] \in [slba : 0 .. Wide - 1, nlb : 0 .. Long - 1]
    <3>1. PICK S : S = [slba : 0 .. Wide - 1, nlb : 0 .. Long - 1]
      OBVIOUS
    <3>2. ranges \in Seq(S)
      BY <2>1, <3>1, Zenon
    <3>3. ranges[i] \in S
      BY <3>2
    <3> QED BY <3>1, <3>3
  <2>3. ranges[i].slba + ranges[i].nlb < Wide
    BY DEF Unwrapped
  <2> QED BY <1>1, <2>2, <2>3
<1>3. slba \in Nat /\ nlb \in Nat /\ Long \in Nat \ {0}
  BY <1>2, SizeAssumption, Numbers
<1>4. CASE nlb = 0 \/ ~ LbaRangeValid(slba, nlb)
  <2>1. t = s
    BY <1>1, <1>4 DEF TrimRange
  <2> QED BY <2>1
<1>5. CASE ~ (nlb = 0 \/ ~ LbaRangeValid(slba, nlb))
  <2>1. PICK z : z = slba + nlb
    OBVIOUS
  <2>2. z \in Nat /\ z < Wide
    BY <1>2, <1>3, <2>1
  <2>3. z % Wide = z
    BY <2>2, Unreduced, Numbers
  <2>4. slba + nlb <= TotalBlocks
    BY <1>5, <2>1, <2>3 DEF LbaRangeValid
  <2>5. PICK offset, whole : offset = slba * BlockSize /\ whole = nlb * BlockSize
    OBVIOUS
  <2>6. offset \in Nat /\ whole \in Nat /\ offset + whole <= TotalBytes /\ ByteOffset(slba) = offset
    BY <1>3, <2>4, <2>5, BlocksFit
  <2>7. PICK length : length = whole % Long
    OBVIOUS
  <2>8. length \in Nat /\ length <= whole
    BY <1>3, <2>6, <2>7, CutAtMost
  <2>9. PICK o \in VnvmeStorageWriteZeroes(kind, s, offset, length) : t = o.store
    BY <1>1, <1>5, <2>5, <2>6, <2>7 DEF TrimRange
  <2>10. s \in Stores /\ offset + length <= TotalBytes
    BY <2>6, <2>8, Numbers DEF Trimmed
  <2>11. Outcome(o, s, offset, Zeroes(length))
    BY <2>6, <2>8, <2>9, <2>10, ZeroesOutcome
  <2>12. t \in Stores
    BY <2>9, <2>11 DEF Outcome
  <2>13. ASSUME NEW b \in Bytes PROVE t[b] = store[b] \/ (t[b] = 0 /\ NamedBy(ranges, b))
    <3>1. \/ t[b] = s[b]
          \/ b >= offset /\ b - offset \in 0 .. length - 1 /\ t[b] = 0
      BY <2>9, <2>11 DEF Outcome, PartOf, Zeroes
    <3>2. CASE t[b] = s[b]
      BY <3>2 DEF Trimmed
    <3>3. CASE b >= offset /\ b - offset \in 0 .. length - 1 /\ t[b] = 0
      <4>1. b \in Nat /\ offset <= b /\ b < offset + whole
        BY <2>6, <2>8, <3>3, Numbers
      <4>2. b \div BlockSize \in slba .. slba + nlb - 1
        BY <1>3, <2>5, <4>1, BlockOfByte
      <4> QED BY <1>1, <3>3, <4>2, Zenon DEF NamedBy
    <3> QED BY <3>1, <3>2, <3>3
  <2> QED BY <2>12, <2>13 DEF Trimmed
<1> QED BY <1>4, <1>5

TrimStep(kind, x, r) == UNION {TrimRange(kind, s, r) : s \in x}
TrimSteps(g, kind, store, ranges) ==
  g = [i \in 0 .. Len(ranges) |-> IF i = 0 THEN {store} ELSE TrimStep(kind, g[i - 1], ranges[i])]

LEMMA TrimStepsExist ==
  ASSUME Unwrapped, NEW kind \in AllKinds, NEW store \in Stores, NEW ranges \in Trims
  PROVE  \E g : TrimSteps(g, kind, store, ranges)
<1> DEFINE n == Len(ranges)
<1> DEFINE S == SUBSET Trimmed(store, ranges)
<1> DEFINE c == {store}
<1>1. n \in Nat
  BY SizeAssumption
<1>2. c \in S
  BY DEF Trimmed
<1> DEFINE step == [x \in S \X (1 .. n) |-> TrimStep(kind, x[1], ranges[x[2]])]
<1>3. \A x \in S, i \in 1 .. n : step[<<x, i>>] = TrimStep(kind, x, ranges[i])
  OBVIOUS
<1>4. ASSUME NEW x \in S, NEW i \in 1 .. n PROVE step[<<x, i>>] \in S
  <2>1. TrimStep(kind, x, ranges[i]) \subseteq Trimmed(store, ranges)
    BY TrimRangeIs DEF TrimStep
  <2> QED BY <1>3, <2>1
<1> HIDE DEF step, S, c
<1>5. PICK g : Iterates(g, c, step, n, S)
  BY <1>1, <1>2, <1>4, IterationExists
<1>6. g = [i \in 0 .. n |-> IF i = 0 THEN c ELSE TrimStep(kind, g[i - 1], ranges[i])]
  <2>1. g \in [0 .. n -> S] /\ g[0] = c
    BY <1>5 DEF Iterates
  <2>2. ASSUME NEW i \in 1 .. n PROVE g[i] = TrimStep(kind, g[i - 1], ranges[i])
    <3>1. i - 1 \in 0 .. n
      BY <1>1
    <3>2. g[i - 1] \in S
      BY <2>1, <3>1
    <3> QED BY <1>3, <1>5, <3>2 DEF Iterates
  <2>3. \A i \in 0 .. n : i # 0 => i \in 1 .. n
    BY <1>1
  <2> QED BY <2>1, <2>2, <2>3
<1> QED BY <1>6 DEF TrimSteps, c

LEMMA TrimStepsAre ==
  ASSUME Unwrapped, NEW kind \in AllKinds, NEW store \in Stores, NEW ranges \in Trims,
         NEW g, TrimSteps(g, kind, store, ranges)
  PROVE  g[Len(ranges)] \subseteq Trimmed(store, ranges)
<1> DEFINE n == Len(ranges)
<1> DEFINE S == SUBSET Trimmed(store, ranges)
<1>1. n \in Nat
  BY SizeAssumption
<1>2. g[0] \in S
  BY <1>1 DEF TrimSteps, Trimmed
<1>3. ASSUME NEW i \in 1 .. n, g[i - 1] \in S PROVE g[i] \in S
  <2>1. i \in 0 .. n /\ i # 0
    OBVIOUS
  <2>2. g[i] = TrimStep(kind, g[i - 1], ranges[i])
    BY <2>1 DEF TrimSteps
  <2>3. PICK x : x = g[i - 1]
    OBVIOUS
  <2>4. \A s \in x : s \in Trimmed(store, ranges)
    BY <1>3, <2>3
  <2>5. TrimStep(kind, x, ranges[i]) \subseteq Trimmed(store, ranges)
    BY <2>4, TrimRangeIs DEF TrimStep
  <2> QED BY <2>2, <2>3, <2>5
<1> HIDE DEF S
<1>4. \A i \in 0 .. n : g[i] \in S
  BY <1>1, <1>2, <1>3, StepsStay
<1> QED BY <1>1, <1>4 DEF S

(* What the host may expect after a Deallocate *)
Expected(nsid, ranges) ==
  [b \in Bytes |-> IF NamedBy(ranges, b) THEN belief[nsid][b] \cup {0} ELSE belief[nsid][b]]

LEMMA TrimCases ==
  ASSUME NEW nsid, NEW deallocate, NEW ranges, HandleDatasetManagement(nsid, deallocate, ranges),
         NEW kind, kind = ns[nsid].kind, NEW store, store = data[nsid],
         \E g : TrimSteps(g, kind, store, ranges)
  PROVE  \/ Answer("trim", Refusal(nsid, 0, 0)) /\ Refusal(nsid, 0, 0) # "NONE"
         \/ Answer("trim", "SUCCESS")
         \/ \E g : /\ TrimSteps(g, kind, store, ranges)
                   /\ \E s \in g[Len(ranges)] : Change(nsid, s)
                   /\ last' = [op |-> "trim", status |-> "SUCCESS"]
                   /\ belief' = [belief EXCEPT ![nsid] = Expected(nsid, ranges)]
<1> DEFINE stores == CHOOSE h : h = [i \in 0 .. Len(ranges) |->
                       IF i = 0 THEN {data[nsid]}
                       ELSE UNION {TrimRange(ns[nsid].kind, s, ranges[i]) : s \in h[i - 1]}]
<1>1. TrimSteps(stores, kind, store, ranges)
  <2>1. \E g : TrimSteps(g, ns[nsid].kind, data[nsid], ranges)
    BY Zenon
  <2>2. TrimSteps(stores, ns[nsid].kind, data[nsid], ranges)
    BY <2>1, Zenon DEF TrimSteps, TrimStep
  <2> HIDE DEF stores
  <2> QED BY <2>2, Zenon
<1>2. CASE Refusal(nsid, 0, 0) = "NONE"
  <2>1. \/ Answer("trim", "SUCCESS")
        \/ /\ \E s \in stores[Len(ranges)] : Change(nsid, s)
           /\ last' = [op |-> "trim", status |-> "SUCCESS"]
           /\ belief' = [belief EXCEPT ![nsid] = Expected(nsid, ranges)]
    BY <1>2, Zenon DEF HandleDatasetManagement, Expected, NamedBy
  <2> HIDE DEF stores
  <2> QED BY <1>1, <2>1, Zenon
<1>3. CASE Refusal(nsid, 0, 0) # "NONE"
  <2>1. Answer("trim", Refusal(nsid, 0, 0))
    BY <1>3, Zenon DEF HandleDatasetManagement
  <2> QED BY <1>3, <2>1
<1> QED BY <1>2, <1>3

LEMMA TrimKeeps ==
  ASSUME Unwrapped, DataInv, NEW nsid, NEW deallocate, NEW ranges \in Trims,
         HandleDatasetManagement(nsid, deallocate, ranges)
  PROVE  IoInv'
<1>1. CASE Refusal(nsid, 0, 0) # "NONE"
  <2>1. Answer("trim", Refusal(nsid, 0, 0))
    BY <1>1, Zenon DEF HandleDatasetManagement
  <2> QED BY <1>1, <2>1, RefusalIs, RefusedKeeps
<1>2. CASE Answer("trim", "SUCCESS")
  <2>1. "SUCCESS" \in Statuses
    BY DEF Statuses
  <2>2. DataInv'
    BY <1>2, <2>1, AnswerKeeps
  <2>3. last'.op = "trim"
    BY <1>2 DEF Answer
  <2> QED BY <2>2, <2>3, OtherKeeps
<1>3. CASE Refusal(nsid, 0, 0) = "NONE" /\ ~ Answer("trim", "SUCCESS")
  <2>1. nsid \in Slots /\ ns[nsid].Active
    BY <1>3, RefusalIs
  <2>2. PICK store, kind : store = data[nsid] /\ kind = ns[nsid].kind
    OBVIOUS
  <2>3. store \in Stores /\ kind \in AllKinds /\ belief[nsid] \in [Bytes -> SUBSET Values]
    BY <2>1, <2>2, StoreTyped
  <2>4. \E g : TrimSteps(g, kind, store, ranges)
    BY <2>3, TrimStepsExist
  <2>5. PICK g : /\ TrimSteps(g, kind, store, ranges)
                 /\ \E s \in g[Len(ranges)] : Change(nsid, s)
                 /\ last' = [op |-> "trim", status |-> "SUCCESS"]
                 /\ belief' = [belief EXCEPT ![nsid] = Expected(nsid, ranges)]
    BY <1>3, <2>2, <2>4, TrimCases, Zenon
  <2>6. PICK s \in g[Len(ranges)] : Change(nsid, s)
    BY <2>5
  <2>7. s \in Trimmed(store, ranges)
    BY <2>3, <2>5, <2>6, TrimStepsAre
  <2>8. s \in Stores /\ \A b \in Bytes : s[b] = store[b] \/ (s[b] = 0 /\ NamedBy(ranges, b))
    BY <2>7 DEF Trimmed
  <2>9. PICK expect : expect = Expected(nsid, ranges)
    OBVIOUS
  <2>10. \A b \in Bytes : expect[b] = IF NamedBy(ranges, b) THEN belief[nsid][b] \cup {0} ELSE belief[nsid][b]
    BY <2>9 DEF Expected
  <2>11. expect \in [Bytes -> SUBSET Values]
    BY <2>3, <2>9 DEF Expected, Values, Anything
  <2>12. ASSUME Counted, NEW b \in Bytes PROVE s[b] \in expect[b]
    <3>1. store[b] \in belief[nsid][b]
      BY <2>1, <2>2, <2>12 DEF DataInv, StoreIsAsTold
    <3> QED BY <2>8, <2>10, <3>1
  <2>13. last'.status \in Statuses /\ last'.op = "trim"
    BY <2>5 DEF Statuses
  <2>14. DataInv'
    BY <2>1, <2>5, <2>6, <2>8, <2>9, <2>11, <2>12, <2>13, ChangeKeeps
  <2> QED BY <2>13, <2>14, OtherKeeps
<1> QED BY <1>1, <1>2, <1>3

-----------------------------------------------------------------------------
(* The other steps, and the invariant *)

LEMMA FlushKeeps ==
  ASSUME DataInv, NEW nsid, HandleFlush(nsid)
  PROVE  IoInv'
<1>1. PICK status : /\ status = (IF nsid = AllNamespaces \/ (nsid \in Slots /\ ns[nsid].Active)
                                 THEN "SUCCESS" ELSE "INVALID_NAMESPACE")
                    /\ Answer("flush", status)
  BY DEF HandleFlush
<1>2. status \in Statuses
  BY <1>1 DEF Statuses
<1>3. DataInv'
  BY <1>1, <1>2, AnswerKeeps
<1>4. last'.op = "flush"
  BY <1>1 DEF Answer
<1> QED BY <1>3, <1>4, OtherKeeps

LEMMA CreateKeeps ==
  ASSUME DataInv, NEW n \in Slots, NEW kind \in Kinds, VnvmeStorageCreate(n, kind)
  PROVE  IoInv'
<1>1. kind \in AllKinds
  BY SizeAssumption DEF AllKinds
<1>2. VnvmeStorageInit(kind, data[n]) = Empty
  BY <1>1 DEF AllKinds, VnvmeStorageInit, StorageMemoryInit, StorageFileInit, StorageSparseInit
<1>3. PICK expect : expect = [b \in Bytes |-> {0}]
  OBVIOUS
<1>4. /\ ns' = [ns EXCEPT ![n] = [Active |-> TRUE, kind |-> kind]]
      /\ data' = [data EXCEPT ![n] = Empty]
      /\ belief' = [belief EXCEPT ![n] = expect]
      /\ changes' = 0 /\ last' = last /\ last = Quiet
  BY <1>2, <1>3 DEF VnvmeStorageCreate
<1>5. expect \in [Bytes -> SUBSET Values] /\ Empty \in Stores
      /\ \A b \in Bytes : Empty[b] \in expect[b]
  BY <1>3, ZeroIsStored DEF Values, Anything, Stores, Empty
<1>6. ns \in [Slots -> [Active : BOOLEAN, kind : AllKinds]] /\ data \in [Slots -> Stores]
      /\ belief \in [Slots -> [Bytes -> SUBSET Values]] /\ last.status \in Statuses
  BY TypeParts DEF DataInv
<1>7. ns' \in [Slots -> [Active : BOOLEAN, kind : AllKinds]]
  BY <1>1, <1>4, <1>6
<1>8. data' \in [Slots -> Stores] /\ belief' \in [Slots -> [Bytes -> SUBSET Values]]
  BY <1>4, <1>5, <1>6
<1>9. changes' \in 0 .. MaxChanges /\ last'.status \in Statuses
  BY <1>4, <1>6, SizeAssumption
<1>10. TypeOK'
  BY <1>7, <1>8, <1>9 DEF TypeOK, Stores, Stored, AllKinds
<1>11. ASSUME Counted PROVE StoreIsAsTold'
  <2>1. ASSUME NEW i \in Slots, ns'[i].Active, NEW b \in Bytes PROVE data'[i][b] \in belief'[i][b]
    <3>1. CASE i = n
      <4>1. data'[i] = Empty /\ belief'[i] = expect
        BY <1>4, <1>6, <3>1
      <4> QED BY <1>5, <4>1
    <3>2. CASE i # n
      <4>1. data'[i] = data[i] /\ belief'[i] = belief[i] /\ ns'[i] = ns[i]
        BY <1>4, <1>6, <3>2
      <4> QED BY <1>11, <2>1, <4>1 DEF DataInv, StoreIsAsTold
    <3> QED BY <3>1, <3>2
  <2> QED BY <2>1 DEF StoreIsAsTold
<1>12. DataInv'
  BY <1>10, <1>11 DEF DataInv
<1>13. last'.op = "none"
  BY <1>4 DEF Quiet
<1> QED BY <1>12, <1>13, OtherKeeps

LEMMA DestroyKeeps ==
  ASSUME DataInv, NEW n \in Slots, VnvmeStorageDestroy(n)
  PROVE  IoInv'
<1>1. /\ ns' = [ns EXCEPT ![n].Active = FALSE] /\ data' = data /\ belief' = belief /\ changes' = changes
      /\ last' = last /\ last = Quiet
  BY DEF VnvmeStorageDestroy
<1>2. ns \in [Slots -> [Active : BOOLEAN, kind : AllKinds]]
  BY TypeParts DEF DataInv
<1>3. ns' \in [Slots -> [Active : BOOLEAN, kind : AllKinds]]
  BY <1>1, <1>2
<1>4. TypeOK'
  BY <1>1, <1>3 DEF DataInv, TypeOK, AllKinds
<1>5. \A i \in Slots : ns'[i].Active => ns[i].Active
  BY <1>1, <1>2
<1>6. Counted => StoreIsAsTold'
  BY <1>1, <1>5 DEF DataInv, StoreIsAsTold
<1>7. DataInv' /\ last'.op = "none"
  BY <1>1, <1>4, <1>6 DEF DataInv, Quiet
<1> QED BY <1>7, OtherKeeps

LEMMA HostKeeps ==
  ASSUME DataInv, HostTakesCompletion
  PROVE  IoInv'
<1>1. ns' = ns /\ data' = data /\ belief' = belief /\ changes' = changes
      /\ last'.status \in Statuses /\ last'.op = "none"
  BY DEF HostTakesCompletion, Quiet, Statuses
<1>2. DataInv'
  BY <1>1, LastKeeps
<1> QED BY <1>1, <1>2, OtherKeeps

LEMMA IoStep ==
  ASSUME Unwrapped, IoInv, [Next]_vars
  PROVE  IoInv'
<1>1. DataInv
  BY DEF IoInv
<1>2. CASE UNCHANGED vars
  <2>1. ns' = ns /\ data' = data /\ belief' = belief /\ changes' = changes /\ last' = last
    BY <1>2 DEF vars
  <2>2. last'.status \in Statuses
    BY <1>1, <2>1 DEF DataInv, TypeOK
  <2>3. DataInv'
    BY <1>1, <2>1, <2>2, LastKeeps
  <2>4. Counted => ReadDelivers' /\ CompareTells'
    BY <2>1 DEF IoInv, ReadDelivers, CompareTells
  <2> QED BY <2>3, <2>4 DEF IoInv
<1>3. CASE \E nsid \in Nsids, slba \in Slbas, raw \in RawNlbs, buf \in Buffers :
              \/ HandleRead(nsid, slba, raw, buf)
              \/ HandleWrite(nsid, slba, raw, buf)
              \/ HandleCompare(nsid, slba, raw, buf)
  BY <1>1, <1>3, ReadKeeps, WriteKeeps, CompareKeeps
<1>4. CASE \E nsid \in Nsids : HandleFlush(nsid)
  BY <1>1, <1>4, FlushKeeps
<1>5. CASE \E nsid \in Nsids, slba \in Slbas, raw \in RawNlbs : HandleWriteZeroes(nsid, slba, raw)
  BY <1>1, <1>5, WriteZeroesKeeps
<1>6. CASE \E nsid \in Nsids, deallocate \in BOOLEAN, ranges \in Trims :
              HandleDatasetManagement(nsid, deallocate, ranges)
  BY <1>1, <1>6, TrimKeeps
<1>7. CASE Answer("other", "INVALID_OPCODE")
  <2>1. "INVALID_OPCODE" \in Refusals
    BY DEF Refusals, Statuses
  <2> QED BY <1>1, <1>7, <2>1, RefusedKeeps
<1>8. CASE HostTakesCompletion
  BY <1>1, <1>8, HostKeeps
<1>9. CASE \E n \in Slots, kind \in Kinds : VnvmeStorageCreate(n, kind)
  BY <1>1, <1>9, CreateKeeps
<1>10. CASE \E n \in Slots : VnvmeStorageDestroy(n)
  BY <1>1, <1>10, DestroyKeeps
<1> QED BY <1>2, <1>3, <1>4, <1>5, <1>6, <1>7, <1>8, <1>9, <1>10, Zenon DEF Next, VnvmeProcessIoCommand

LEMMA IoInvariant ==
  ASSUME Unwrapped
  PROVE  Spec => []IoInv
<1>1. Init => IoInv
  BY InitInv DEF Init, Quiet, IoInv, ReadDelivers, CompareTells
<1>2. IoInv /\ [Next]_vars => IoInv'
  BY IoStep
<1> QED BY <1>1, <1>2, PTL DEF Spec

-----------------------------------------------------------------------------
(* Theorems *)

(* The stores hold only zeroes and bytes of pages that a PRP field, or     *)
(* what was read as a PRP list, led to: nothing from beside a store gets   *)
(* into it, whatever the commands, the lists, the storage backends'        *)
(* failures and the pages that cannot be mapped, as long as no range       *)
(* reaches beyond the last 64-bit number (io_cmd.c, prp.c, storage*.c).    *)
THEOREM TypeCorrect ==
  ASSUME Unwrapped
  PROVE  Spec => []TypeOK
<1>1. IoInv => TypeOK
  BY DEF IoInv, DataInv
<1> QED BY <1>1, IoInvariant, PTL

(* A namespace always holds what the answers told the host: a successful   *)
(* Write or Write Zeroes, through PRP fields and any list that lies in one *)
(* page, chunk by chunk, on every backend, stored exactly the host's bytes *)
(* at exactly the named blocks; a failed one, a Deallocate and a Write     *)
(* whose list goes on in a second page (prp.c follows none) touched no     *)
(* other block.                                                            *)
THEOREM StoreIsAsToldCorrect ==
  ASSUME Unwrapped, Counted
  PROVE  Spec => []StoreIsAsTold
<1>1. IoInv => StoreIsAsTold
  BY DEF IoInv, DataInv
<1> QED BY <1>1, IoInvariant, PTL

(* A successful Read whose PRP list, if any, lies in one page and whose    *)
(* pages could be mapped delivers into every byte of the host's buffer     *)
(* what the host may expect there, and writes nothing else to host memory  *)
(* (HandleRead).                                                           *)
THEOREM ReadDeliversCorrect ==
  ASSUME Unwrapped, Counted
  PROVE  Spec => []ReadDelivers
<1>1. IoInv => ReadDelivers
  BY DEF IoInv
<1> QED BY <1>1, IoInvariant, PTL

(* Compare answers with success exactly when the host's buffer equals the  *)
(* blocks, for a PRP list in one page (HandleCompare).                     *)
THEOREM CompareTellsCorrect ==
  ASSUME Unwrapped, Counted
  PROVE  Spec => []CompareTells
<1>1. IoInv => CompareTells
  BY DEF IoInv
<1> QED BY <1>1, IoInvariant, PTL
=============================================================================
