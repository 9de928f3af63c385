------------------------------- MODULE DriverIo -------------------------------
(***************************************************************************)
(* The driver's own I/O command handlers (io_cmd.c) over its storage       *)
(* backends (storage.c, storage_memory.c, storage_file.c).                 *)
(*                                                                         *)
(* Contents are modelled byte by byte, in a scaled-down unit.  The host    *)
(* memory at address a holds the value a, so a byte of the store shows     *)
(* which host byte was copied into it; 0 is the byte of a fresh store.     *)
(* belief is what the host may conclude from the answers it was given: the *)
(* values a byte may have after a history of successful and failed         *)
(* commands.  The statistics counters are left out.                        *)
(***************************************************************************)
EXTENDS PrpList, Storage

CONSTANTS
  Long,           \* how many values a ULONG has (2^32)
  MaxNamespaces,  \* VNVME_MAX_NAMESPACES (16)
  MaxTransfer,    \* bytes of the largest temporary buffer (2 MB)
  Kinds,          \* backends a namespace may be created with
  Nsids,          \* what a command may carry in its NSID field
  Slbas,          \* in its start field
  RawNlbs,        \* in its 0-based block count field
  Buffers,        \* host buffers: the pages in order, the offset in the first, and how many
                  \* addresses fit between PRP2 and the end of its page if it points to a list
  NextList,       \* the address of the second page of a list
  Trims,          \* sequences of Dataset Management ranges
  MaxChanges      \* bound: commands that change a store between two creations

ASSUME SizeAssumption ==
  /\ Long \in Nat \ {0} /\ MaxNamespaces \in Nat /\ MaxTransfer \in Nat /\ MaxChanges \in Nat
  /\ Kinds \subseteq {"memory", "file", "sparse"}
  /\ Slbas \subseteq 0 .. Wide - 1 /\ RawNlbs \subseteq 0 .. Half - 1
  /\ Trims \subseteq Seq([slba : 0 .. Wide - 1, nlb : 0 .. Long - 1])

(* The host's buffers are long enough for the transfers. *)
ASSUME BufferAssumption ==
  /\ Buffers \subseteq [pages : Seq(Nat), off : 0 .. PageSize - 1, room : 1 .. ListPage]
  /\ NextList \in Nat
  /\ \A buf \in Buffers, raw \in RawNlbs : buf.off + (raw + 1) * BlockSize <= Len(buf.pages) * PageSize

Slots == 1 .. MaxNamespaces
AllNamespaces == MaxNamespaces + 100    \* NSID 0xFFFFFFFF of a Flush

VARIABLES
  ns,      \* per slot: Active, and the kind of Storage
  data,    \* per slot: the bytes of the store
  belief,  \* history: per slot and byte, the values the host may expect
  changes, \* how many commands have changed the stores, for the bound
  last     \* the last command: its opcode, status and, for a Read, what it delivered

vars == <<ns, data, belief, changes, last>>

Quiet == [op |-> "none", status |-> "NONE"]

Init ==
  /\ ns = [n \in Slots |-> [Active |-> FALSE, kind |-> "memory"]]
  /\ data = [n \in Slots |-> Empty]
  /\ belief = [n \in Slots |-> [b \in Bytes |-> {0}]]
  /\ changes = 0
  /\ last = Quiet

-----------------------------------------------------------------------------
(* The host (external) describes a buffer by PRPs: the first address, then *)
(* the second page or, for more than two pages, a list of the others that  *)
(* it keeps at address ListAt.  When that page has no room for all of them *)
(* its last address is that of the page where the list goes on.            *)

ListAt == MaxPhys
PageAddress(buf, i) == buf.pages[i] * PageSize
HostByte(buf, k) ==
  PageAddress(buf, 1 + ((buf.off + k) \div PageSize)) + ((buf.off + k) % PageSize)
Prp1(buf) == HostByte(buf, 0)
Prp2(buf, length) ==
  IF NumPages(Prp1(buf), length) = 2 THEN PageAddress(buf, 2)
  ELSE IF NumPages(Prp1(buf), length) > 2 THEN ListAt ELSE 0
InOnePage(buf, length) == NumPages(Prp1(buf), length) - 1 <= buf.room
HostList(buf, length) ==
  [i \in 1 .. Smaller(NumPages(Prp1(buf), length) - 1, buf.room) |->
     IF i = buf.room /\ ~ InOnePage(buf, length) THEN NextList ELSE PageAddress(buf, i + 1)]
Parse(buf, length) ==
  VnvmeParsePrpList(Prp1(buf), Prp2(buf, length), length, HostList(buf, length))

(* Where the copy loop takes the data's bytes from or puts them: byte k of *)
(* the data at CopyMap[k].  An entry that cannot be mapped (bad) is left   *)
(* out and the data moves up.                                              *)
CopyMap(entries, bad, total) ==
  LET end[i \in 0 .. Len(entries)] ==
        IF i = 0 THEN 0
        ELSE IF i \in bad THEN end[i - 1] ELSE Smaller(total, end[i - 1] + entries[i].length)
      EntryOf(k) == CHOOSE i \in 1 .. Len(entries) : end[i - 1] <= k /\ k < end[i]
  IN  [k \in 0 .. end[Len(entries)] - 1 |-> entries[EntryOf(k)].address + (k - end[EntryOf(k) - 1])]

(* Mutant: the temporary buffer is not zeroed. *)
FillBufferRaw(from, length) == [k \in 0 .. length - 1 |-> IF k \in DOMAIN from THEN from[k] ELSE Junk]

(* The temporary buffer (ExAllocatePool2 zeroes it) after the copy loop. *)
FillBuffer(from, length) == [k \in 0 .. length - 1 |-> IF k \in DOMAIN from THEN from[k] ELSE 0]

(* At most one entry of a transfer fails to map: a bound of the model. *)
MapFaults(entries) == {{}} \cup {{i} : i \in 1 .. Len(entries)}

-----------------------------------------------------------------------------
(* Block counts and ranges (vnvme_utils.h) *)

(* Mutant: the 0-based count is used as it is. *)
NlbRaw(raw) == raw

Nlb(raw) == (raw + 1) % Half             \* a USHORT: the largest count becomes 0
LbaRangeValid(slba, nlb) == (slba + nlb) % Wide <= TotalBlocks
ByteOffset(slba) == (slba * BlockSize) % Wide

-----------------------------------------------------------------------------
(* Namespaces *)

VnvmeStorageCreate(n, kind) ==
  /\ last = Quiet /\ ~ ns[n].Active
  /\ ns' = [ns EXCEPT ![n] = [Active |-> TRUE, kind |-> kind]]
  /\ data' = [data EXCEPT ![n] = VnvmeStorageInit(kind, data[n])]
  /\ belief' = [belief EXCEPT ![n] = [b \in Bytes |-> {0}]]
  /\ changes' = 0
  /\ UNCHANGED last

VnvmeStorageDestroy(n) ==
  /\ last = Quiet /\ ns[n].Active
  /\ ns' = [ns EXCEPT ![n].Active = FALSE]
  /\ UNCHANGED <<data, belief, changes, last>>

-----------------------------------------------------------------------------
(* Commands *)

Refusal(nsid, slba, nlb) ==
  IF nsid \notin Slots \/ (nsid \in Slots /\ ~ ns[nsid].Active) THEN "INVALID_NAMESPACE"
  ELSE IF ~ LbaRangeValid(slba, nlb) THEN "LBA_OUT_OF_RANGE"
  ELSE "NONE"

(* PostIoCompletion of a command that changed nothing *)
Answer(op, status) == last' = [op |-> op, status |-> status] /\ UNCHANGED <<ns, data, belief, changes>>

Change(n, store) ==
  /\ changes < MaxChanges /\ changes' = changes + 1
  /\ data' = [data EXCEPT ![n] = store]
  /\ UNCHANGED ns

(* What the host may conclude from a command about the blocks it named:    *)
(* asked maps the bytes of these blocks to their new values.               *)
Conclude(n, slba, asked, status) ==
  belief' = [belief EXCEPT ![n] =
    [b \in Bytes |-> LET k == b - slba * BlockSize IN
       IF b < slba * BlockSize \/ k \notin DOMAIN asked THEN belief[n][b]
       ELSE IF status = "SUCCESS" THEN {asked[k]} ELSE belief[n][b] \cup {asked[k]}]]

Asked(raw) == 0 .. (raw + 1) * BlockSize - 1

(* Every page that can be taken for a page of a buffer, and its bytes *)
Addresses ==
  Strays \cup {NextList} \cup UNION {{PageAddress(buf, i) : i \in 1 .. Len(buf.pages)} : buf \in Buffers}
Anything == {0} \cup {a + j : a \in Addresses, j \in 0 .. PageSize - 1}

HandleRead(nsid, slba, raw, buf) ==
  LET nlb    == Nlb(raw)
      length == nlb * BlockSize
      offset == ByteOffset(slba)
      direct == VnvmeStorageGetDirect(ns[nsid].kind, offset, length)
  IN  IF Refusal(nsid, slba, nlb) # "NONE" THEN Answer("read", Refusal(nsid, slba, nlb))
      ELSE IF ~ direct /\ length > MaxTransfer THEN Answer("read", "INVALID_FIELD")
      ELSE \/ Answer("read", "INTERNAL_ERROR")      \* no memory, or no mapping of the list
           \/ \E prps \in Parse(buf, length),
                 r \in IF direct THEN {Done(Part(data[nsid], offset, length))}
                       ELSE VnvmeStorageRead(ns[nsid].kind, data[nsid], offset, length) :
                IF ~ r.ok THEN Answer("read", "UNRECOVERED_READ_ERROR")
                ELSE IF ~ prps.ok THEN Answer("read", "INTERNAL_ERROR")
                ELSE \E bad \in MapFaults(prps.entries) :
                       LET to == CopyMap(prps.entries, bad, length)
                       IN  /\ last' = [op |-> "read", status |-> "SUCCESS", nsid |-> nsid, slba |-> slba,
                                       raw |-> raw, buf |-> buf, mapped |-> bad = {},
                                       host |-> {<<to[k], r.store[k]>> : k \in DOMAIN to}]
                           /\ UNCHANGED <<ns, data, belief, changes>>

(* A memory store is written in place, entry by entry; a file from a       *)
(* zeroed buffer, as a whole.                                              *)
HandleWrite(nsid, slba, raw, buf) ==
  LET nlb    == Nlb(raw)
      length == nlb * BlockSize
      offset == ByteOffset(slba)
      direct == VnvmeStorageGetDirect(ns[nsid].kind, offset, length)
      asked  == [k \in Asked(raw) |-> HostByte(buf, k)]
  IN  IF Refusal(nsid, slba, nlb) # "NONE" THEN Answer("write", Refusal(nsid, slba, nlb))
      ELSE IF ~ direct /\ length > MaxTransfer THEN Answer("write", "INVALID_FIELD")
      ELSE \/ Answer("write", "INTERNAL_ERROR")
           \/ \E prps \in Parse(buf, length) :
              IF ~ prps.ok THEN Answer("write", "INTERNAL_ERROR")
              ELSE \E bad \in MapFaults(prps.entries) :
                LET from   == CopyMap(prps.entries, bad, length)
                    buffer == FillBuffer(from, length)
                IN \E r \in IF direct THEN {Done(Overlay(data[nsid], offset, from))}
                            ELSE VnvmeStorageWrite(ns[nsid].kind, data[nsid], offset, buffer) :
                     LET status == IF r.ok THEN "SUCCESS" ELSE "WRITE_FAULT" IN
                     /\ Change(nsid, r.store)
                     /\ last' = [op |-> "write", status |-> status]
                     /\ IF bad = {} /\ InOnePage(buf, length) THEN Conclude(nsid, slba, asked, status)
                        ELSE belief' = [belief EXCEPT ![nsid] =
                               [b \in Bytes |-> IF \E k \in Asked(raw) : b = slba * BlockSize + k
                                                THEN Anything ELSE belief[nsid][b]]]

(* Flush writes nothing a Read could tell; the backend's result is ignored. *)
HandleFlush(nsid) ==
  Answer("flush", IF nsid = AllNamespaces \/ (nsid \in Slots /\ ns[nsid].Active)
                  THEN "SUCCESS" ELSE "INVALID_NAMESPACE")

(* In chunks, each zeroed by the backend, until one fails. *)
ZeroRange(kind, store, offset, length) ==
  LET count == (length + ZeroesChunk - 1) \div ZeroesChunk
      done[i \in 0 .. count] ==
        IF i = 0 THEN {Done(store)}
        ELSE UNION {IF r.ok THEN VnvmeStorageWriteZeroes(kind, r.store, (offset + (i - 1) * ZeroesChunk) % Wide,
                                                         Smaller(ZeroesChunk, length - (i - 1) * ZeroesChunk))
                    ELSE {r} : r \in done[i - 1]}
  IN  done[count]

HandleWriteZeroes(nsid, slba, raw) ==
  LET nlb == Nlb(raw) IN
  IF Refusal(nsid, slba, nlb) # "NONE" THEN Answer("zeroes", Refusal(nsid, slba, nlb))
  ELSE \E r \in ZeroRange(ns[nsid].kind, data[nsid], ByteOffset(slba), nlb * BlockSize) :
         LET status == IF r.ok THEN "SUCCESS" ELSE "WRITE_FAULT" IN
         /\ Change(nsid, r.store)
         /\ last' = [op |-> "zeroes", status |-> status]
         /\ Conclude(nsid, slba, [k \in Asked(raw) |-> 0], status)

(* The contents a range leaves: a range that is empty or out of bounds is  *)
(* skipped, a failure ignored.  The length is cut to 32 bits.              *)
TrimRange(kind, store, r) ==
  IF r.nlb = 0 \/ ~ LbaRangeValid(r.slba, r.nlb) THEN {store}
  ELSE {o.store : o \in VnvmeStorageWriteZeroes(kind, store, ByteOffset(r.slba),
                                                (r.nlb * BlockSize) % Long)}

HandleDatasetManagement(nsid, deallocate, ranges) ==
  IF Refusal(nsid, 0, 0) # "NONE" THEN Answer("trim", Refusal(nsid, 0, 0))
  ELSE \/ Answer("trim", "SUCCESS")        \* not a Deallocate, or the ranges do not map
       \/ LET stores[i \in 0 .. Len(ranges)] ==
                IF i = 0 THEN {data[nsid]}
                ELSE UNION {TrimRange(ns[nsid].kind, s, ranges[i]) : s \in stores[i - 1]}
              Named(b) == \E i \in 1 .. Len(ranges) :
                            b \div BlockSize \in ranges[i].slba .. ranges[i].slba + ranges[i].nlb - 1
          IN  /\ deallocate
              /\ \E s \in stores[Len(ranges)] : Change(nsid, s)
              /\ last' = [op |-> "trim", status |-> "SUCCESS"]
              /\ belief' = [belief EXCEPT ![nsid] =
                   [b \in Bytes |-> IF Named(b) THEN belief[nsid][b] \cup {0} ELSE belief[nsid][b]]]

HandleCompare(nsid, slba, raw, buf) ==
  LET nlb    == Nlb(raw)
      length == nlb * BlockSize
  IN  IF Refusal(nsid, slba, nlb) # "NONE" THEN Answer("compare", Refusal(nsid, slba, nlb))
      ELSE IF length > MaxTransfer THEN Answer("compare", "INVALID_FIELD")
      ELSE \/ Answer("compare", "INTERNAL_ERROR")
           \/ \E prps \in Parse(buf, length) :
              IF ~ prps.ok THEN Answer("compare", "INTERNAL_ERROR")
              ELSE \E bad \in MapFaults(prps.entries),
                      r \in VnvmeStorageRead(ns[nsid].kind, data[nsid], ByteOffset(slba), length) :
                LET from   == CopyMap(prps.entries, bad, length)
                    buffer == FillBuffer(from, length)
                IN  IF ~ r.ok THEN Answer("compare", "UNRECOVERED_READ_ERROR")
                    ELSE /\ last' = [op |-> "compare", nsid |-> nsid, slba |-> slba, raw |-> raw,
                                     buf |-> buf, mapped |-> bad = {},
                                     status |-> IF r.store = buffer THEN "SUCCESS" ELSE "COMPARE_FAILURE"]
                         /\ UNCHANGED <<ns, data, belief, changes>>

(* The host (external) takes one completion before the next command. *)
HostTakesCompletion == last # Quiet /\ last' = Quiet /\ UNCHANGED <<ns, data, belief, changes>>

VnvmeProcessIoCommand ==
  \/ \E nsid \in Nsids, slba \in Slbas, raw \in RawNlbs, buf \in Buffers :
       \/ HandleRead(nsid, slba, raw, buf)
       \/ HandleWrite(nsid, slba, raw, buf)
       \/ HandleCompare(nsid, slba, raw, buf)
  \/ \E nsid \in Nsids : HandleFlush(nsid)
  \/ \E nsid \in Nsids, slba \in Slbas, raw \in RawNlbs : HandleWriteZeroes(nsid, slba, raw)
  \/ \E nsid \in Nsids, deallocate \in BOOLEAN, ranges \in Trims :
       HandleDatasetManagement(nsid, deallocate, ranges)
  \/ Answer("other", "INVALID_OPCODE")

Next ==
  \/ last = Quiet /\ VnvmeProcessIoCommand
  \/ HostTakesCompletion
  \/ \E n \in Slots, kind \in Kinds : VnvmeStorageCreate(n, kind)
  \/ \E n \in Slots : VnvmeStorageDestroy(n)

Spec == Init /\ [][Next]_vars
-----------------------------------------------------------------------------
(* Properties *)

Values == Anything \cup {Junk}
Statuses == {"NONE", "SUCCESS", "INVALID_NAMESPACE", "LBA_OUT_OF_RANGE", "INVALID_FIELD", "INTERNAL_ERROR",
             "UNRECOVERED_READ_ERROR", "WRITE_FAULT", "COMPARE_FAILURE", "INVALID_OPCODE"}

(* The stores hold zeroes and bytes of pages that a PRP field or list led  *)
(* to, rightly or not; nothing from beside a store ever gets into it.      *)
TypeOK ==
  /\ ns \in [Slots -> [Active : BOOLEAN, kind : {"memory", "file", "sparse"}]]
  /\ data \in [Slots -> [Bytes -> Values \ {Junk}]]
  /\ belief \in [Slots -> [Bytes -> SUBSET Values]]
  /\ changes \in 0 .. MaxChanges
  /\ last.status \in Statuses

(* A namespace holds what the answers told the host: every block of a      *)
(* successful Write or Write Zeroes has the data the host's buffer held,   *)
(* byte for byte through its PRPs, a failed one changed no block it did    *)
(* not name, and a trimmed block is either zero or untouched.  Of a Write  *)
(* whose list goes on in a second page, which the driver does not follow,  *)
(* only that it keeps to the blocks it named.                              *)
StoreIsAsTold ==
  \A n \in Slots : ns[n].Active => \A b \in Bytes : data[n][b] \in belief[n][b]

(* What a command asked for is described by a list of one page, or none. *)
Followed(raw, buf) == InOnePage(buf, (raw + 1) * BlockSize)

(* A successful Read whose PRP list lies in one page, and whose pages      *)
(* could all be mapped, puts into every byte of the host's buffer what the *)
(* host has written to that place before, and writes nothing else to host  *)
(* memory.                                                                 *)
ReadDelivers ==
  last.op = "read" /\ last.status = "SUCCESS" /\ last.mapped /\ Followed(last.raw, last.buf) =>
    /\ \A k \in Asked(last.raw) :
         \E v \in belief[last.nsid][last.slba * BlockSize + k] : <<HostByte(last.buf, k), v>> \in last.host
    /\ \A w \in last.host : \E k \in Asked(last.raw) : w[1] = HostByte(last.buf, k)

(* Compare answers with success exactly when the host's buffer equals the  *)
(* blocks, so a host that uses it to guard an update is not misled, again  *)
(* for a list of one page.                                                 *)
CompareTells ==
  /\ last.op = "compare" /\ last.status \in {"SUCCESS", "COMPARE_FAILURE"}
  /\ last.mapped /\ Followed(last.raw, last.buf)
  => (last.status = "SUCCESS" <=>
        \A k \in Asked(last.raw) : data[last.nsid][last.slba * BlockSize + k] = HostByte(last.buf, k))
=============================================================================
