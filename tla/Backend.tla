------------------------------- MODULE Backend -------------------------------
(***************************************************************************)
(* The service's storage backends (backend_common.c, backend_memory.c,     *)
(* backend_file.c) as functions on the bytes they keep.  A backend be has  *)
(* a kind, a size and a readOnly flag; a medium is the file, or the memory *)
(* block, with its bytes.  An operation returns the set of its possible    *)
(* outcomes.  The critical section around each of them makes them atomic,  *)
(* and only one thread of the service calls them.                          *)
(***************************************************************************)
EXTENDS Words, FiniteSets

CONSTANTS
  BlockSize,   \* 512
  MaxMemory,   \* the 4 GB limit of a memory backend
  ZeroChunk    \* chunkSize of FileBackendWriteZeroes (64 KB)

ASSUME BackendAssumption ==
  BlockSize \in Nat \ {0} /\ MaxMemory \in Nat \ {0} /\ ZeroChunk \in Nat \ {0}

Junk == Wide                            \* what the disk held before
NoFile == [exists |-> FALSE, bytes |-> << >>]
Medium(bytes) == [exists |-> TRUE, bytes |-> bytes]
Length(medium) == IF medium.exists THEN Cardinality(DOMAIN medium.bytes) ELSE 0

NoBackend == [open |-> FALSE, kind |-> "memory", size |-> 0, readOnly |-> FALSE]
Opened(cfg, size) == [open |-> TRUE, kind |-> cfg.kind, size |-> size, readOnly |-> cfg.readOnly]

Part(bytes, offset, size) == [k \in 0 .. size - 1 |-> bytes[offset + k]]
Prefix(new, n) == [k \in {k \in DOMAIN new : k < n} |-> new[k]]
Overlay(bytes, offset, new) ==
  [b \in DOMAIN bytes |-> IF b >= offset /\ b - offset \in DOMAIN new THEN new[b - offset] ELSE bytes[b]]
Extend(bytes, size, v) == [k \in 0 .. size - 1 |-> IF k \in DOMAIN bytes THEN bytes[k] ELSE v]
Zeroes(size) == [k \in 0 .. size - 1 |-> 0]

Done(bytes) == [ok |-> TRUE, bytes |-> bytes]
Error(bytes) == [ok |-> FALSE, bytes |-> bytes]
BeyondEnd(be, offset, size) == (offset + size) % Wide > be.size

-----------------------------------------------------------------------------
(* Creation: what BackendCreate returns, NoBackend for NULL, and the       *)
(* medium it leaves.                                                       *)

BackendMemoryCreate(cfg, old) ==
  LET size == Smaller(cfg.size, MaxMemory)
  IN  {<<NoBackend, old>>}
      \cup IF cfg.size = 0 THEN {} ELSE {<<Opened(cfg, size), Medium(Zeroes(size))>>}

(* An existing file keeps its bytes and is extended when it is too short;  *)
(* preallocated bytes are those the disk held before.  A read-only file    *)
(* must exist, and limits the size unless it is empty.                     *)
BackendFileCreate(cfg, old) ==
  LET medium == IF old.exists THEN old ELSE Medium(Zeroes(0))
      length == Length(medium)
  IN  {<<NoBackend, old>>}
      \cup IF cfg.size = 0 \/ (cfg.readOnly /\ ~ old.exists) THEN {}
           ELSE {<<NoBackend, medium>>}
                \cup IF length < cfg.size /\ ~ cfg.readOnly
                     THEN {<<Opened(cfg, cfg.size), Medium(Extend(medium.bytes, cfg.size, v))>> :
                             v \in {0} \cup {v \in {Junk} : cfg.preallocate}}
                     ELSE {<<Opened(cfg, IF length > 0 THEN Smaller(length, cfg.size) ELSE cfg.size), medium>>}

BackendCreate(cfg, old) ==
  CASE cfg.kind = "memory" -> BackendMemoryCreate(cfg, old)
    [] cfg.kind = "file"   -> BackendFileCreate(cfg, old)

-----------------------------------------------------------------------------
(* Memory *)

MemoryBackendRead(be, bytes, offset, size) ==
  IF BeyondEnd(be, offset, size) THEN {Error(<< >>)} ELSE {Done(Part(bytes, offset, size))}

MemoryBackendWrite(be, bytes, offset, new) ==
  IF be.readOnly \/ BeyondEnd(be, offset, Cardinality(DOMAIN new)) THEN {Error(bytes)}
  ELSE {Done(Overlay(bytes, offset, new))}

MemoryBackendWriteZeroes(be, bytes, offset, size) ==
  IF be.readOnly \/ BeyondEnd(be, offset, size) THEN {Error(bytes)}
  ELSE {Done(Overlay(bytes, offset, Zeroes(size)))}

(* File: ReadFile and WriteFile may fail with a part of the data moved. *)

FileBackendRead(be, bytes, offset, size) ==
  IF BeyondEnd(be, offset, size) THEN {Error(<< >>)}
  ELSE LET there == {k \in 0 .. size - 1 : offset + k \in DOMAIN bytes}
           got   == [k \in there |-> bytes[offset + k]]
       IN  {Error(Prefix(got, n * BlockSize)) : n \in 0 .. size \div BlockSize}
           \cup {Done(got) : r \in {r \in {0} : Cardinality(there) = size}}

WriteFile(bytes, offset, new) ==
  {Done(Overlay(bytes, offset, new))}
  \cup {Error(Overlay(bytes, offset, Prefix(new, n * BlockSize))) :
          n \in 0 .. Cardinality(DOMAIN new) \div BlockSize}

FileBackendWrite(be, bytes, offset, new) ==
  IF be.readOnly \/ BeyondEnd(be, offset, Cardinality(DOMAIN new)) THEN {Error(bytes)}
  ELSE WriteFile(bytes, offset, new)

(* Mutant: a read-only file is zeroed. *)
FileBackendWriteZeroesAnyway(be, bytes, offset, size) ==
  IF BeyondEnd(be, offset, size) THEN {Error(bytes)} ELSE WriteFile(bytes, offset, Zeroes(size))

(* Chunk by chunk from the file position on, until one fails. *)
FileBackendWriteZeroes(be, bytes, offset, size) ==
  LET count == (size + ZeroChunk - 1) \div ZeroChunk
      done[i \in 0 .. count] ==
        IF i = 0 THEN {Done(bytes)}
        ELSE UNION {IF r.ok THEN WriteFile(r.bytes, offset + (i - 1) * ZeroChunk,
                                           Zeroes(Smaller(ZeroChunk, size - (i - 1) * ZeroChunk)))
                    ELSE {r} : r \in done[i - 1]}
  IN  IF be.readOnly \/ BeyondEnd(be, offset, size) THEN {Error(bytes)}
      ELSE {Error(bytes)} \cup done[count]

-----------------------------------------------------------------------------
(* Dispatch on the kind of the backend *)

BackendRead(be, bytes, offset, size) ==
  CASE be.kind = "memory" -> MemoryBackendRead(be, bytes, offset, size)
    [] be.kind = "file"   -> FileBackendRead(be, bytes, offset, size)

BackendWrite(be, bytes, offset, new) ==
  CASE be.kind = "memory" -> MemoryBackendWrite(be, bytes, offset, new)
    [] be.kind = "file"   -> FileBackendWrite(be, bytes, offset, new)

BackendWriteZeroes(be, bytes, offset, size) ==
  CASE be.kind = "memory" -> MemoryBackendWriteZeroes(be, bytes, offset, size)
    [] be.kind = "file"   -> FileBackendWriteZeroes(be, bytes, offset, size)

(* FlushFileBuffers may fail; a memory backend has nothing to flush. *)
BackendFlush(be) == IF be.kind = "memory" THEN {TRUE} ELSE BOOLEAN
=============================================================================
