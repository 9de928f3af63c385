------------------------------- MODULE Storage -------------------------------
(***************************************************************************)
(* The driver's storage backends (storage.c, storage_memory.c,             *)
(* storage_file.c) as functions on the bytes of a store.  An operation     *)
(* returns the set of its possible outcomes: whether it succeeds and the   *)
(* bytes it leaves in the store, or for a Read the bytes it delivers.      *)
(* ReadOnly of a storage context is never set and is left out, and so are  *)
(* the statistics counters.                                                *)
(***************************************************************************)
EXTENDS Words, FiniteSets

CONSTANTS
  BlockSize, TotalBlocks,
  ZeroChunk,      \* ZERO_CHUNK_SIZE, SPARSE_ZERO_CHUNK_SIZE (64 KB)
  ZeroesChunk     \* WRITE_ZEROES_CHUNK_SIZE (1 MB)

ASSUME StoreAssumption ==
  /\ BlockSize \in Nat \ {0} /\ TotalBlocks \in Nat
  /\ TotalBlocks * BlockSize < Wide
  /\ ZeroChunk \in Nat \ {0} /\ ZeroesChunk \in Nat \ {0}

TotalBytes == TotalBlocks * BlockSize
Bytes == 0 .. TotalBytes - 1
Junk == Wide                            \* what lies outside the store
Empty == [b \in Bytes |-> 0]

InRange(offset, length) == (offset + length) % Wide <= TotalBytes
Overlay(store, offset, new) ==
  [b \in Bytes |-> LET k == (b + Wide - offset) % Wide
                   IN IF k \in DOMAIN new THEN new[k] ELSE store[b]]
Part(store, offset, length) ==
  [k \in 0 .. length - 1 |-> LET b == (offset + k) % Wide IN IF b \in Bytes THEN store[b] ELSE Junk]
Zeroes(length) == [k \in 0 .. length - 1 |-> 0]
Prefix(new, n) == [k \in {k \in DOMAIN new : k < n} |-> new[k]]

Done(store) == [ok |-> TRUE, store |-> store]
Error(store) == [ok |-> FALSE, store |-> store]

(* The file system (external): a call fails or not; one that fails to      *)
(* write may have written the first blocks of the data.                    *)
ZwReadFile(store, offset, length) == {Done(Part(store, offset, length)), Error(<< >>)}
ZwWriteFile(store, offset, new) ==
  {Done(Overlay(store, offset, new))}
  \cup {Error(Overlay(store, offset, Prefix(new, n * BlockSize))) :
          n \in 0 .. Cardinality(DOMAIN new) \div BlockSize}

-----------------------------------------------------------------------------
(* Memory *)

StorageMemoryInit == Empty

StorageMemoryRead(store, offset, length) ==
  IF ~ InRange(offset, length) THEN {Error(<< >>)} ELSE {Done(Part(store, offset, length))}

StorageMemoryWrite(store, offset, new) ==
  IF ~ InRange(offset, Cardinality(DOMAIN new)) THEN {Error(store)} ELSE {Done(Overlay(store, offset, new))}

StorageMemoryWriteZeroes(store, offset, length) ==
  IF ~ InRange(offset, length) THEN {Error(store)} ELSE {Done(Overlay(store, offset, Zeroes(length)))}

StorageMemoryGetDirect(offset, length) == InRange(offset, length)

(* File: FILE_OVERWRITE_IF or FILE_OPEN_IF over what the file holds *)

StorageFileInit(old, createNew) == IF createNew THEN Empty ELSE old

StorageFileRead(store, offset, length) ==
  IF ~ InRange(offset, length) THEN {Error(<< >>)} ELSE ZwReadFile(store, offset, length)

StorageFileWrite(store, offset, new) ==
  IF ~ InRange(offset, Cardinality(DOMAIN new)) THEN {Error(store)} ELSE ZwWriteFile(store, offset, new)

(* A range of a file, plain or sparse, written with zeroes chunk by chunk  *)
(* until one fails.                                                        *)
WriteZeroChunks(store, offset, length) ==
  LET count == (length + ZeroChunk - 1) \div ZeroChunk
      done[i \in 0 .. count] ==
        IF i = 0 THEN {Done(store)}
        ELSE UNION {IF r.ok THEN StorageFileWrite(r.store, (offset + (i - 1) * ZeroChunk) % Wide,
                                                  Zeroes(Smaller(ZeroChunk, length - (i - 1) * ZeroChunk)))
                    ELSE {r} : r \in done[i - 1]}
  IN  done[count]

(* Sparse file: zeroed by FSCTL_SET_ZERO_DATA or, when that fails, by      *)
(* writing, which fails too when there is no memory for the buffer.        *)

StorageSparseInit(old, createNew) == IF createNew THEN Empty ELSE old

StorageSparseRead(store, offset, length) ==
  IF ~ InRange(offset, length) THEN {Error(<< >>)} ELSE ZwReadFile(store, offset, length)

StorageSparseWrite(store, offset, new) ==
  IF ~ InRange(offset, Cardinality(DOMAIN new)) THEN {Error(store)} ELSE ZwWriteFile(store, offset, new)

StorageSparseWriteZeroes(store, offset, length) ==
  IF ~ InRange(offset, length) THEN {Error(store)}
  ELSE {Done(Overlay(store, offset, Zeroes(length))), Error(store)}
       \cup WriteZeroChunks(store, offset, length)

-----------------------------------------------------------------------------
(* Dispatch on the kind of the backend *)

(* The store a namespace begins with: CreateNew is TRUE in every call. *)
VnvmeStorageInit(kind, old) ==
  CASE kind = "memory" -> StorageMemoryInit
    [] kind = "file"   -> StorageFileInit(old, TRUE)
    [] kind = "sparse" -> StorageSparseInit(old, TRUE)

VnvmeStorageGetDirect(kind, offset, length) == kind = "memory" /\ StorageMemoryGetDirect(offset, length)

VnvmeStorageWrite(kind, store, offset, new) ==
  CASE kind = "memory" -> StorageMemoryWrite(store, offset, new)
    [] kind = "file"   -> StorageFileWrite(store, offset, new)
    [] kind = "sparse" -> StorageSparseWrite(store, offset, new)

(* Mutant: the place in the store is ignored. *)
VnvmeStorageReadFirst(kind, store, offset, length) ==
  CASE kind = "memory" -> StorageMemoryRead(store, 0, length)
    [] kind = "file"   -> StorageFileRead(store, 0, length)
    [] kind = "sparse" -> StorageSparseRead(store, 0, length)

VnvmeStorageRead(kind, store, offset, length) ==
  CASE kind = "memory" -> StorageMemoryRead(store, offset, length)
    [] kind = "file"   -> StorageFileRead(store, offset, length)
    [] kind = "sparse" -> StorageSparseRead(store, offset, length)

(* A plain file is written with zeroes, if there is memory for a chunk. *)
VnvmeStorageWriteZeroes(kind, store, offset, length) ==
  CASE kind = "memory" -> StorageMemoryWriteZeroes(store, offset, length)
    [] kind = "file"   -> {Error(store)} \cup WriteZeroChunks(store, offset, length)
    [] kind = "sparse" -> StorageSparseWriteZeroes(store, offset, length)
=============================================================================
