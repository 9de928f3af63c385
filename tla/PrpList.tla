------------------------------- MODULE PrpList -------------------------------
(***************************************************************************)
(* The parsing of a command's two PRP fields into the pieces of host       *)
(* memory its data lies in (prp.c).  An address is a number, page p takes  *)
(* the addresses p * PageSize .. p * PageSize + PageSize - 1.              *)
(***************************************************************************)
EXTENDS Words, Sequences

CONSTANTS
  PageSize,   \* VNVME_NVME_PAGE_SIZE (4096)
  LowLimit,   \* VNVME_LOW_MEMORY_LIMIT (1 MB)
  MaxPhys,    \* VNVME_MAX_PHYSICAL_ADDRESS (16 TB)
  ListPage,   \* maxEntriesPerPage: addresses in a page of a PRP list (512)
  Strays      \* what memory beside a list may hold, read as an address

ASSUME PageAssumption == PageSize \in Nat \ {0}
ASSUME AddressAssumption ==
  LowLimit \in Nat /\ MaxPhys \in Nat /\ MaxPhys + PageSize < Wide
ASSUME ListAssumption == ListPage \in Nat \ {0} /\ Strays \subseteq Nat /\ Strays # {}

VnvmeIsValidPhysicalAddress(a, length) ==
  /\ a # 0 /\ a >= LowLimit
  /\ (a + length) % Wide >= a
  /\ a <= MaxPhys

PageBase(a) == a - (a % PageSize)

Failed == [ok |-> FALSE, entries |-> << >>]
Parsed(entries) == [ok |-> TRUE, entries |-> entries]
Entry(a, length) == [address |-> a, length |-> length]

(* Mutant: the offset in the first page is not counted. *)
NumPagesAligned(prp1, length) == 1 + (length - 1) \div PageSize

(* How many pages the data touches when it starts at address prp1. *)
NumPages(prp1, length) ==
  LET first == PageSize - (prp1 % PageSize)
  IN  IF first >= length THEN 1 ELSE 1 + (length - first + PageSize - 1) \div PageSize

(* The entries the loop over a PRP list makes: entry i takes the rest of   *)
(* its page, as far as data remains.                                       *)
ListEntries(list, count, remaining) ==
  LET left[i \in 0 .. count] ==      \* remainingBytes after i entries
        IF i = 0 THEN remaining
        ELSE left[i - 1] - Smaller(PageSize - (list[i] % PageSize), left[i - 1])
      used == {i \in 1 .. count : left[i - 1] > 0}
  IN  [i \in used |-> Entry(list[i], left[i - 1] - left[i])]

(* What the loop may read as its list: memory is what the host keeps from  *)
(* address prp2 to the end of that page.  No more than a page of addresses *)
(* is mapped, but the loop goes on, beyond the end of the host's page and  *)
(* beyond that of the mapping, to whatever lies there.                     *)
PrpListReads(memory, count) ==
  {[i \in 1 .. count |-> IF i \in DOMAIN memory /\ i <= ListPage THEN memory[i] ELSE stray[i]] :
     stray \in [1 .. count -> Strays]}

(* The possible results.  Every address of the list is taken for that of a *)
(* data page, one that leads to the next page of the list too.             *)
VnvmeParsePrpList(prp1, prp2, length, memory) ==
  LET first == PageSize - (prp1 % PageSize)
      pages == NumPages(prp1, length)
      head  == Entry(prp1, Smaller(first, length))
  IN  IF length = 0 THEN {Parsed(<< >>)}
      ELSE IF ~ VnvmeIsValidPhysicalAddress(prp1, PageSize) THEN {Failed}
      ELSE IF pages = 1 THEN {Parsed(<<head>>)}
      ELSE IF ~ VnvmeIsValidPhysicalAddress(prp2, PageSize) THEN {Failed}
      ELSE IF pages = 2 THEN {Parsed(<<head, Entry(PageBase(prp2), length - first)>>)}
      ELSE {IF \E i \in 1 .. pages - 1 : ~ VnvmeIsValidPhysicalAddress(list[i], PageSize) THEN Failed
            ELSE Parsed(<<head>> \o ListEntries(list, pages - 1, length - first)) :
              list \in PrpListReads(memory, pages - 1)}
=============================================================================
