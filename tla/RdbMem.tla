------------------------------- MODULE RdbMem -------------------------------
(***************************************************************************)
(* The two-ended memory allocator of an Rdb (RdbMem.cpp) together with the *)
(* RdbTree nodes that point into it.                                       *)
(*                                                                         *)
(* One buffer holds two regions that grow towards each other: primary      *)
(* memory, bounded by ptr1, and secondary memory, bounded by ptr2.         *)
(* Records added while the tree is being dumped to disk go to secondary    *)
(* memory.  When the dump is over primary memory is thrown away as a whole *)
(* and the two regions swap roles, after the nodes that still point into   *)
(* primary memory have been copied over to secondary memory.               *)
(***************************************************************************)
EXTENDS Integers

CONSTANTS MemSize,   \* m_memSize, in bytes
          NumNodes,  \* slots of the tree's m_data and m_sizes arrays
          Size       \* the data sizes a record may have

ASSUME MemSizeAssumption == MemSize \in Nat \ {0}
ASSUME NumNodesAssumption == NumNodes \in Nat
ASSUME SizeAssumption == Size \subseteq Nat

Node == 1 .. NumNodes

VARIABLES
  ptr1,        \* m_ptr1, as an offset into m_mem
  ptr2,        \* m_ptr2
  is90,        \* m_is90PercentFull
  inDumpLoop,  \* Rdb::m_inDumpLoop
  skipped,     \* nodes of collections the running dump has no file for
  scan,        \* 0, or the node freeDumpedMem() looks at next
  live,        \* the occupied nodes of the tree
  addr,        \* RdbTree::m_data
  size,        \* RdbTree::m_sizes
  lost         \* history: nodes freeDumpedMem() could not move

vars == <<ptr1, ptr2, is90, inDumpLoop, skipped, scan, live, addr, size, lost>>

-----------------------------------------------------------------------------
(* Primary memory grows upward when it is the left one of the two regions. *)
Up == ptr1 < ptr2

(* getAvailMem() *)
AvailMem == IF ptr1 = ptr2 THEN 0
            ELSE IF Up THEN ptr2 - ptr1 - 1 ELSE ptr1 - ptr2 - 1

(* Mutant: the regions may meet, and then nobody knows which way they grow. *)
FitsTouching(s) == IF Up THEN ptr1 + s <= ptr2 ELSE ptr2 + s <= ptr1

(* allocData() returns NULL when the regions would touch. *)
Fits(s) == IF Up THEN ptr1 + s < ptr2 ELSE ptr2 + s < ptr1

(* Mutant: secondary memory grows upward whichever side it is on. *)
SecondaryNextUp(s) == ptr2 + s

(* The address allocData() returns, and the pointer it moves. *)
SecondaryAddr(s) == IF Up THEN ptr2 - s ELSE ptr2

SecondaryNext(s) == IF Up THEN ptr2 - s ELSE ptr2 + s

PrimaryAddr(s)   == IF Up THEN ptr1 ELSE ptr1 - s
PrimaryNext(s)   == IF Up THEN ptr1 + s ELSE ptr1 - s

(* m_90up and m_90down *)
Limit == (MemSize * 90) \div 100
Past90(p) == IF Up THEN p > Limit ELSE p < MemSize - Limit

(* Mutant: the test of a region that grows upward, always. *)
NeedsMoveUpward(n) == addr[n] < ptr1

(* freeDumpedMem()'s test for data that lies in the memory just dumped. *)
NeedsMove(n) == IF Up THEN addr[n] < ptr1 ELSE addr[n] >= ptr1

Init ==
  /\ ptr1 = 0
  /\ ptr2 = MemSize
  /\ is90 = FALSE
  /\ inDumpLoop = FALSE
  /\ skipped = {}
  /\ scan = 0
  /\ live = {}
  /\ addr = [n \in Node |-> 0]
  /\ size = [n \in Node |-> 0]
  /\ lost = {}

-----------------------------------------------------------------------------
(* allocData() while a dump runs: always from secondary memory. *)
AllocSecondary(s) ==
  /\ inDumpLoop
  /\ Fits(s)
  /\ ptr2' = SecondaryNext(s)
  /\ UNCHANGED <<ptr1, is90>>

(* allocData() otherwise. *)
AllocPrimary(s) ==
  /\ ~inDumpLoop
  /\ Fits(s)
  /\ ptr1' = PrimaryNext(s)
  /\ is90' = (is90 \/ Past90(ptr1'))
  /\ UNCHANGED ptr2

(* A record with data enters an unoccupied node.  When the allocation fails *)
(* the caller gets ETRYAGAIN and nothing has changed.                       *)
AddRecord(n, s) ==
  /\ n \notin live
  /\ \/ AllocSecondary(s) /\ addr' = [addr EXCEPT ![n] = SecondaryAddr(s)]
     \/ AllocPrimary(s)   /\ addr' = [addr EXCEPT ![n] = PrimaryAddr(s)]
  /\ live' = live \union {n}
  /\ size' = [size EXCEPT ![n] = s]
  /\ UNCHANGED <<inDumpLoop, skipped, scan, lost>>

(* A node leaves the tree: annihilated, overwritten, or on disk by now. The *)
(* tree does not own the data, so no memory is given back.                  *)
DeleteNode(n) ==
  /\ n \in live
  /\ live' = live \ {n}
  /\ addr' = [addr EXCEPT ![n] = 0]
  /\ size' = [size EXCEPT ![n] = 0]
  /\ lost' = lost \ {n}
  /\ skipped' = skipped \ {n}
  /\ UNCHANGED <<ptr1, ptr2, is90, inDumpLoop, scan>>

(* RdbDump::set() for the first collection that gets a file.  dumpCollLoop()*)
(* passes over the nodes S of the collections that have too many files.     *)
StartDump(S) ==
  /\ ~inDumpLoop
  /\ S \subseteq live /\ S # live
  /\ inDumpLoop' = TRUE
  /\ skipped' = S
  /\ UNCHANGED <<ptr1, ptr2, is90, scan, live, addr, size, lost>>

(* doneDumping() with m_dumpErrno set: primary memory is kept. *)
FailDump ==
  /\ inDumpLoop
  /\ scan = 0
  /\ inDumpLoop' = FALSE
  /\ skipped' = {}
  /\ UNCHANGED <<ptr1, ptr2, is90, scan, live, addr, size, lost>>

(* doneDumping() without an error enters freeDumpedMem().  Every node that  *)
(* was in the tree when the dump began has been dumped and deleted, except  *)
(* those of the collections that were passed over.                          *)
BeginFree ==
  /\ inDumpLoop
  /\ scan = 0
  /\ \A n \in live : NeedsMove(n) /\ size[n] > 0 => n \in skipped
  /\ scan' = 1
  /\ UNCHANGED <<ptr1, ptr2, is90, inDumpLoop, skipped, live, addr, size, lost>>

(* One turn of the loop of freeDumpedMem(): the node needs no move,         *)
Keep(n) ==
  /\ n = scan
  /\ n \notin live \/ ~NeedsMove(n) \/ size[n] = 0
  /\ scan' = scan + 1
  /\ UNCHANGED <<ptr1, ptr2, is90, inDumpLoop, skipped, live, addr, size, lost>>

(* it is copied to secondary memory,                                        *)
Move(n) ==
  /\ n = scan
  /\ n \in live /\ NeedsMove(n) /\ size[n] # 0
  /\ AllocSecondary(size[n])
  /\ addr' = [addr EXCEPT ![n] = SecondaryAddr(size[n])]
  /\ scan' = scan + 1
  /\ UNCHANGED <<inDumpLoop, skipped, live, size, lost>>

(* or there is no room for the copy: that is logged and the loop goes on.   *)
MoveFails(n) ==
  /\ n = scan
  /\ n \in live /\ NeedsMove(n) /\ size[n] # 0
  /\ ~Fits(size[n])
  /\ lost' = lost \union {n}
  /\ scan' = scan + 1
  /\ UNCHANGED <<ptr1, ptr2, is90, inDumpLoop, skipped, live, addr, size>>

(* freeDumpedMem() swaps the regions and doneDumping() leaves dump mode. *)
Swap ==
  /\ scan = NumNodes + 1
  /\ ptr1' = ptr2
  /\ ptr2' = IF ptr1 > ptr2 THEN MemSize ELSE 0
  /\ is90' = FALSE
  /\ scan' = 0
  /\ inDumpLoop' = FALSE
  /\ skipped' = {}
  /\ UNCHANGED <<live, addr, size, lost>>

Next ==
  \/ \E n \in Node, s \in Size : AddRecord(n, s)
  \/ \E n \in Node : DeleteNode(n) \/ Keep(n) \/ Move(n) \/ MoveFails(n)
  \/ \E S \in SUBSET live : StartDump(S)
  \/ FailDump \/ BeginFree \/ Swap

Spec == Init /\ [][Next]_vars

-----------------------------------------------------------------------------
(* Types; the offsets stay inside the buffer. *)
TypeOK ==
  /\ ptr1 \in 0 .. MemSize
  /\ ptr2 \in 0 .. MemSize
  /\ is90 \in BOOLEAN
  /\ inDumpLoop \in BOOLEAN
  /\ skipped \in SUBSET live
  /\ scan \in 0 .. NumNodes + 1
  /\ live \in SUBSET Node
  /\ addr \in [Node -> Nat]
  /\ size \in [Node -> Nat]
  /\ lost \in SUBSET live

InPrimary(n) ==
  IF Up THEN addr[n] + size[n] <= ptr1
  ELSE addr[n] >= ptr1 /\ addr[n] + size[n] <= MemSize

InSecondary(n) ==
  IF Up THEN addr[n] >= ptr2 /\ addr[n] + size[n] <= MemSize
  ELSE addr[n] + size[n] <= ptr2

Owned(n) == InPrimary(n) \/ InSecondary(n)

(* The tree points nowhere but into memory that is allocated at the moment: *)
(* freeDumpedMem() never resets a region some node still refers to, but for *)
(* the nodes whose move it has logged as failed.                            *)
NodesOwned == \A n \in live \ lost : size[n] > 0 => Owned(n)

(* The data of two records never overlap in the buffer, whichever way the   *)
(* regions grow and however many dumps came between the two additions.      *)
NodesDisjoint ==
  \A m, n \in live \ lost :
    m # n /\ size[m] > 0 /\ size[n] > 0
      => addr[m] + size[m] <= addr[n] \/ addr[n] + size[n] <= addr[m]

(* What makes the swap safe: the two regions never meet, so the direction of *)
(* their growth can be told from their order; freeDumpedMem() runs in dump   *)
(* mode only, so its copies and all records added in between come from       *)
(* secondary memory; and it has left nothing behind it in primary memory.    *)
RegionsApart == ptr1 # ptr2
ScanInDump == scan > 0 => inDumpLoop
ScannedMoved ==
  \A n \in live \ lost : n < scan /\ size[n] > 0 => InSecondary(n)

IInv == /\ TypeOK
        /\ RegionsApart
        /\ ScanInDump
        /\ NodesOwned
        /\ NodesDisjoint
        /\ ScannedMoved

(* "this should never happen!!": the copy freeDumpedMem() makes of a node   *)
(* is not in the memory it is about to free.                                *)
MovesOutOfPrimary ==
  [][\A n \in Node : scan = n /\ addr'[n] # addr[n] /\ n \in live'
                       => ~NeedsMove(n)']_vars

(* freeDumpedMem() moves the data nodes that are left in primary memory "to *)
(* avoid corruption" (RdbMem.cpp:194): no node of the tree points to memory *)
(* that has been given back.                                                *)
NoNodeLeftBehind ==
  scan = 0 => \A n \in live : size[n] > 0 => Owned(n)

=============================================================================
