---------------------------- MODULE RdbMem_proof ----------------------------
(***************************************************************************)
(* Proofs about RdbMem: for every size of the buffer, every number of tree *)
(* nodes and all record sizes, the nodes of the tree point to allocated    *)
(* memory and their data are disjoint.                                     *)
(***************************************************************************)
EXTENDS RdbMem, TLAPS

USE MemSizeAssumption, NumNodesAssumption, SizeAssumption

(* hasRoom() asks getAvailMem() whether a record fits: then it does.        *)
LEMMA AvailFits ==
  ASSUME TypeOK, NEW s \in Nat, s <= AvailMem, RegionsApart
  PROVE  Fits(s)
BY DEF TypeOK, AvailMem, Fits, RegionsApart, Up

LEMMA InitIInv == Init => IInv
<1> SUFFICES ASSUME Init PROVE IInv
  OBVIOUS
<1>1. TypeOK
  <2>1. ptr1 \in 0 .. MemSize /\ ptr2 \in 0 .. MemSize
    BY DEF Init
  <2>2. is90 \in BOOLEAN /\ inDumpLoop \in BOOLEAN
    BY DEF Init
  <2>3. scan \in 0 .. NumNodes + 1
    BY DEF Init
  <2>4. skipped \in SUBSET live /\ lost \in SUBSET live /\ live \in SUBSET Node
    BY DEF Init
  <2>5. addr \in [Node -> Nat] /\ size \in [Node -> Nat]
    BY DEF Init
  <2> QED
    BY <2>1, <2>2, <2>3, <2>4, <2>5 DEF TypeOK
<1>2. RegionsApart /\ ScanInDump
  BY DEF Init, RegionsApart, ScanInDump
<1>3. NodesOwned /\ NodesDisjoint /\ ScannedMoved
  BY DEF Init, NodesOwned, NodesDisjoint, ScannedMoved
<1> QED
  BY <1>1, <1>2, <1>3 DEF IInv

(* A block taken from secondary memory lies in secondary memory and apart  *)
(* from everything that was allocated; what was allocated stays so.        *)
LEMMA SecondaryBlock ==
  ASSUME TypeOK, RegionsApart, NEW s \in Nat, AllocSecondary(s)
  PROVE  /\ ptr1' = ptr1 /\ ptr2' \in 0 .. MemSize /\ ptr1 # ptr2'
         /\ Up' <=> Up
         /\ SecondaryAddr(s) \in Nat
         /\ IF Up THEN SecondaryAddr(s) >= ptr2' /\ SecondaryAddr(s) + s <= MemSize
            ELSE SecondaryAddr(s) + s <= ptr2'
         /\ IF Up THEN SecondaryAddr(s) >= ptr1 /\ SecondaryAddr(s) + s <= ptr2
            ELSE SecondaryAddr(s) >= ptr2 /\ SecondaryAddr(s) + s <= ptr1
         /\ IF Up THEN ptr2' <= ptr2 ELSE ptr2' >= ptr2
BY DEF TypeOK, RegionsApart, AllocSecondary, Fits, SecondaryAddr, SecondaryNext, Up

(* The same of a block taken from primary memory.                          *)
LEMMA PrimaryBlock ==
  ASSUME TypeOK, RegionsApart, NEW s \in Nat, AllocPrimary(s)
  PROVE  /\ ptr2' = ptr2 /\ ptr1' \in 0 .. MemSize /\ ptr1' # ptr2
         /\ Up' <=> Up
         /\ PrimaryAddr(s) \in Nat
         /\ IF Up THEN PrimaryAddr(s) + s <= ptr1'
            ELSE PrimaryAddr(s) >= ptr1' /\ PrimaryAddr(s) + s <= MemSize
         /\ IF Up THEN PrimaryAddr(s) >= ptr1 /\ PrimaryAddr(s) + s <= ptr2
            ELSE PrimaryAddr(s) >= ptr2 /\ PrimaryAddr(s) + s <= ptr1
         /\ IF Up THEN ptr1' >= ptr1 ELSE ptr1' <= ptr1
BY DEF TypeOK, RegionsApart, AllocPrimary, Fits, PrimaryAddr, PrimaryNext, Up

(* An owned block of the tree keeps clear of the gap between the regions.  *)
LEMMA OwnedOutsideGap ==
  ASSUME TypeOK, RegionsApart, NEW n \in Node, Owned(n)
  PROVE  IF Up THEN addr[n] + size[n] <= ptr1 \/ addr[n] >= ptr2
         ELSE addr[n] + size[n] <= ptr2 \/ addr[n] >= ptr1
BY DEF TypeOK, RegionsApart, Owned, InPrimary, InSecondary, Up

LEMMA AddKeeps ==
  ASSUME IInv, NEW n \in Node, NEW s \in Size, AddRecord(n, s)
  PROVE  IInv'
<1> USE DEF IInv
<1>0. n \in Node /\ n \notin live /\ s \in Nat
  BY DEF AddRecord
<1>1. CASE AllocSecondary(s) /\ addr' = [addr EXCEPT ![n] = SecondaryAddr(s)]
  <2>1. /\ live' = live \union {n} /\ lost' = lost /\ scan' = scan
        /\ size' = [size EXCEPT ![n] = s] /\ inDumpLoop' = inDumpLoop
        /\ skipped' = skipped /\ is90' = is90
    BY <1>1 DEF AddRecord, AllocSecondary
  <2>2. TypeOK' /\ RegionsApart' /\ ScanInDump'
    BY <1>0, <1>1, <2>1, SecondaryBlock DEF TypeOK, RegionsApart, ScanInDump
  <2>3. \A m \in live : m # n /\ m \in Node /\ addr'[m] = addr[m] /\ size'[m] = size[m]
    BY <1>0, <1>1, <2>1 DEF TypeOK
  <2>4. addr'[n] = SecondaryAddr(s) /\ size'[n] = s /\ n \notin lost
    BY <1>0, <1>1, <2>1 DEF TypeOK
  <2>5. InSecondary(n)'
    BY <1>0, <1>1, <2>4, SecondaryBlock DEF InSecondary
  <2>6. \A m \in live : /\ InPrimary(m) => InPrimary(m)'
                        /\ InSecondary(m) => InSecondary(m)'
    BY <1>0, <1>1, <2>3, SecondaryBlock DEF InPrimary, InSecondary, TypeOK
  <2>7. NodesOwned'
    BY <2>1, <2>4, <2>5, <2>6, <2>3 DEF NodesOwned, Owned
  <2>8. ScannedMoved'
    BY <2>1, <2>4, <2>5, <2>6, <2>3 DEF ScannedMoved
  <2>9. \A m \in live \ lost : size[m] > 0 =>
          addr[m] + size[m] <= addr'[n] \/ addr'[n] + s <= addr[m]
    <3> SUFFICES ASSUME NEW m \in live \ lost, size[m] > 0
                 PROVE addr[m] + size[m] <= addr'[n] \/ addr'[n] + s <= addr[m]
      OBVIOUS
    <3>1. Owned(m) /\ m \in Node
      BY DEF NodesOwned, TypeOK
    <3> QED
      BY <1>0, <1>1, <2>4, <3>1, OwnedOutsideGap, SecondaryBlock DEF TypeOK
  <2>10. NodesDisjoint'
    BY <2>1, <2>3, <2>4, <2>9 DEF NodesDisjoint, TypeOK
  <2> QED
    BY <2>2, <2>7, <2>8, <2>10
<1>2. CASE AllocPrimary(s) /\ addr' = [addr EXCEPT ![n] = PrimaryAddr(s)]
  <2>1. /\ live' = live \union {n} /\ lost' = lost /\ scan' = scan
        /\ size' = [size EXCEPT ![n] = s] /\ inDumpLoop' = inDumpLoop
        /\ skipped' = skipped /\ is90' \in BOOLEAN
    BY <1>2 DEF AddRecord, AllocPrimary, TypeOK
  <2>2. TypeOK' /\ RegionsApart' /\ ScanInDump'
    BY <1>0, <1>2, <2>1, PrimaryBlock DEF TypeOK, RegionsApart, ScanInDump
  <2>3. \A m \in live : m # n /\ m \in Node /\ addr'[m] = addr[m] /\ size'[m] = size[m]
    BY <1>0, <1>2, <2>1 DEF TypeOK
  <2>4. addr'[n] = PrimaryAddr(s) /\ size'[n] = s /\ n \notin lost
    BY <1>0, <1>2, <2>1 DEF TypeOK
  <2>5. InPrimary(n)'
    BY <1>0, <1>2, <2>4, PrimaryBlock DEF InPrimary
  <2>6. \A m \in live : /\ InPrimary(m) => InPrimary(m)'
                        /\ InSecondary(m) => InSecondary(m)'
    BY <1>0, <1>2, <2>3, PrimaryBlock DEF InPrimary, InSecondary, TypeOK
  <2>7. NodesOwned'
    BY <2>1, <2>4, <2>5, <2>6, <2>3 DEF NodesOwned, Owned
  <2>8. ScannedMoved'
    <3>1. scan = 0
      BY <1>2 DEF AllocPrimary, ScanInDump, TypeOK
    <3> QED
      BY <3>1, <2>1, <2>2 DEF ScannedMoved, TypeOK, Node
  <2>9. \A m \in live \ lost : size[m] > 0 =>
          addr[m] + size[m] <= addr'[n] \/ addr'[n] + s <= addr[m]
    <3> SUFFICES ASSUME NEW m \in live \ lost, size[m] > 0
                 PROVE addr[m] + size[m] <= addr'[n] \/ addr'[n] + s <= addr[m]
      OBVIOUS
    <3>1. Owned(m) /\ m \in Node
      BY DEF NodesOwned, TypeOK
    <3> QED
      BY <1>0, <1>2, <2>4, <3>1, OwnedOutsideGap, PrimaryBlock DEF TypeOK
  <2>10. NodesDisjoint'
    BY <2>1, <2>3, <2>4, <2>9 DEF NodesDisjoint, TypeOK
  <2> QED
    BY <2>2, <2>7, <2>8, <2>10
<1> QED
  BY <1>1, <1>2 DEF AddRecord
LEMMA DeleteKeeps ==
  ASSUME IInv, NEW n \in Node, DeleteNode(n)
  PROVE  IInv'
<1>1. /\ live' = live \ {n} /\ lost' = lost \ {n} /\ skipped' = skipped \ {n}
      /\ addr' = [addr EXCEPT ![n] = 0] /\ size' = [size EXCEPT ![n] = 0]
      /\ UNCHANGED <<ptr1, ptr2, is90, inDumpLoop, scan>>
  BY DEF DeleteNode
<1>2. TypeOK'
  BY <1>1 DEF IInv, TypeOK
<1>3. RegionsApart' /\ ScanInDump'
  BY <1>1 DEF IInv, RegionsApart, ScanInDump
<1>4. \A m \in live' \ lost' : m \in live \ lost /\ addr'[m] = addr[m] /\ size'[m] = size[m]
  BY <1>1 DEF IInv, TypeOK
<1>5. \A m \in live' \ lost' : /\ InPrimary(m)' <=> InPrimary(m)
                               /\ InSecondary(m)' <=> InSecondary(m)
  BY <1>1, <1>4 DEF InPrimary, InSecondary, Up
<1>6. NodesOwned'
  BY <1>4, <1>5 DEF IInv, NodesOwned, Owned
<1>7. NodesDisjoint'
  BY <1>4 DEF IInv, NodesDisjoint
<1>8. ScannedMoved'
  BY <1>1, <1>4, <1>5 DEF IInv, ScannedMoved
<1> QED
  BY <1>2, <1>3, <1>6, <1>7, <1>8 DEF IInv

(* Steps that leave the regions and the nodes alone.                       *)
LEMMA QuietKeeps ==
  ASSUME IInv, UNCHANGED <<ptr1, ptr2, is90, live, addr, size, lost>>,
         skipped' \in SUBSET live, scan' \in {0, 1} \/ UNCHANGED scan,
         inDumpLoop' \in BOOLEAN, scan' > 0 => inDumpLoop'
  PROVE  IInv'
<1>1. TypeOK'
  BY NumNodesAssumption DEF IInv, TypeOK
<1>2. RegionsApart' /\ ScanInDump'
  BY DEF IInv, RegionsApart, ScanInDump
<1>3. \A m \in Node : /\ InPrimary(m)' <=> InPrimary(m)
                      /\ InSecondary(m)' <=> InSecondary(m)
  BY DEF InPrimary, InSecondary, Up
<1>4. NodesOwned' /\ NodesDisjoint'
  BY <1>3 DEF IInv, NodesOwned, NodesDisjoint, Owned, TypeOK
<1>5. ScannedMoved'
  BY <1>3 DEF IInv, ScannedMoved, TypeOK, Node
<1> QED
  BY <1>1, <1>2, <1>4, <1>5 DEF IInv

LEMMA KeepKeeps ==
  ASSUME IInv, NEW n \in Node, Keep(n)
  PROVE  IInv'
<1>1. /\ n = scan /\ scan' = scan + 1
      /\ UNCHANGED <<ptr1, ptr2, is90, inDumpLoop, skipped, live, addr, size, lost>>
  BY DEF Keep
<1>2. TypeOK'
  BY <1>1 DEF IInv, TypeOK, Node
<1>3. RegionsApart' /\ ScanInDump'
  BY <1>1 DEF IInv, RegionsApart, ScanInDump, Node
<1>4. \A m \in Node : /\ InPrimary(m)' <=> InPrimary(m)
                      /\ InSecondary(m)' <=> InSecondary(m)
  BY <1>1 DEF InPrimary, InSecondary, Up
<1>5. NodesOwned' /\ NodesDisjoint'
  BY <1>1, <1>4 DEF IInv, NodesOwned, NodesDisjoint, Owned, TypeOK
<1>6. n \in live \ lost /\ size[n] > 0 => InSecondary(n)
  <2> SUFFICES ASSUME n \in live \ lost, size[n] > 0
               PROVE  InSecondary(n)
    OBVIOUS
  <2>1. ~NeedsMove(n)
    BY DEF Keep
  <2>2. Owned(n)
    BY DEF IInv, NodesOwned
  <2> QED
    BY <2>1, <2>2 DEF NeedsMove, Owned, InPrimary, IInv, TypeOK, Up
<1>7. ScannedMoved'
  <2> SUFFICES ASSUME NEW m \in live \ lost, m < scan + 1, size[m] > 0
               PROVE  InSecondary(m)
    BY <1>1, <1>4 DEF ScannedMoved, IInv, TypeOK
  <2>1. m < scan \/ m = n
    BY <1>1 DEF IInv, TypeOK, Node
  <2> QED
    BY <2>1, <1>6 DEF IInv, ScannedMoved
<1> QED
  BY <1>2, <1>3, <1>5, <1>7 DEF IInv

LEMMA MoveKeeps ==
  ASSUME IInv, NEW n \in Node, Move(n)
  PROVE  IInv'
<1> DEFINE s == size[n]
<1>1. /\ n = scan /\ scan' = scan + 1 /\ n \in live /\ s \in Nat
      /\ AllocSecondary(s)
      /\ addr' = [addr EXCEPT ![n] = SecondaryAddr(s)]
      /\ is90' = is90
      /\ UNCHANGED <<inDumpLoop, skipped, live, size, lost>>
  BY DEF Move, AllocSecondary, IInv, TypeOK
<1> HIDE DEF s
<1>2. TypeOK' /\ RegionsApart' /\ ScanInDump'
  <2>1. ptr1' \in 0 .. MemSize /\ ptr2' \in 0 .. MemSize /\ RegionsApart'
    BY <1>1, SecondaryBlock DEF IInv, TypeOK, RegionsApart
  <2>2. addr' \in [Node -> Nat]
    BY <1>1, SecondaryBlock DEF IInv, TypeOK
  <2>3. scan' \in 0 .. NumNodes + 1 /\ inDumpLoop
    BY <1>1 DEF IInv, TypeOK, AllocSecondary, Node
  <2> QED
    BY <1>1, <2>1, <2>2, <2>3 DEF IInv, TypeOK, ScanInDump
<1>3. \A m \in live : m # n => addr'[m] = addr[m] /\ size'[m] = size[m]
  BY <1>1 DEF IInv, TypeOK
<1>4. addr'[n] = SecondaryAddr(s) /\ size'[n] = s
  BY <1>1 DEF IInv, TypeOK, s
<1>5. InSecondary(n)'
  BY <1>1, <1>4, SecondaryBlock DEF IInv, InSecondary
<1>6. \A m \in live : m # n => /\ InPrimary(m) => InPrimary(m)'
                               /\ InSecondary(m) => InSecondary(m)'
  BY <1>1, <1>3, SecondaryBlock DEF IInv, InPrimary, InSecondary, TypeOK
<1>7. NodesOwned'
  BY <1>1, <1>3, <1>4, <1>5, <1>6 DEF IInv, NodesOwned, Owned
<1>8. ScannedMoved'
  <2> SUFFICES ASSUME NEW m \in live \ lost, m < scan + 1, size[m] > 0, m # n
               PROVE  InSecondary(m)'
    BY <1>1, <1>5 DEF ScannedMoved, IInv, TypeOK
  <2>1. m < scan
    BY <1>1 DEF IInv, TypeOK, Node
  <2> QED
    BY <2>1, <1>6 DEF IInv, ScannedMoved
<1>9. \A m \in live \ lost : m # n /\ size[m] > 0 =>
        addr[m] + size[m] <= addr'[n] \/ addr'[n] + s <= addr[m]
  <2> SUFFICES ASSUME NEW m \in live \ lost, m # n, size[m] > 0
               PROVE addr[m] + size[m] <= addr'[n] \/ addr'[n] + s <= addr[m]
    OBVIOUS
  <2>1. Owned(m) /\ m \in Node
    BY DEF IInv, NodesOwned, TypeOK
  <2> QED
    BY <1>1, <1>4, <2>1, OwnedOutsideGap, SecondaryBlock DEF IInv, TypeOK
<1>10. NodesDisjoint'
  BY <1>1, <1>3, <1>4, <1>9 DEF IInv, NodesDisjoint, TypeOK
<1> QED
  BY <1>2, <1>7, <1>8, <1>10 DEF IInv

LEMMA MoveFailsKeeps ==
  ASSUME IInv, NEW n \in Node, MoveFails(n)
  PROVE  IInv'
<1>1. /\ n = scan /\ scan' = scan + 1 /\ n \in live /\ lost' = lost \union {n}
      /\ UNCHANGED <<ptr1, ptr2, is90, inDumpLoop, skipped, live, addr, size>>
  BY DEF MoveFails
<1>2. TypeOK'
  BY <1>1 DEF IInv, TypeOK, Node
<1>3. RegionsApart' /\ ScanInDump'
  BY <1>1 DEF IInv, RegionsApart, ScanInDump, Node
<1>4. \A m \in Node : /\ InPrimary(m)' <=> InPrimary(m)
                      /\ InSecondary(m)' <=> InSecondary(m)
  BY <1>1 DEF InPrimary, InSecondary, Up
<1>5. NodesOwned' /\ NodesDisjoint'
  BY <1>1, <1>4 DEF IInv, NodesOwned, NodesDisjoint, Owned, TypeOK
<1>6. ScannedMoved'
  <2> SUFFICES ASSUME NEW m \in live \ lost, m # n, m < scan + 1, size[m] > 0
               PROVE  InSecondary(m)
    BY <1>1, <1>4 DEF ScannedMoved, IInv, TypeOK
  <2>1. m < scan
    BY <1>1 DEF IInv, TypeOK, Node
  <2> QED
    BY <2>1 DEF IInv, ScannedMoved
<1> QED
  BY <1>2, <1>3, <1>5, <1>6 DEF IInv

(* The swap renames secondary memory to primary memory: by then every node *)
(* lies there.                                                             *)
LEMMA SwapKeeps ==
  ASSUME IInv, Swap
  PROVE  IInv'
<1>1. /\ scan = NumNodes + 1 /\ scan' = 0 /\ ptr1' = ptr2
      /\ ptr2' = IF ptr1 > ptr2 THEN MemSize ELSE 0
      /\ is90' = FALSE /\ inDumpLoop' = FALSE /\ skipped' = {}
      /\ UNCHANGED <<live, addr, size, lost>>
  BY DEF Swap
<1>2. TypeOK' /\ RegionsApart' /\ ScanInDump'
  <2>1. ptr1' \in 0 .. MemSize /\ ptr2' \in 0 .. MemSize /\ RegionsApart'
    BY <1>1 DEF IInv, TypeOK, RegionsApart
  <2>2. ScanInDump' /\ scan' \in 0 .. NumNodes + 1
    BY <1>1 DEF ScanInDump
  <2> QED
    BY <1>1, <2>1, <2>2 DEF IInv, TypeOK
<1>3. \A m \in live \ lost : size[m] > 0 => InSecondary(m)
  BY <1>1 DEF IInv, ScannedMoved, TypeOK, Node
<1>4. \A m \in live \ lost : InSecondary(m) => InPrimary(m)'
  BY <1>1 DEF IInv, InSecondary, InPrimary, Up, TypeOK, RegionsApart
<1>5. NodesOwned'
  BY <1>1, <1>3, <1>4 DEF NodesOwned, Owned
<1>6. NodesDisjoint'
  BY <1>1 DEF IInv, NodesDisjoint
<1>7. ScannedMoved'
  BY <1>1, <1>2 DEF ScannedMoved, TypeOK, Node
<1> QED
  BY <1>2, <1>5, <1>6, <1>7 DEF IInv

LEMMA NextIInv ==
  ASSUME IInv, [Next]_vars
  PROVE  IInv'
<1>1. CASE \E n \in Node, s \in Size : AddRecord(n, s)
  BY <1>1, AddKeeps
<1>2. CASE \E n \in Node : DeleteNode(n) \/ Keep(n) \/ Move(n) \/ MoveFails(n)
  BY <1>2, DeleteKeeps, KeepKeeps, MoveKeeps, MoveFailsKeeps
<1>3. CASE \E S \in SUBSET live : StartDump(S)
  BY <1>3, QuietKeeps DEF StartDump, IInv, ScanInDump
<1>4. CASE FailDump
  <2>1. skipped' = {} /\ scan' = 0 /\ inDumpLoop' = FALSE
    BY <1>4 DEF FailDump
  <2>2. skipped' \in SUBSET live /\ ~(scan' > 0)
    BY <2>1
  <2> QED
    BY <1>4, <2>1, <2>2, QuietKeeps DEF FailDump
<1>5. CASE BeginFree
  BY <1>5, QuietKeeps DEF BeginFree, IInv, TypeOK
<1>6. CASE Swap
  BY <1>6, SwapKeeps
<1>7. CASE UNCHANGED vars
  BY <1>7, QuietKeeps DEF vars, IInv, TypeOK, ScanInDump
<1> QED
  BY <1>1, <1>2, <1>3, <1>4, <1>5, <1>6, <1>7 DEF Next

THEOREM Inductive == Spec => []IInv
BY InitIInv, NextIInv, PTL DEF Spec

(* The pointers stay inside the buffer and the tree's arrays well formed.  *)
THEOREM TypeCorrect == Spec => []TypeOK
<1>1. IInv => TypeOK
  BY DEF IInv
<1> QED
  BY <1>1, Inductive, PTL

(* Nothing in the tree points to memory freeDumpedMem() has given back,    *)
(* but for the nodes whose move it reported as failed.                     *)
THEOREM Ownership == Spec => []NodesOwned
<1>1. IInv => NodesOwned
  BY DEF IInv
<1> QED
  BY <1>1, Inductive, PTL

(* No two records share a byte of the buffer.                              *)
THEOREM Disjointness == Spec => []NodesDisjoint
<1>1. IInv => NodesDisjoint
  BY DEF IInv
<1> QED
  BY <1>1, Inductive, PTL

(* The test freeDumpedMem() logs "still needs move!" for never succeeds.   *)
THEOREM NeverStillNeedsMove == Spec => MovesOutOfPrimary
<1> DEFINE A == \A n \in Node : scan = n /\ addr'[n] # addr[n] /\ n \in live'
                                  => ~NeedsMove(n)'
<1>1. IInv /\ [Next]_vars => [A]_vars
  <2> SUFFICES ASSUME IInv, Next, NEW n \in Node, scan = n, n \in live',
                      addr'[n] # addr[n]
               PROVE  ~NeedsMove(n)'
    OBVIOUS
  <2>1. inDumpLoop /\ scan > 0
    BY DEF IInv, ScanInDump, TypeOK, Node
  <2>2. CASE \E m \in Node, s \in Size : AddRecord(m, s)
    <3>1. PICK s \in Size : AddRecord(n, s)
      BY <2>2 DEF AddRecord, IInv, TypeOK
    <3>2. AllocSecondary(s) /\ addr'[n] = SecondaryAddr(s)
      BY <3>1, <2>1 DEF AddRecord, AllocPrimary, IInv, TypeOK
    <3> QED
      BY <3>2, SecondaryBlock DEF IInv, NeedsMove, TypeOK, Up
  <2>3. CASE \E m \in Node : Move(m)
    <3>1. Move(n)
      BY <2>3 DEF Move
    <3>2. AllocSecondary(size[n]) /\ addr'[n] = SecondaryAddr(size[n]) /\ size[n] > 0
      BY <3>1 DEF Move, IInv, TypeOK
    <3> QED
      BY <3>2, SecondaryBlock DEF IInv, NeedsMove, TypeOK, Up
  <2>4. CASE \E m \in Node : DeleteNode(m) \/ Keep(m) \/ MoveFails(m)
    BY <2>4 DEF DeleteNode, Keep, MoveFails, IInv, TypeOK
  <2>5. CASE (\E S \in SUBSET live : StartDump(S)) \/ FailDump \/ BeginFree \/ Swap
    BY <2>5 DEF StartDump, FailDump, BeginFree, Swap
  <2> QED
    BY <2>2, <2>3, <2>4, <2>5 DEF Next
<1> QED
  BY <1>1, Inductive, PTL DEF Spec, MovesOutOfPrimary
=============================================================================
