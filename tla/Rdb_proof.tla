------------------------------ MODULE Rdb_proof -----------------------------
(***************************************************************************)
(* No acknowledged record is lost between the tree, the chunk being        *)
(* dumped, the files and the file of a half-done merge: for any number of  *)
(* keys and files, any choice of the files to merge, chopped heads and     *)
(* forced merges included.                                                 *)
(***************************************************************************)
EXTENDS Rdb, FiniteSetTheorems, WellFoundedInduction, TLAPS

-----------------------------------------------------------------------------
(* The files that together have the records of a key: the merge file stands *)
(* in for the files it merges once the merge has passed the key.            *)
Sources(k) == IF merge = "idle" THEN fileIds
              ELSE IF k < cursor THEN fileIds \ window
              ELSE fileIds \ {MergeId}

Newest(k, f) ==
  /\ f \in Sources(k)
  /\ recs[f][k].head # NoRec
  /\ \A g \in Sources(k) : recs[g][k].head # NoRec => g <= f

Held(k) ==
  \/ tree[k] = store[k]
  \/ /\ tree[k] = NoRec
     /\ \E f \in FileId : Newest(k, f) /\ ValueOf(recs[f][k]) = store[k]

NothingLost == \A k \in Key : store[k] # NoRec => Held(k)

(* A slot is filled from its head, and only the files of the list have      *)
(* records.                                                                 *)
SlotsFilled ==
  \A f \in FileId, k \in Key : recs[f][k].next # NoRec => recs[f][k].head # NoRec

AbsentEmpty ==
  \A f \in FileId \ fileIds : \A k \in Key : recs[f][k].head = NoRec

(* The file being dumped to is the newest one and has the records before    *)
(* nextKey only; the records of the chunk are still in the tree, or their   *)
(* twins are.                                                               *)
DumpNewest ==
  dump # "idle" =>
    dumpId \in fileIds /\ \A f \in fileIds : f <= dumpId

DumpOrder ==
  dump # "idle" => \A k \in Key :
    /\ recs[dumpId][k].head # NoRec => Signed(k, recs[dumpId][k].head) < nextKey
    /\ recs[dumpId][k].next # NoRec => 2 * k + 1 < nextKey

ChunkInTree ==
  dump = "write" => \A k \in Key : queue[k] # NoRec =>
    /\ tree[k] # NoRec
    /\ Signed(k, tree[k]) = Signed(k, queue[k]) => tree[k] = queue[k]
    /\ Signed(k, queue[k]) < nextKey
    /\ recs[dumpId][k].next = NoRec
    /\ recs[dumpId][k].head # NoRec =>
         recs[dumpId][k].head = Neg /\ queue[k] \in Data

(* The files being merged stand together in the list, right behind the file *)
(* they are merged into and before the one being dumped to.                 *)
MergeWindow ==
  merge # "idle" =>
    /\ window # {} /\ window \subseteq fileIds
    /\ MergeId \in fileIds
    /\ dump # "idle" => dumpId \notin window
    /\ \A f \in fileIds \ window : f <= MergeId \/ \A w \in window : w < f
    /\ merge = "unlinking" => cursor = NumKeys + 1

IInv == /\ TypeOK /\ SlotsFilled /\ AbsentEmpty /\ DumpNewest /\ DumpOrder
        /\ ChunkInTree /\ MergeWindow /\ NothingLost

-----------------------------------------------------------------------------
LEMMA FileIdNat == \A f \in FileId : f \in Nat
BY IdAssumption DEF FileId

(* A nonempty set of file ids has a least and a greatest element. *)
LEMMA LeastNat ==
  ASSUME NEW S \in SUBSET Nat, S # {}
  PROVE  \E m \in S : \A y \in S : m <= y
<1> DEFINE R == {p \in Nat \X Nat : p[1] < p[2]}
<1>1. IsWellFoundedOn(R, Nat)
  BY NatLessThanWellFounded DEF OpToRel
<1>2. PICK x \in S : \A y \in S : ~ (<<y, x>> \in R)
  <2> HIDE DEF R
  <2> QED BY <1>1, WFMin
<1>3. \A y \in S : x <= y
  <2> SUFFICES ASSUME NEW y \in S, ~ (x <= y) PROVE FALSE
    OBVIOUS
  <2>1. x \in Nat /\ y \in Nat /\ y < x
    OBVIOUS
  <2>2. <<y, x>> \in R
    BY <2>1
  <2> QED BY <2>2, <1>2
<1> QED BY <1>3

LEMMA MinFacts ==
  ASSUME NEW S \in SUBSET FileId, S # {}
  PROVE  MinOf(S) \in S /\ \A y \in S : MinOf(S) <= y
<1>1. \E m \in S : \A y \in S : m <= y
  BY LeastNat, IdAssumption DEF FileId
<1> QED BY <1>1 DEF MinOf

LEMMA MaxFacts ==
  ASSUME NEW S \in SUBSET FileId, S # {}
  PROVE  MaxOf(S) \in S /\ \A y \in S : y <= MaxOf(S)
<1> DEFINE T == {MaxId - y : y \in S}
<1>1. T \in SUBSET Nat /\ T # {}
  <2>1. \A y \in S : MaxId - y \in Nat
    BY IdAssumption DEF FileId
  <2> QED BY <2>1
<1>2. PICK m \in T : \A y \in T : m <= y
  <2> HIDE DEF T
  <2> QED BY <1>1, LeastNat
<1>3. PICK x \in S : m = MaxId - x
  BY <1>2
<1>4. \A y \in S : y <= x
  <2>1. \A y \in S : MaxId - x <= MaxId - y
    BY <1>2, <1>3
  <2> QED BY <2>1, IdAssumption DEF FileId
<1> QED BY <1>4 DEF MaxOf

(* The file merged into comes right before those it merges. *)
LEMMA WindowFacts ==
  ASSUME TypeOK, window # {}
  PROVE  /\ MinOf(window) \in window
         /\ MergeId = MinOf(window) - 1
         /\ \A w \in window : MergeId < w
<1>1. MinOf(window) \in window /\ \A w \in window : MinOf(window) <= w
  BY MinFacts DEF TypeOK
<1>2. \A w \in window : w \in Nat
  BY FileIdNat DEF TypeOK
<1>3. MinOf(window) \in Nat
  BY <1>1, <1>2
<1> QED BY <1>1, <1>2, <1>3 DEF MergeId

(* A new file comes after all others. *)
LEMMA NewIdFacts ==
  ASSUME TypeOK
  PROVE  NewId \in Nat /\ \A f \in fileIds : f < NewId
<1> DEFINE past == IF fileIds = {} THEN 0 ELSE MaxOf(fileIds) + 1
<1>1. past \in Nat /\ \A f \in fileIds : f < past
  <2>1. CASE fileIds = {}
    BY <2>1
  <2>2. CASE fileIds # {}
    <3>1. MaxOf(fileIds) \in fileIds /\ \A f \in fileIds : f <= MaxOf(fileIds)
      BY <2>2, MaxFacts DEF TypeOK
    <3>2. \A f \in fileIds : f \in Nat
      BY FileIdNat DEF TypeOK
    <3>3. MaxOf(fileIds) \in Nat
      BY <3>1, <3>2
    <3> QED BY <2>2, <3>1, <3>2, <3>3
  <2> QED BY <2>1, <2>2
<1>2. NewId = past \/ NewId = past + 1
  BY DEF NewId
<1> HIDE DEF past
<1>3. \A f \in fileIds : f \in Nat
  BY FileIdNat DEF TypeOK
<1> QED BY <1>1, <1>2, <1>3

(* merge_r() gives a slot, an empty one for empty ones. *)
LEMMA MergedSlotType ==
  ASSUME TypeOK, NEW F \in SUBSET FileId, NEW k \in Key, NEW b \in BOOLEAN
  PROVE  LET s == MergedSlot(F, k, b)
         IN  s \in Slot /\ (s.next # NoRec => s.head # NoRec)
<1> DEFINE s == MergedSlot(F, k, b)
<1>1. CASE Filled(F, k) = {}
  BY <1>1 DEF MergedSlot, Empty, Slot
<1>2. CASE Filled(F, k) # {}
  <2>1. MaxOf(Filled(F, k)) \in Filled(F, k)
    BY <1>2, MaxFacts DEF Filled
  <2>2. Doubles(F, k) # {} => MaxOf(Doubles(F, k)) \in Doubles(F, k)
    BY MaxFacts DEF Doubles
  <2> DEFINE g == MaxOf(Filled(F, k))
             h == MaxOf(Doubles(F, k))
             first == recs[g][k].head
             drop == b /\ first = Neg
             second == IF Doubles(F, k) = {} \/ (drop /\ g > h)
                       THEN NoRec ELSE recs[h][k].next
  <2>3. first \in Rec /\ first # NoRec
    BY <2>1 DEF Filled, TypeOK, Slot
  <2>4. second \in Data \union {NoRec}
    BY <2>2 DEF Doubles, TypeOK, Slot
  <2>5. s = IF drop THEN [head |-> second, next |-> NoRec]
            ELSE [head |-> first, next |-> second]
    BY <1>2 DEF MergedSlot
  <2> HIDE DEF first, second, drop, s
  <2>6. CASE drop
    <3>1. s = [head |-> second, next |-> NoRec]
      BY <2>5, <2>6
    <3> QED BY <2>4, <3>1 DEF Slot, Rec, s
  <2>7. CASE ~drop
    <3>1. s = [head |-> first, next |-> second]
      BY <2>5, <2>7
    <3> QED BY <2>3, <2>4, <3>1 DEF Slot, s
  <2> QED BY <2>6, <2>7
<1> QED BY <1>1, <1>2

(* What the newest file gives of a key, the merged slot gives as well, also *)
(* when a negative record has been dropped from before it.                  *)
LEMMA MergedSlotValue ==
  ASSUME TypeOK, SlotsFilled,
         NEW F \in SUBSET FileId, NEW k \in Key, NEW b \in BOOLEAN,
         NEW f \in F, recs[f][k].head # NoRec,
         \A g \in F : recs[g][k].head # NoRec => g <= f,
         ValueOf(recs[f][k]) # NoRec
  PROVE  LET s == MergedSlot(F, k, b)
         IN  s.head # NoRec /\ ValueOf(s) = ValueOf(recs[f][k])
<1>1. Filled(F, k) # {} /\ MaxOf(Filled(F, k)) = f
  <2>1. f \in Filled(F, k)
    BY DEF Filled
  <2>2. /\ MaxOf(Filled(F, k)) \in Filled(F, k)
        /\ f <= MaxOf(Filled(F, k))
    BY <2>1, MaxFacts DEF Filled
  <2>3. MaxOf(Filled(F, k)) <= f
    BY <2>2 DEF Filled
  <2>4. f \in Nat /\ MaxOf(Filled(F, k)) \in Nat
    BY <2>2, FileIdNat DEF Filled
  <2> HIDE DEF Filled
  <2> QED BY <2>1, <2>2, <2>3, <2>4
<1>2. recs[f][k] \in Slot
  BY DEF TypeOK
<1>3. CASE recs[f][k].head # Neg
  <2>1. MergedSlot(F, k, b).head = recs[f][k].head
    BY <1>1, <1>3 DEF MergedSlot
  <2> QED BY <1>3, <2>1 DEF ValueOf
<1>4. CASE recs[f][k].head = Neg
  <2>1. recs[f][k].next # NoRec
    BY <1>4 DEF ValueOf
  <2>2. f \in Doubles(F, k)
    BY <2>1 DEF Doubles
  <2>3. /\ MaxOf(Doubles(F, k)) \in Doubles(F, k)
        /\ f <= MaxOf(Doubles(F, k))
    BY <2>2, MaxFacts DEF Doubles
  <2>4. MaxOf(Doubles(F, k)) <= f
    BY <2>3 DEF Doubles, SlotsFilled
  <2>5. MaxOf(Doubles(F, k)) = f
    <3>1. f \in Nat /\ MaxOf(Doubles(F, k)) \in Nat
      BY <2>3, FileIdNat DEF Doubles
    <3> QED BY <2>3, <2>4, <3>1
  <2>6. ~ (f > f)
    BY FileIdNat
  <2>7. MergedSlot(F, k, b) = IF b THEN [head |-> recs[f][k].next, next |-> NoRec]
                              ELSE [head |-> Neg, next |-> recs[f][k].next]
    BY <1>1, <1>4, <2>2, <2>5, <2>6 DEF MergedSlot
  <2>8. recs[f][k].next \in Data
    BY <1>2, <2>1 DEF Slot
  <2> QED BY <1>4, <2>7, <2>8, RecAssumption DEF ValueOf
<1> QED BY <1>3, <1>4

-----------------------------------------------------------------------------
LEMMA InitIInv == Init => IInv
<1> SUFFICES ASSUME Init PROVE IInv
  OBVIOUS
<1>1. TypeOK
  <2>1. Empty \in Slot
    BY DEF Empty, Slot
  <2>2. cursor \in 1 .. NumKeys + 1 /\ dumpId \in FileId
    BY KeysAssumption, IdAssumption DEF Init, FileId
  <2> QED BY <2>1, <2>2 DEF Init, TypeOK
<1>2. SlotsFilled /\ AbsentEmpty
  BY DEF Init, SlotsFilled, AbsentEmpty, Empty
<1>3. DumpNewest /\ DumpOrder /\ ChunkInTree /\ MergeWindow
  BY DEF Init, DumpNewest, DumpOrder, ChunkInTree, MergeWindow
<1>4. NothingLost
  BY DEF Init, NothingLost
<1> QED BY <1>1, <1>2, <1>3, <1>4 DEF IInv

(* The tree gets the record, or the negative record, of a key that is not   *)
(* in the range of the chunk.                                               *)
LEMMA AddKeeps ==
  ASSUME IInv, NEW k \in Key,
         AddNegative(k) \/ \E d \in Data : AddPositive(k, d)
  PROVE  IInv'
<1> USE DEF IInv
<1>1. UNCHANGED <<fileIds, recs, dumpVars, mergeVars>>
  BY DEF AddNegative, AddPositive
<1>2. PICK r \in Rec \union {NoRec}, s \in Data \union {NoRec} :
        /\ tree' = [tree EXCEPT ![k] = r]
        /\ store' = [store EXCEPT ![k] = s]
        /\ s # NoRec => r = s
        /\ r = NoRec => fileIds = {}
        /\ r # NoRec => ~Refused(Signed(k, r))
  <2>1. CASE AddNegative(k)
    BY <2>1, RecAssumption DEF AddNegative, Rec
  <2>2. ASSUME NEW d \in Data, AddPositive(k, d)
        PROVE  d \in Rec /\ Signed(k, d) = 2 * k + 1 /\ ~Refused(Signed(k, d))
    BY <2>2, RecAssumption DEF AddPositive, Rec, Signed
  <2>3. ASSUME NEW d \in Data, AddPositive(k, d)
        PROVE  /\ tree' = [tree EXCEPT ![k] = d]
               /\ store' = [store EXCEPT ![k] = d]
               /\ d # NoRec
    BY <2>3, RecAssumption DEF AddPositive
  <2> QED BY <2>1, <2>2, <2>3
<1>3. TypeOK'
  BY <1>1, <1>2 DEF TypeOK, dumpVars, mergeVars
<1>4. SlotsFilled' /\ AbsentEmpty'
  BY <1>1 DEF SlotsFilled, AbsentEmpty
<1>5. DumpNewest' /\ DumpOrder'
  BY <1>1 DEF DumpNewest, DumpOrder, dumpVars
<1>6. ChunkInTree'
  <2> SUFFICES ASSUME dump = "write", NEW j \in Key, queue[j] # NoRec
               PROVE  /\ tree'[j] # NoRec
                      /\ Signed(j, tree'[j]) = Signed(j, queue[j])
                           => tree'[j] = queue[j]
    BY <1>1 DEF ChunkInTree, dumpVars
  <2>1. CASE j # k
    BY <2>1, <1>2 DEF TypeOK, ChunkInTree
  <2>2. CASE j = k
    <3>1. tree'[j] = r
      BY <2>2, <1>2 DEF TypeOK
    <3>2. r # NoRec
      BY <1>2 DEF DumpNewest
    <3>3. Signed(j, queue[j]) \in Nat
      BY KeysAssumption DEF Signed, Key
    <3>4. Refused(Signed(j, queue[j]))
      BY <3>3 DEF Refused
    <3> QED BY <3>1, <3>2, <3>4, <2>2, <1>2
  <2> QED BY <2>1, <2>2
<1>7. MergeWindow'
  BY <1>1 DEF MergeWindow, MergeId, dumpVars, mergeVars
<1>8. NothingLost'
  <2> SUFFICES ASSUME NEW j \in Key, store'[j] # NoRec
               PROVE  Held(j)'
    BY DEF NothingLost
  <2>1. CASE j = k
    <3>1. tree'[j] = store'[j]
      BY <2>1, <1>2 DEF TypeOK
    <3> QED BY <3>1 DEF Held
  <2>2. CASE j # k
    <3>1. tree'[j] = tree[j] /\ store'[j] = store[j]
      BY <2>2, <1>2 DEF TypeOK
    <3>2. Held(j)
      BY <3>1 DEF NothingLost
    <3>3. \A f : Newest(j, f)' = Newest(j, f)
      BY <1>1 DEF Newest, Sources, MergeId, mergeVars
    <3> QED BY <3>1, <3>2, <3>3, <1>1 DEF Held
  <2> QED BY <2>1, <2>2
<1> QED BY <1>3, <1>4, <1>5, <1>6, <1>7, <1>8

(* A record that is in files stays so when its newest file gets a successor. *)
LEMMA HeldKept ==
  ASSUME NEW k \in Key,
         Held(k), tree'[k] = tree[k], store'[k] = store[k],
         ASSUME NEW f \in FileId, Newest(k, f), ValueOf(recs[f][k]) = store[k]
         PROVE  \E g \in FileId : Newest(k, g)' /\ ValueOf(recs'[g][k]) = store[k]
  PROVE  Held(k)'
<1>1. CASE tree[k] = store[k]
  BY <1>1 DEF Held
<1>2. CASE tree[k] # store[k]
  <2>1. PICK f \in FileId : Newest(k, f) /\ ValueOf(recs[f][k]) = store[k]
    BY <1>2 DEF Held
  <2>2. PICK g \in FileId : Newest(k, g)' /\ ValueOf(recs'[g][k]) = store[k]
    BY <2>1
  <2> QED BY <1>2, <2>2 DEF Held
<1> QED BY <1>1, <1>2

(* A file that is new to the list, and empty, changes nothing. *)
LEMMA HeldWithEmptyFile ==
  ASSUME NEW k \in Key, NEW new \in FileId, Held(k),
         tree'[k] = tree[k], store'[k] = store[k], recs' = recs,
         Sources(k)' \subseteq Sources(k) \union {new},
         Sources(k) \subseteq Sources(k)',
         recs[new][k].head = NoRec
  PROVE  Held(k)'
<1>1. ASSUME NEW f \in FileId, Newest(k, f) PROVE Newest(k, f)'
  BY <1>1 DEF Newest
<1> QED BY <1>1, HeldKept

LEMMA DumpStartKeeps == ASSUME IInv, DumpStart PROVE IInv'
<1> USE DEF IInv
<1>1. /\ NewId \in FileId /\ NewId \notin fileIds
      /\ \A f \in fileIds : f < NewId
  <2>1. \A f \in fileIds : f \in Nat
    BY FileIdNat DEF TypeOK
  <2> QED BY <2>1, NewIdFacts, IdAssumption DEF DumpStart, FileId
<1>2. \A k \in Key : recs[NewId][k].head = NoRec /\ recs[NewId][k].next = NoRec
  BY <1>1 DEF AbsentEmpty, SlotsFilled
<1>3. TypeOK'
  BY <1>1 DEF DumpStart, TypeOK, mergeVars
<1>4. SlotsFilled' /\ AbsentEmpty'
  BY DEF DumpStart, SlotsFilled, AbsentEmpty
<1>5. DumpNewest'
  <2>1. NewId \in Nat /\ \A f \in fileIds : f \in Nat
    BY <1>1, FileIdNat DEF TypeOK
  <2>2. \A f \in fileIds \union {NewId} : f <= NewId
    BY <1>1, <2>1
  <2> QED BY <2>2 DEF DumpStart, DumpNewest
<1>6. DumpOrder' /\ ChunkInTree'
  BY <1>2 DEF DumpStart, DumpOrder, ChunkInTree
<1>7. MergeWindow'
  BY <1>1 DEF DumpStart, MergeWindow, MergeId, mergeVars
<1>8. NothingLost'
  <2> SUFFICES ASSUME NEW k \in Key, store'[k] # NoRec PROVE Held(k)'
    BY DEF NothingLost
  <2>1. Held(k)
    BY DEF NothingLost, DumpStart
  <2>2. /\ Sources(k)' \subseteq Sources(k) \union {NewId}
        /\ Sources(k) \subseteq Sources(k)'
    BY DEF Sources, DumpStart, mergeVars, MergeId
  <2> QED BY <1>1, <1>2, <2>1, <2>2, HeldWithEmptyFile DEF DumpStart
<1> QED BY <1>3, <1>4, <1>5, <1>6, <1>7, <1>8

LEMMA DumpFetchKeeps ==
  ASSUME IInv, NEW last \in 0 .. 2 * NumKeys + 1, DumpFetch(last)
  PROVE  IInv'
<1> USE DEF IInv
<1>1. last \in Nat /\ nextKey \in Nat /\ nextKey <= last /\ nextKey' = last + 1
  BY KeysAssumption DEF DumpFetch, Pending, TypeOK
<1>2. \A k \in Key :
        queue'[k] # NoRec => /\ queue'[k] = tree[k]
                             /\ nextKey <= Signed(k, tree[k])
                             /\ Signed(k, tree[k]) <= last
  BY DEF DumpFetch, Pending
<1>3. TypeOK'
  BY <1>1 DEF DumpFetch, TypeOK, mergeVars
<1>4. SlotsFilled' /\ AbsentEmpty' /\ DumpNewest'
  BY DEF DumpFetch, SlotsFilled, AbsentEmpty, DumpNewest
<1>5. \A k \in Key : \A r : Signed(k, r) \in Nat
  BY KeysAssumption DEF Signed, Key
<1>6. DumpOrder'
  <2> SUFFICES ASSUME NEW k \in Key
               PROVE  /\ recs[dumpId][k].head # NoRec
                           => Signed(k, recs[dumpId][k].head) < nextKey'
                      /\ recs[dumpId][k].next # NoRec => 2 * k + 1 < nextKey'
    BY DEF DumpOrder, DumpFetch
  <2>1. k \in Nat
    BY KeysAssumption DEF Key
  <2> QED BY <1>1, <1>5, <2>1 DEF DumpOrder, DumpFetch
<1>7. ChunkInTree'
  <2> SUFFICES ASSUME NEW k \in Key, queue'[k] # NoRec
               PROVE  /\ tree[k] # NoRec
                      /\ tree[k] = queue'[k]
                      /\ Signed(k, queue'[k]) < nextKey'
                      /\ recs[dumpId][k].next = NoRec
                      /\ recs[dumpId][k].head # NoRec =>
                           recs[dumpId][k].head = Neg /\ queue'[k] \in Data
    BY DEF ChunkInTree, DumpFetch
  <2>1. k \in Nat /\ tree[k] \in Rec
    BY <1>2, KeysAssumption DEF Key, TypeOK
  <2>2. Signed(k, tree[k]) <= 2 * k + 1
    BY <2>1 DEF Signed
  <2>3. recs[dumpId][k].next = NoRec
    BY <1>1, <1>2, <1>5, <2>1, <2>2 DEF DumpOrder, DumpFetch
  <2>4. recs[dumpId][k].head # NoRec =>
          recs[dumpId][k].head = Neg /\ queue'[k] \in Data
    <3> SUFFICES ASSUME recs[dumpId][k].head # NoRec
                 PROVE  recs[dumpId][k].head = Neg /\ queue'[k] \in Data
      OBVIOUS
    <3>1. Signed(k, recs[dumpId][k].head) < Signed(k, tree[k])
      BY <1>1, <1>2, <1>5 DEF DumpOrder, DumpFetch
    <3>2. recs[dumpId][k].head = Neg /\ tree[k] # Neg
      BY <2>1, <3>1 DEF Signed
    <3> QED BY <1>2, <2>1, <3>2 DEF Rec
  <2> QED BY <1>1, <1>2, <1>5, <2>3, <2>4
<1>8. MergeWindow'
  BY DEF DumpFetch, MergeWindow, MergeId, mergeVars
<1>9. NothingLost'
  <2>1. \A k : Sources(k)' = Sources(k)
    BY DEF DumpFetch, Sources, MergeId, mergeVars
  <2> QED BY <2>1 DEF DumpFetch, NothingLost, Held, Newest
<1> QED BY <1>3, <1>4, <1>6, <1>7, <1>8, <1>9

LEMMA DumpDoneKeeps == ASSUME IInv, DumpDone PROVE IInv'
<1> USE DEF IInv
<1>1. TypeOK'
  BY IdAssumption DEF DumpDone, TypeOK, mergeVars, FileId
<1>2. SlotsFilled' /\ AbsentEmpty' /\ DumpNewest' /\ DumpOrder' /\ ChunkInTree'
  BY DEF DumpDone, SlotsFilled, AbsentEmpty, DumpNewest, DumpOrder, ChunkInTree
<1>3. MergeWindow'
  BY DEF DumpDone, MergeWindow, MergeId, mergeVars
<1>4. NothingLost'
  <2>1. \A k : Sources(k)' = Sources(k)
    BY DEF DumpDone, Sources, MergeId, mergeVars
  <2> QED BY <2>1 DEF DumpDone, NothingLost, Held, Newest
<1> QED BY <1>1, <1>2, <1>3, <1>4

(* The file dumped to is neither merged nor merged into. *)
LEMMA DumpIdApart ==
  ASSUME IInv, dump # "idle", merge # "idle"
  PROVE  dumpId \in fileIds \ window /\ dumpId # MergeId
<1> USE DEF IInv
<1>1. MinOf(window) \in fileIds /\ MergeId = MinOf(window) - 1
  BY WindowFacts DEF MergeWindow
<1>2. MinOf(window) <= dumpId /\ MinOf(window) \in Nat
  BY <1>1, FileIdNat DEF DumpNewest, TypeOK
<1>3. dumpId # MergeId
  BY <1>1, <1>2
<1> QED BY <1>3 DEF DumpNewest, MergeWindow

LEMMA DumpWrittenKeeps == ASSUME IInv, DumpWritten PROVE IInv'
<1> USE DEF IInv
<1> DEFINE slot(k) == Append(recs[dumpId][k], queue[k])
<1>1. /\ dumpId \in fileIds /\ dumpId \in FileId
      /\ \A f \in FileId, k \in Key :
           recs'[f][k] = IF f = dumpId THEN slot(k) ELSE recs[f][k]
  BY DEF DumpWritten, DumpNewest, TypeOK
<1>2. \A k \in Key : queue[k] = NoRec => slot(k) = recs[dumpId][k]
  BY DEF Append
<1>3. \A k \in Key : queue[k] # NoRec =>
        \/ /\ recs[dumpId][k].head = NoRec
           /\ slot(k) = [head |-> queue[k], next |-> NoRec]
        \/ /\ recs[dumpId][k].head = Neg /\ queue[k] \in Data
           /\ slot(k) = [head |-> Neg, next |-> queue[k]]
  BY DEF Append, DumpWritten, ChunkInTree
<1>4. \A k \in Key : slot(k) \in Slot
  <2> SUFFICES ASSUME NEW k \in Key PROVE slot(k) \in Slot
    OBVIOUS
  <2>1. recs[dumpId][k] \in Slot /\ queue[k] \in Rec \union {NoRec} /\ Neg \in Rec
    BY DEF TypeOK, Rec
  <2> HIDE DEF slot
  <2>2. CASE queue[k] = NoRec
    BY <1>2, <2>1, <2>2
  <2>3. CASE queue[k] # NoRec
    BY <1>3, <2>1, <2>3 DEF Slot
  <2> QED BY <2>2, <2>3
<1>5. TypeOK'
  <2>1. tree' \in [Key -> Rec \union {NoRec}]
    BY DEF DumpWritten, TypeOK
  <2>2. recs' \in [FileId -> [Key -> Slot]]
    <3>1. [k \in Key |-> slot(k)] \in [Key -> Slot]
      BY <1>4
    <3> HIDE DEF Slot
    <3> QED BY <3>1 DEF DumpWritten, TypeOK
  <2> QED BY <2>1, <2>2 DEF DumpWritten, TypeOK, mergeVars
<1>6. SlotsFilled'
  <2> SUFFICES ASSUME NEW f \in FileId, NEW k \in Key, recs'[f][k].next # NoRec
               PROVE  recs'[f][k].head # NoRec
    BY DEF SlotsFilled
  <2> HIDE DEF slot
  <2>1. CASE f = dumpId /\ queue[k] # NoRec
    BY <1>1, <1>3, <2>1, RecAssumption
  <2>2. CASE ~ (f = dumpId /\ queue[k] # NoRec)
    BY <1>1, <1>2, <2>2 DEF SlotsFilled
  <2> QED BY <2>1, <2>2
<1>7. AbsentEmpty'
  <2> HIDE DEF slot
  <2> QED BY <1>1 DEF AbsentEmpty, DumpWritten
<1>8. DumpNewest' /\ ChunkInTree'
  BY DEF DumpWritten, DumpNewest, ChunkInTree
<1>9. DumpOrder'
  <2> SUFFICES ASSUME NEW k \in Key
               PROVE  /\ slot(k).head # NoRec => Signed(k, slot(k).head) < nextKey
                      /\ slot(k).next # NoRec => 2 * k + 1 < nextKey
    BY <1>1 DEF DumpOrder, DumpWritten
  <2>1. CASE queue[k] = NoRec
    BY <1>2, <2>1 DEF DumpOrder, DumpWritten
  <2>2. CASE queue[k] # NoRec
    <3>1. Signed(k, queue[k]) < nextKey
      BY <2>2 DEF ChunkInTree, DumpWritten
    <3>2. queue[k] \in Data => Signed(k, queue[k]) = 2 * k + 1
      BY RecAssumption DEF Signed
    <3>3. recs[dumpId][k].head = Neg => Signed(k, Neg) < nextKey
      BY RecAssumption DEF DumpOrder, DumpWritten
    <3> HIDE DEF slot
    <3> QED BY <1>3, <2>2, <3>1, <3>2, <3>3
  <2> QED BY <2>1, <2>2
<1>10. MergeWindow'
  BY DEF DumpWritten, MergeWindow, MergeId, mergeVars
<1>11. NothingLost'
  <2> SUFFICES ASSUME NEW k \in Key, store[k] # NoRec PROVE Held(k)'
    BY DEF NothingLost, DumpWritten
  <2>1. Held(k) /\ store' = store /\ Sources(k)' = Sources(k)
    BY DEF NothingLost, DumpWritten, Sources, MergeId, mergeVars
  <2>2. tree'[k] = IF Dumped(k) THEN NoRec ELSE tree[k]
    BY DEF DumpWritten
  <2>3. CASE queue[k] = NoRec
    <3>1. tree'[k] = tree[k] /\ \A f \in FileId : recs'[f][k] = recs[f][k]
      <4> HIDE DEF slot
      <4> QED BY <1>1, <1>2, <2>2, <2>3 DEF Dumped
    <3>2. Sources(k) \subseteq FileId
      BY DEF Sources, TypeOK
    <3>3. ASSUME NEW f \in FileId, Newest(k, f)
          PROVE  Newest(k, f)' /\ recs'[f][k] = recs[f][k]
      BY <2>1, <3>1, <3>2, <3>3 DEF Newest
    <3> QED BY <2>1, <3>1, <3>3, HeldKept
  <2>4. CASE queue[k] # NoRec
    <3>1. tree[k] # NoRec /\ tree[k] = store[k] /\ store[k] \in Data
      BY <2>1, <2>4 DEF ChunkInTree, DumpWritten, Held, TypeOK
    <3>2. CASE ~ Dumped(k)
      BY <2>1, <2>2, <3>1, <3>2 DEF Held
    <3>3. CASE Dumped(k)
      <4>1. queue[k] = store[k]
        BY <3>1, <3>3 DEF Dumped, ChunkInTree, DumpWritten
      <4>2. slot(k).head # NoRec /\ ValueOf(slot(k)) = store[k]
        <5> HIDE DEF slot
        <5> QED BY <1>3, <2>4, <3>1, <4>1, RecAssumption DEF ValueOf
      <4>3. dumpId \in Sources(k)
        BY <1>1, DumpIdApart DEF Sources, DumpWritten
      <4>4. \A g \in Sources(k) : g <= dumpId
        BY DEF Sources, DumpNewest, DumpWritten
      <4>5. Newest(k, dumpId)'
        <5>1. dumpId' = dumpId
          BY DEF DumpWritten
        <5>2. Newest(k, dumpId)' <=>
                /\ dumpId' \in Sources(k)'
                /\ recs'[dumpId'][k].head # NoRec
                /\ \A g \in Sources(k)' : recs'[g][k].head # NoRec => g <= dumpId'
          BY DEF Newest
        <5> HIDE DEF slot
        <5> QED BY <1>1, <2>1, <4>2, <4>3, <4>4, <5>1, <5>2
      <4>6. ValueOf(recs'[dumpId'][k]) = store'[k]
        BY <1>1, <2>1, <4>2 DEF DumpWritten
      <4>7. dumpId' \in FileId /\ tree'[k] = NoRec
        BY <1>1, <2>2, <3>3 DEF DumpWritten
      <4> QED BY <4>5, <4>6, <4>7 DEF Held
    <3> QED BY <3>2, <3>3
  <2> QED BY <2>3, <2>4
<1> QED BY <1>5, <1>6, <1>7, <1>8, <1>9, <1>10, <1>11

(* A merge is free to add the file right before the oldest one it takes. *)
LEMMA MergeIdFree ==
  ASSUME IInv, MayMerge, NEW W \in SUBSET Candidates, W # {}
  PROVE  /\ MinOf(W) \in W /\ MinOf(W) \in Nat
         /\ \A w \in W : MinOf(W) <= w
         /\ MinOf(W) - 1 \in FileId
         /\ MinOf(W) - 1 \notin fileIds
         /\ dump # "idle" => MinOf(W) <= dumpId
<1> USE DEF IInv
<1>1. W \subseteq fileIds /\ W \subseteq FileId
  BY DEF Candidates, TypeOK
<1>2. MinOf(W) \in W /\ \A w \in W : MinOf(W) <= w
  BY <1>1, MinFacts
<1>3. MinOf(W) \in 0 .. MaxId /\ MinOf(W) % 2 = 1
  BY <1>1, <1>2 DEF MayMerge, FileId
<1>4. MinOf(W) - 1 \in FileId /\ (MinOf(W) - 1) % 2 = 0
  BY <1>3, IdAssumption DEF FileId
<1>5. dump # "idle" => MinOf(W) <= dumpId
  BY <1>1, <1>2 DEF DumpNewest
<1>6. MinOf(W) - 1 \notin fileIds
  <2> SUFFICES ASSUME MinOf(W) - 1 \in fileIds PROVE FALSE
    OBVIOUS
  <2>1. MinOf(W) - 1 \notin Candidates
    BY <1>4 DEF MayMerge
  <2>2. dump # "idle" /\ MinOf(W) - 1 = dumpId
    BY <2>1 DEF Candidates
  <2> QED BY <1>3, <1>5, <2>2
<1> QED BY <1>2, <1>3, <1>4, <1>5, <1>6

(* What an empty file at the front of the list leaves as it is. *)
LEMMA NewMergeFileKeeps ==
  ASSUME IInv, MayMerge, NEW W \in SUBSET Candidates, W # {},
         fileIds' = fileIds \union {MinOf(W) - 1},
         UNCHANGED <<tree, recs, dumpVars, store>>
  PROVE  /\ SlotsFilled' /\ AbsentEmpty' /\ DumpNewest' /\ DumpOrder'
         /\ ChunkInTree' /\ fileIds' \in SUBSET FileId
         /\ \A k \in Key : recs[MinOf(W) - 1][k].head = NoRec
<1> USE DEF IInv
<1>1. SlotsFilled' /\ AbsentEmpty' /\ DumpOrder' /\ ChunkInTree'
  BY DEF SlotsFilled, AbsentEmpty, DumpOrder, ChunkInTree, dumpVars
<1>2. DumpNewest'
  <2> SUFFICES ASSUME dump # "idle"
               PROVE  MinOf(W) - 1 <= dumpId
    BY DEF DumpNewest, dumpVars
  <2>1. dumpId \in Nat
    BY FileIdNat DEF TypeOK
  <2> QED BY <2>1, MergeIdFree
<1>3. fileIds' \in SUBSET FileId
  BY MergeIdFree DEF TypeOK
<1>4. \A k \in Key : recs[MinOf(W) - 1][k].head = NoRec
  BY MergeIdFree DEF AbsentEmpty
<1> QED BY <1>1, <1>2, <1>3, <1>4

LEMMA BeginMergeKeeps ==
  ASSUME IInv, MayMerge, NEW W \in SUBSET Candidates, BeginMerge(W)
  PROVE  IInv'
<1> USE DEF IInv
<1> DEFINE new == MinOf(W) - 1
<1>1. /\ W # {} /\ W \subseteq fileIds /\ W \subseteq FileId
      /\ dump # "idle" => dumpId \notin W
  BY DEF BeginMerge, Window, Candidates, TypeOK
<1>2. /\ fileIds' = fileIds \union {new}
      /\ window' = W /\ merge' = "merging" /\ cursor' = 1
      /\ UNCHANGED <<tree, recs, dumpVars, store>>
      /\ MergeId' = new
  BY DEF BeginMerge, MergeId
<1>3. new \in FileId /\ new \notin fileIds
  BY <1>1, MergeIdFree
<1>4. /\ SlotsFilled' /\ AbsentEmpty' /\ DumpNewest' /\ DumpOrder'
      /\ ChunkInTree' /\ fileIds' \in SUBSET FileId
  <2> HIDE DEF IInv
  <2> QED BY <1>1, <1>2, NewMergeFileKeeps
<1>5. TypeOK'
  <2>1. 1 \in 1 .. NumKeys + 1
    BY KeysAssumption
  <2> QED BY <1>1, <1>2, <1>4, <2>1 DEF TypeOK, dumpVars
<1>6. MergeWindow'
  <2>1. \A f \in fileIds' \ W : f <= new \/ \A w \in W : w < f
    <3> SUFFICES ASSUME NEW f \in fileIds' \ W, NEW w \in W
                 PROVE  f <= new \/ w < f
      OBVIOUS
    <3>1. f \in Nat /\ w \in Nat /\ MinOf(W) \in Nat /\ MaxOf(W) \in Nat
      <4>1. MinOf(W) \in W /\ MaxOf(W) \in W
        BY <1>1, MinFacts, MaxFacts
      <4> QED BY <1>1, <1>2, <1>3, <4>1, FileIdNat DEF TypeOK
    <3>2. MinOf(W) <= w /\ w <= MaxOf(W)
      BY <1>1, MinFacts, MaxFacts
    <3>3. CASE f = new
      BY <3>1, <3>3
    <3>4. CASE f \in Candidates
      <4>1. ~ (MinOf(W) <= f /\ f <= MaxOf(W))
        BY <3>4 DEF BeginMerge, Window
      <4> QED BY <3>1, <3>2, <4>1
    <3>5. CASE f \in fileIds /\ dump # "idle" /\ f = dumpId
      <4>1. w <= dumpId
        BY <1>1, <3>5 DEF DumpNewest
      <4>2. w # f
        OBVIOUS
      <4> QED BY <3>1, <3>5, <4>1, <4>2
    <3> QED BY <1>2, <3>3, <3>4, <3>5 DEF Candidates
  <2> HIDE DEF new
  <2> QED BY <1>1, <1>2, <2>1 DEF MergeWindow, dumpVars
<1>7. NothingLost'
  <2> SUFFICES ASSUME NEW k \in Key, store[k] # NoRec PROVE Held(k)'
    BY <1>2 DEF NothingLost
  <2>1. Held(k)
    BY DEF NothingLost
  <2>2. Sources(k)' = fileIds'  \ {new}
    <3>1. ~ (k < cursor')
      BY <1>2, KeysAssumption DEF Key
    <3>2. merge' # "idle"
      BY <1>2
    <3> QED BY <1>2, <3>1, <3>2 DEF Sources
  <2>3. Sources(k)' = Sources(k)
    BY <1>2, <1>3, <2>2 DEF Sources, MayMerge
  <2> HIDE DEF new
  <2>4. ASSUME NEW f \in FileId, Newest(k, f) PROVE Newest(k, f)'
    BY <1>2, <2>3, <2>4 DEF Newest
  <2> QED BY <1>2, <2>1, <2>4, HeldKept
<1> QED BY <1>4, <1>5, <1>6, <1>7

LEMMA ForceMergeOfOneKeeps == ASSUME IInv, ForceMergeOfOne PROVE IInv'
<1> USE DEF IInv
<1> DEFINE new == MinOf(Candidates) - 1
<1>1. /\ MayMerge
      /\ fileIds' = fileIds \union {new}
      /\ UNCHANGED <<tree, recs, dumpVars, mergeVars, store>>
  BY DEF ForceMergeOfOne
<1>2. Candidates # {}
  BY FS_EmptySet DEF ForceMergeOfOne
<1>3. /\ new \in FileId
      /\ SlotsFilled' /\ AbsentEmpty' /\ DumpNewest' /\ DumpOrder'
      /\ ChunkInTree' /\ fileIds' \in SUBSET FileId
      /\ \A k \in Key : recs[new][k].head = NoRec
  <2> HIDE DEF IInv
  <2> QED BY <1>1, <1>2, MergeIdFree, NewMergeFileKeeps
<1> HIDE DEF new
<1>4. TypeOK'
  BY <1>1, <1>3 DEF TypeOK, dumpVars, mergeVars
<1>5. MergeWindow'
  BY <1>1 DEF MergeWindow, MayMerge, mergeVars
<1>6. NothingLost'
  <2> SUFFICES ASSUME NEW k \in Key, store'[k] # NoRec PROVE Held(k)'
    BY DEF NothingLost
  <2>1. Held(k)
    BY <1>1 DEF NothingLost
  <2>2. Sources(k) = fileIds /\ Sources(k)' = fileIds'
    BY <1>1 DEF Sources, MayMerge, mergeVars
  <2> QED BY <1>1, <1>3, <2>1, <2>2, HeldWithEmptyFile
<1> QED BY <1>3, <1>4, <1>5, <1>6

LEMMA MergeStepKeeps ==
  ASSUME IInv, NEW next \in 2 .. NumKeys + 1, MergeStep(next)
  PROVE  IInv'
<1> USE DEF IInv
<1> DEFINE slot(k) == MergedSlot(window, k, RemoveNegs)
<1>1. /\ window # {} /\ window \subseteq fileIds /\ MergeId \in fileIds
      /\ merge = "merging" /\ MergeId \in FileId
      /\ dump # "idle" => dumpId # MergeId
      /\ \A w \in window : MergeId < w
  BY DumpIdApart, WindowFacts DEF MergeStep, MergeWindow, TypeOK
<1>2. /\ next \in Nat /\ cursor \in Nat /\ cursor < next
      /\ next \in 1 .. NumKeys + 1
  BY KeysAssumption DEF MergeStep, TypeOK
<1>3. \A k \in Key : k \in Nat
  BY KeysAssumption DEF Key
<1>4. UNCHANGED <<tree, fileIds, dumpVars, merge, window, store>> /\ cursor' = next
  BY DEF MergeStep
<1>5. \A f \in FileId, k \in Key :
        recs'[f][k] = IF f = MergeId /\ cursor <= k /\ k < next
                      THEN slot(k) ELSE recs[f][k]
  BY <1>1 DEF MergeStep, TypeOK
<1>6. \A k \in Key : slot(k) \in Slot /\ (slot(k).next # NoRec => slot(k).head # NoRec)
  <2>1. window \in SUBSET FileId /\ RemoveNegs \in BOOLEAN
    BY DEF TypeOK, RemoveNegs
  <2> QED BY <2>1, MergedSlotType
<1>7. TypeOK'
  <2>1. recs' \in [FileId -> [Key -> Slot]]
    <3>1. [k \in Key |-> IF cursor <= k /\ k < next
                         THEN slot(k) ELSE recs[MergeId][k]] \in [Key -> Slot]
      BY <1>1, <1>6 DEF TypeOK
    <3> HIDE DEF Slot
    <3> QED BY <1>1, <3>1 DEF MergeStep, TypeOK
  <2> QED BY <1>2, <1>4, <2>1 DEF TypeOK, dumpVars
<1> HIDE DEF slot
<1>8. SlotsFilled'
  BY <1>5, <1>6 DEF SlotsFilled
<1>9. AbsentEmpty'
  BY <1>1, <1>4, <1>5 DEF AbsentEmpty
<1>10. DumpNewest' /\ ChunkInTree' /\ DumpOrder'
  <2>1. dump # "idle" => \A k \in Key : recs'[dumpId][k] = recs[dumpId][k]
    BY <1>1, <1>5 DEF TypeOK
  <2>2. DumpNewest'
    BY <1>4 DEF DumpNewest, dumpVars
  <2>3. ChunkInTree'
    BY <1>4, <2>1 DEF ChunkInTree, dumpVars
  <2>4. DumpOrder'
    BY <1>4, <2>1 DEF DumpOrder, dumpVars
  <2> QED BY <2>2, <2>3, <2>4
<1>11. MergeWindow'
  BY <1>1, <1>4 DEF MergeWindow, MergeId, dumpVars
<1>12. NothingLost'
  <2> SUFFICES ASSUME NEW k \in Key, store[k] # NoRec PROVE Held(k)'
    BY <1>4 DEF NothingLost
  <2>1. Held(k)
    BY DEF NothingLost
  <2>2. Sources(k) \subseteq FileId
    BY DEF Sources, TypeOK
  <2>3. MergeId' = MergeId
    BY <1>4 DEF MergeId
  <2>4. CASE k < cursor \/ next <= k
    <3>1. Sources(k)' = Sources(k)
      BY <1>2, <1>3, <1>4, <2>3, <2>4 DEF Sources
    <3>2. \A f \in FileId : recs'[f][k] = recs[f][k]
      BY <1>2, <1>3, <1>5, <2>4
    <3>3. ASSUME NEW f \in FileId, Newest(k, f) PROVE Newest(k, f)'
      BY <2>2, <3>1, <3>2, <3>3 DEF Newest
    <3> QED BY <1>4, <2>1, <3>2, <3>3, HeldKept
  <2>5. CASE cursor <= k /\ k < next
    <3>1. Sources(k) = fileIds \ {MergeId} /\ Sources(k)' = fileIds \ window
      BY <1>1, <1>2, <1>3, <1>4, <2>3, <2>5 DEF Sources
    <3>2. /\ recs'[MergeId][k] = slot(k)
          /\ \A f \in FileId \ {MergeId} : recs'[f][k] = recs[f][k]
      BY <1>1, <1>5, <2>5
    <3>3. MergeId \notin window
      BY <1>1, FileIdNat
    <3>4. ASSUME NEW f \in FileId, Newest(k, f), ValueOf(recs[f][k]) = store[k]
          PROVE  \E g \in FileId : Newest(k, g)' /\ ValueOf(recs'[g][k]) = store[k]
      <4>1. /\ f \in fileIds \ {MergeId} /\ recs[f][k].head # NoRec
            /\ \A g \in fileIds \ {MergeId} : recs[g][k].head # NoRec => g <= f
        BY <3>1, <3>4 DEF Newest
      <4>2. f \in Nat /\ MergeId \in Nat /\ \A g \in fileIds : g \in Nat /\ g \in FileId
        BY <1>1, FileIdNat DEF TypeOK
      <4>3. CASE f \in window
        <5>1. slot(k).head # NoRec /\ ValueOf(slot(k)) = store[k]
          <6>1. window \in SUBSET FileId /\ RemoveNegs \in BOOLEAN
            BY DEF TypeOK, RemoveNegs
          <6>2. \A g \in window : recs[g][k].head # NoRec => g <= f
            BY <1>1, <3>3, <4>1
          <6> QED BY <3>4, <4>1, <4>3, <6>1, <6>2, MergedSlotValue DEF slot
        <5>2. ASSUME NEW g \in fileIds \ window, recs'[g][k].head # NoRec
              PROVE  g <= MergeId
          <6>1. CASE g = MergeId
            BY <4>2, <6>1
          <6>2. CASE g # MergeId
            <7>1. g <= f
              BY <3>2, <4>1, <4>2, <5>2, <6>2
            <7>2. g <= MergeId \/ f < g
              BY <1>1, <4>3 DEF MergeWindow
            <7> QED BY <4>2, <7>1, <7>2
          <6> QED BY <6>1, <6>2
        <5>3. Newest(k, MergeId)'
          <6>1. Newest(k, MergeId)' <=>
                  /\ MergeId' \in Sources(k)'
                  /\ recs'[MergeId'][k].head # NoRec
                  /\ \A g \in Sources(k)' : recs'[g][k].head # NoRec => g <= MergeId'
            BY DEF Newest
          <6> QED BY <1>1, <2>3, <3>1, <3>2, <3>3, <5>1, <5>2, <6>1
        <5> QED BY <1>1, <2>3, <3>2, <5>1, <5>3
      <4>4. CASE f \notin window
        <5>1. \A g \in fileIds \ window : recs'[g][k].head # NoRec => g <= f
          <6> SUFFICES ASSUME NEW g \in fileIds \ window, recs'[g][k].head # NoRec
                       PROVE  g <= f
            OBVIOUS
          <6>1. CASE g = MergeId
            <7>1. Filled(window, k) # {}
              BY <3>2, <6>1 DEF slot, MergedSlot, Empty
            <7>2. PICK w \in window : recs[w][k].head # NoRec
              BY <7>1 DEF Filled
            <7>3. w <= f /\ MergeId < w /\ w \in Nat
              BY <1>1, <3>3, <4>1, <4>2, <7>2
            <7> QED BY <4>2, <6>1, <7>3
          <6>2. CASE g # MergeId
            BY <3>2, <4>1, <4>2, <6>2
          <6> QED BY <6>1, <6>2
        <5>2. Newest(k, f)'
          BY <3>1, <3>2, <4>1, <4>4, <5>1 DEF Newest
        <5> QED BY <3>2, <3>4, <4>1, <5>2
      <4> QED BY <4>3, <4>4
    <3> QED BY <1>4, <2>1, <3>4, HeldKept
  <2> QED BY <1>2, <1>3, <2>4, <2>5
<1> QED BY <1>7, <1>8, <1>9, <1>10, <1>11, <1>12

LEMMA ChopHeadKeeps ==
  ASSUME IInv, NEW f \in FileId, NEW next \in 2 .. NumKeys + 1, ChopHead(f, next)
  PROVE  IInv'
<1> USE DEF IInv
<1>1. /\ f \in window /\ next \in Nat /\ next <= cursor /\ merge = "merging"
      /\ f \in fileIds
      /\ dump # "idle" => dumpId # f
  BY KeysAssumption DEF ChopHead, MergeWindow, TypeOK
<1>2. \A g \in FileId, k \in Key :
        recs'[g][k] = IF g = f /\ k < next THEN Empty ELSE recs[g][k]
  BY DEF ChopHead, TypeOK
<1>3. UNCHANGED <<tree, fileIds, dumpVars, mergeVars, store>>
  BY DEF ChopHead
<1>4. Empty \in Slot /\ Empty.head = NoRec /\ Empty.next = NoRec
  BY DEF Empty, Slot
<1>5. TypeOK'
  <2>1. recs' \in [FileId -> [Key -> Slot]]
    <3> HIDE DEF Slot
    <3>1. [k \in Key |-> IF k < next THEN Empty ELSE recs[f][k]] \in [Key -> Slot]
      BY <1>4 DEF TypeOK
    <3> QED BY <3>1 DEF ChopHead, TypeOK
  <2> QED BY <1>3, <2>1 DEF TypeOK, dumpVars, mergeVars
<1>6. SlotsFilled' /\ AbsentEmpty'
  BY <1>2, <1>3, <1>4 DEF SlotsFilled, AbsentEmpty
<1>7. DumpNewest' /\ ChunkInTree' /\ DumpOrder'
  <2>1. dump # "idle" => \A k \in Key : recs'[dumpId][k] = recs[dumpId][k]
    BY <1>1, <1>2 DEF TypeOK
  <2>2. DumpNewest'
    BY <1>3 DEF DumpNewest, dumpVars
  <2>3. ChunkInTree'
    BY <1>3, <2>1 DEF ChunkInTree, dumpVars
  <2>4. DumpOrder'
    BY <1>3, <2>1 DEF DumpOrder, dumpVars
  <2> QED BY <2>2, <2>3, <2>4
<1>8. MergeWindow'
  BY <1>3 DEF MergeWindow, MergeId, dumpVars, mergeVars
<1>9. NothingLost'
  <2> SUFFICES ASSUME NEW k \in Key, store[k] # NoRec PROVE Held(k)'
    BY <1>3 DEF NothingLost
  <2>1. Held(k)
    BY DEF NothingLost
  <2>2. Sources(k)' = Sources(k) /\ Sources(k) \subseteq FileId
    BY <1>3 DEF Sources, MergeId, mergeVars, TypeOK
  <2>3. \A g \in Sources(k) : recs'[g][k] = recs[g][k]
    <3> SUFFICES ASSUME NEW g \in Sources(k), g = f, k < next PROVE FALSE
      BY <1>2, <2>2
    <3>1. k \in Nat /\ cursor \in Nat
      BY KeysAssumption DEF Key, TypeOK
    <3>2. k < cursor
      BY <1>1, <3>1
    <3> QED BY <1>1, <3>2 DEF Sources
  <2>4. ASSUME NEW g \in FileId, Newest(k, g)
        PROVE  Newest(k, g)' /\ recs'[g][k] = recs[g][k]
    BY <2>2, <2>3, <2>4 DEF Newest
  <2> QED BY <1>3, <2>1, <2>4, HeldKept
<1> QED BY <1>5, <1>6, <1>7, <1>8, <1>9

LEMMA MergeDoneKeeps == ASSUME IInv, MergeDone PROVE IInv'
<1> USE DEF IInv
<1>1. /\ UNCHANGED <<tree, fileIds, recs, dumpVars, window, cursor, store>>
      /\ merge = "merging" /\ merge' = "unlinking" /\ cursor = NumKeys + 1
  BY DEF MergeDone
<1>2. TypeOK'
  BY <1>1 DEF TypeOK, dumpVars
<1>3. SlotsFilled' /\ AbsentEmpty' /\ DumpNewest' /\ DumpOrder' /\ ChunkInTree'
  BY <1>1 DEF SlotsFilled, AbsentEmpty, DumpNewest, DumpOrder, ChunkInTree, dumpVars
<1>4. MergeWindow'
  BY <1>1 DEF MergeWindow, MergeId, dumpVars
<1>5. NothingLost'
  <2>1. \A k : Sources(k)' = Sources(k)
    BY <1>1 DEF Sources, MergeId
  <2> QED BY <1>1, <2>1 DEF NothingLost, Held, Newest
<1> QED BY <1>2, <1>3, <1>4, <1>5

LEMMA BuryKeeps == ASSUME IInv, Bury PROVE IInv'
<1> USE DEF IInv
<1> DEFINE m == MinOf(window)
<1>1. /\ window # {} /\ window \subseteq fileIds
      /\ MergeId \in fileIds /\ MergeId \in FileId
      /\ merge = "unlinking" /\ cursor = NumKeys + 1
      /\ m \in window /\ m \in fileIds /\ m \in FileId /\ MergeId < m
      /\ dump # "idle" => dumpId \in fileIds \ window /\ dumpId # MergeId
  BY DumpIdApart, WindowFacts DEF Bury, MergeWindow, TypeOK
<1>2. /\ fileIds' = (fileIds \ (window \union {MergeId})) \union {m}
      /\ merge' = "idle" /\ window' = {} /\ cursor' = 1
      /\ UNCHANGED <<tree, dumpVars, store>>
  BY DEF Bury
<1> HIDE DEF m
<1>3. \A f \in FileId, k \in Key :
        recs'[f][k] = IF f = m THEN recs[MergeId][k]
                      ELSE IF f \in window \union {MergeId} THEN Empty
                      ELSE recs[f][k]
  BY DEF Bury, m
<1>4. Empty \in Slot /\ Empty.head = NoRec /\ Empty.next = NoRec
  BY DEF Empty, Slot
<1>5. TypeOK'
  <2>1. recs' \in [FileId -> [Key -> Slot]]
    <3>1. [k \in Key |-> Empty] \in [Key -> Slot]
      BY <1>4
    <3> HIDE DEF Slot
    <3> QED BY <1>1, <3>1 DEF Bury, TypeOK
  <2>2. 1 \in 1 .. NumKeys + 1
    BY KeysAssumption
  <2> QED BY <1>1, <1>2, <2>1, <2>2 DEF TypeOK, dumpVars
<1>6. SlotsFilled'
  <2> SUFFICES ASSUME NEW f \in FileId, NEW k \in Key, recs'[f][k].next # NoRec
               PROVE  recs'[f][k].head # NoRec
    BY DEF SlotsFilled
  <2> QED BY <1>1, <1>3, <1>4 DEF SlotsFilled
<1>7. AbsentEmpty'
  BY <1>2, <1>3, <1>4 DEF AbsentEmpty
<1>8. DumpNewest' /\ ChunkInTree' /\ DumpOrder'
  <2>1. dump # "idle" => \A k \in Key : recs'[dumpId][k] = recs[dumpId][k]
    BY <1>1, <1>3 DEF TypeOK
  <2>2. DumpNewest'
    BY <1>1, <1>2 DEF DumpNewest, dumpVars
  <2>3. ChunkInTree'
    BY <1>2, <2>1 DEF ChunkInTree, dumpVars
  <2>4. DumpOrder'
    BY <1>2, <2>1 DEF DumpOrder, dumpVars
  <2> QED BY <2>2, <2>3, <2>4
<1>9. MergeWindow'
  BY <1>2 DEF MergeWindow
<1>10. NothingLost'
  <2> SUFFICES ASSUME NEW k \in Key, store[k] # NoRec PROVE Held(k)'
    BY <1>2 DEF NothingLost
  <2>1. Held(k)
    BY DEF NothingLost
  <2>2. Sources(k) = fileIds \ window /\ Sources(k)' = fileIds'
    <3>1. k < cursor
      BY <1>1, KeysAssumption DEF Key
    <3> QED BY <1>1, <1>2, <3>1 DEF Sources
  <2>3. \A g \in fileIds : g \in Nat /\ g \in FileId
    BY FileIdNat DEF TypeOK
  <2>4. ASSUME NEW f \in FileId, Newest(k, f), ValueOf(recs[f][k]) = store[k]
        PROVE  \E g \in FileId : Newest(k, g)' /\ ValueOf(recs'[g][k]) = store[k]
    <3>1. /\ f \in fileIds \ window /\ recs[f][k].head # NoRec
          /\ \A g \in fileIds \ window : recs[g][k].head # NoRec => g <= f
      BY <2>2, <2>4 DEF Newest
    <3>2. MergeId \in Nat /\ m \in Nat /\ f \in Nat /\ MergeId \notin window
      BY <1>1, <2>3, <3>1, WindowFacts DEF m
    <3>3. CASE f = MergeId
      <4>1. recs'[m][k] = recs[f][k]
        BY <1>1, <1>3, <3>3
      <4>2. \A g \in fileIds' : recs'[g][k].head # NoRec => g <= m
        <5> SUFFICES ASSUME NEW g \in fileIds', recs'[g][k].head # NoRec, g # m
                     PROVE  g <= m
          BY <3>2
        <5>1. g \in fileIds \ window /\ g # MergeId
          BY <1>2
        <5>2. g <= MergeId
          BY <1>3, <2>3, <3>1, <3>3, <5>1
        <5> QED BY <1>1, <2>3, <3>2, <5>1, <5>2
      <4>3. PICK n \in FileId : n = m
        BY <1>1
      <4>4. Newest(k, n)'
        BY <1>2, <2>2, <3>1, <4>1, <4>2, <4>3 DEF Newest
      <4> QED BY <1>2, <2>4, <4>1, <4>3, <4>4
    <3>4. CASE f # MergeId
      <4>1. recs'[f][k] = recs[f][k] /\ f \in fileIds'
        BY <1>1, <1>2, <1>3, <3>1, <3>4
      <4>2. \A g \in fileIds' : recs'[g][k].head # NoRec => g <= f
        <5> SUFFICES ASSUME NEW g \in fileIds', recs'[g][k].head # NoRec
                     PROVE  g <= f
          OBVIOUS
        <5>1. CASE g = m
          <6>1. recs[MergeId][k].head # NoRec
            BY <1>1, <1>3, <5>1
          <6>2. MergeId <= f
            BY <1>1, <3>1, <3>2, <6>1
          <6>3. m < f
            BY <1>1, <3>1, <3>2, <3>4, <6>2 DEF MergeWindow
          <6> QED BY <3>2, <5>1, <6>3
        <5>2. CASE g # m
          <6>1. g \in fileIds \ window /\ g # MergeId
            BY <1>2, <5>2
          <6> QED BY <1>3, <2>3, <3>1, <5>2, <6>1
        <5> QED BY <5>1, <5>2
      <4>3. Newest(k, f)'
        BY <2>2, <3>1, <4>1, <4>2 DEF Newest
      <4> QED BY <2>4, <4>1, <4>3
    <3> QED BY <3>3, <3>4
  <2> QED BY <1>2, <2>1, <2>4, HeldKept
<1> QED BY <1>5, <1>6, <1>7, <1>8, <1>9, <1>10

-----------------------------------------------------------------------------
LEMMA StutterKeeps == ASSUME IInv, UNCHANGED vars PROVE IInv'
<1> USE DEF IInv, vars
<1>1. TypeOK' /\ SlotsFilled' /\ AbsentEmpty'
  BY DEF TypeOK, SlotsFilled, AbsentEmpty
<1>2. DumpNewest' /\ DumpOrder' /\ ChunkInTree'
  BY DEF DumpNewest, DumpOrder, ChunkInTree
<1>3. MergeWindow'
  BY DEF MergeWindow, MergeId
<1>4. NothingLost'
  BY DEF NothingLost, Held, Newest, Sources, MergeId
<1> QED BY <1>1, <1>2, <1>3, <1>4

LEMMA NextIInv == IInv /\ [Next]_vars => IInv'
<1> SUFFICES ASSUME IInv, [Next]_vars PROVE IInv'
  OBVIOUS
<1>1. CASE Add
  BY <1>1, AddKeeps DEF Add
<1>2. CASE DumpStart
  BY <1>2, DumpStartKeeps
<1>3. CASE Fetch
  BY <1>3, DumpFetchKeeps DEF Fetch
<1>4. CASE DumpWritten
  BY <1>4, DumpWrittenKeeps
<1>5. CASE DumpDone
  BY <1>5, DumpDoneKeeps
<1>6. CASE MergeStart
  BY <1>6, BeginMergeKeeps DEF MergeStart
<1>7. CASE MergeDone
  BY <1>7, MergeDoneKeeps
<1>8. CASE Bury
  BY <1>8, BuryKeeps
<1>9. CASE \E next \in 2 .. NumKeys + 1 : MergeStep(next)
  BY <1>9, MergeStepKeeps
<1>10. CASE ForceMerge
  <2>1. Candidates \in SUBSET Candidates
    OBVIOUS
  <2> QED BY <1>10, <2>1, BeginMergeKeeps DEF ForceMerge
<1>11. CASE ForceMergeOfOne
  BY <1>11, ForceMergeOfOneKeeps
<1>12. CASE \E f \in FileId, next \in 2 .. NumKeys + 1 : ChopHead(f, next)
  BY <1>12, ChopHeadKeeps
<1>13. CASE UNCHANGED vars
  BY <1>13, StutterKeeps
<1> QED BY <1>1, <1>2, <1>3, <1>4, <1>5, <1>6, <1>7, <1>8, <1>9, <1>10, <1>11,
           <1>12, <1>13 DEF Next, Merge

(* The invariant of Rdb: whatever of a record is in the tree, in the chunk  *)
(* being dumped, in the files and in the file merged into, one of the tree  *)
(* and the newest of the files that count holds the acknowledged payload.   *)
THEOREM RdbInductive == Spec => []IInv
<1>1. Init => IInv
  BY InitIInv
<1>2. IInv /\ [Next]_vars => IInv'
  BY NextIInv
<1> QED BY <1>1, <1>2, PTL DEF Spec

(* Dumps, merges and chopped heads keep every variable in its range: file   *)
(* ids stay ids, slots never hold a positive record before its negative.    *)
THEOREM RdbTypeCorrect == Spec => []TypeOK
<1>1. IInv => TypeOK
  BY DEF IInv
<1> QED BY <1>1, RdbInductive, PTL

(* A read of a key with tree and files of its newest record finds it. *)
LEMMA LookupNewest ==
  ASSUME TypeOK, NEW k \in Key, store[k] # NoRec,
         tree[k] # store[k] => /\ tree[k] = NoRec
                               /\ \E f \in Visible :
                                    /\ recs[f][k].head # NoRec
                                    /\ ValueOf(recs[f][k]) = store[k]
                                    /\ \A g \in Visible :
                                         recs[g][k].head # NoRec => g <= f
  PROVE  Lookup(k) = store[k]
<1>1. CASE tree[k] = store[k]
  BY <1>1, RecAssumption DEF Lookup, TypeOK
<1>2. CASE tree[k] # store[k]
  <2>1. PICK f \in Visible : /\ recs[f][k].head # NoRec
                             /\ ValueOf(recs[f][k]) = store[k]
                             /\ \A g \in Visible :
                                  recs[g][k].head # NoRec => g <= f
    BY <1>2
  <2>2. Visible \subseteq FileId
    BY DEF Visible, TypeOK
  <2>3. f \in Filled(Visible, k) /\ Filled(Visible, k) \in SUBSET FileId
    BY <2>1, <2>2 DEF Filled
  <2>4. /\ MaxOf(Filled(Visible, k)) \in Filled(Visible, k)
        /\ f <= MaxOf(Filled(Visible, k))
    BY <2>3, MaxFacts
  <2>5. MaxOf(Filled(Visible, k)) <= f
    BY <2>1, <2>4 DEF Filled
  <2>6. f \in Nat /\ MaxOf(Filled(Visible, k)) \in Nat
    BY <2>3, <2>4, FileIdNat
  <2>7. MaxOf(Filled(Visible, k)) = f
    BY <2>4, <2>5, <2>6
  <2> QED BY <1>2, <2>1, <2>3, <2>7 DEF Lookup
<1> QED BY <1>1, <1>2

LEMMA QuietLookup ==
  ASSUME IInv, merge # "merging", NEW k \in Key, store[k] # NoRec
  PROVE  Lookup(k) = store[k]
<1>1. Held(k)
  BY DEF IInv, NothingLost
<1>2. Sources(k) = Visible
  <2>1. CASE merge = "idle"
    BY <2>1 DEF Sources, Visible
  <2>2. CASE merge = "unlinking"
    <3>1. k < cursor
      BY <2>2, KeysAssumption DEF IInv, MergeWindow, Key
    <3> QED BY <2>2, <3>1 DEF Sources, Visible
  <2> QED BY <2>1, <2>2 DEF IInv, TypeOK
<1>3. tree[k] # store[k] =>
        /\ tree[k] = NoRec
        /\ \E f \in Visible : /\ recs[f][k].head # NoRec
                              /\ ValueOf(recs[f][k]) = store[k]
                              /\ \A g \in Visible :
                                   recs[g][k].head # NoRec => g <= f
  BY <1>1, <1>2 DEF Held, Newest
<1> QED BY <1>3, LookupNewest DEF IInv

(* Dumps, half-done dumps, merges, forced merges and chopped heads lose no  *)
(* acknowledged record: as soon as no merge is on, a read finds it.         *)
THEOREM RdbQuietReads == Spec => []QuietReads
<1>1. IInv => QuietReads
  BY QuietLookup DEF QuietReads
<1> QED BY <1>1, RdbInductive, PTL

-----------------------------------------------------------------------------
(* While a merge is on, reads take the files being merged, whole as long as *)
(* no heads are chopped, and pass over the file merged into only because    *)
(* each of its records has a newer file of the window before it.            *)
NewestWhole(k, f) ==
  /\ f \in fileIds \ {MergeId}
  /\ recs[f][k].head # NoRec
  /\ \A g \in fileIds \ {MergeId} : recs[g][k].head # NoRec => g <= f

HeldWhole(k) ==
  \/ tree[k] = store[k]
  \/ /\ tree[k] = NoRec
     /\ \E f \in FileId : NewestWhole(k, f) /\ ValueOf(recs[f][k]) = store[k]

WindowWhole ==
  merge = "merging" => \A k \in Key :
    /\ store[k] # NoRec => HeldWhole(k)
    /\ recs[MergeId][k].head # NoRec => Filled(window, k) # {}

(* Keys the merge has not come to, also right when it begins. *)
LEMMA WholeAhead ==
  ASSUME IInv, merge = "merging", NEW k \in Key, ~ (k < cursor), store[k] # NoRec
  PROVE  HeldWhole(k)
<1>1. Held(k)
  BY DEF IInv, NothingLost
<1>2. Sources(k) = fileIds \ {MergeId}
  BY DEF Sources
<1> QED BY <1>1, <1>2 DEF Held, HeldWhole, Newest, NewestWhole

LEMMA BeginMergeWhole ==
  ASSUME IInv, IInv', MayMerge, NEW W \in SUBSET Candidates, BeginMerge(W)
  PROVE  WindowWhole'
<1>1. merge' = "merging" /\ cursor' = 1 /\ recs' = recs /\ MergeId' = MinOf(W) - 1
  BY DEF BeginMerge, MergeId
<1>2. \A k \in Key : recs[MinOf(W) - 1][k].head = NoRec
  <2>1. W # {}
    BY DEF BeginMerge, Window
  <2> QED BY <2>1, MergeIdFree DEF IInv, AbsentEmpty
<1>3. ASSUME NEW k \in Key, store'[k] # NoRec PROVE HeldWhole(k)'
  <2>1. ~ (k < cursor')
    BY <1>1, KeysAssumption DEF Key
  <2>2. (IInv /\ merge = "merging" /\ ~ (k < cursor) /\ store[k] # NoRec
          => HeldWhole(k))'
    BY WholeAhead, PTL
  <2> QED BY <1>1, <1>3, <2>1, <2>2
<1> QED BY <1>1, <1>2, <1>3 DEF WindowWhole

LEMMA AddWhole ==
  ASSUME IInv, WindowWhole, NEW k \in Key,
         AddNegative(k) \/ \E d \in Data : AddPositive(k, d)
  PROVE  WindowWhole'
<1>1. UNCHANGED <<fileIds, recs, mergeVars>>
  BY DEF AddNegative, AddPositive
<1>2. \A j \in Key : \/ tree'[j] = tree[j] /\ store'[j] = store[j]
                     \/ tree'[j] = store'[j]
                     \/ store'[j] = NoRec
  BY DEF AddNegative, AddPositive, IInv, TypeOK
<1>3. MergeId' = MergeId
  BY <1>1 DEF MergeId, mergeVars
<1>4. \A j \in Key, f \in FileId : NewestWhole(j, f)' <=> NewestWhole(j, f)
  BY <1>1, <1>3 DEF NewestWhole
<1>5. ASSUME merge = "merging", NEW j \in Key, store'[j] # NoRec
      PROVE  HeldWhole(j)'
  BY <1>1, <1>2, <1>4, <1>5 DEF HeldWhole, WindowWhole
<1> QED BY <1>1, <1>3, <1>5 DEF WindowWhole, Filled, mergeVars

LEMMA DumpStartWhole == ASSUME IInv, WindowWhole, DumpStart PROVE WindowWhole'
<1> SUFFICES ASSUME merge = "merging", NEW k \in Key
             PROVE  /\ store[k] # NoRec => HeldWhole(k)'
                    /\ recs[MergeId][k].head # NoRec => Filled(window, k) # {}
  BY DEF DumpStart, WindowWhole, MergeId, Filled, mergeVars
<1>1. /\ UNCHANGED <<tree, recs, mergeVars, store>>
      /\ fileIds' = fileIds \union {NewId} /\ MergeId' = MergeId
  BY DEF DumpStart, MergeId, mergeVars
<1>2. NewId \notin fileIds /\ NewId \in FileId
  <2>1. \A f \in fileIds : f \in Nat
    BY FileIdNat DEF IInv, TypeOK
  <2> QED BY <2>1, NewIdFacts, IdAssumption DEF DumpStart, FileId, IInv
<1>3. recs[NewId][k].head = NoRec
  BY <1>2 DEF IInv, AbsentEmpty
<1>4. ASSUME NEW f \in FileId, NewestWhole(k, f) PROVE NewestWhole(k, f)'
  BY <1>1, <1>3, <1>4 DEF NewestWhole
<1> QED BY <1>1, <1>4 DEF WindowWhole, HeldWhole

LEMMA DumpWrittenWhole ==
  ASSUME IInv, IInv', WindowWhole, DumpWritten
  PROVE  WindowWhole'
<1> SUFFICES ASSUME merge = "merging", NEW k \in Key
             PROVE  /\ store[k] # NoRec => HeldWhole(k)'
                    /\ recs'[MergeId][k].head # NoRec => Filled(window, k)' # {}
  BY DEF DumpWritten, WindowWhole, MergeId, mergeVars
<1>1. /\ UNCHANGED <<fileIds, dumpId, mergeVars, store>> /\ MergeId' = MergeId
      /\ merge' = "merging" /\ window' = window
  BY DEF DumpWritten, MergeId, mergeVars
<1>2. dumpId \in fileIds \ window /\ dumpId # MergeId
  BY DumpIdApart DEF DumpWritten
<1>3. window \subseteq FileId /\ fileIds \subseteq FileId /\ MergeId \in FileId
  BY DEF IInv, TypeOK, MergeWindow
<1>4. /\ \A f \in FileId \ {dumpId} : recs'[f][k] = recs[f][k]
      /\ recs'[dumpId][k] = Append(recs[dumpId][k], queue[k])
  BY <1>2, <1>3 DEF DumpWritten, IInv, TypeOK
<1>5. recs'[MergeId][k].head # NoRec => Filled(window, k)' # {}
  <2>1. Filled(window, k)' = Filled(window, k)
    BY <1>1, <1>2, <1>3, <1>4 DEF Filled
  <2> QED BY <1>2, <1>3, <1>4, <2>1 DEF WindowWhole
<1>6. ASSUME store[k] # NoRec PROVE HeldWhole(k)'
  <2>1. CASE queue[k] = NoRec
    <3>1. tree'[k] = tree[k]
      BY <2>1 DEF DumpWritten, Dumped
    <3>2. \A f \in FileId : recs'[f][k] = recs[f][k]
      BY <1>4, <2>1 DEF Append
    <3>3. ASSUME NEW f \in FileId, NewestWhole(k, f) PROVE NewestWhole(k, f)'
      BY <1>1, <1>3, <3>2, <3>3 DEF NewestWhole
    <3> QED BY <1>1, <1>6, <3>1, <3>2, <3>3 DEF WindowWhole, HeldWhole
  <2>2. CASE queue[k] # NoRec /\ tree'[k] # store'[k]
    <3>1. recs'[dumpId][k].head # NoRec
      BY <1>4, <2>2 DEF Append
    <3>2. Held(k)'
      BY <1>1, <1>6 DEF IInv, NothingLost
    <3>3. PICK f \in FileId : Newest(k, f)' /\ ValueOf(recs'[f][k]) = store'[k]
      BY <2>2, <3>2 DEF Held
    <3>4. /\ f \in fileIds /\ \A g \in fileIds : g <= dumpId
      BY <1>1, <3>3 DEF IInv, DumpNewest, DumpWritten, Newest, Sources
    <3>5. dumpId \in Sources(k)'
      BY <1>1, <1>2 DEF Sources
    <3>6. dumpId <= f
      BY <3>1, <3>3, <3>5 DEF Newest
    <3>7. f = dumpId
      <4>1. f \in Nat /\ dumpId \in Nat
        BY <1>2, <1>3, FileIdNat
      <4> QED BY <3>4, <3>6, <4>1
    <3>8. NewestWhole(k, f)'
      BY <1>1, <1>2, <3>1, <3>4, <3>7 DEF NewestWhole
    <3> QED BY <2>2, <3>2, <3>3, <3>8 DEF Held, HeldWhole
  <2>3. CASE tree'[k] = store'[k]
    BY <2>3 DEF HeldWhole
  <2> QED BY <2>1, <2>2, <2>3
<1> QED BY <1>5, <1>6

LEMMA MergeStepWhole ==
  ASSUME IInv, WindowWhole, NEW next \in 2 .. NumKeys + 1, MergeStep(next)
  PROVE  WindowWhole'
<1> SUFFICES ASSUME merge = "merging", NEW k \in Key
             PROVE  /\ store[k] # NoRec => HeldWhole(k)'
                    /\ recs'[MergeId][k].head # NoRec => Filled(window, k)' # {}
  BY DEF MergeStep, WindowWhole, MergeId
<1>1. /\ UNCHANGED <<tree, fileIds, window, store>> /\ MergeId' = MergeId
  BY DEF MergeStep, MergeId
<1>2. /\ MergeId \in FileId /\ fileIds \subseteq FileId /\ window \subseteq fileIds
      /\ MergeId \notin window
  <2>1. window # {} /\ MergeId \in FileId
    BY DEF IInv, TypeOK, MergeWindow
  <2>2. \A w \in window : MergeId < w
    BY <2>1, WindowFacts DEF IInv
  <2>3. MergeId \in Nat
    BY <2>1, FileIdNat
  <2> QED BY <2>1, <2>2, <2>3 DEF IInv, TypeOK, MergeWindow
<1>3. /\ \A f \in FileId \ {MergeId} : recs'[f][k] = recs[f][k]
      /\ \/ recs'[MergeId][k] = recs[MergeId][k]
         \/ recs'[MergeId][k] = MergedSlot(window, k, RemoveNegs)
  BY <1>2 DEF MergeStep, IInv, TypeOK
<1>4. recs'[MergeId][k].head # NoRec => Filled(window, k)' # {}
  <2>1. Filled(window, k)' = Filled(window, k)
    BY <1>1, <1>2, <1>3 DEF Filled
  <2>2. Filled(window, k) = {} => MergedSlot(window, k, RemoveNegs).head = NoRec
    BY DEF MergedSlot, Empty
  <2> QED BY <1>3, <2>1, <2>2 DEF WindowWhole
<1>5. ASSUME NEW f \in FileId, NewestWhole(k, f)
      PROVE  NewestWhole(k, f)' /\ recs'[f][k] = recs[f][k]
  BY <1>1, <1>2, <1>3, <1>5 DEF NewestWhole
<1> QED BY <1>1, <1>4, <1>5 DEF WindowWhole, HeldWhole

LEMMA NextWhole ==
  ASSUME ~BigFiles
  PROVE  IInv /\ WindowWhole /\ [Next]_vars => WindowWhole'
<1> SUFFICES ASSUME IInv, WindowWhole, [Next]_vars PROVE WindowWhole'
  OBVIOUS
<1>1. IInv'
  BY NextIInv
<1>2. CASE Add
  BY <1>2, AddWhole DEF Add
<1>3. CASE DumpStart
  BY <1>3, DumpStartWhole
<1>4. CASE Fetch \/ DumpDone \/ UNCHANGED vars
  <2>1. UNCHANGED <<tree, fileIds, recs, mergeVars, store>>
    BY <1>4 DEF Fetch, DumpFetch, DumpDone, vars, mergeVars
  <2> QED BY <2>1 DEF WindowWhole, HeldWhole, NewestWhole, MergeId, Filled, mergeVars
<1>5. CASE DumpWritten
  BY <1>1, <1>5, DumpWrittenWhole
<1>6. CASE MergeStart
  BY <1>1, <1>6, BeginMergeWhole DEF MergeStart
<1>7. CASE ForceMerge
  <2>1. Candidates \in SUBSET Candidates
    OBVIOUS
  <2> QED BY <1>1, <1>7, <2>1, BeginMergeWhole DEF ForceMerge
<1>8. CASE MergeDone \/ Bury \/ ForceMergeOfOne
  <2>1. merge' # "merging"
    BY <1>8 DEF MergeDone, Bury, ForceMergeOfOne, MayMerge, mergeVars
  <2> QED BY <2>1 DEF WindowWhole
<1>9. CASE \E next \in 2 .. NumKeys + 1 : MergeStep(next)
  BY <1>9, MergeStepWhole
<1>10. CASE \E f \in FileId, next \in 2 .. NumKeys + 1 : ChopHead(f, next)
  BY <1>10 DEF ChopHead
<1> QED BY <1>2, <1>3, <1>4, <1>5, <1>6, <1>7, <1>8, <1>9, <1>10 DEF Next, Merge

(* When no file is so large that its head is chopped, a read finds every    *)
(* acknowledged record at any time, however far a dump and a merge are.     *)
THEOREM RdbPutsVisible == ASSUME ~BigFiles PROVE Spec => []PutsVisible
<1>1. Init => WindowWhole
  BY DEF Init, WindowWhole
<1>2. IInv /\ WindowWhole /\ [Next]_vars => WindowWhole'
  BY NextWhole
<1>3. IInv /\ WindowWhole => PutsVisible
  <2> SUFFICES ASSUME IInv, WindowWhole, NEW k \in Key, store[k] # NoRec
               PROVE  Lookup(k) = store[k]
    BY DEF PutsVisible
  <2>1. CASE merge # "merging"
    BY <2>1, QuietLookup
  <2>2. CASE merge = "merging"
    <3>1. HeldWhole(k) /\ Visible = fileIds
      BY <2>2 DEF WindowWhole, Visible
    <3>2. ASSUME NEW f \in FileId, NewestWhole(k, f),
                 recs[MergeId][k].head # NoRec
          PROVE  MergeId <= f
      <4>1. PICK w \in window : recs[w][k].head # NoRec
        BY <2>2, <3>2 DEF WindowWhole, Filled
      <4>2. MergeId < w /\ w \in fileIds /\ w # MergeId
        <5>1. MergeId < w /\ w \in fileIds /\ MergeId \in FileId
          BY <2>2, <4>1, WindowFacts DEF IInv, TypeOK, MergeWindow
        <5> QED BY <5>1, FileIdNat
      <4>3. w <= f
        BY <3>2, <4>1, <4>2 DEF NewestWhole
      <4>4. MergeId \in Nat /\ w \in Nat /\ f \in Nat
        BY <2>2, <4>2, FileIdNat DEF IInv, TypeOK, MergeWindow
      <4> QED BY <4>2, <4>3, <4>4
    <3>3. tree[k] # store[k] =>
            /\ tree[k] = NoRec
            /\ \E f \in Visible : /\ recs[f][k].head # NoRec
                                  /\ ValueOf(recs[f][k]) = store[k]
                                  /\ \A g \in Visible :
                                       recs[g][k].head # NoRec => g <= f
      BY <3>1, <3>2 DEF HeldWhole, NewestWhole
    <3> QED BY <3>3, LookupNewest DEF IInv
  <2> QED BY <2>1, <2>2
<1> QED BY <1>1, <1>2, <1>3, RdbInductive, PTL DEF Spec


-----------------------------------------------------------------------------
(* With every merge window at the oldest file and no heads chopped, the     *)
(* files give one record of a key at any time, the same from the first key  *)
(* of a merge to the unlinking of its files.                                *)

(* What a list of slots, one of each file of F, gives: the newest decides.  *)
Given(slots, F) ==
  LET filled == {f \in F : slots[f].head # NoRec}
  IN  IF filled = {} THEN NoRec ELSE ValueOf(slots[MaxOf(filled)])

SlotsOf(k) == [f \in FileId |-> recs[f][k]]

(* The files that are complete until a merge has ended. *)
Whole == IF merge = "idle" THEN fileIds ELSE fileIds \ {MergeId}

(* What a record in the tree says of its key. *)
Meant(r) == IF r = Neg THEN NoRec ELSE r

StoreGiven ==
  \A k \in Key : store[k] = IF tree[k] = NoRec THEN Given(SlotsOf(k), Whole)
                            ELSE Meant(tree[k])

(* The file merged into has just what merge_r() makes of the window. *)
Mirror ==
  merge # "idle" => \A k \in Key :
    recs[MergeId][k] = IF k < cursor THEN MergedSlot(window, k, TRUE) ELSE Empty

(* File 1 stays the oldest one, and every merge begins with it. *)
OldestFirst ==
  /\ fileIds # {} => 1 \in fileIds
  /\ merge # "idle" => MinOf(window) = 1

StoreInv == IInv /\ StoreGiven /\ Mirror /\ OldestFirst

(* The newest file that has the key gives its record. *)
LEMMA GivenByNewest ==
  ASSUME NEW slots, NEW F \in SUBSET FileId, NEW f \in F, slots[f].head # NoRec,
         \A g \in F : slots[g].head # NoRec => g <= f
  PROVE  Given(slots, F) = ValueOf(slots[f])
<1> DEFINE filled == {g \in F : slots[g].head # NoRec}
<1>1. filled \in SUBSET FileId /\ f \in filled
  OBVIOUS
<1>2. MaxOf(filled) \in filled /\ f <= MaxOf(filled)
  <2> HIDE DEF filled
  <2> QED BY <1>1, MaxFacts
<1>3. MaxOf(filled) <= f
  BY <1>2
<1>4. MaxOf(filled) = f
  <2>1. MaxOf(filled) \in Nat /\ f \in Nat
    BY <1>2, FileIdNat
  <2> QED BY <1>2, <1>3, <2>1
<1> QED BY <1>1, <1>4 DEF Given

LEMMA GivenByNone ==
  ASSUME NEW slots, NEW F, \A f \in F : slots[f].head = NoRec
  PROVE  Given(slots, F) = NoRec
BY DEF Given

LEMMA NewestExists ==
  ASSUME NEW slots, NEW F \in SUBSET FileId, \E f \in F : slots[f].head # NoRec
  PROVE  \E f \in F : /\ slots[f].head # NoRec
                      /\ \A g \in F : slots[g].head # NoRec => g <= f
<1> DEFINE filled == {g \in F : slots[g].head # NoRec}
<1>1. filled \in SUBSET FileId /\ filled # {}
  OBVIOUS
<1>2. MaxOf(filled) \in filled /\ \A g \in filled : g <= MaxOf(filled)
  <2> HIDE DEF filled
  <2> QED BY <1>1, MaxFacts
<1> QED BY <1>2

(* Files without a record of the key do not matter. *)
LEMMA GivenSame ==
  ASSUME NEW slots, NEW others,
         NEW F \in SUBSET FileId, NEW G \in SUBSET FileId,
         \A f \in F : slots[f].head # NoRec => f \in G /\ others[f] = slots[f],
         \A f \in G : others[f].head # NoRec => f \in F /\ others[f] = slots[f]
  PROVE  Given(others, G) = Given(slots, F)
<1>1. CASE \E f \in F : slots[f].head # NoRec
  <2>1. PICK f \in F : /\ slots[f].head # NoRec
                       /\ \A g \in F : slots[g].head # NoRec => g <= f
    BY <1>1, NewestExists
  <2>2. Given(slots, F) = ValueOf(slots[f])
    BY <2>1, GivenByNewest
  <2>3. Given(others, G) = ValueOf(others[f])
    BY <2>1, GivenByNewest
  <2> QED BY <2>1, <2>2, <2>3
<1>2. CASE ~ \E f \in F : slots[f].head # NoRec
  BY <1>2, GivenByNone
<1> QED BY <1>1, <1>2

(* A read is a look at the tree, then at what the visible files give. *)
LEMMA LookupGiven ==
  ASSUME TypeOK, NEW k \in Key
  PROVE  Lookup(k) = IF tree[k] = NoRec THEN Given(SlotsOf(k), Visible)
                     ELSE Meant(tree[k])
<1>1. Visible \subseteq FileId
  BY DEF Visible, TypeOK
<1>2. Filled(Visible, k) = {f \in Visible : SlotsOf(k)[f].head # NoRec}
  BY <1>1 DEF Filled, SlotsOf
<1>3. CASE Filled(Visible, k) = {}
  BY <1>2, <1>3 DEF Lookup, Given, Meant
<1>4. CASE Filled(Visible, k) # {}
  <2>1. MaxOf(Filled(Visible, k)) \in FileId
    BY <1>1, <1>4, MaxFacts DEF Filled
  <2>2. SlotsOf(k)[MaxOf(Filled(Visible, k))] = recs[MaxOf(Filled(Visible, k))][k]
    BY <2>1 DEF SlotsOf
  <2>3. Given(SlotsOf(k), Visible) = ValueOf(recs[MaxOf(Filled(Visible, k))][k])
    BY <1>2, <1>4, <2>2 DEF Given
  <2> QED BY <1>4, <2>3 DEF Lookup, Meant
<1> QED BY <1>3, <1>4

(* The merged slot says of the key what the newest of the files says. *)
LEMMA MergedSlotGiven ==
  ASSUME TypeOK, SlotsFilled, NEW F \in SUBSET FileId, NEW k \in Key,
         NEW f \in F, recs[f][k].head # NoRec,
         \A g \in F : recs[g][k].head # NoRec => g <= f
  PROVE  ValueOf(MergedSlot(F, k, TRUE)) = ValueOf(recs[f][k])
<1>1. CASE ValueOf(recs[f][k]) # NoRec
  BY <1>1, MergedSlotValue
<1>2. CASE ValueOf(recs[f][k]) = NoRec
  <2>1. recs[f][k].head = Neg /\ recs[f][k].next = NoRec
    BY <1>2, RecAssumption DEF ValueOf
  <2>2. f \in Filled(F, k) /\ \A g \in Filled(F, k) : g <= f
    BY DEF Filled
  <2>3. MaxOf(Filled(F, k)) = f
    <3>1. MaxOf(Filled(F, k)) \in Filled(F, k) /\ f <= MaxOf(Filled(F, k))
      BY <2>2, MaxFacts DEF Filled
    <3>2. MaxOf(Filled(F, k)) \in Nat /\ f \in Nat
      BY <3>1, FileIdNat DEF Filled
    <3> QED BY <2>2, <3>1, <3>2
  <2>4. Doubles(F, k) # {} => f > MaxOf(Doubles(F, k))
    <3> SUFFICES ASSUME Doubles(F, k) # {} PROVE f > MaxOf(Doubles(F, k))
      OBVIOUS
    <3>1. MaxOf(Doubles(F, k)) \in Doubles(F, k)
      BY MaxFacts DEF Doubles
    <3>2. /\ MaxOf(Doubles(F, k)) \in F /\ MaxOf(Doubles(F, k)) # f
          /\ recs[MaxOf(Doubles(F, k))][k].head # NoRec
      BY <2>1, <3>1 DEF Doubles, SlotsFilled
    <3>3. MaxOf(Doubles(F, k)) <= f
      BY <3>2
    <3>4. MaxOf(Doubles(F, k)) \in Nat /\ f \in Nat
      BY <3>2, FileIdNat
    <3> QED BY <3>2, <3>3, <3>4
  <2>5. MergedSlot(F, k, TRUE) = [head |-> NoRec, next |-> NoRec]
    BY <2>1, <2>2, <2>3, <2>4 DEF MergedSlot
  <2>6. ValueOf([head |-> NoRec, next |-> NoRec]) = NoRec
    BY DEF ValueOf
  <2> QED BY <1>2, <2>5, <2>6
<1> QED BY <1>1, <1>2

(* merge_r() gets records from the files it merges only. *)
LEMMA MergedSlotFilled ==
  ASSUME NEW F, NEW k, Filled(F, k) = {}
  PROVE  MergedSlot(F, k, TRUE) = Empty
BY DEF MergedSlot

(* Between its file and the files it merges a merge hides nothing: readers  *)
(* get the same with the file, and with the window passed over.             *)
LEMMA WindowAside ==
  ASSUME IInv, OldestFirst, merge # "idle"
  PROVE  /\ MergeId = 0 /\ 1 \in window /\ window # {}
         /\ window \subseteq Whole /\ Whole \subseteq FileId
         /\ MergeId \in fileIds /\ fileIds \subseteq FileId
         /\ \A f \in Whole \ window, w \in window : w < f
         /\ \A f \in Whole : 1 <= f
<1>1. /\ window # {} /\ window \subseteq fileIds /\ fileIds \subseteq FileId
      /\ MergeId \in fileIds
  BY DEF IInv, TypeOK, MergeWindow
<1>2. MinOf(window) = 1 /\ MergeId = 0
  BY DEF OldestFirst, MergeId
<1>3. 1 \in window /\ \A w \in window : 1 <= w
  BY <1>1, <1>2, MinFacts
<1>4. Whole = fileIds \ {0}
  BY <1>2 DEF Whole
<1>5. \A f \in Whole : f \in Nat /\ f # 0
  BY <1>1, <1>4, FileIdNat
<1>6. \A f \in Whole \ window, w \in window : w < f
  BY <1>2, <1>4, <1>5 DEF IInv, MergeWindow
<1> QED BY <1>1, <1>2, <1>3, <1>4, <1>5, <1>6

LEMMA MergeFileBehind ==
  ASSUME StoreInv, merge # "idle", NEW k \in Key
  PROVE  Given(SlotsOf(k), fileIds) = Given(SlotsOf(k), Whole)
<1>1. /\ MergeId = 0 /\ window \subseteq Whole /\ Whole \subseteq FileId
      /\ fileIds = Whole \union {MergeId} /\ fileIds \subseteq FileId
      /\ MergeId \in FileId
  BY WindowAside DEF StoreInv, Whole
<1>2. \A f \in FileId : SlotsOf(k)[f] = recs[f][k]
  BY DEF SlotsOf
<1>3. recs[MergeId][k].head # NoRec => Filled(window, k) # {}
  <2>1. recs[MergeId][k] = IF k < cursor THEN MergedSlot(window, k, TRUE) ELSE Empty
    BY DEF StoreInv, Mirror
  <2>2. Filled(window, k) = {} => MergedSlot(window, k, TRUE) = Empty
    BY MergedSlotFilled
  <2>3. Empty.head = NoRec
    BY DEF Empty
  <2> QED BY <2>1, <2>2, <2>3
<1>4. CASE \E f \in Whole : SlotsOf(k)[f].head # NoRec
  <2>1. PICK f \in Whole : /\ SlotsOf(k)[f].head # NoRec
                           /\ \A g \in Whole : SlotsOf(k)[g].head # NoRec => g <= f
    BY <1>1, <1>4, NewestExists
  <2>2. MergeId <= f
    BY <1>1, <2>1, FileIdNat
  <2>3. Given(SlotsOf(k), fileIds) = ValueOf(SlotsOf(k)[f])
    BY <1>1, <2>1, <2>2, GivenByNewest
  <2> QED BY <1>1, <2>1, <2>3, GivenByNewest
<1>5. CASE ~ \E f \in Whole : SlotsOf(k)[f].head # NoRec
  <2>1. Filled(window, k) = {}
    BY <1>1, <1>2, <1>5 DEF Filled
  <2>2. \A f \in fileIds : SlotsOf(k)[f].head = NoRec
    BY <1>1, <1>2, <1>3, <1>5, <2>1
  <2> QED BY <1>5, <2>2, GivenByNone
<1> QED BY <1>4, <1>5

LEMMA MergedWindow ==
  ASSUME StoreInv, merge # "idle", NEW k \in Key, k < cursor
  PROVE  Given(SlotsOf(k), fileIds \ window) = Given(SlotsOf(k), Whole)
<1> DEFINE V == fileIds \ window
<1>1. /\ MergeId = 0 /\ window \subseteq Whole /\ Whole \subseteq FileId
      /\ window \subseteq FileId /\ MergeId \in FileId
      /\ V = (Whole \ window) \union {MergeId} /\ V \subseteq FileId
      /\ \A f \in Whole \ window, w \in window : w < f
      /\ \A f \in Whole : 1 <= f
  BY WindowAside DEF StoreInv, Whole
<1> HIDE DEF V
<1>2. \A f \in FileId : SlotsOf(k)[f] = recs[f][k]
  BY DEF SlotsOf
<1>3. recs[MergeId][k] = MergedSlot(window, k, TRUE)
  BY DEF StoreInv, Mirror
<1>4. CASE \E f \in Whole : SlotsOf(k)[f].head # NoRec
  <2>1. PICK f \in Whole : /\ SlotsOf(k)[f].head # NoRec
                           /\ \A g \in Whole : SlotsOf(k)[g].head # NoRec => g <= f
    BY <1>1, <1>4, NewestExists
  <2>2. Given(SlotsOf(k), Whole) = ValueOf(SlotsOf(k)[f])
    BY <1>1, <2>1, GivenByNewest
  <2>3. CASE f \notin window
    <3>1. f \in V /\ \A g \in V : SlotsOf(k)[g].head # NoRec => g <= f
      BY <1>1, <2>1, <2>3, FileIdNat
    <3> QED BY <1>1, <2>1, <2>2, <3>1, GivenByNewest DEF V
  <2>4. CASE f \in window
    <3>1. ValueOf(recs[MergeId][k]) = ValueOf(SlotsOf(k)[f])
      <4>1. \A g \in window : recs[g][k].head # NoRec => g <= f
        BY <1>1, <1>2, <2>1
      <4>2. recs[f][k].head # NoRec
        BY <1>1, <1>2, <2>1
      <4> QED BY <1>1, <1>2, <1>3, <2>4, <4>1, <4>2, MergedSlotGiven
              DEF StoreInv, IInv
    <3>2. \A g \in V : SlotsOf(k)[g].head # NoRec => g = MergeId
      <4> SUFFICES ASSUME NEW g \in Whole \ window, SlotsOf(k)[g].head # NoRec
                   PROVE  FALSE
        BY <1>1
      <4>1. f < g /\ g <= f
        BY <1>1, <2>1, <2>4
      <4>2. f \in Nat /\ g \in Nat
        BY <1>1, FileIdNat
      <4> QED BY <4>1, <4>2
    <3>3. CASE SlotsOf(k)[MergeId].head # NoRec
      <4>1. \A g \in V : SlotsOf(k)[g].head # NoRec => g <= MergeId
        BY <1>1, <3>2
      <4>2. Given(SlotsOf(k), V) = ValueOf(SlotsOf(k)[MergeId])
        BY <1>1, <3>3, <4>1, GivenByNewest
      <4> QED BY <1>1, <1>2, <2>2, <3>1, <4>2 DEF V
    <3>4. CASE SlotsOf(k)[MergeId].head = NoRec
      <4>1. Given(SlotsOf(k), V) = NoRec
        BY <3>2, <3>4, GivenByNone
      <4>2. ValueOf(recs[MergeId][k]) = NoRec
        BY <1>1, <1>2, <3>4, RecAssumption DEF ValueOf
      <4> QED BY <2>2, <3>1, <4>1, <4>2 DEF V
    <3> QED BY <3>3, <3>4
  <2> QED BY <2>3, <2>4
<1>5. CASE ~ \E f \in Whole : SlotsOf(k)[f].head # NoRec
  <2>1. Filled(window, k) = {}
    BY <1>1, <1>2, <1>5 DEF Filled
  <2>2. recs[MergeId][k].head = NoRec
    <3>1. MergedSlot(window, k, TRUE) = Empty /\ Empty.head = NoRec
      BY <2>1, MergedSlotFilled DEF Empty
    <3> QED BY <1>3, <3>1
  <2>3. \A f \in V : SlotsOf(k)[f].head = NoRec
    BY <1>1, <1>2, <1>5, <2>2
  <2>4. Given(SlotsOf(k), V) = NoRec /\ Given(SlotsOf(k), Whole) = NoRec
    BY <1>5, <2>3, GivenByNone
  <2> QED BY <2>4 DEF V
<1> QED BY <1>4, <1>5

(* Whatever a merge is at, the visible files give what the complete ones do. *)
LEMMA VisibleGiven ==
  ASSUME StoreInv, NEW k \in Key
  PROVE  Given(SlotsOf(k), Visible) = Given(SlotsOf(k), Whole)
<1>1. CASE merge = "idle"
  BY <1>1 DEF Visible, Whole
<1>2. CASE merge = "merging"
  BY <1>2, MergeFileBehind DEF Visible
<1>3. CASE merge = "unlinking"
  <2>1. k < cursor
    BY <1>3, KeysAssumption DEF StoreInv, IInv, MergeWindow, Key
  <2> QED BY <1>3, <2>1, MergedWindow DEF Visible
<1> QED BY <1>1, <1>2, <1>3 DEF StoreInv, IInv, TypeOK

(* So reads give what was acknowledged last, deletes included. *)
LEMMA ReadsTheStore ==
  ASSUME StoreInv, NEW k \in Key
  PROVE  Lookup(k) = store[k]
<1>1. Lookup(k) = IF tree[k] = NoRec THEN Given(SlotsOf(k), Whole)
                  ELSE Meant(tree[k])
  BY LookupGiven, VisibleGiven DEF StoreInv, IInv
<1> QED BY <1>1 DEF StoreInv, StoreGiven

(* The oldest file is file 1, or is being dumped and then is the only one: *)
(* merges begin with it.                                                    *)
LEMMA OldestCandidate ==
  ASSUME IInv, OldestFirst, MayMerge, Candidates # {}
  PROVE  MinOf(Candidates) = 1
<1>1. Candidates \subseteq fileIds /\ Candidates \subseteq FileId
  BY DEF Candidates, IInv, TypeOK
<1>2. 1 \in fileIds
  BY <1>1 DEF OldestFirst
<1>3. \A f \in Candidates : f \in Nat /\ f % 2 = 1
  BY <1>1, FileIdNat DEF MayMerge
<1>4. \A f \in Candidates : 1 <= f
  <2> SUFFICES ASSUME NEW f \in Candidates, f = 0 PROVE FALSE
    BY <1>3
  <2> QED BY <1>3
<1>5. 1 \in Candidates
  <2> SUFFICES ASSUME dump # "idle", dumpId = 1 PROVE FALSE
    BY <1>2 DEF Candidates
  <2>1. \A f \in Candidates : f <= 1 /\ f # 1
    BY <1>1 DEF IInv, DumpNewest, Candidates
  <2> QED BY <1>3, <1>4, <2>1
<1>6. MinOf(Candidates) \in Candidates /\ MinOf(Candidates) <= 1
  BY <1>1, <1>5, MinFacts
<1> QED BY <1>3, <1>4, <1>6

LEMMA BeginMergeOldest ==
  ASSUME ~WindowAnywhere, IInv, OldestFirst, MayMerge,
         NEW W \in SUBSET Candidates, BeginMerge(W)
  PROVE  /\ window' = W /\ W # {} /\ W \subseteq fileIds
         /\ MinOf(W) = 1 /\ MergeId' = 0
         /\ fileIds' = fileIds \union {0} /\ 0 \notin fileIds
<1>1. /\ W # {} /\ MinOf(Candidates) \in W /\ window' = W
      /\ fileIds' = fileIds \union {MinOf(W) - 1} /\ MergeId' = MinOf(W) - 1
  BY DEF BeginMerge, Window, MergeId
<1>2. MinOf(Candidates) = 1 /\ W \subseteq fileIds
  BY <1>1, OldestCandidate DEF Candidates
<1>3. MinOf(W) \in W /\ MinOf(W) <= 1
  BY <1>1, <1>2, MinFacts DEF Candidates, IInv, TypeOK
<1>4. \A f \in Candidates : 1 <= f /\ f \in Nat
  <2>1. Candidates \subseteq FileId
    BY DEF Candidates, IInv, TypeOK
  <2> QED BY <1>1, <1>2, <2>1, MinFacts, FileIdNat
<1>5. MinOf(W) = 1
  BY <1>3, <1>4
<1>6. 0 \notin fileIds
  BY <1>1, <1>5, MergeIdFree
<1> QED BY <1>1, <1>2, <1>5, <1>6

LEMMA OldestKept ==
  ASSUME ~WindowAnywhere, IInv, OldestFirst, [Next]_vars
  PROVE  OldestFirst'
<1>1. CASE UNCHANGED <<fileIds, merge, window>>
  BY <1>1 DEF OldestFirst
<1>2. CASE DumpStart
  <2>1. fileIds = {} => NewId = 1
    BY DEF NewId
  <2> QED BY <1>2, <2>1 DEF DumpStart, OldestFirst, mergeVars
<1>3. ASSUME MayMerge, NEW W \in SUBSET Candidates, BeginMerge(W)
      PROVE  OldestFirst'
  <2>1. fileIds' = fileIds \union {0} /\ fileIds # {} /\ MinOf(window') = 1
    BY <1>3, BeginMergeOldest
  <2> QED BY <2>1 DEF OldestFirst
<1>4. CASE MergeStart
  BY <1>3, <1>4 DEF MergeStart
<1>5. CASE ForceMerge
  <2>1. PICK W \in SUBSET Candidates : W = Candidates
    OBVIOUS
  <2>2. MayMerge /\ BeginMerge(W)
    BY <1>5, <2>1 DEF ForceMerge
  <2> QED BY <1>3, <2>2
<1>6. CASE ForceMergeOfOne
  <2>1. Candidates # {} /\ Candidates \subseteq fileIds
    BY <1>6, FS_EmptySet DEF ForceMergeOfOne, Candidates
  <2> QED BY <1>6, <2>1 DEF ForceMergeOfOne, OldestFirst, mergeVars
<1>7. CASE Bury
  BY <1>7 DEF Bury, OldestFirst
<1>8. CASE MergeDone
  BY <1>8 DEF MergeDone, OldestFirst
<1>9. CASE Add
  BY <1>1, <1>9 DEF Add, AddPositive, AddNegative, mergeVars
<1>10. CASE Fetch \/ DumpWritten \/ DumpDone
  BY <1>1, <1>10 DEF Fetch, DumpFetch, DumpWritten, DumpDone, mergeVars
<1>11. CASE \E next \in 2 .. NumKeys + 1 : MergeStep(next)
  BY <1>1, <1>11 DEF MergeStep
<1>12. CASE \E f \in FileId, next \in 2 .. NumKeys + 1 : ChopHead(f, next)
  BY <1>1, <1>12 DEF ChopHead, mergeVars
<1>13. CASE UNCHANGED vars
  BY <1>1, <1>13 DEF vars
<1> QED BY <1>2, <1>4, <1>5, <1>6, <1>7, <1>8, <1>9, <1>10, <1>11, <1>12, <1>13
        DEF Next, Merge

(* merge_r() looks at nothing but the files of the window. *)
LEMMA MergedSlotSame ==
  ASSUME NEW k, window \subseteq FileId, window' = window,
         \A f \in window : recs'[f][k] = recs[f][k]
  PROVE  MergedSlot(window, k, TRUE)' = MergedSlot(window, k, TRUE)
<1>1. Filled(window, k)' = Filled(window, k) /\ Doubles(window, k)' = Doubles(window, k)
  BY DEF Filled, Doubles
<1>2. Filled(window, k) # {} => MaxOf(Filled(window, k)) \in window
  BY MaxFacts DEF Filled
<1>3. Doubles(window, k) # {} => MaxOf(Doubles(window, k)) \in window
  BY MaxFacts DEF Doubles
<1> QED BY <1>1, <1>2, <1>3 DEF MergedSlot

LEMMA MirrorSame ==
  ASSUME IInv, Mirror, UNCHANGED mergeVars,
         \A k \in Key, f \in window \union {MergeId} : recs'[f][k] = recs[f][k]
  PROVE  Mirror'
<1> SUFFICES ASSUME merge # "idle", NEW k \in Key
             PROVE  recs'[MergeId][k] = IF k < cursor THEN MergedSlot(window, k, TRUE)'
                                        ELSE Empty
  BY DEF Mirror, MergeId, mergeVars
<1>1. window \subseteq FileId /\ window' = window
  BY DEF IInv, TypeOK, mergeVars
<1>2. MergedSlot(window, k, TRUE)' = MergedSlot(window, k, TRUE)
  BY <1>1, MergedSlotSame
<1> QED BY <1>2 DEF Mirror

LEMMA MergeStepMirror ==
  ASSUME IInv, OldestFirst, Mirror, NEW next \in 2 .. NumKeys + 1, MergeStep(next)
  PROVE  Mirror'
<1>1. /\ MergeId = 0 /\ MergeId' = MergeId /\ window \subseteq FileId
      /\ window' = window /\ MergeId \notin window /\ MergeId \in FileId
      /\ merge = "merging"
  BY WindowAside DEF MergeStep, MergeId
<1>2. RemoveNegs
  BY <1>1 DEF RemoveNegs, OldestFirst
<1>3. \A f \in FileId, k \in Key :
        recs'[f][k] = IF f = MergeId /\ cursor <= k /\ k < next
                      THEN MergedSlot(window, k, TRUE) ELSE recs[f][k]
  BY <1>1, <1>2 DEF MergeStep, IInv, TypeOK
<1>4. cursor' = next /\ next \in Nat /\ cursor \in Nat /\ cursor < next
  BY KeysAssumption DEF MergeStep, IInv, TypeOK
<1> SUFFICES ASSUME NEW k \in Key
             PROVE  recs'[MergeId][k] = IF k < next THEN MergedSlot(window, k, TRUE)'
                                        ELSE Empty
  BY <1>1, <1>4 DEF Mirror
<1>5. MergedSlot(window, k, TRUE)' = MergedSlot(window, k, TRUE)
  BY <1>1, <1>3, MergedSlotSame
<1>6. recs[MergeId][k] = IF k < cursor THEN MergedSlot(window, k, TRUE) ELSE Empty
  BY <1>1 DEF Mirror
<1>7. k \in Nat
  BY KeysAssumption DEF Key
<1> DEFINE merged == MergedSlot(window, k, TRUE)
<1>8. recs'[MergeId][k] = IF cursor <= k /\ k < next THEN merged ELSE recs[MergeId][k]
  BY <1>1, <1>3
<1>9. recs[MergeId][k] = IF k < cursor THEN merged ELSE Empty
  BY <1>6
<1> HIDE DEF merged
<1>10. recs'[MergeId][k] = IF k < next THEN merged ELSE Empty
  BY <1>4, <1>7, <1>8, <1>9
<1> QED BY <1>5, <1>10 DEF merged

LEMMA BeginMergeMirror ==
  ASSUME ~WindowAnywhere, IInv, OldestFirst, MayMerge,
         NEW W \in SUBSET Candidates, BeginMerge(W)
  PROVE  Mirror'
<1>1. MergeId' = 0 /\ 0 \notin fileIds /\ recs' = recs /\ cursor' = 1
  BY BeginMergeOldest DEF BeginMerge
<1>2. 0 \in FileId
  BY IdAssumption DEF FileId
<1>3. \A k \in Key : recs[0][k] = Empty
  <2> SUFFICES ASSUME NEW k \in Key PROVE recs[0][k] = Empty
    OBVIOUS
  <2>1. recs[0][k] \in Slot /\ recs[0][k].head = NoRec /\ recs[0][k].next = NoRec
    BY <1>1, <1>2 DEF IInv, TypeOK, AbsentEmpty, SlotsFilled
  <2> QED BY <2>1 DEF Slot, Empty
<1>4. \A k \in Key : ~ (k < 1)
  BY KeysAssumption DEF Key
<1> QED BY <1>1, <1>3, <1>4 DEF Mirror

LEMMA MirrorKept ==
  ASSUME ~WindowAnywhere, ~BigFiles, IInv, OldestFirst, Mirror, [Next]_vars
  PROVE  Mirror'
<1>1. CASE UNCHANGED <<recs, mergeVars>>
  BY <1>1, MirrorSame
<1>2. CASE DumpWritten
  <2>1. ASSUME NEW k \in Key, NEW f \in window \union {MergeId}, merge # "idle"
        PROVE  recs'[f][k] = recs[f][k]
    <3>1. f # dumpId /\ f \in FileId
      BY <1>2, <2>1, DumpIdApart DEF DumpWritten, IInv, MergeWindow, TypeOK
    <3> QED BY <1>2, <3>1 DEF DumpWritten, IInv, TypeOK
  <2>2. CASE merge = "idle"
    BY <1>2, <2>2 DEF DumpWritten, Mirror, mergeVars
  <2>3. CASE merge # "idle"
    BY <1>2, <2>1, <2>3, MirrorSame DEF DumpWritten
  <2> QED BY <2>2, <2>3
<1>3. CASE MergeStart
  BY <1>3, BeginMergeMirror DEF MergeStart
<1>4. CASE ForceMerge
  <2>1. PICK W \in SUBSET Candidates : W = Candidates
    OBVIOUS
  <2> QED BY <1>4, <2>1, BeginMergeMirror DEF ForceMerge
<1>5. CASE \E next \in 2 .. NumKeys + 1 : MergeStep(next)
  BY <1>5, MergeStepMirror
<1>6. CASE MergeDone
  <2>1. \A k : MergedSlot(window, k, TRUE)' = MergedSlot(window, k, TRUE)
    BY <1>6 DEF MergeDone, MergedSlot, Filled, Doubles
  <2> QED BY <1>6, <2>1 DEF MergeDone, Mirror, MergeId
<1>7. CASE Bury
  BY <1>7 DEF Bury, Mirror
<1>8. CASE Add
  BY <1>1, <1>8 DEF Add, AddPositive, AddNegative
<1>9. CASE DumpStart \/ Fetch \/ DumpDone
  BY <1>1, <1>9 DEF DumpStart, Fetch, DumpFetch, DumpDone
<1>10. CASE ForceMergeOfOne
  BY <1>1, <1>10 DEF ForceMergeOfOne
<1>11. CASE \E f \in FileId, next \in 2 .. NumKeys + 1 : ChopHead(f, next)
  BY <1>11 DEF ChopHead
<1>12. CASE UNCHANGED vars
  BY <1>1, <1>12 DEF vars, mergeVars
<1> QED BY <1>2, <1>3, <1>4, <1>5, <1>6, <1>7, <1>8, <1>9, <1>10, <1>11, <1>12
        DEF Next, Merge

(* A file that has nothing of a key yet changes nothing of what is given. *)
LEMMA GivenWithEmptyFile ==
  ASSUME IInv, NEW new \in FileId, Whole \subseteq Whole',
         Whole' \subseteq Whole \union {new}, recs' = recs, NEW k \in Key,
         recs[new][k].head = NoRec
  PROVE  Given(SlotsOf(k), Whole)' = Given(SlotsOf(k), Whole)
<1>1. Whole \subseteq FileId /\ Whole' \subseteq FileId
  BY DEF Whole, IInv, TypeOK
<1>2. SlotsOf(k)' = SlotsOf(k) /\ SlotsOf(k)[new].head = NoRec
  BY DEF SlotsOf
<1>3. Given(SlotsOf(k), Whole') = Given(SlotsOf(k), Whole)
  BY <1>1, <1>2, GivenSame
<1> QED BY <1>2, <1>3 DEF Given

(* The tree has what was acknowledged. *)
LEMMA AddGiven ==
  ASSUME IInv, StoreGiven, NEW k \in Key,
         AddNegative(k) \/ \E d \in Data : AddPositive(k, d)
  PROVE  StoreGiven'
<1>1. UNCHANGED <<fileIds, recs, mergeVars>>
  BY DEF AddNegative, AddPositive
<1>2. \A j \in Key : Given(SlotsOf(j), Whole)' = Given(SlotsOf(j), Whole)
  BY <1>1 DEF SlotsOf, Whole, MergeId, mergeVars, Given
<1>3. \A j \in Key \ {k} : tree'[j] = tree[j] /\ store'[j] = store[j]
  BY DEF AddNegative, AddPositive, IInv, TypeOK
<1>4. \/ tree'[k] # NoRec /\ store'[k] = Meant(tree'[k])
      \/ tree'[k] = NoRec /\ store'[k] = NoRec /\ fileIds = {}
  <2>1. CASE AddNegative(k)
    BY <2>1, RecAssumption DEF AddNegative, Meant, IInv, TypeOK
  <2>2. CASE \E d \in Data : AddPositive(k, d)
    BY <2>2, RecAssumption DEF AddPositive, Meant, IInv, TypeOK
  <2> QED BY <2>1, <2>2
<1>5. fileIds = {} => Given(SlotsOf(k), Whole) = NoRec
  BY GivenByNone DEF Whole
<1> QED BY <1>2, <1>3, <1>4, <1>5 DEF StoreGiven

(* The slot of a key says what the record of the chunk says. *)
LEMMA SlotWritten ==
  ASSUME IInv, DumpWritten, NEW k \in Key
  PROVE  IF queue[k] = NoRec THEN recs'[dumpId][k] = recs[dumpId][k]
         ELSE /\ recs'[dumpId][k].head # NoRec
              /\ ValueOf(recs'[dumpId][k]) = Meant(queue[k])
<1> DEFINE slot == Append(recs[dumpId][k], queue[k])
<1>1. recs'[dumpId][k] = slot
  BY DEF DumpWritten, IInv, TypeOK
<1>2. CASE queue[k] = NoRec
  BY <1>1, <1>2 DEF Append
<1>3. CASE queue[k] # NoRec
  <2>1. \/ slot = [head |-> queue[k], next |-> NoRec]
        \/ slot = [head |-> Neg, next |-> queue[k]] /\ queue[k] \in Data
    <3>1. \/ recs[dumpId][k].head = NoRec
          \/ recs[dumpId][k].head = Neg /\ queue[k] \in Data
      BY <1>3 DEF IInv, ChunkInTree, DumpWritten
    <3> QED BY <1>3, <3>1, RecAssumption DEF Append
  <2> HIDE DEF slot
  <2>2. slot.head # NoRec /\ ValueOf(slot) = Meant(queue[k])
    BY <1>3, <2>1, RecAssumption DEF ValueOf, Meant
  <2> QED BY <1>1, <1>3, <2>2
<1> QED BY <1>2, <1>3

(* What has got to disk of a key wins over what older files have. *)
LEMMA DumpWrittenFiles ==
  ASSUME IInv, DumpWritten, NEW k \in Key
  PROVE  Given(SlotsOf(k), Whole)' = IF queue[k] = NoRec THEN Given(SlotsOf(k), Whole)
                                     ELSE Meant(queue[k])
<1>1. /\ dumpId \in fileIds /\ fileIds \subseteq FileId /\ dumpId \in Whole
      /\ Whole' = Whole /\ Whole \subseteq FileId
  <2>1. merge # "idle" => dumpId # MergeId
    BY DumpIdApart DEF DumpWritten
  <2> QED BY <2>1 DEF DumpWritten, IInv, DumpNewest, TypeOK, Whole, MergeId, mergeVars
<1>2. \A f \in FileId \ {dumpId} : recs'[f][k] = recs[f][k]
  BY DEF DumpWritten, IInv, TypeOK
<1>3. \A f \in FileId : /\ SlotsOf(k)[f] = recs[f][k]
                        /\ SlotsOf(k)'[f] = recs'[f][k]
  BY DEF SlotsOf
<1>4. Given(SlotsOf(k), Whole)' = Given(SlotsOf(k)', Whole)
  BY <1>1 DEF Given
<1>5. CASE queue[k] = NoRec
  <2>1. \A f \in FileId : recs'[f][k] = recs[f][k]
    BY <1>2, <1>5, SlotWritten
  <2>2. Given(SlotsOf(k)', Whole) = Given(SlotsOf(k), Whole)
    BY <1>1, <1>3, <2>1, GivenSame
  <2> QED BY <1>4, <1>5, <2>2
<1>6. CASE queue[k] # NoRec
  <2>1. \A g \in Whole : g <= dumpId
    BY DEF IInv, DumpNewest, DumpWritten, Whole
  <2>2. /\ SlotsOf(k)'[dumpId].head # NoRec
        /\ ValueOf(SlotsOf(k)'[dumpId]) = Meant(queue[k])
    BY <1>1, <1>3, <1>6, SlotWritten
  <2>3. Given(SlotsOf(k)', Whole) = ValueOf(SlotsOf(k)'[dumpId])
    BY <1>1, <2>1, <2>2, GivenByNewest
  <2> QED BY <1>4, <1>6, <2>2, <2>3
<1> QED BY <1>5, <1>6

(* The chunk that has got to disk leaves the tree.                          *)
LEMMA DumpWrittenGiven ==
  ASSUME IInv, StoreGiven, DumpWritten
  PROVE  StoreGiven'
<1> SUFFICES ASSUME NEW k \in Key
             PROVE  store'[k] = IF tree'[k] = NoRec THEN Given(SlotsOf(k), Whole)'
                                ELSE Meant(tree'[k])
  BY DEF StoreGiven
<1>1. /\ store' = store
      /\ tree'[k] = IF Dumped(k) THEN NoRec ELSE tree[k]
  BY DEF DumpWritten
<1>2. store[k] = IF tree[k] = NoRec THEN Given(SlotsOf(k), Whole) ELSE Meant(tree[k])
  BY DEF StoreGiven
<1>3. CASE queue[k] = NoRec
  BY <1>1, <1>2, <1>3, DumpWrittenFiles DEF Dumped
<1>4. CASE queue[k] # NoRec /\ ~Dumped(k)
  BY <1>1, <1>2, <1>4 DEF IInv, ChunkInTree, DumpWritten
<1>5. CASE queue[k] # NoRec /\ Dumped(k)
  <2>1. tree[k] = queue[k] /\ tree[k] # NoRec
    BY <1>5 DEF Dumped, IInv, ChunkInTree, DumpWritten
  <2> QED BY <1>1, <1>2, <1>5, <2>1, DumpWrittenFiles
<1> QED BY <1>3, <1>4, <1>5

(* The renamed file stands for the window and for itself.                   *)
LEMMA BuryGiven ==
  ASSUME StoreInv, Bury, NEW k \in Key
  PROVE  Given(SlotsOf(k), Whole)' = Given(SlotsOf(k), Whole)
<1>1. /\ MergeId = 0 /\ 1 \in window /\ MinOf(window) = 1
      /\ window \subseteq Whole /\ Whole \subseteq FileId
      /\ MergeId \in fileIds /\ fileIds \subseteq FileId /\ 1 \in FileId
      /\ \A f \in Whole \ window, w \in window : w < f
      /\ Whole = fileIds \ {0}
      /\ merge # "idle" /\ k < cursor
  <2>1. merge # "idle" /\ k < cursor
    BY KeysAssumption DEF Bury, StoreInv, IInv, MergeWindow, Key
  <2> QED BY <2>1, WindowAside DEF StoreInv, OldestFirst, Whole
<1>2. Whole' = (Whole \ window) \union {1} /\ Whole' \subseteq FileId
  BY <1>1 DEF Bury, Whole
<1>3. /\ recs'[1][k] = recs[0][k]
      /\ \A f \in Whole \ window : recs'[f][k] = recs[f][k]
  BY <1>1 DEF Bury
<1>4. Given(SlotsOf(k), Whole) = Given(SlotsOf(k), fileIds \ window)
  BY <1>1, MergedWindow
<1>5. \A f \in FileId : /\ SlotsOf(k)[f] = recs[f][k]
                        /\ SlotsOf(k)'[f] = recs'[f][k]
  BY DEF SlotsOf
<1>6. fileIds \ window = (Whole \ window) \union {0} /\ 0 \in FileId
  BY <1>1
<1>7. Given(SlotsOf(k)', Whole') = Given(SlotsOf(k), fileIds \ window)
  <2>1. CASE \E f \in Whole \ window : recs[f][k].head # NoRec
    <3>1. PICK f \in Whole \ window :
            /\ SlotsOf(k)[f].head # NoRec
            /\ \A g \in Whole \ window : SlotsOf(k)[g].head # NoRec => g <= f
      <4>1. Whole \ window \in SUBSET FileId
        BY <1>1
      <4>2. \E f \in Whole \ window : SlotsOf(k)[f].head # NoRec
        BY <1>1, <1>5, <2>1
      <4> QED BY <4>1, <4>2, NewestExists
    <3>2. 0 <= f /\ 1 <= f
      BY <1>1, FileIdNat
    <3>3. Given(SlotsOf(k), fileIds \ window) = ValueOf(SlotsOf(k)[f])
      BY <1>1, <1>6, <3>1, <3>2, GivenByNewest
    <3>4. /\ SlotsOf(k)'[f] = SlotsOf(k)[f]
          /\ \A g \in Whole' : SlotsOf(k)'[g].head # NoRec => g <= f
      BY <1>1, <1>2, <1>3, <1>5, <3>1, <3>2
    <3>5. Given(SlotsOf(k)', Whole') = ValueOf(SlotsOf(k)'[f])
      BY <1>2, <3>1, <3>4, GivenByNewest
    <3> QED BY <3>3, <3>4, <3>5
  <2>2. CASE /\ ~ \E f \in Whole \ window : recs[f][k].head # NoRec
             /\ recs[0][k].head # NoRec
    <3>1. Given(SlotsOf(k), fileIds \ window) = ValueOf(SlotsOf(k)[0])
      <4>1. \A g \in fileIds \ window : SlotsOf(k)[g].head # NoRec => g <= 0
        BY <1>1, <1>5, <1>6, <2>2
      <4>2. 0 \in fileIds \ window /\ SlotsOf(k)[0].head # NoRec
        BY <1>5, <1>6, <2>2
      <4>3. fileIds \ window \in SUBSET FileId
        BY <1>1
      <4> QED BY <4>1, <4>2, <4>3, GivenByNewest
    <3>2. Given(SlotsOf(k)', Whole') = ValueOf(SlotsOf(k)'[1])
      <4>1. \A g \in Whole' : SlotsOf(k)'[g].head # NoRec => g <= 1
        BY <1>1, <1>2, <1>3, <1>5, <2>2
      <4>2. 1 \in Whole' /\ SlotsOf(k)'[1].head # NoRec
        BY <1>1, <1>2, <1>3, <1>5, <2>2
      <4> QED BY <1>2, <4>1, <4>2, GivenByNewest
    <3> QED BY <1>1, <1>3, <1>5, <1>6, <3>1, <3>2
  <2>3. CASE /\ ~ \E f \in Whole \ window : recs[f][k].head # NoRec
             /\ recs[0][k].head = NoRec
    <3>1. \A f \in fileIds \ window : SlotsOf(k)[f].head = NoRec
      BY <1>1, <1>5, <1>6, <2>3
    <3>2. \A f \in Whole' : SlotsOf(k)'[f].head = NoRec
      BY <1>1, <1>2, <1>3, <1>5, <2>3
    <3> QED BY <3>1, <3>2, GivenByNone
  <2> QED BY <2>1, <2>2, <2>3
<1> QED BY <1>4, <1>7 DEF Given

(* Only a chunk that gets to disk changes what the files give. *)
LEMMA FilesGiveKept ==
  ASSUME ~WindowAnywhere, ~BigFiles, StoreInv, [Next]_vars, ~DumpWritten,
         NEW k \in Key
  PROVE  Given(SlotsOf(k), Whole)' = Given(SlotsOf(k), Whole)
<1> USE DEF StoreInv
<1>1. CASE UNCHANGED <<fileIds, recs, mergeVars>>
  BY <1>1 DEF SlotsOf, Whole, MergeId, mergeVars, Given
<1>2. CASE Add
  BY <1>1, <1>2 DEF Add, AddPositive, AddNegative
<1>3. CASE DumpStart
  <2>1. recs' = recs /\ UNCHANGED mergeVars /\ fileIds' = fileIds \union {NewId}
    BY <1>3 DEF DumpStart
  <2>2. NewId \notin fileIds /\ NewId \in FileId
    <3>1. \A f \in fileIds : f \in Nat
      BY FileIdNat DEF IInv, TypeOK
    <3> QED BY <1>3, <3>1, NewIdFacts, IdAssumption DEF DumpStart, FileId, IInv
  <2>3. recs[NewId][k].head = NoRec
    BY <2>2 DEF IInv, AbsentEmpty
  <2>4. Whole \subseteq Whole' /\ Whole' \subseteq Whole \union {NewId}
    BY <2>1 DEF Whole, MergeId, mergeVars
  <2> QED BY <2>1, <2>2, <2>3, <2>4, GivenWithEmptyFile
<1>4. CASE Fetch \/ DumpDone \/ UNCHANGED vars
  BY <1>1, <1>4 DEF Fetch, DumpFetch, DumpDone, vars, mergeVars
<1>5. ASSUME MayMerge, NEW W \in SUBSET Candidates, BeginMerge(W)
      PROVE  Given(SlotsOf(k), Whole)' = Given(SlotsOf(k), Whole)
  <2>1. /\ MergeId' = 0 /\ fileIds' = fileIds \union {0} /\ 0 \notin fileIds
        /\ merge' = "merging" /\ merge = "idle" /\ recs' = recs
    BY <1>5, BeginMergeOldest DEF BeginMerge, MayMerge
  <2>2. Whole' = Whole
    BY <2>1 DEF Whole
  <2> QED BY <2>1, <2>2 DEF SlotsOf, Given
<1>6. CASE MergeStart
  BY <1>5, <1>6 DEF MergeStart
<1>7. CASE ForceMerge
  <2>1. PICK W \in SUBSET Candidates : W = Candidates
    OBVIOUS
  <2>2. MayMerge /\ BeginMerge(W)
    BY <1>7, <2>1 DEF ForceMerge
  <2> QED BY <1>5, <2>2
<1>8. CASE ForceMergeOfOne
  <2> DEFINE new == MinOf(Candidates) - 1
  <2>1. /\ recs' = recs /\ UNCHANGED mergeVars /\ MayMerge
        /\ fileIds' = fileIds \union {new}
    BY <1>8 DEF ForceMergeOfOne
  <2>2. Candidates # {}
    BY <1>8, FS_EmptySet DEF ForceMergeOfOne
  <2>3. new \notin fileIds /\ new \in FileId
    BY <2>1, <2>2, MergeIdFree
  <2> HIDE DEF new
  <2>4. recs[new][k].head = NoRec
    BY <2>3 DEF IInv, AbsentEmpty
  <2>5. Whole \subseteq Whole' /\ Whole' \subseteq Whole \union {new}
    BY <2>1 DEF Whole, MergeId, mergeVars
  <2> QED BY <2>1, <2>3, <2>4, <2>5, GivenWithEmptyFile
<1>9. CASE MergeDone
  BY <1>9 DEF MergeDone, SlotsOf, Whole, MergeId, Given
<1>10. CASE Bury
  BY <1>10, BuryGiven
<1>11. CASE \E next \in 2 .. NumKeys + 1 : MergeStep(next)
  <2>1. /\ Whole' = Whole /\ MergeId \notin Whole
        /\ \A f \in FileId \ {MergeId} : recs'[f] = recs[f]
    BY <1>11 DEF MergeStep, Whole, MergeId, IInv, TypeOK
  <2>2. Whole \in SUBSET FileId
    BY DEF Whole, IInv, TypeOK
  <2>3. \A f \in Whole : SlotsOf(k)'[f] = SlotsOf(k)[f]
    BY <2>1, <2>2 DEF SlotsOf
  <2>4. Given(SlotsOf(k)', Whole) = Given(SlotsOf(k), Whole)
    BY <2>2, <2>3, GivenSame
  <2> QED BY <2>1, <2>4 DEF Given
<1>12. CASE \E f \in FileId, next \in 2 .. NumKeys + 1 : ChopHead(f, next)
  BY <1>12 DEF ChopHead
<1> QED BY <1>2, <1>3, <1>4, <1>6, <1>7, <1>8, <1>9, <1>10, <1>11, <1>12
        DEF Next, Merge

(* Neither tree nor store are touched but by adds and chunks on disk. *)
LEMMA TreeKept ==
  ASSUME [Next]_vars, ~Add, ~DumpWritten
  PROVE  UNCHANGED <<tree, store>>
BY DEF Next, Merge, DumpStart, Fetch, DumpFetch, DumpDone, MergeStart, ForceMerge,
   BeginMerge, ForceMergeOfOne, MergeStep, MergeDone, Bury, ChopHead, vars

LEMMA GivenKept ==
  ASSUME ~WindowAnywhere, ~BigFiles, StoreInv, [Next]_vars
  PROVE  StoreGiven'
<1>1. CASE Add
  BY <1>1, AddGiven DEF Add, StoreInv
<1>2. CASE DumpWritten
  BY <1>2, DumpWrittenGiven DEF StoreInv
<1>3. CASE ~Add /\ ~DumpWritten
  BY <1>3, TreeKept, FilesGiveKept DEF StoreInv, StoreGiven
<1> QED BY <1>1, <1>2, <1>3

LEMMA InitStoreInv == Init => StoreInv
<1> SUFFICES ASSUME Init PROVE StoreInv
  OBVIOUS
<1>1. \A k \in Key : Given(SlotsOf(k), Whole) = NoRec
  BY GivenByNone DEF Init, Whole
<1> QED BY <1>1, InitIInv DEF StoreInv, Init, StoreGiven, Mirror, OldestFirst

LEMMA StoreInvKept ==
  ASSUME ~WindowAnywhere, ~BigFiles, StoreInv, [Next]_vars
  PROVE  StoreInv'
BY NextIInv, GivenKept, MirrorKept, OldestKept DEF StoreInv

(* When merges begin at the oldest file and no heads are chopped, tree,     *)
(* complete files and the file of the merge at work have of every key just  *)
(* the record, or the delete, that was acknowledged last.                   *)
THEOREM RdbStoreInductive ==
  ASSUME ~WindowAnywhere, ~BigFiles PROVE Spec => []StoreInv
<1>1. Init => StoreInv
  BY InitStoreInv
<1>2. StoreInv /\ [Next]_vars => StoreInv'
  BY StoreInvKept
<1> QED BY <1>1, <1>2, PTL DEF Spec

(* A deleted record does not come back, however many older ones of its key  *)
(* the files still have, and whenever a merge drops the negative record.    *)
THEOREM RdbDeletesHold ==
  ASSUME ~WindowAnywhere, ~BigFiles PROVE Spec => []DeletesHold
<1>1. StoreInv => DeletesHold
  BY ReadsTheStore DEF DeletesHold
<1> QED BY <1>1, RdbStoreInductive, PTL

LEMMA KvIsStore == StoreInv => Kv = store
<1> SUFFICES ASSUME StoreInv PROVE Kv = store
  OBVIOUS
<1>1. \A k \in Key : Lookup(k) = store[k]
  BY ReadsTheStore
<1>2. store = [k \in Key |-> store[k]]
  BY DEF StoreInv, IInv, TypeOK
<1> QED BY <1>1, <1>2 DEF Kv

(* Every step is one acknowledged add or delete to whoever reads, or none:  *)
(* dumps and merges cannot be told from outside.                            *)
LEMMA KeyStoreStep ==
  ASSUME ~WindowAnywhere, ~BigFiles, StoreInv, [Next]_vars
  PROVE  [Abstract!Next]_<<store, Kv>>
<1>1. Kv = store
  BY KvIsStore
<1>2. Kv' = store'
  <2>1. (StoreInv => Kv = store)'
    BY KvIsStore, PTL
  <2> QED BY <2>1, StoreInvKept
<1>3. CASE Add
  <2>1. PICK k \in Key : AddNegative(k) \/ \E d \in Data : AddPositive(k, d)
    BY <1>3 DEF Add
  <2>2. CASE AddNegative(k)
    BY <1>1, <1>2, <2>2 DEF AddNegative, Abstract!Next, Abstract!Delete, Abstract!Put
  <2>3. CASE \E d \in Data : AddPositive(k, d)
    BY <1>1, <1>2, <2>3 DEF AddPositive, Abstract!Next, Abstract!Put
  <2> QED BY <2>1, <2>2, <2>3
<1>4. CASE ~Add
  <2>1. store' = store
    BY <1>4, TreeKept DEF DumpWritten
  <2> QED BY <1>1, <1>2, <2>1
<1> QED BY <1>3, <1>4

(* One host's database, with its tree, files, dumps and merges, implements  *)
(* the abstract store: what a read gives changes with an acknowledgement    *)
(* and with nothing else.                                                   *)
THEOREM RdbImplementsKeyStore ==
  ASSUME ~WindowAnywhere, ~BigFiles PROVE Spec => ImplementsKeyStore
<1>1. Init => Abstract!Init
  <2> SUFFICES ASSUME Init PROVE Abstract!Init
    OBVIOUS
  <2>1. Kv = store
    BY InitStoreInv, KvIsStore
  <2> QED BY <2>1 DEF Init, Abstract!Init
<1>2. StoreInv /\ [Next]_vars => [Abstract!Next]_<<store, Kv>>
  BY KeyStoreStep
<1> QED BY <1>1, <1>2, RdbStoreInductive, PTL
        DEF Spec, ImplementsKeyStore, Abstract!Spec
=============================================================================
