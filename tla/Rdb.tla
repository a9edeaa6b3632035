-------------------------------- MODULE Rdb ---------------------------------
(***************************************************************************)
(* One Rdb on one host, for one collection: the tree that takes the adds   *)
(* (RdbTree), the dump that writes it to a new file chunk by chunk         *)
(* (RdbDump), the list of files (RdbBase), and the merge of a window of    *)
(* neighbouring files into one (RdbMerge), which all run interleaved.      *)
(*                                                                         *)
(* A key comes in two signs: a positive key is a record, a negative key    *)
(* deletes the positive one.  In key order the negative key is right       *)
(* before the positive key, so a file may hold the two one after the other *)
(* and a key's place in a file is a slot for two records.                  *)
(***************************************************************************)
EXTENDS Integers, FiniteSets

CONSTANTS
  NumKeys,      \* the keys are 1 .. NumKeys
  Data,         \* the payloads of positive records
  Neg,          \* a negative record
  NoRec,        \* no record
  MaxNodes,     \* capacity of the tree
  MaxFiles,     \* MAX_RDB_FILES
  MinToMerge,   \* m_minToMerge
  MaxId,        \* bound of the model on file ids
  WindowAnywhere,  \* a merge window may begin after the oldest file
  BigFiles,        \* files span enough parts for their heads to be chopped
  ForceInDump      \* a merge may be forced when a dump leaves one other file

ASSUME KeysAssumption == NumKeys \in Nat
ASSUME RecAssumption == Neg \notin Data /\ NoRec \notin Data /\ Neg # NoRec
ASSUME IdAssumption == MaxId \in Nat
ASSUME SwitchAssumption == {WindowAnywhere, BigFiles, ForceInDump} \subseteq BOOLEAN

Key == 1 .. NumKeys
Rec == Data \union {Neg}
FileId == 0 .. MaxId

VARIABLES
  tree,      \* key -> record in the tree; never both signs of a key
  fileIds,   \* m_fileIds
  recs,      \* file -> key -> slot
  dump,      \* "idle", "fetch" a chunk of the tree, or "write" it
  dumpId,    \* the file dumped to
  nextKey,   \* m_nextKey: signed key the next chunk begins at
  queue,     \* the chunk; first and last are m_firstKeyInQueue, m_lastKeyInQueue
  merge,     \* "idle", "merging", or "unlinking" the merged files
  window,    \* the files being merged
  cursor,    \* RdbMerge::m_startKey: keys below it have been merged
  store      \* history: the payload last acknowledged for each key

dumpVars == <<dump, dumpId, nextKey, queue>>
mergeVars == <<merge, window, cursor>>
vars == <<tree, fileIds, recs, dump, dumpId, nextKey, queue, merge, window,
          cursor, store>>

-----------------------------------------------------------------------------
(* Signed keys: the low bit is clear in a negative key. *)
Signed(k, r) == IF r = Neg THEN 2 * k ELSE 2 * k + 1

(* A slot lists the records of a key in file order. *)
Slot == [head : Rec \union {NoRec}, next : Data \union {NoRec}]
Empty == [head |-> NoRec, next |-> NoRec]

(* The slot after one more record of the key is written behind the others. *)
Append(s, r) == IF r = NoRec THEN s
                ELSE IF s.head = NoRec THEN [head |-> r, next |-> NoRec]
                ELSE [head |-> s.head, next |-> r]

Filled(F, k) == {f \in F : recs[f][k].head # NoRec}
Doubles(F, k) == {f \in F : recs[f][k].next # NoRec}

MaxOf(S) == CHOOSE x \in S : \A y \in S : y <= x
MinOf(S) == CHOOSE x \in S : \A y \in S : x <= y

(* Mutant: the dropped negative record does not take what older files have. *)
MergedSlotKeepsOlder(F, k, removeNegs) ==
  LET first == recs[MaxOf(Filled(F, k))][k].head
      drop == removeNegs /\ first = Neg
      second == IF Doubles(F, k) = {} THEN NoRec
                ELSE recs[MaxOf(Doubles(F, k))][k].next
  IN  IF Filled(F, k) = {} THEN Empty
      ELSE IF drop THEN [head |-> second, next |-> NoRec]
      ELSE [head |-> first, next |-> second]

(* Mutant: the oldest file wins. *)
MergedSlotOldest(F, k, removeNegs) ==
  LET oldest == MinOf(Filled(F, k))
  IN  IF Filled(F, k) = {} \/ (removeNegs /\ recs[oldest][k].head = Neg)
      THEN Empty ELSE [recs[oldest][k] EXCEPT !.next = NoRec]

(* RdbList::merge_r() on one key of the files F.  The newest file gives the *)
(* first record; that passes over one record of the key in each older file, *)
(* and the newest of the files with a second record gives the next one.     *)
(* With removeNegs a leading negative record is dropped, and with it what   *)
(* older files have (lastNegi).                                             *)
MergedSlot(F, k, removeNegs) ==
  LET newest == MaxOf(Filled(F, k))
      first == recs[newest][k].head
      drop == removeNegs /\ first = Neg
      second == IF \/ Doubles(F, k) = {}
                   \/ drop /\ newest > MaxOf(Doubles(F, k))
                THEN NoRec ELSE recs[MaxOf(Doubles(F, k))][k].next
  IN  IF Filled(F, k) = {} THEN Empty
      ELSE IF drop THEN [head |-> second, next |-> NoRec]
      ELSE [head |-> first, next |-> second]

(* What a read gets of a single slot once negative records are removed. *)
ValueOf(s) == IF s.head = Neg THEN s.next ELSE s.head

(* Readers pass over the files being unlinked (Msg3.cpp:393). *)
Visible == fileIds \ (IF merge = "unlinking" THEN window ELSE {})

(* A read of one key: the tree is the newest list, then the files by id. *)
Lookup(k) ==
  IF tree[k] # NoRec THEN (IF tree[k] = Neg THEN NoRec ELSE tree[k])
  ELSE IF Filled(Visible, k) = {} THEN NoRec
  ELSE ValueOf(recs[MaxOf(Filled(Visible, k))][k])

-----------------------------------------------------------------------------
Used == Cardinality({k \in Key : tree[k] # NoRec})

(* hasRoom() *)
HasRoom == Used < MaxNodes

(* Mutant: only the last key dumped is looked at. *)
RefusedLast(e) ==
  /\ dump # "idle"
  /\ \E k \in Key : queue[k] # NoRec /\ Signed(k, queue[k]) = e
  /\ \A k \in Key : queue[k] # NoRec => Signed(k, queue[k]) < e

(* Adds within the range of the chunk being dumped are turned away. *)
Refused(e) ==
  /\ dump # "idle"
  /\ \E k \in Key : queue[k] # NoRec /\ Signed(k, queue[k]) <= e
  /\ \E k \in Key : queue[k] # NoRec /\ e <= Signed(k, queue[k])

(* Rdb::addRecord() of a positive key; its negative twin, if the tree has   *)
(* one, is deleted from the tree.                                           *)
AddPositive(k, d) ==
  /\ HasRoom /\ ~Refused(Signed(k, d))
  /\ tree' = [tree EXCEPT ![k] = d]
  /\ store' = [store EXCEPT ![k] = d]
  /\ UNCHANGED <<fileIds, recs, dumpVars, mergeVars>>

(* Of a negative key, which is not kept when there are no files. *)
AddNegative(k) ==
  /\ HasRoom /\ ~Refused(Signed(k, Neg))
  /\ tree' = [tree EXCEPT ![k] = IF fileIds = {} THEN NoRec ELSE Neg]
  /\ store' = [store EXCEPT ![k] = NoRec]
  /\ UNCHANGED <<fileIds, recs, dumpVars, mergeVars>>

-----------------------------------------------------------------------------
(* Mutant: the ids of merge files are not kept free. *)
NewIdAny == IF fileIds = {} THEN 0 ELSE MaxOf(fileIds) + 1

(* RdbBase::addNewFile(): dumps go to odd ids. *)
NewId ==
  LET past == IF fileIds = {} THEN 0 ELSE MaxOf(fileIds) + 1
  IN  IF past % 2 = 0 THEN past + 1 ELSE past

(* dumpTree() and dumpCollLoop() up to RdbDump::set(). *)
DumpStart ==
  /\ dump = "idle"
  /\ Used > 0
  /\ Cardinality(fileIds) + 1 < MaxFiles
  /\ NewId <= MaxId
  /\ fileIds' = fileIds \union {NewId}
  /\ dumpId' = NewId
  /\ dump' = "fetch"
  /\ UNCHANGED <<tree, recs, nextKey, queue, mergeVars, store>>

(* Mutant: every chunk begins at the first key of the tree. *)
PendingAnew(k) == tree[k] # NoRec

(* What the chunks dumped so far have left. *)
Pending(k) == tree[k] # NoRec /\ Signed(k, tree[k]) >= nextKey

(* RdbDump::dumpTree(): the records from m_nextKey on, as many as fit in    *)
(* the buffer; last is the signed key of the last one.  Until this happens  *)
(* the dump is waiting for memory and tries again every second.             *)
DumpFetch(last) ==
  /\ dump = "fetch"
  /\ \E k \in Key : Pending(k) /\ Signed(k, tree[k]) = last
  /\ queue' = [k \in Key |-> IF Pending(k) /\ Signed(k, tree[k]) <= last
                             THEN tree[k] ELSE NoRec]
  /\ nextKey' = last + 1
  /\ dump' = "write"
  /\ UNCHANGED <<tree, fileIds, recs, dumpId, mergeVars, store>>

(* Mutant: the keys of the chunk stay in the tree. *)
DumpedNone(k) == FALSE

(* The chunk is on disk and in the map: deleteList() takes its keys, each   *)
(* with its sign, out of the tree.                                          *)
Dumped(k) == /\ queue[k] # NoRec /\ tree[k] # NoRec
             /\ Signed(k, queue[k]) = Signed(k, tree[k])

DumpWritten ==
  /\ dump = "write"
  /\ recs' = [recs EXCEPT ![dumpId] =
                [k \in Key |-> Append(recs[dumpId][k], queue[k])]]
  /\ tree' = [k \in Key |-> IF Dumped(k) THEN NoRec ELSE tree[k]]
  /\ dump' = "fetch"
  /\ UNCHANGED <<fileIds, dumpId, nextKey, queue, mergeVars, store>>

(* getList() comes back empty: RdbDump::doneDumping().  What the set() of   *)
(* the next dump resets, and nobody looks at before it, is reset here.      *)
DumpDone ==
  /\ dump = "fetch"
  /\ \A k \in Key : ~Pending(k)
  /\ dump' = "idle"
  /\ dumpId' = 0
  /\ nextKey' = 0
  /\ queue' = [k \in Key |-> NoRec]
  /\ UNCHANGED <<tree, fileIds, recs, mergeVars, store>>

-----------------------------------------------------------------------------
(* attemptMerge() leaves the file being dumped out of its count. *)
Candidates == fileIds \ (IF dump = "idle" THEN {} ELSE {dumpId})

Window(W) ==
  /\ W # {} /\ W \subseteq Candidates
  /\ \A f \in Candidates : MinOf(W) <= f /\ f <= MaxOf(W) => f \in W
  /\ WindowAnywhere \/ MinOf(Candidates) \in W

(* The file merged into is the one right before the files it merges. *)
MergeId == MinOf(window) - 1

(* Msg5 keeps negative records unless the window has the oldest file. *)
RemoveNegs == MinOf(window) <= 1

(* An even id among the files is taken for a merge to be resumed. *)
MayMerge ==
  /\ merge = "idle"
  /\ \A f \in Candidates : f % 2 = 1
  /\ Cardinality(fileIds) < MaxFiles

BeginMerge(W) ==
  /\ Window(W)
  /\ merge' = "merging"
  /\ window' = W
  /\ cursor' = 1
  /\ fileIds' = fileIds \union {MinOf(W) - 1}
  /\ UNCHANGED <<tree, recs, dumpVars, store>>

(* RdbBase::attemptMerge(): as many neighbours as bring the number of files *)
(* below m_minToMerge again.                                                *)
MergeStart ==
  /\ MayMerge
  /\ Cardinality(Candidates) >= MinToMerge
  /\ \E W \in SUBSET Candidates :
       /\ Cardinality(W) = Cardinality(Candidates) - MinToMerge + 2
       /\ BeginMerge(W)

(* forceMergeAll: the daily merge takes all files there are. *)
ForceMerge ==
  /\ MayMerge
  /\ Cardinality(Candidates) >= 2
  /\ BeginMerge(Candidates)

(* A forced merge that finds one file beside the one being dumped: the file *)
(* to merge into is added before the check that refuses to merge one file.  *)
ForceMergeOfOne ==
  /\ ForceInDump
  /\ MayMerge
  /\ Cardinality(fileIds) >= 2
  /\ Cardinality(Candidates) = 1
  /\ fileIds' = fileIds \union {MinOf(Candidates) - 1}
  /\ UNCHANGED <<tree, recs, dumpVars, mergeVars, store>>

(* getAnotherList() and dumpList(): the merge of the keys below next. *)
MergeStep(next) ==
  /\ merge = "merging"
  /\ next \in cursor + 1 .. NumKeys + 1
  /\ recs' = [recs EXCEPT ![MergeId] =
                [k \in Key |-> IF cursor <= k /\ k < next
                               THEN MergedSlot(window, k, RemoveNegs)
                               ELSE recs[MergeId][k]]]
  /\ cursor' = next
  /\ UNCHANGED <<tree, fileIds, dumpVars, merge, window, store>>

(* getNextList(): the head part of a file, all of it merged by now, is      *)
(* removed from the file and its map.                                       *)
ChopHead(f, next) ==
  /\ BigFiles
  /\ merge = "merging"
  /\ f \in window
  /\ next \in 2 .. cursor
  /\ recs' = [recs EXCEPT ![f] =
                [k \in Key |-> IF k < next THEN Empty ELSE recs[f][k]]]
  /\ UNCHANGED <<tree, fileIds, dumpVars, mergeVars, store>>

(* incorporateMerge(): the merged files are being unlinked. *)
MergeDone ==
  /\ merge = "merging"
  /\ cursor = NumKeys + 1
  /\ merge' = "unlinking"
  /\ UNCHANGED <<tree, fileIds, recs, dumpVars, window, cursor, store>>

(* doneWrapper2() gives the new file the id of the first one it replaces;   *)
(* doneWrapper4() buries the files once no read is on them.                 *)
Bury ==
  /\ merge = "unlinking"
  /\ fileIds' = (fileIds \ (window \union {MergeId})) \union {MinOf(window)}
  /\ recs' = [f \in FileId |->
                IF f = MinOf(window) THEN recs[MergeId]
                ELSE IF f \in window \union {MergeId} THEN [k \in Key |-> Empty]
                ELSE recs[f]]
  /\ merge' = "idle"
  /\ window' = {}
  /\ cursor' = 1
  /\ UNCHANGED <<tree, dumpVars, store>>

-----------------------------------------------------------------------------
Init ==
  /\ tree = [k \in Key |-> NoRec]
  /\ fileIds = {}
  /\ recs = [f \in FileId |-> [k \in Key |-> Empty]]
  /\ dump = "idle"
  /\ dumpId = 0
  /\ nextKey = 0
  /\ queue = [k \in Key |-> NoRec]
  /\ merge = "idle"
  /\ window = {}
  /\ cursor = 1
  /\ store = [k \in Key |-> NoRec]

Add == \E k \in Key : AddNegative(k) \/ \E d \in Data : AddPositive(k, d)

Fetch == \E last \in 0 .. 2 * NumKeys + 1 : DumpFetch(last)

Merge == MergeStart \/ MergeDone \/ Bury
           \/ \E next \in 2 .. NumKeys + 1 : MergeStep(next)

Next ==
  \/ Add
  \/ DumpStart \/ Fetch \/ DumpWritten \/ DumpDone
  \/ Merge \/ ForceMerge \/ ForceMergeOfOne
  \/ \E f \in FileId, next \in 2 .. NumKeys + 1 : ChopHead(f, next)

Spec == Init /\ [][Next]_vars

(* Dumps and merges go on by themselves: the callback of every disk         *)
(* operation or the retry a second later takes the next step, and the       *)
(* sleep callbacks of Rdb.cpp try to dump and to merge again and again.     *)
Fairness == WF_vars(DumpStart) /\ WF_vars(Fetch) /\ WF_vars(DumpWritten)
              /\ WF_vars(DumpDone) /\ WF_vars(Merge)

FairSpec == Spec /\ Fairness

-----------------------------------------------------------------------------
TypeOK ==
  /\ tree \in [Key -> Rec \union {NoRec}]
  /\ fileIds \in SUBSET FileId
  /\ recs \in [FileId -> [Key -> Slot]]
  /\ dump \in {"idle", "fetch", "write"}
  /\ dumpId \in FileId
  /\ nextKey \in Nat
  /\ queue \in [Key -> Rec \union {NoRec}]
  /\ merge \in {"idle", "merging", "unlinking"}
  /\ window \in SUBSET FileId
  /\ cursor \in 1 .. NumKeys + 1
  /\ store \in [Key -> Data \union {NoRec}]

(* No acknowledged record is lost or replaced by an older one, whatever     *)
(* part of it is in the tree, in a chunk on its way to disk, in a file, or  *)
(* in the file of a merge that is half done.                                *)
PutsVisible == \A k \in Key : store[k] # NoRec => Lookup(k) = store[k]

(* A deleted record does not come back, whichever of the lists still have a *)
(* positive record of the key and wherever the merge has dropped negatives. *)
DeletesHold == \A k \in Key : store[k] = NoRec => Lookup(k) = NoRec

(* With chopped files as well, reads are right whenever no merge is on.     *)
QuietReads ==
  merge # "merging" => \A k \in Key : store[k] # NoRec => Lookup(k) = store[k]

(* A full tree gets room again. *)
RoomAgain == (Used = MaxNodes) ~> (Used < MaxNodes)

(* "When enough files have accrued on disk, a merge is performed"           *)
(* (html/developer.html:630).                                               *)
FilesGetMerged ==
  (merge = "idle" /\ Cardinality(Candidates) >= MinToMerge) ~> (merge # "idle")

(* Adds, deletes, dumps and merges together keep the promise of KeyStore:   *)
(* what a read of this database gives changes with an acknowledgement and   *)
(* never with a dump or a merge.                                            *)
Kv == [k \in Key |-> Lookup(k)]
Abstract == INSTANCE KeyStore WITH kv <- Kv, acked <- store
ImplementsKeyStore == Abstract!Spec
=============================================================================
