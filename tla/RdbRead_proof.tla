--------------------------- MODULE RdbRead_proof ----------------------------
(***************************************************************************)
(* A read that takes its time answers with a record that was current at    *)
(* some moment of it: for any number of keys and files, with the dumps and *)
(* merges that go on beside it and the files they rename and unlink.       *)
(***************************************************************************)
EXTENDS RdbRead, Rdb_proof

-----------------------------------------------------------------------------
(* What each file has given, or is still to give as it is now.             *)
Owed == [f \in FileId |->
           IF got[f].head # NoRec THEN got[f]
           ELSE IF f \in pending THEN recs[f][rkey] ELSE Empty]

FromTree == read = "tree" /\ rtree # NoRec
PastTree == read # "idle" /\ rtree = NoRec

(* The files still to be read are in the list. *)
ReadInOrder ==
  /\ pending \subseteq fileIds
  /\ read # "files" => pending = {}
  /\ read = "files" => rtree = NoRec

(* The last record acknowledged counts as current; so did the one taken     *)
(* from the tree, and those of a chunk that will get to disk.               *)
CurrentFresh == read # "idle" => store[rkey] \in fresh
TreeFresh == FromTree => Meant(rtree) \in fresh
QueueFresh == PastTree /\ dump = "write" /\ queue[rkey] # NoRec
                => Meant(queue[rkey]) \in fresh

(* What the files say before they are listed, and what those listed have    *)
(* given or still owe.                                                      *)
FilesFresh == read = "tree" /\ rtree = NoRec
                => Given(SlotsOf(rkey), Whole) \in fresh
OwedFresh == read = "files" => Given(Owed, FileId) \in fresh

(* A file that is dumped to while it is waited for is the newest of them. *)
DumpLast ==
  dump # "idle" /\ dumpId \in pending =>
    \A f \in FileId : Owed[f].head # NoRec => f <= dumpId

(* A file that is merged into while it is waited for was listed with all    *)
(* the files of its window, or with none of them.                           *)
WindowListed ==
  merge # "idle" /\ MergeId \in pending =>
    /\ got[MergeId].head = NoRec
    /\ \/ \A w \in window : IF w \in pending THEN got[w].head = NoRec
                            ELSE got[w] = recs[w][rkey]
       \/ \A w \in window : w \notin pending /\ got[w].head = NoRec
          /\ merge = "unlinking"

ReadInv ==
  /\ StoreInv /\ ReadTypeOK /\ ReadInOrder
  /\ CurrentFresh /\ TreeFresh /\ QueueFresh /\ FilesFresh /\ OwedFresh
  /\ DumpLast /\ WindowListed

-----------------------------------------------------------------------------
LEMMA InitReadInv == ReadInit => ReadInv
<1> SUFFICES ASSUME ReadInit PROVE ReadInv
  OBVIOUS
<1>1. StoreInv
  BY InitStoreInv DEF ReadInit
<1>2. ReadTypeOK
  <2>1. Empty \in Slot
    BY DEF Empty, Slot
  <2> QED BY <1>1, <2>1 DEF ReadInit, ReadTypeOK, StoreInv, IInv, NoList
<1>3. ReadInOrder
  BY DEF ReadInit, ReadInOrder
<1>4. CurrentFresh /\ TreeFresh /\ QueueFresh /\ FilesFresh /\ OwedFresh
  BY DEF ReadInit, CurrentFresh, TreeFresh, QueueFresh, FilesFresh, OwedFresh,
     FromTree, PastTree
<1>5. DumpLast /\ WindowListed
  BY DEF ReadInit, Init, DumpLast, WindowListed
<1> QED BY <1>1, <1>2, <1>3, <1>4, <1>5 DEF ReadInv

(* Steps of the read alone leave the database as it is. *)
LEMMA StoreInvStutters == ASSUME StoreInv, UNCHANGED vars PROVE StoreInv'
<1>1. IInv'
  BY StutterKeeps DEF StoreInv
<1>2. StoreGiven'
  BY DEF vars, StoreInv, StoreGiven, SlotsOf, Whole, MergeId, Given
<1>3. Mirror'
  BY MirrorSame DEF vars, mergeVars, StoreInv
<1>4. OldestFirst'
  BY DEF vars, StoreInv, OldestFirst
<1> QED BY <1>1, <1>2, <1>3, <1>4 DEF StoreInv

LEMMA ReadTreeKeeps ==
  ASSUME ReadInv, NEW k \in Key, ReadTree(k)
  PROVE  ReadInv'
<1>1. StoreInv'
  BY StoreInvStutters DEF ReadTree, ReadInv
<1>2. /\ UNCHANGED <<vars, pending, got>> /\ read' = "tree" /\ rkey' = k
      /\ rtree' = tree[k] /\ fresh' = {store[k]} /\ pending = {}
  BY DEF ReadTree, ReadInv, ReadInOrder
<1>3. ReadTypeOK'
  <2>1. TypeOK /\ TypeOK'
    BY <1>1 DEF ReadInv, StoreInv, IInv
  <2>2. tree[k] \in Rec \union {NoRec} /\ store[k] \in Data \union {NoRec}
    BY <2>1 DEF TypeOK
  <2> QED BY <1>2, <2>1, <2>2 DEF ReadTypeOK, ReadInv
<1>4. store[k] = IF tree[k] = NoRec THEN Given(SlotsOf(k), Whole) ELSE Meant(tree[k])
  BY DEF ReadInv, StoreInv, StoreGiven
<1>5. ReadInOrder' /\ CurrentFresh' /\ TreeFresh' /\ OwedFresh'
  BY <1>2, <1>4 DEF ReadInOrder, CurrentFresh, TreeFresh, OwedFresh, FromTree, vars
<1>6. QueueFresh'
  <2>1. ChunkInTree
    BY DEF ReadInv, StoreInv, IInv
  <2>2. dump = "write" /\ queue[k] # NoRec => tree[k] # NoRec
    BY <2>1 DEF ChunkInTree
  <2>3. dump' = dump /\ queue' = queue
    BY <1>2 DEF vars
  <2>4. rkey' = k /\ rtree' = tree[k]
    BY <1>2
  <2> SUFFICES ASSUME PastTree', dump' = "write", queue'[rkey'] # NoRec PROVE FALSE
    BY DEF QueueFresh
  <2>5. tree[k] = NoRec
    BY <2>4 DEF PastTree
  <2>6. dump = "write" /\ queue[k] # NoRec
    BY <2>3, <2>4
  <2> QED BY <2>2, <2>5, <2>6
<1>7. FilesFresh'
  <2>1. Whole' = Whole
    BY <1>2 DEF Whole, MergeId, vars
  <2>2. SlotsOf(rkey)' = SlotsOf(k)
    BY <1>2 DEF SlotsOf, vars
  <2>3. Given(SlotsOf(rkey), Whole)' = Given(SlotsOf(k), Whole)
    BY <2>1, <2>2 DEF Given
  <2>4. rtree' = tree[k] /\ fresh' = {store[k]}
    BY <1>2
  <2> QED BY <1>4, <2>3, <2>4 DEF FilesFresh
<1>8. DumpLast' /\ WindowListed'
  BY <1>2 DEF DumpLast, WindowListed
<1> QED BY <1>1, <1>3, <1>5, <1>6, <1>7, <1>8 DEF ReadInv

LEMMA ReadFilesKeeps == ASSUME ReadInv, ReadFiles PROVE ReadInv'
<1>1. StoreInv'
  BY StoreInvStutters DEF ReadFiles, ReadInv
<1>2. /\ UNCHANGED vars /\ rkey' = rkey /\ rtree' = NoRec /\ fresh' = fresh
      /\ read = "tree" /\ rtree = NoRec /\ read' = "files"
      /\ pending' = Visible /\ got' = NoList /\ rkey \in Key
      /\ Visible \subseteq fileIds /\ fileIds \subseteq FileId
  BY DEF ReadFiles, Listed, ReadInv, ReadTypeOK, Visible, TypeOK
<1>3. \A f \in FileId : got'[f] = Empty /\ got'[f].head = NoRec
  BY <1>2 DEF NoList, Empty
<1>4. \A f \in FileId :
        Owed'[f] = IF f \in Visible THEN SlotsOf(rkey)[f] ELSE Empty
  BY <1>2, <1>3 DEF Owed, SlotsOf, vars
<1>5. ReadTypeOK'
  <2>1. Empty \in Slot /\ TypeOK'
    BY <1>1 DEF Empty, Slot, StoreInv, IInv
  <2> QED BY <1>2, <2>1 DEF ReadTypeOK, ReadInv, NoList
<1>6. ReadInOrder' /\ CurrentFresh' /\ TreeFresh' /\ QueueFresh' /\ FilesFresh'
  BY <1>2 DEF ReadInOrder, CurrentFresh, TreeFresh, QueueFresh, FilesFresh, FromTree,
     PastTree, ReadInv, vars
<1>7. OwedFresh'
  <2>1. Given(Owed', FileId) = Given(SlotsOf(rkey), Visible)
    BY <1>2, <1>4, GivenSame DEF Empty
  <2>2. Given(Owed', FileId) \in fresh
    BY <1>2, <2>1, VisibleGiven DEF ReadInv, FilesFresh
  <2> QED BY <1>2, <2>2 DEF OwedFresh, Given
<1>8. DumpLast'
  BY <1>2, <1>4 DEF DumpLast, Empty, ReadInv, StoreInv, IInv, DumpNewest, vars
<1>9. WindowListed'
  <2> SUFFICES ASSUME merge # "idle", MergeId \in Visible
               PROVE  \/ \A w \in window : w \in Visible
                      \/ /\ merge = "unlinking"
                         /\ \A w \in window : w \notin Visible
    <3>1. MergeId' = MergeId /\ window \subseteq FileId /\ window' = window
      BY <1>2 DEF MergeId, vars, ReadInv, StoreInv, IInv, TypeOK
    <3> QED BY <1>2, <1>3, <3>1 DEF WindowListed, vars
  <2>1. window \subseteq fileIds
    BY DEF ReadInv, StoreInv, IInv, MergeWindow
  <2> QED BY <2>1 DEF Visible
<1> QED BY <1>1, <1>5, <1>6, <1>7, <1>8, <1>9 DEF ReadInv

LEMMA ReadFileKeeps ==
  ASSUME ReadInv, NEW f \in FileId, ReadFile(f)
  PROVE  ReadInv'
<1>1. StoreInv'
  BY StoreInvStutters DEF ReadFile, ReadInv
<1>2. /\ UNCHANGED vars /\ rkey' = rkey /\ rtree' = rtree /\ fresh' = fresh
      /\ read' = read /\ f \in pending /\ pending' = pending \ {f}
      /\ rkey \in Key /\ pending \subseteq FileId
      /\ \A g \in FileId :
           got'[g] = IF g = f /\ got[f].head = NoRec THEN recs[f][rkey] ELSE got[g]
  BY DEF ReadFile, ReadInv, ReadTypeOK
<1>3. recs[f][rkey] \in Slot /\ TypeOK'
  BY <1>1, <1>2 DEF ReadInv, StoreInv, IInv, TypeOK
<1>4. ReadTypeOK'
  BY <1>2, <1>3 DEF ReadFile, ReadInv, ReadTypeOK
<1>5. ReadInOrder' /\ CurrentFresh' /\ TreeFresh' /\ QueueFresh' /\ FilesFresh'
  <2>1. FilesFresh'
    BY <1>2 DEF FilesFresh, ReadInv, Whole, MergeId, SlotsOf, Given, vars
  <2> QED BY <1>2, <2>1 DEF ReadInOrder, CurrentFresh, TreeFresh, QueueFresh, FromTree,
          PastTree, ReadInv, vars
<1>6. \A g \in FileId : /\ Owed[g].head # NoRec => Owed'[g] = Owed[g]
                        /\ Owed'[g].head # NoRec => Owed'[g] = Owed[g]
  <2> SUFFICES ASSUME NEW g \in FileId
               PROVE  /\ Owed[g].head # NoRec => Owed'[g] = Owed[g]
                      /\ Owed'[g].head # NoRec => Owed'[g] = Owed[g]
    OBVIOUS
  <2>1. /\ Owed[g] = IF got[g].head # NoRec THEN got[g]
                     ELSE IF g \in pending THEN recs[g][rkey] ELSE Empty
        /\ Owed'[g] = IF got'[g].head # NoRec THEN got'[g]
                      ELSE IF g \in pending' THEN recs[g][rkey] ELSE Empty
    BY <1>2 DEF Owed, vars
  <2>2. Empty.head = NoRec
    BY DEF Empty
  <2> QED BY <1>2, <2>1, <2>2
<1>7. OwedFresh'
  <2>1. Given(Owed', FileId) = Given(Owed, FileId)
    BY <1>6, GivenSame
  <2> QED BY <1>2, <2>1 DEF OwedFresh, ReadInv, Given
<1>8. DumpLast'
  BY <1>2, <1>6 DEF DumpLast, ReadInv, vars
<1>9. WindowListed'
  <2> SUFFICES ASSUME merge # "idle", MergeId \in pending \ {f}
               PROVE  /\ got'[MergeId].head = NoRec
                      /\ \/ \A w \in window : IF w \in pending' THEN got'[w].head = NoRec
                                              ELSE got'[w] = recs[w][rkey]
                         \/ \A w \in window : w \notin pending' /\ got'[w].head = NoRec
                            /\ merge = "unlinking"
    <3>1. MergeId' = MergeId
      BY <1>2 DEF MergeId, vars
    <3> QED BY <1>2, <3>1 DEF WindowListed, vars
  <2>1. window \subseteq FileId /\ MergeId \in FileId
    BY <1>2 DEF ReadInv, StoreInv, IInv, TypeOK
  <2>2. got'[MergeId].head = NoRec
    BY <1>2, <2>1 DEF ReadInv, WindowListed
  <2>3. CASE \A w \in window : IF w \in pending THEN got[w].head = NoRec
                               ELSE got[w] = recs[w][rkey]
    BY <1>2, <2>1, <2>2, <2>3
  <2>4. CASE \A w \in window : w \notin pending /\ got[w].head = NoRec
                               /\ merge = "unlinking"
    BY <1>2, <2>1, <2>2, <2>4
  <2> QED BY <2>3, <2>4 DEF ReadInv, WindowListed
<1> QED BY <1>1, <1>4, <1>5, <1>7, <1>8, <1>9 DEF ReadInv

LEMMA ReadDoneKeeps == ASSUME ReadInv, ReadDone PROVE ReadInv'
<1>1. StoreInv'
  BY StoreInvStutters DEF ReadDone, ReadInv
<1>2. /\ UNCHANGED <<vars, rkey, pending>> /\ read' = "idle" /\ rtree' = NoRec
      /\ got' = NoList /\ fresh' = {} /\ pending = {}
  BY DEF ReadDone, Answered, ReadInv, ReadInOrder
<1>3. ReadTypeOK'
  <2>1. Empty \in Slot /\ TypeOK'
    BY <1>1 DEF Empty, Slot, StoreInv, IInv
  <2> QED BY <1>2, <2>1 DEF ReadTypeOK, ReadInv, NoList
<1> QED BY <1>1, <1>2, <1>3 DEF ReadInv, ReadInOrder, CurrentFresh, TreeFresh,
        QueueFresh, FilesFresh, OwedFresh, DumpLast, WindowListed, FromTree, PastTree

-----------------------------------------------------------------------------
(* Beside the read, a step may change the file dumped to and the file       *)
(* merged into; no other file that is in the list.                          *)
LEMMA FilesKept ==
  ASSUME ~BigFiles, StoreInv, Next, ~Bury, NEW f \in fileIds, NEW k \in Key,
         recs'[f][k] # recs[f][k]
  PROVE  \/ DumpWritten /\ f = dumpId
         \/ \E next \in 2 .. NumKeys + 1 : MergeStep(next) /\ f = MergeId
<1>1. f \in FileId
  BY DEF StoreInv, IInv, TypeOK
<1>2. CASE DumpWritten
  BY <1>1, <1>2 DEF DumpWritten, StoreInv, IInv, TypeOK
<1>3. CASE \E next \in 2 .. NumKeys + 1 : MergeStep(next)
  BY <1>1, <1>3 DEF MergeStep, StoreInv, IInv, TypeOK
<1>4. CASE recs' = recs
  BY <1>4
<1>5. CASE \E g \in FileId, next \in 2 .. NumKeys + 1 : ChopHead(g, next)
  BY <1>5 DEF ChopHead
<1> QED BY <1>2, <1>3, <1>4, <1>5 DEF Next, Add, AddPositive, AddNegative, DumpStart,
        Fetch, DumpFetch, DumpDone, Merge, MergeStart, ForceMerge, BeginMerge,
        ForceMergeOfOne, MergeDone

(* The list of files only grows, and a file that a dump or a merge begins   *)
(* with is not one that is waited for.                                      *)
LEMMA ListGrows ==
  ASSUME ~WindowAnywhere, StoreInv, Next, ~Bury
  PROVE  /\ fileIds \subseteq fileIds'
         /\ dump' # "idle" => \/ dump # "idle" /\ dumpId' = dumpId
                              \/ dumpId' \notin fileIds
         /\ merge' # "idle" =>
              \/ /\ merge # "idle" /\ MergeId' = MergeId /\ window' = window
                 /\ merge' = merge \/ merge' = "unlinking"
              \/ MergeId' \notin fileIds
<1>1. CASE DumpStart
  <2>1. NewId \notin fileIds
    <3>1. \A f \in fileIds : f \in Nat
      BY FileIdNat DEF StoreInv, IInv, TypeOK
    <3> QED BY <3>1, NewIdFacts DEF StoreInv, IInv
  <2> QED BY <1>1, <2>1 DEF DumpStart, MergeId, mergeVars
<1>2. ASSUME MayMerge, NEW W \in SUBSET Candidates, BeginMerge(W)
      PROVE  /\ MergeId' \notin fileIds /\ fileIds \subseteq fileIds'
             /\ dump' = dump /\ dumpId' = dumpId
  BY <1>2, BeginMergeOldest DEF BeginMerge, StoreInv, dumpVars
<1>3. CASE MergeStart
  BY <1>2, <1>3 DEF MergeStart
<1>4. CASE ForceMerge
  <2>1. PICK W \in SUBSET Candidates : W = Candidates
    OBVIOUS
  <2>2. MayMerge /\ BeginMerge(W)
    BY <1>4, <2>1 DEF ForceMerge
  <2> QED BY <1>2, <2>2
<1>5. CASE Add \/ Fetch \/ DumpWritten \/ DumpDone
  BY <1>5 DEF Add, AddPositive, AddNegative, Fetch, DumpFetch, DumpWritten, DumpDone,
     MergeId, mergeVars, dumpVars
<1>6. CASE ForceMergeOfOne
  BY <1>6 DEF ForceMergeOfOne, MergeId, mergeVars, dumpVars
<1>7. CASE MergeDone
  BY <1>7 DEF MergeDone, MergeId, dumpVars
<1>8. CASE \E next \in 2 .. NumKeys + 1 : MergeStep(next)
  BY <1>8 DEF MergeStep, MergeId, dumpVars
<1>9. CASE \E f \in FileId, next \in 2 .. NumKeys + 1 : ChopHead(f, next)
  BY <1>9 DEF ChopHead, MergeId, mergeVars, dumpVars
<1> QED BY <1>1, <1>3, <1>4, <1>5, <1>6, <1>7, <1>8, <1>9 DEF Next, Merge

(* A merge adds nothing to what the files owe: as long as it is waited for, *)
(* its file has an older record than a file of its window, or none.         *)
LEMMA MergeOwesNothing ==
  ASSUME ReadInv, NEW next \in 2 .. NumKeys + 1,
         MergeStep(next), UNCHANGED <<rkey, pending, got>>
  PROVE  Given(Owed', FileId) = Given(Owed, FileId)
<1>1. /\ MergeId = 0 /\ window \subseteq Whole /\ Whole \subseteq FileId
      /\ MergeId \in FileId /\ MergeId \notin Whole /\ merge = "merging"
      /\ 1 \in window /\ \A f \in Whole : 1 <= f
  BY WindowAside DEF MergeStep, ReadInv, StoreInv, Whole
<1>2. /\ \A f \in FileId \ {MergeId} : recs'[f] = recs[f]
      /\ rkey \in Key
  BY DEF MergeStep, ReadInv, StoreInv, IInv, TypeOK, ReadTypeOK
<1>3. \A f \in FileId :
        /\ Owed[f] = IF got[f].head # NoRec THEN got[f]
                     ELSE IF f \in pending THEN recs[f][rkey] ELSE Empty
        /\ Owed'[f] = IF got[f].head # NoRec THEN got[f]
                      ELSE IF f \in pending THEN recs'[f][rkey] ELSE Empty
  BY DEF Owed
<1>4. \A f \in FileId \ {MergeId} : Owed'[f] = Owed[f]
  BY <1>2, <1>3
<1>5. CASE Owed'[MergeId] = Owed[MergeId]
  BY <1>1, <1>4, <1>5, GivenSame
<1>6. CASE Owed'[MergeId] # Owed[MergeId]
  <2>1. MergeId \in pending /\ got[MergeId].head = NoRec
    BY <1>1, <1>3, <1>6
  <2>2. \A w \in window : IF w \in pending THEN got[w].head = NoRec
                          ELSE got[w] = recs[w][rkey]
    BY <1>1, <2>1 DEF ReadInv, WindowListed
  <2>3. \A w \in window : recs[w][rkey].head # NoRec => Owed[w].head # NoRec
    BY <1>1, <1>3, <2>2
  <2>4. Mirror /\ Mirror'
    BY MergeStepMirror DEF ReadInv, StoreInv
  <2>5. PICK w \in window : recs[w][rkey].head # NoRec
    <3> SUFFICES ASSUME \A w \in window : recs[w][rkey].head = NoRec
                 PROVE  FALSE
      OBVIOUS
    <3>1. Filled(window, rkey) = {} /\ Filled(window, rkey)' = {}
      <4>1. window' = window /\ \A w \in window : recs'[w] = recs[w]
        BY <1>1, <1>2 DEF MergeStep
      <4> QED BY <4>1 DEF Filled
    <3>2. MergedSlot(window, rkey, TRUE) = Empty
      BY <3>1, MergedSlotFilled
    <3>3. MergedSlot(window, rkey, TRUE)' = Empty
      BY <3>1 DEF MergedSlot
    <3>4. MergeId' = MergeId /\ merge' = merge
      BY DEF MergeStep, MergeId
    <3>5. recs[MergeId][rkey] = Empty
      BY <1>1, <1>2, <2>4, <3>2 DEF Mirror
    <3>6. recs'[MergeId][rkey] = Empty
      BY <1>1, <1>2, <2>4, <3>3, <3>4 DEF Mirror
    <3> QED BY <1>1, <1>3, <1>6, <2>1, <3>5, <3>6
  <2>6. w \in FileId /\ Owed[w].head # NoRec
    BY <1>1, <2>3, <2>5
  <2>7. PICK f \in FileId : /\ Owed[f].head # NoRec
                            /\ \A g \in FileId : Owed[g].head # NoRec => g <= f
    BY <2>6, NewestExists
  <2>8. 0 < f /\ MergeId # f
    <3>1. w <= f /\ 1 <= w
      BY <1>1, <2>6, <2>7
    <3>2. w \in Nat /\ f \in Nat
      BY <2>6, <2>7, FileIdNat
    <3> QED BY <1>1, <3>1, <3>2
  <2>9. Owed'[f] = Owed[f] /\ \A g \in FileId : Owed'[g].head # NoRec => g <= f
    <3>1. MergeId <= f
      BY <1>1, <2>8, FileIdNat
    <3> QED BY <1>4, <2>7, <2>8, <3>1
  <2>10. Given(Owed, FileId) = ValueOf(Owed[f])
    BY <2>7, GivenByNewest
  <2>11. Given(Owed', FileId) = ValueOf(Owed'[f])
    BY <2>7, <2>9, GivenByNewest
  <2> QED BY <2>9, <2>10, <2>11
<1> QED BY <1>5, <1>6

LEMMA BesideOwed ==
  ASSUME ~BigFiles, ReadInv, read = "files", Next, ~Bury,
         UNCHANGED <<rkey, pending, got>>
  PROVE  \/ Given(Owed', FileId) = Given(Owed, FileId)
         \/ /\ dump = "write" /\ queue[rkey] # NoRec
            /\ Given(Owed', FileId) = Meant(queue[rkey])
<1>1. rkey \in Key /\ pending \subseteq fileIds /\ fileIds \subseteq FileId
  BY DEF ReadInv, ReadTypeOK, ReadInOrder, StoreInv, IInv, TypeOK
<1>2. \A f \in FileId :
        /\ Owed[f] = IF got[f].head # NoRec THEN got[f]
                     ELSE IF f \in pending THEN recs[f][rkey] ELSE Empty
        /\ Owed'[f] = IF got[f].head # NoRec THEN got[f]
                      ELSE IF f \in pending THEN recs'[f][rkey] ELSE Empty
  BY DEF Owed
<1>3. CASE \E next \in 2 .. NumKeys + 1 : MergeStep(next)
  BY <1>3, MergeOwesNothing
<1>4. CASE ~DumpWritten /\ ~ \E next \in 2 .. NumKeys + 1 : MergeStep(next)
  <2>1. \A f \in pending : recs'[f][rkey] = recs[f][rkey]
    BY <1>1, <1>4, FilesKept DEF ReadInv
  <2>2. \A f \in FileId : Owed'[f] = Owed[f]
    BY <1>2, <2>1
  <2> QED BY <2>2, GivenSame
<1>5. CASE DumpWritten
  <2>1. dumpId \in FileId /\ dump = "write"
    BY <1>5 DEF DumpWritten, ReadInv, StoreInv, IInv, TypeOK
  <2>2. \A f \in FileId \ {dumpId} : recs'[f][rkey] = recs[f][rkey]
    BY <1>1, <1>5 DEF DumpWritten, ReadInv, StoreInv, IInv, TypeOK
  <2>3. \A f \in FileId \ {dumpId} : Owed'[f] = Owed[f]
    BY <1>2, <2>2
  <2>4. CASE Owed'[dumpId] = Owed[dumpId]
    BY <2>3, <2>4, GivenSame
  <2>5. CASE Owed'[dumpId] # Owed[dumpId]
    <3>1. /\ dumpId \in pending /\ Owed'[dumpId] = recs'[dumpId][rkey]
          /\ recs'[dumpId][rkey] # recs[dumpId][rkey]
      BY <1>2, <2>1, <2>5
    <3>2. /\ queue[rkey] # NoRec /\ Owed'[dumpId].head # NoRec
          /\ ValueOf(Owed'[dumpId]) = Meant(queue[rkey])
      BY <1>1, <1>5, <3>1, SlotWritten DEF ReadInv, StoreInv
    <3>3. \A f \in FileId : Owed'[f].head # NoRec => f <= dumpId
      <4>1. dumpId <= dumpId
        BY <2>1, FileIdNat
      <4> QED BY <2>1, <2>3, <3>1, <4>1 DEF ReadInv, DumpLast
    <3>4. Given(Owed', FileId) = ValueOf(Owed'[dumpId])
      BY <2>1, <3>2, <3>3, GivenByNewest
    <3> QED BY <2>1, <3>2, <3>4
  <2> QED BY <2>4, <2>5
<1> QED BY <1>3, <1>4, <1>5

LEMMA BesideKeeps ==
  ASSUME ~WindowAnywhere, ~BigFiles, ReadInv, Beside
  PROVE  ReadInv'
<1>1. /\ Next /\ ~Bury /\ UNCHANGED <<read, rkey, rtree, pending, got>>
      /\ fresh' = IF read = "idle" THEN {} ELSE fresh \union {store'[rkey]}
      /\ rkey \in Key /\ pending \subseteq fileIds
  BY DEF Beside, ReadInv, ReadTypeOK, ReadInOrder
<1>2. StoreInv'
  BY <1>1, StoreInvKept DEF ReadInv
<1>3. read # "idle" => fresh \subseteq fresh' /\ store'[rkey] \in fresh'
  BY <1>1
<1>4. ReadTypeOK'
  <2>1. TypeOK' /\ store'[rkey] \in Data \union {NoRec}
    BY <1>1, <1>2 DEF StoreInv, IInv, TypeOK
  <2> QED BY <1>1, <2>1 DEF ReadTypeOK, ReadInv
<1>5. ReadInOrder' /\ CurrentFresh' /\ TreeFresh'
  <2>1. fileIds \subseteq fileIds'
    BY <1>1, ListGrows DEF ReadInv
  <2> QED BY <1>1, <1>3, <2>1 DEF ReadInOrder, CurrentFresh, TreeFresh, FromTree, ReadInv
<1>6. QueueFresh'
  <2> SUFFICES ASSUME PastTree, dump' = "write", queue'[rkey] # NoRec
               PROVE  Meant(queue'[rkey]) \in fresh
    BY <1>1, <1>3 DEF QueueFresh, PastTree
  <2>1. CASE Fetch
    <3>1. queue'[rkey] = tree[rkey]
      BY <1>1, <2>1 DEF Fetch, DumpFetch
    <3>2. Meant(tree[rkey]) = store[rkey]
      BY <1>1, <3>1 DEF ReadInv, StoreInv, StoreGiven
    <3> QED BY <3>1, <3>2 DEF ReadInv, CurrentFresh, PastTree
  <2>2. CASE ~Fetch
    <3>1. dump = "write" /\ queue' = queue
      BY <1>1, <2>2 DEF Next, Add, AddPositive, AddNegative, DumpStart, DumpWritten,
         DumpDone, Merge, MergeStart, ForceMerge, BeginMerge, ForceMergeOfOne,
         MergeStep, MergeDone, ChopHead, dumpVars
    <3> QED BY <3>1 DEF ReadInv, QueueFresh
  <2> QED BY <2>1, <2>2
<1>7. FilesFresh'
  <2> SUFFICES ASSUME read = "tree", rtree = NoRec
               PROVE  Given(SlotsOf(rkey), Whole)' \in fresh
    BY <1>1, <1>3 DEF FilesFresh
  <2>1. CASE DumpWritten
    <3>1. CASE queue[rkey] = NoRec
      BY <1>1, <2>1, <3>1, DumpWrittenFiles DEF ReadInv, FilesFresh, StoreInv
    <3>2. CASE queue[rkey] # NoRec
      <4>1. Given(SlotsOf(rkey), Whole)' = Meant(queue[rkey])
        BY <1>1, <2>1, <3>2, DumpWrittenFiles DEF ReadInv, StoreInv
      <4> QED BY <2>1, <3>2, <4>1 DEF ReadInv, QueueFresh, PastTree, DumpWritten
    <3> QED BY <3>1, <3>2
  <2>2. CASE ~DumpWritten
    BY <1>1, <2>2, FilesGiveKept DEF ReadInv, FilesFresh
  <2> QED BY <2>1, <2>2
<1>8. OwedFresh'
  <2> SUFFICES ASSUME read = "files" PROVE Given(Owed', FileId) \in fresh
    BY <1>1, <1>3 DEF OwedFresh, Given
  <2>1. PastTree
    BY DEF PastTree, ReadInv, ReadInOrder
  <2> QED BY <1>1, <2>1, BesideOwed DEF ReadInv, OwedFresh, QueueFresh
<1>9. DumpLast'
  <2> SUFFICES ASSUME dump' # "idle", dumpId' \in pending,
                      NEW f \in FileId, Owed'[f].head # NoRec
               PROVE  f <= dumpId'
    BY <1>1 DEF DumpLast
  <2>1. dump # "idle" /\ dumpId' = dumpId
    BY <1>1, ListGrows DEF ReadInv
  <2>2. CASE f \in pending
    BY <1>1, <2>1, <2>2 DEF ReadInv, StoreInv, IInv, DumpNewest
  <2>3. CASE f \notin pending
    <3>1. Owed'[f] = Owed[f]
      BY <1>1, <2>3 DEF Owed
    <3> QED BY <2>1, <3>1 DEF ReadInv, DumpLast
  <2> QED BY <2>2, <2>3
<1>10. WindowListed'
  <2> SUFFICES ASSUME merge' # "idle", MergeId' \in pending
               PROVE  /\ got[MergeId'].head = NoRec
                      /\ \/ \A w \in window' : IF w \in pending THEN got[w].head = NoRec
                                               ELSE got[w] = recs'[w][rkey]
                         \/ \A w \in window' : w \notin pending /\ got[w].head = NoRec
                            /\ merge' = "unlinking"
    BY <1>1 DEF WindowListed
  <2>1. /\ merge # "idle" /\ MergeId' = MergeId /\ window' = window
        /\ merge' = merge \/ merge' = "unlinking"
    BY <1>1, ListGrows DEF ReadInv
  <2>2. \A w \in window : recs'[w][rkey] = recs[w][rkey]
    <3> SUFFICES ASSUME NEW w \in window, recs'[w][rkey] # recs[w][rkey] PROVE FALSE
      OBVIOUS
    <3>1. w \in fileIds /\ w # MergeId
      BY <2>1, WindowAside DEF ReadInv, StoreInv, IInv, MergeWindow, Whole
    <3>2. dump # "idle" => w # dumpId
      BY <2>1 DEF ReadInv, StoreInv, IInv, MergeWindow
    <3> QED BY <1>1, <3>1, <3>2, FilesKept DEF ReadInv, DumpWritten
  <2> QED BY <2>1, <2>2 DEF ReadInv, WindowListed
<1> QED BY <1>2, <1>4, <1>5, <1>6, <1>7, <1>8, <1>9, <1>10 DEF ReadInv

-----------------------------------------------------------------------------
(* The renamed file owes under its new id what it owed under the old one,   *)
(* unless the file it replaces has given a record, which then is as new.    *)
LEMMA BuryOwed ==
  ASSUME ReadInv, BuryUnread
  PROVE  Given(Owed', FileId) = Given(Owed, FileId)
<1>1. /\ MergeId = 0 /\ 1 \in window /\ MinOf(window) = 1
      /\ window \subseteq FileId /\ 0 \in FileId /\ 1 \in FileId
      /\ merge = "unlinking" /\ rkey \in Key /\ rkey < cursor
      /\ \A w \in window : 1 <= w /\ w # 0
  <2>1. merge = "unlinking" /\ rkey \in Key
    BY DEF BuryUnread, Bury, ReadInv, ReadTypeOK
  <2>2. rkey < cursor
    BY <2>1, KeysAssumption DEF ReadInv, StoreInv, IInv, MergeWindow, Key
  <2> QED BY <2>1, <2>2, WindowAside DEF ReadInv, StoreInv, OldestFirst, Whole
<1>2. /\ pending \intersect window = {} /\ rkey' = rkey /\ got' = got
      /\ pending' = {IF f = 0 THEN 1 ELSE f : f \in pending}
  BY <1>1 DEF BuryUnread
<1>3. /\ recs'[1][rkey] = recs[0][rkey]
      /\ \A f \in FileId : f \notin window /\ f # 0 => recs'[f][rkey] = recs[f][rkey]
  BY <1>1 DEF BuryUnread, Bury
<1>4. \A f \in FileId :
        /\ Owed[f] = IF got[f].head # NoRec THEN got[f]
                     ELSE IF f \in pending THEN recs[f][rkey] ELSE Empty
        /\ Owed'[f] = IF got[f].head # NoRec THEN got[f]
                      ELSE IF f \in pending' THEN recs'[f][rkey] ELSE Empty
  BY <1>2 DEF Owed
<1>5. CASE 0 \notin pending
  <2>1. pending' = pending
    BY <1>2, <1>5
  <2>2. \A f \in FileId : Owed'[f] = Owed[f]
    BY <1>1, <1>2, <1>3, <1>4, <1>5, <2>1
  <2> QED BY <2>2, GivenSame
<1>6. CASE 0 \in pending
  <2>1. pending' = (pending \ {0}) \union {1}
    BY <1>2, <1>6
  <2>2. got[0].head = NoRec /\ Empty.head = NoRec
    BY <1>1, <1>6 DEF ReadInv, WindowListed, Empty
  <2>3. Owed[0] = recs[0][rkey] /\ Owed'[0] = Empty
    BY <1>1, <1>4, <1>6, <2>1, <2>2
  <2>4. /\ Owed[1] = IF got[1].head # NoRec THEN got[1] ELSE Empty
        /\ Owed'[1] = IF got[1].head # NoRec THEN got[1] ELSE recs[0][rkey]
    BY <1>1, <1>2, <1>3, <1>4, <2>1
  <2>5. \A f \in FileId \ {0, 1} : Owed'[f] = Owed[f]
    BY <1>1, <1>2, <1>3, <1>4, <2>1
  <2>6. CASE \E w \in window : got[w].head # NoRec
    <3>1. PICK w \in window : got[w].head # NoRec
      BY <2>6
    <3>2. w \in FileId /\ Owed[w].head # NoRec /\ 1 <= w
      BY <1>1, <1>4, <3>1
    <3>3. PICK f \in FileId : /\ Owed[f].head # NoRec
                              /\ \A g \in FileId : Owed[g].head # NoRec => g <= f
      BY <3>2, NewestExists
    <3>4. 1 <= f /\ f # 0
      <4>1. w <= f /\ w \in Nat /\ f \in Nat
        BY <3>2, <3>3, FileIdNat
      <4> QED BY <3>2, <4>1
    <3>5. Owed'[f] = Owed[f]
      BY <2>2, <2>4, <2>5, <3>3, <3>4
    <3>6. \A g \in FileId : Owed'[g].head # NoRec => g <= f
      BY <2>2, <2>3, <2>5, <3>3, <3>4
    <3> QED BY <3>3, <3>5, <3>6, GivenByNewest
  <2>7. CASE ~ \E w \in window : got[w].head # NoRec
    <3>1. got[1].head = NoRec /\ Owed[1].head = NoRec
      BY <1>1, <2>2, <2>4, <2>7
    <3>2. CASE recs[0][rkey].head = NoRec
      <4>1. \A f \in FileId : /\ Owed[f].head # NoRec => Owed'[f] = Owed[f]
                              /\ Owed'[f].head # NoRec => Owed'[f] = Owed[f]
        BY <2>2, <2>3, <2>4, <2>5, <3>1, <3>2
      <4> QED BY <4>1, GivenSame
    <3>3. CASE recs[0][rkey].head # NoRec
      <4>1. \A w \in window : Owed[w].head = NoRec
        BY <1>1, <1>2, <1>4, <2>2, <2>7
      <4>2. CASE \E f \in FileId \ {0, 1} : Owed[f].head # NoRec
        <5>1. FileId \ {0, 1} \in SUBSET FileId
          OBVIOUS
        <5>2. PICK f \in FileId \ {0, 1} :
                /\ Owed[f].head # NoRec
                /\ \A g \in FileId \ {0, 1} : Owed[g].head # NoRec => g <= f
          BY <4>2, <5>1, NewestExists
        <5>3. 0 <= f /\ 1 <= f
          BY <5>2, FileIdNat
        <5>4. /\ \A g \in FileId : Owed[g].head # NoRec => g <= f
              /\ \A g \in FileId : Owed'[g].head # NoRec => g <= f
          BY <2>5, <5>2, <5>3
        <5>5. Owed'[f] = Owed[f]
          BY <2>5, <5>2
        <5> QED BY <5>2, <5>4, <5>5, GivenByNewest
      <4>3. CASE ~ \E f \in FileId \ {0, 1} : Owed[f].head # NoRec
        <5>1. \A g \in FileId : Owed[g].head # NoRec => g <= 0
          BY <3>1, <4>3
        <5>2. Given(Owed, FileId) = ValueOf(Owed[0])
          BY <1>1, <2>3, <3>3, <5>1, GivenByNewest
        <5>3. \A g \in FileId : Owed'[g].head # NoRec => g <= 1
          BY <2>2, <2>3, <2>5, <4>3
        <5>4. Owed'[1] = recs[0][rkey]
          BY <2>4, <3>1
        <5>5. Given(Owed', FileId) = ValueOf(Owed'[1])
          BY <1>1, <3>3, <5>3, <5>4, GivenByNewest
        <5> QED BY <2>3, <5>2, <5>4, <5>5
      <4> QED BY <4>2, <4>3
    <3> QED BY <3>2, <3>3
  <2> QED BY <2>6, <2>7
<1> QED BY <1>5, <1>6

LEMMA BuryUnreadKeeps ==
  ASSUME ~WindowAnywhere, ~BigFiles, ReadInv, BuryUnread
  PROVE  ReadInv'
<1>1. /\ Bury /\ pending \intersect window = {}
      /\ UNCHANGED <<read, rkey, rtree, got, fresh, tree, dumpVars, store>>
      /\ merge' = "idle" /\ rkey \in Key
  BY DEF BuryUnread, Bury, ReadInv, ReadTypeOK
<1>2. StoreInv'
  <2>1. Next
    BY <1>1 DEF Next, Merge
  <2> QED BY <2>1, StoreInvKept DEF ReadInv
<1>3. /\ MergeId = 0 /\ MinOf(window) = 1 /\ 1 \in fileIds /\ fileIds \subseteq FileId
      /\ pending \subseteq fileIds /\ 1 \in window
      /\ fileIds' = (fileIds \ (window \union {0})) \union {1}
      /\ pending' = {IF f = 0 THEN 1 ELSE f : f \in pending}
  <2>1. merge # "idle"
    BY <1>1 DEF Bury
  <2>2. MergeId = 0 /\ MinOf(window) = 1 /\ 1 \in window /\ fileIds \subseteq FileId
    BY <2>1, WindowAside DEF ReadInv, StoreInv, OldestFirst
  <2>3. window \subseteq fileIds
    BY <2>1 DEF ReadInv, StoreInv, IInv, MergeWindow
  <2> QED BY <2>2, <2>3 DEF ReadInv, ReadInOrder, BuryUnread, Bury
<1>4. pending' \subseteq fileIds' /\ pending' \subseteq FileId
  BY <1>1, <1>3
<1>5. ReadTypeOK'
  <2>1. TypeOK'
    BY <1>2 DEF StoreInv, IInv
  <2> QED BY <1>1, <1>4, <2>1 DEF ReadTypeOK, ReadInv
<1>6. ReadInOrder'
  <2>1. read # "files" => pending' = {}
    BY <1>3 DEF ReadInv, ReadInOrder
  <2> QED BY <1>1, <1>4, <2>1 DEF ReadInOrder, ReadInv
<1>7. CurrentFresh' /\ TreeFresh' /\ QueueFresh'
  BY <1>1 DEF ReadInv, CurrentFresh, TreeFresh, QueueFresh, FromTree, PastTree, dumpVars
<1>8. FilesFresh'
  BY <1>1, BuryGiven DEF ReadInv, FilesFresh
<1>9. OwedFresh'
  BY <1>1, BuryOwed DEF ReadInv, OwedFresh, Given
<1>10. DumpLast'
  <2> SUFFICES ASSUME dump # "idle", dumpId \in pending',
                      NEW f \in FileId, Owed'[f].head # NoRec
               PROVE  f <= dumpId
    BY <1>1 DEF DumpLast, dumpVars
  <2>1. dumpId \notin window /\ 1 <= dumpId
    BY <1>1, <1>3 DEF Bury, ReadInv, StoreInv, IInv, MergeWindow, DumpNewest
  <2>2. dumpId \in pending
    BY <1>3, <2>1
  <2>3. CASE f \in pending'
    <3>1. f \in fileIds \/ f = 1
      BY <1>3, <1>4, <2>3
    <3> QED BY <2>1, <3>1 DEF ReadInv, StoreInv, IInv, DumpNewest
  <2>4. CASE f \notin pending'
    <3>1. Owed[f].head # NoRec
      BY <1>1, <2>4 DEF Owed, Empty
    <3> QED BY <2>2, <3>1 DEF ReadInv, DumpLast
  <2> QED BY <2>3, <2>4
<1>11. WindowListed'
  BY <1>1 DEF WindowListed
<1> QED BY <1>2, <1>5, <1>6, <1>7, <1>8, <1>9, <1>10, <1>11 DEF ReadInv

LEMMA ReadStutterKeeps == ASSUME ReadInv, UNCHANGED allVars PROVE ReadInv'
<1>1. StoreInv'
  BY StoreInvStutters DEF allVars, ReadInv
<1>2. ReadTypeOK'
  BY <1>1 DEF allVars, readVars, ReadTypeOK, ReadInv, StoreInv, IInv
<1>3. Owed' = Owed /\ Whole' = Whole
  BY DEF allVars, readVars, vars, Owed, Whole, MergeId
<1> QED BY <1>1, <1>2, <1>3 DEF allVars, readVars, vars, ReadInv, ReadInOrder,
        CurrentFresh, TreeFresh, QueueFresh, FilesFresh, OwedFresh, DumpLast,
        WindowListed, FromTree, PastTree, SlotsOf, Given, MergeId

LEMMA ReadInvKept ==
  ASSUME ~WindowAnywhere, ~BigFiles, ReadInv, [ReadNext]_allVars
  PROVE  ReadInv'
<1>1. CASE Beside
  BY <1>1, BesideKeeps
<1>2. CASE BuryUnread
  BY <1>2, BuryUnreadKeeps
<1>3. CASE \E k \in Key : ReadTree(k)
  BY <1>3, ReadTreeKeeps
<1>4. CASE ReadFiles
  BY <1>4, ReadFilesKeeps
<1>5. CASE ReadDone
  BY <1>5, ReadDoneKeeps
<1>6. CASE \E f \in FileId : ReadFile(f)
  BY <1>6, ReadFileKeeps
<1>7. CASE UNCHANGED allVars
  BY <1>7, ReadStutterKeeps
<1> QED BY <1>1, <1>2, <1>3, <1>4, <1>5, <1>6, <1>7 DEF ReadNext

(* When all files have been read, the answer is what they owed.             *)
LEMMA AnswerOwed ==
  ASSUME ReadInv, Answered
  PROVE  Answer \in fresh
<1>1. CASE read = "tree" /\ rtree # NoRec
  <2>1. Answer = Meant(rtree)
    BY <1>1, RecAssumption DEF Answer, ValueOf, Meant
  <2> QED BY <1>1, <2>1 DEF ReadInv, TreeFresh, FromTree
<1>2. CASE read = "files" /\ pending = {}
  <2>1. rtree = NoRec
    BY <1>2 DEF ReadInv, ReadInOrder
  <2>2. Answer = Given(got, FileId)
    BY <2>1 DEF Answer, Given
  <2>3. \A f \in FileId : /\ got[f].head # NoRec => Owed[f] = got[f]
                          /\ Owed[f].head # NoRec => Owed[f] = got[f]
    BY <1>2 DEF Owed, Empty
  <2>4. Given(Owed, FileId) = Given(got, FileId)
    BY <2>3, GivenSame
  <2> QED BY <1>2, <2>2, <2>4 DEF ReadInv, OwedFresh
<1> QED BY <1>1, <1>2 DEF Answered

(* The invariant of a read beside the database it reads, when merges begin  *)
(* at the oldest file and no heads are chopped.                             *)
THEOREM RdbReadInductive ==
  ASSUME ~WindowAnywhere, ~BigFiles PROVE ReadSpec => []ReadInv
<1>1. ReadInit => ReadInv
  BY InitReadInv
<1>2. ReadInv /\ [ReadNext]_allVars => ReadInv'
  BY ReadInvKept
<1> QED BY <1>1, <1>2, PTL DEF ReadSpec

(* The types hold whatever the windows and the sizes of files.              *)
LEMMA TypesKept ==
  ASSUME IInv, ReadTypeOK, [ReadNext]_allVars
  PROVE  IInv' /\ ReadTypeOK'
<1>1. IInv'
  <2>1. [Next]_vars
    <3>1. BuryUnread => Next
      BY DEF BuryUnread, Next, Merge
    <3>2. Beside => Next
      BY DEF Beside
    <3>3. CASE \/ ReadFiles \/ ReadDone \/ UNCHANGED allVars
               \/ \E k \in Key : ReadTree(k)
               \/ \E f \in FileId : ReadFile(f)
      BY <3>3 DEF ReadTree, ReadFiles, ReadDone, ReadFile, allVars
    <3> QED BY <3>1, <3>2, <3>3 DEF ReadNext
  <2> QED BY <2>1, NextIInv
<1>2. TypeOK /\ TypeOK'
  BY <1>1 DEF IInv
<1>3. CASE Beside
  <2>1. store'[rkey] \in Data \union {NoRec}
    BY <1>2 DEF ReadTypeOK, TypeOK
  <2>2. /\ UNCHANGED <<read, rkey, rtree, pending, got>>
        /\ fresh' = IF read = "idle" THEN {} ELSE fresh \union {store'[rkey]}
    BY <1>3 DEF Beside
  <2>3. fresh' \in SUBSET (Data \union {NoRec})
    BY <2>1, <2>2 DEF ReadTypeOK
  <2> QED BY <1>1, <1>2, <2>2, <2>3 DEF ReadTypeOK
<1>4. CASE BuryUnread
  <2>1. MinOf(window) \in FileId
    <3>1. merge # "idle"
      BY <1>4 DEF BuryUnread, Bury
    <3>2. window # {} /\ window \subseteq FileId
      BY <1>2, <3>1 DEF IInv, MergeWindow, TypeOK
    <3> QED BY <1>1, <1>2, <3>2, WindowFacts
  <2>2. \A f \in pending : (IF f = MergeId THEN MinOf(window) ELSE f) \in FileId
    BY <2>1 DEF ReadTypeOK
  <2>3. pending' \in SUBSET FileId
    BY <1>4, <2>2 DEF BuryUnread
  <2>4. UNCHANGED <<read, rkey, rtree, got, fresh>>
    BY <1>4 DEF BuryUnread
  <2> QED BY <1>1, <1>2, <2>3, <2>4 DEF ReadTypeOK
<1>5. ASSUME NEW k \in Key, ReadTree(k) PROVE ReadTypeOK'
  <2>1. tree[k] \in Rec \union {NoRec} /\ store[k] \in Data \union {NoRec}
    BY <1>2 DEF TypeOK
  <2> QED BY <1>1, <1>2, <1>5, <2>1 DEF ReadTree, ReadTypeOK
<1>6. NoList \in [FileId -> Slot]
  BY DEF NoList, Empty, Slot
<1>7. CASE ReadFiles
  <2>1. Visible \in SUBSET FileId
    BY <1>2 DEF Visible, TypeOK
  <2>2. /\ read' = "files" /\ pending' = Visible /\ got' = NoList
        /\ UNCHANGED <<rkey, rtree, fresh>>
    BY <1>7 DEF ReadFiles, Listed
  <2> QED BY <1>1, <1>2, <1>6, <2>1, <2>2 DEF ReadTypeOK
<1>8. CASE ReadDone
  <2>1. /\ read' = "idle" /\ rtree' = NoRec /\ got' = NoList /\ fresh' = {}
        /\ UNCHANGED <<rkey, pending>>
    BY <1>8 DEF ReadDone
  <2> QED BY <1>1, <1>2, <1>6, <2>1 DEF ReadTypeOK
<1>9. ASSUME NEW f \in FileId, ReadFile(f) PROVE ReadTypeOK'
  <2>1. recs[f][rkey] \in Slot
    BY <1>2 DEF TypeOK, ReadTypeOK
  <2>2. got' \in [FileId -> Slot]
    BY <1>9, <2>1 DEF ReadFile, ReadTypeOK
  <2> QED BY <1>1, <1>2, <1>9, <2>2 DEF ReadFile, ReadTypeOK
<1>10. CASE UNCHANGED allVars
  <2>1. UNCHANGED <<read, rkey, rtree, pending, got, fresh>>
    BY <1>10 DEF allVars, readVars
  <2> QED BY <1>1, <1>2, <2>1 DEF ReadTypeOK
<1> QED BY <1>1, <1>3, <1>4, <1>5, <1>7, <1>8, <1>9, <1>10 DEF ReadNext

(* The lists that are read, and what is kept of them, stay of their types,  *)
(* with windows and files of every kind.                                    *)
THEOREM RdbReadTypeCorrect == ReadSpec => []ReadTypeOK
<1>1. ReadInit => IInv /\ ReadTypeOK
  <2> SUFFICES ASSUME ReadInit PROVE IInv /\ ReadTypeOK
    OBVIOUS
  <2>1. ReadInv
    BY InitReadInv
  <2> QED BY <2>1 DEF ReadInv, StoreInv
<1>2. (IInv /\ ReadTypeOK) /\ [ReadNext]_allVars => (IInv /\ ReadTypeOK)'
  BY TypesKept
<1> QED BY <1>1, <1>2, PTL DEF ReadSpec

(* Whatever is added, dumped, merged, renamed and unlinked while a read is  *)
(* on, it answers with a record of its key, or the absence of one, that was *)
(* current at some moment between its begin and its end.                    *)
THEOREM RdbReadFresh ==
  ASSUME ~WindowAnywhere, ~BigFiles PROVE ReadSpec => []AnswerFresh
<1>1. ReadInv => AnswerFresh
  BY AnswerOwed DEF AnswerFresh
<1> QED BY <1>1, RdbReadInductive, PTL
=============================================================================
