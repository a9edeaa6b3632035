------------------------------- MODULE RdbBase -------------------------------
(***************************************************************************)
(* The files of one Rdb across crashes: what RdbBase keeps in memory, what *)
(* is on disk, and how attemptMerge() takes up a merge again that was not  *)
(* finished.  In memory the files of a merge are known by their positions  *)
(* in the list; on disk there is only the even id of the file merged into  *)
(* and, in its name, the number of files merged.                           *)
(*                                                                         *)
(* Module Rdb has what goes on while the process is up.  Here a dump is    *)
(* one step, a file has one record of a key, and what was in the tree only *)
(* is left out.  The database is not titledb, whose final file is never    *)
(* renamed, nor spiderdb, whose first file is renamed at start-up.         *)
(***************************************************************************)
EXTENDS Integers, Sequences, FiniteSets, SequencesExt

CONSTANTS
  NumKeys,      \* the keys are 1 .. NumKeys
  Data,         \* the payloads of positive records
  Neg,          \* a negative record
  NoRec,        \* no record
  MinToMerge,   \* m_minToMerge
  MaxFiles,     \* MAX_RDB_FILES
  MaxId,        \* bound of the model on file ids
  MaxCrashes,   \* bound of the model on crashes
  AnyTime       \* the process may die at any time, and dump before it takes
                \* up a merge; or else only as attemptMerge() has it in mind

ASSUME TimeAssumption == AnyTime \in BOOLEAN
ASSUME BoundsAssumption == /\ NumKeys \in Nat /\ MinToMerge \in Nat
                           /\ MaxFiles \in Nat /\ MaxId \in Nat /\ MaxCrashes \in Nat
ASSUME RecAssumption == Neg \notin Data /\ NoRec \notin Data /\ Neg # NoRec

Key == 1 .. NumKeys
Rec == Data \union {Neg}
FileId == 0 .. MaxId
Contents == [Key -> Rec \union {NoRec}]
Nothing == [k \in Key |-> NoRec]

VARIABLES
  disk,      \* the ids of the data files in the directory
  recs,      \* id -> key -> record in the file
  mergeNum,  \* the number in the name of the file merged into, or 0
  up,        \* the process is running
  ids,       \* m_fileIds: the files in the order of the list
  merge,     \* "idle", "merging", or "unlinking" the merged files
  start,     \* m_mergeStartFileNum, a position in ids
  count,     \* m_numFilesToMerge
  cursor,    \* RdbMerge::m_startKey
  unlinks,   \* the files whose unlink has not happened yet
  store,     \* history: the payload last dumped for each key
  crashes

diskVars == <<disk, recs, mergeNum>>
mergeVars == <<merge, start, count, cursor, unlinks>>
vars == <<disk, recs, mergeNum, up, ids, merge, start, count, cursor, unlinks,
          store, crashes>>

-----------------------------------------------------------------------------
IsEven(f) == f % 2 = 0

(* Of the records that the files at the positions P have for a key, the one *)
(* of the last file.                                                        *)
Winner(P, k) ==
  LET filled == {p \in P : recs[ids[p]][k] # NoRec}
  IN  IF filled = {} THEN NoRec
      ELSE recs[ids[CHOOSE p \in filled : \A q \in filled : q <= p]][k]

Window == start .. start + count - 1

(* A read of a key passes over the files being unlinked (Msg3.cpp:393). *)
Lookup(k) ==
  LET r == Winner(DOMAIN ids \ (IF merge = "unlinking" THEN Window ELSE {}), k)
  IN  IF r = Neg THEN NoRec ELSE r

Target == ids[start - 1]

-----------------------------------------------------------------------------
(* addNewFile() gives a dump an odd id past all others. *)
NewId ==
  LET past == IF ids = <<>> THEN 0 ELSE ids[Len(ids)] + 1
  IN  IF IsEven(past) THEN past + 1 ELSE past

(* A dump of the tree, which has no negative records without any files. *)
Dump(c) ==
  /\ up
  /\ AnyTime \/ merge # "idle" \/ \A i \in DOMAIN ids : ~IsEven(ids[i])
  /\ Len(ids) + 1 < MaxFiles /\ NewId <= MaxId
  /\ c # Nothing
  /\ ids = <<>> => \A k \in Key : c[k] # Neg
  /\ disk' = disk \union {NewId}
  /\ recs' = [recs EXCEPT ![NewId] = c]
  /\ ids' = Append(ids, NewId)
  /\ store' = [k \in Key |-> IF c[k] = NoRec THEN store[k]
                             ELSE IF c[k] = Neg THEN NoRec ELSE c[k]]
  /\ UNCHANGED <<mergeNum, up, mergeVars, crashes>>

(* How many files attemptMerge() takes: as many as bring their number below *)
(* m_minToMerge again, or all when the merge is forced.                     *)
ToMerge == {Len(ids)} \union {n \in {Len(ids) - MinToMerge + 2} : n >= 2}

(* attemptMerge() of n files from position a on, when no merge is left to   *)
(* be resumed: the file to merge into goes right before them.               *)
MergeStart(a, n) ==
  /\ up /\ merge = "idle"
  /\ \A i \in DOMAIN ids : ~IsEven(ids[i])
  /\ Len(ids) < MaxFiles
  /\ n \in ToMerge /\ n >= 2 /\ a + n - 1 <= Len(ids)
  /\ start' = a + 1 /\ count' = n /\ mergeNum' = n
  /\ ids' = InsertAt(ids, a, ids[a] - 1)
  /\ disk' = disk \union {ids[a] - 1}
  /\ merge' = "merging"
  /\ cursor' = 1
  /\ UNCHANGED <<recs, up, unlinks, store, crashes>>

(* Mutant: negative records go in every merge. *)
RemoveNegsAlways == TRUE

(* Msg5 keeps negative records unless the window has the oldest file. *)
RemoveNegs == ids[start] \in {0, 1}

(* Lists of merged records are written to the target. *)
MergeStep(next) ==
  /\ up /\ merge = "merging"
  /\ next \in cursor + 1 .. NumKeys + 1
  /\ recs' = [recs EXCEPT ![Target] =
       [k \in Key |->
          IF k \notin cursor .. next - 1 THEN recs[Target][k]
          ELSE LET r == Winner(Window, k)
               IN  IF RemoveNegs /\ r = Neg THEN NoRec ELSE r]]
  /\ cursor' = next
  /\ UNCHANGED <<disk, mergeNum, up, ids, merge, start, count, unlinks, store,
                 crashes>>

(* incorporateMerge(): the merged files are unlinked, each in a thread. *)
MergeDone ==
  /\ up /\ merge = "merging"
  /\ cursor = NumKeys + 1
  /\ merge' = "unlinking"
  /\ unlinks' = {ids[p] : p \in Window}
  /\ UNCHANGED <<diskVars, up, ids, start, count, cursor, store, crashes>>

Unlink(f) ==
  /\ up /\ f \in unlinks
  /\ unlinks' = unlinks \ {f}
  /\ disk' = disk \ {f}
  /\ recs' = [recs EXCEPT ![f] = Nothing]
  /\ UNCHANGED <<mergeNum, up, ids, merge, start, count, cursor, store, crashes>>

NoMerge ==
  /\ merge' = "idle" /\ start' = 1 /\ count' = 0 /\ cursor' = 1
  /\ unlinks' = {}

(* doneWrapper2() renames the target to the first file of the window, and   *)
(* doneWrapper4() takes the window out of the list.                         *)
Rename ==
  /\ up /\ merge = "unlinking" /\ unlinks = {}
  /\ disk' = (disk \ {Target}) \union {ids[start]}
  /\ recs' = [recs EXCEPT ![ids[start]] = recs[Target], ![Target] = Nothing]
  /\ mergeNum' = 0
  /\ ids' = SubSeq(ids, 1, start - 2) \o <<ids[start]>>
              \o SubSeq(ids, start + count, Len(ids))
  /\ NoMerge
  /\ UNCHANGED <<up, store, crashes>>

-----------------------------------------------------------------------------
(* None of the files to be found again will be taken for trash, and none is *)
(* unlinked, or all are: "we restart with just the final merge".            *)
AllOrNothing ==
  IF merge = "unlinking"
  THEN unlinks = {} /\ start = 2 /\ Len(ids) = count + 1
  ELSE \A i \in DOMAIN ids : IsEven(ids[i]) \/ recs[ids[i]] # Nothing

Crash ==
  /\ up /\ crashes < MaxCrashes
  /\ AnyTime \/ AllOrNothing
  /\ up' = FALSE
  /\ ids' = <<>>
  /\ NoMerge
  /\ crashes' = crashes + 1
  /\ UNCHANGED <<diskVars, store>>

(* File ids in their order. *)
InOrder(S) == CHOOSE s \in [1 .. Cardinality(S) -> S] :
                \A i, j \in DOMAIN s : i < j => s[i] < s[j]

(* setFiles(): the list is the directory in the order of the ids.  A file   *)
(* with nothing in it goes to the trash.                                    *)
Restart ==
  /\ ~up
  /\ up' = TRUE
  /\ disk' = {f \in disk : recs[f] # Nothing}
  /\ ids' = InOrder(disk')
  /\ mergeNum' = IF \E f \in disk' : IsEven(f) THEN mergeNum ELSE 0
  /\ UNCHANGED <<recs, mergeVars, store, crashes>>

(* The first file with an even id, and how many of the files it was to be   *)
(* merged from the list still has behind it: by their number, whichever     *)
(* files they are.                                                          *)
Resumable(j) ==
  /\ up /\ merge = "idle"
  /\ j \in DOMAIN ids /\ IsEven(ids[j])
  /\ \A i \in 1 .. j - 1 : ~IsEven(ids[i])

Behind(j) == LET left == Len(ids) - j
             IN  IF left < mergeNum THEN left ELSE mergeNum

(* Mutant: one key too far. *)
MergedUpToSkips(f) ==
  LET filled == {k \in Key : recs[f][k] # NoRec}
  IN  IF filled = {} THEN 1
      ELSE 2 + CHOOSE k \in filled : \A l \in filled : l <= k

(* RdbMerge::merge() goes on behind the last key of the target. *)
MergedUpTo(f) ==
  LET filled == {k \in Key : recs[f][k] # NoRec}
  IN  IF filled = {} THEN 1
      ELSE 1 + CHOOSE k \in filled : \A l \in filled : l <= k

(* Mutant: merges of two files are not resumed. *)
ResumeMany(j) ==
  /\ Resumable(j)
  /\ Behind(j) > 2
  /\ merge' = "merging"
  /\ start' = j + 1
  /\ count' = Behind(j)
  /\ cursor' = MergedUpTo(ids[j])
  /\ UNCHANGED <<diskVars, up, ids, unlinks, store, crashes>>

(* The merge goes on with the files right behind its target. *)
Resume(j) ==
  /\ Resumable(j)
  /\ Behind(j) > 1
  /\ merge' = "merging"
  /\ start' = j + 1
  /\ count' = Behind(j)
  /\ cursor' = MergedUpTo(ids[j])
  /\ UNCHANGED <<diskVars, up, ids, unlinks, store, crashes>>

(* With none or one of them left the merge is taken to be complete, and its *)
(* file is renamed over whatever file 1 there is.                           *)
RenameResumed(j) ==
  /\ Resumable(j)
  /\ Behind(j) <= 1
  /\ disk' = (disk \ {ids[j]}) \union {1}
  /\ recs' = [recs EXCEPT ![1] = recs[ids[j]], ![ids[j]] = Nothing]
  /\ mergeNum' = 0
  /\ ids' = [ids EXCEPT ![j] = 1]
  /\ UNCHANGED <<up, mergeVars, store, crashes>>

-----------------------------------------------------------------------------
Init ==
  /\ disk = {} /\ mergeNum = 0
  /\ recs = [f \in FileId |-> Nothing]
  /\ up = TRUE /\ ids = <<>>
  /\ merge = "idle" /\ start = 1 /\ count = 0 /\ cursor = 1 /\ unlinks = {}
  /\ store = Nothing
  /\ crashes = 0

Merging ==
  \/ \E a, n \in 1 .. MaxFiles : MergeStart(a, n)
  \/ \E next \in 2 .. NumKeys + 1 : MergeStep(next)
  \/ MergeDone
  \/ \E f \in FileId : Unlink(f)
  \/ Rename

Resuming == \E j \in 1 .. MaxFiles : Resume(j) \/ RenameResumed(j)

Next ==
  \/ \E c \in Contents : Dump(c)
  \/ Merging
  \/ Crash \/ Restart
  \/ Resuming

Spec == Init /\ [][Next]_vars

(* A process that died is started again (the loop of main.cpp:5278), and      *)
(* attemptMerge() is called again and again from a sleep callback.          *)
Fairness == WF_vars(Merging) /\ WF_vars(Restart) /\ WF_vars(Resuming)

FairSpec == Spec /\ Fairness

-----------------------------------------------------------------------------
TypeOK ==
  /\ disk \subseteq FileId /\ recs \in [FileId -> Contents]
  /\ mergeNum \in 0 .. MaxFiles
  /\ up \in BOOLEAN /\ ids \in Seq(FileId) /\ Len(ids) <= MaxFiles
  /\ merge \in {"idle", "merging", "unlinking"}
  /\ start \in 1 .. MaxFiles + 1 /\ count \in 0 .. MaxFiles
  /\ cursor \in 1 .. NumKeys + 1 /\ unlinks \subseteq disk
  /\ store \in [Key -> Data \union {NoRec}]
  /\ crashes \in 0 .. MaxCrashes

(* Every read while the process is up gives what was dumped last, also with *)
(* the half-written file of a killed merge in the list and with the merge   *)
(* going on from the last key of that file.                                 *)
ReadsSurvive == up => \A k \in Key : Lookup(k) = store[k]

(* A killed merge is taken up again and comes to its end (RdbBase.cpp:1868, *)
(* "if one file is even #'ed then we were merging into that, but got        *)
(* interrupted and restarted").                                             *)
KilledMergeEnds ==
  (~up /\ \E f \in disk : IsEven(f))
    ~> (up /\ \A f \in disk : ~IsEven(f))

(* Once a killed merge has been dealt with, all that was dumped is there:   *)
(* "maybe the power went off or maybe gb saved and exited w/o finishing the *)
(* merge" (RdbBase.cpp:1869).                                               *)
KilledMergeLosesNothing ==
  (up /\ merge = "idle" /\ \A i \in DOMAIN ids : ~IsEven(ids[i]))
    => \A k \in Key : store[k] # NoRec => Lookup(k) = store[k]
=============================================================================
