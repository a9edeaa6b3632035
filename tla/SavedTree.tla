----------------------------- MODULE SavedTree ------------------------------
(***************************************************************************)
(* How the tree of an Rdb outlives its process: it is saved to one file    *)
(* every few minutes, before an orderly exit and when the process is about *)
(* to die of a signal (Process.cpp, RdbTree::fastSave()), while adds go on *)
(* and dumps move its records to files of their own.  A restart takes the  *)
(* saved tree for the newest of the lists.                                 *)
(*                                                                         *)
(* A key has one record in the tree and one in the files, which is what    *)
(* the newest of them gives: the files among themselves are the business   *)
(* of Rdb.                                                                 *)
(***************************************************************************)
EXTENDS Integers

CONSTANTS LastKey,   \* the keys are 1 .. LastKey
          Payload,   \* of positive records
          NegRec,    \* a negative record
          None,      \* no record
          DiskFails  \* the file being saved may have a write error

ASSUME SavedKeysAssumption == LastKey \in Nat
ASSUME SavedRecAssumption ==
  NegRec \notin Payload /\ None \notin Payload /\ NegRec # None
ASSUME SavedSwitchAssumption == DiskFails \in BOOLEAN

TreeKey == 1 .. LastKey
Recs == [TreeKey -> Payload \union {NegRec, None}]
EmptyTree == [k \in TreeKey |-> None]

VARIABLES
  tree,       \* the records in memory
  needsSave,  \* m_needsSave
  writable,   \* m_isWritable
  saver,      \* "idle", or the save thread is "writing" or "done"; m_isSaving
  blocks,     \* what it has written of the tree to X-saving.dat
  at,         \* the key it writes next
  saved,      \* X-saved.dat
  files,      \* the records in the dumped files
  anyFile,    \* m_numFiles > 0
  dump,       \* "idle", "fetch" a chunk, "write" it, or it has been "written"
  nextKey,    \* m_nextKey
  queue,      \* the chunk
  mode,       \* Process::m_mode, or "down" when there is no process
  acked,      \* history: the payload last acknowledged for each key
  since       \* history: all those acknowledged since the tree was last saved

saveVars == <<needsSave, saver, blocks, at, saved>>
dumpVars == <<dump, nextKey, queue>>
savedVars == <<tree, saveVars, writable, files, anyFile, dumpVars, mode, acked,
               since>>

-----------------------------------------------------------------------------
Gives(r) == IF r = NegRec THEN None ELSE r

(* A read looks at the tree first. *)
Read(t, k) == IF t[k] # None THEN Gives(t[k]) ELSE Gives(files[k])

OnlyAcked == [k \in TreeKey |-> {acked[k]}]

Acknowledge(k, v) ==
  /\ acked' = [acked EXCEPT ![k] = v]
  /\ since' = [since EXCEPT ![k] = @ \union {v}]

Running == mode # "down"

(* Mutant: adds are not turned away while the tree is being saved. *)
TakesAlways == Running

(* addRecord() and addNode() refuse while Process saves the trees. *)
Takes == Running /\ writable /\ saver = "idle"

(* Keys within the range of the chunk being dumped are turned away. *)
Refused(k) ==
  /\ dump # "idle"
  /\ \E i, j \in TreeKey : queue[i] # None /\ queue[j] # None /\ i <= k /\ k <= j

(* Rdb::addRecord(); a negative record deletes the positive one and is not  *)
(* kept when there are no files.                                            *)
AddPositive(k, d) ==
  /\ Takes /\ ~Refused(k)
  /\ tree' = [tree EXCEPT ![k] = d]
  /\ needsSave' = TRUE
  /\ Acknowledge(k, d)
  /\ UNCHANGED <<writable, saver, blocks, at, saved, files, anyFile, dumpVars,
                 mode>>

AddNegative(k) ==
  /\ Takes /\ ~Refused(k)
  /\ tree' = [tree EXCEPT ![k] = IF anyFile THEN NegRec ELSE None]
  /\ needsSave' = (needsSave \/ anyFile \/ tree[k] # None)
  /\ Acknowledge(k, None)
  /\ UNCHANGED <<writable, saver, blocks, at, saved, files, anyFile, dumpVars,
                 mode>>

-----------------------------------------------------------------------------
(* Rdb::dumpTree() does not begin while the trees are saved. *)
DumpStart ==
  /\ Running /\ dump = "idle" /\ saver = "idle" /\ mode # "save"
  /\ tree # EmptyTree
  /\ dump' = "fetch"
  /\ nextKey' = 1
  /\ anyFile' = TRUE
  /\ UNCHANGED <<tree, saveVars, writable, files, queue, mode, acked, since>>

Pending(k) == tree[k] # None /\ k >= nextKey

DumpFetch(last) ==
  /\ dump = "fetch" /\ Pending(last)
  /\ queue' = [k \in TreeKey |-> IF Pending(k) /\ k <= last THEN tree[k] ELSE None]
  /\ nextKey' = last + 1
  /\ dump' = "write"
  /\ UNCHANGED <<tree, saveVars, writable, files, anyFile, mode, acked, since>>

WithChunk == [k \in TreeKey |-> IF queue[k] # None THEN queue[k] ELSE files[k]]

DumpWrite ==
  /\ dump = "write"
  /\ files' = WithChunk
  /\ dump' = "written"
  /\ UNCHANGED <<tree, saveVars, writable, anyFile, nextKey, queue, mode, acked, since>>

(* deleteList() on a tree that may not be written is only logged. *)
DumpDelete ==
  /\ dump = "written"
  /\ tree' = IF writable THEN [k \in TreeKey |-> IF queue[k] # None THEN None
                                             ELSE tree[k]]
             ELSE tree
  /\ needsSave' = (needsSave \/ writable)
  /\ queue' = EmptyTree
  /\ dump' = "fetch"
  /\ UNCHANGED <<saver, blocks, at, saved, writable, files, anyFile, nextKey,
                 mode, acked, since>>

DumpDone ==
  /\ dump = "fetch" /\ \A k \in TreeKey : ~Pending(k)
  /\ dump' = "idle"
  /\ nextKey' = 1
  /\ UNCHANGED <<tree, saveVars, writable, files, anyFile, queue, mode, acked, since>>

-----------------------------------------------------------------------------
(* fastSave() in the main thread, when the tree has changed. *)
SaveNow ==
  /\ saved' = IF needsSave THEN tree ELSE saved
  /\ since' = OnlyAcked

(* save2() waits for dumps. *)
MaySave == dump = "idle"

(* Process::save2() starts to save: in a thread, in the main thread if       *)
(* there can be none, or not at all if the tree has not changed.             *)
SaveInThread ==
  /\ MaySave /\ needsSave
  /\ mode' = "save" /\ writable' = FALSE
  /\ saver' = "writing" /\ at' = 1 /\ blocks' = EmptyTree
  /\ UNCHANGED <<needsSave, saved, since>>

SaveInline ==
  /\ MaySave
  /\ SaveNow
  /\ needsSave' = FALSE
  /\ mode' = "none"
  /\ UNCHANGED <<saver, blocks, at, writable>>

WaitForDump ==
  /\ ~MaySave
  /\ mode' = "lock"
  /\ UNCHANGED <<saveVars, writable, since>>

(* Process::save(), and processSleepWrapper() trying again. *)
Save ==
  /\ mode \in {"none", "lock"}
  /\ SaveInThread \/ SaveInline \/ WaitForDump
  /\ UNCHANGED <<tree, files, anyFile, dumpVars, acked>>

(* fastSave_r() in its thread, one block of nodes at a time ... *)
WriteBlock ==
  /\ saver = "writing" /\ at <= LastKey
  /\ blocks' = [blocks EXCEPT ![at] = tree[at]]
  /\ at' = at + 1
  /\ UNCHANGED <<tree, needsSave, saver, saved, writable, files, anyFile, dumpVars,
                 mode, acked, since>>

(* ... and X-saving.dat becomes X-saved.dat; after an error it does not, but *)
(* the callback of the thread cannot tell.                                   *)
RenameSaved ==
  /\ saver = "writing" /\ at > LastKey
  /\ saved' \in {blocks} \union (IF DiskFails THEN {saved} ELSE {})
  /\ saver' = "done"
  /\ UNCHANGED <<tree, needsSave, blocks, at, writable, files, anyFile, dumpVars,
                 mode, acked, since>>

(* threadDoneWrapper() *)
SaveDone ==
  /\ saver = "done"
  /\ saver' = "idle"
  /\ needsSave' = FALSE
  /\ since' = OnlyAcked
  /\ UNCHANGED <<tree, blocks, at, saved, writable, files, anyFile, dumpVars, mode,
                 acked>>

(* Mutant: save2() ends without enabling the trees. *)
EndSaveShut ==
  /\ mode = "save" /\ saver = "idle"
  /\ mode' = "none"
  /\ UNCHANGED <<tree, saveVars, writable, files, anyFile, dumpVars, acked,
                 since>>

(* save2() finds no tree saving any more. *)
EndSave ==
  /\ mode = "save" /\ saver = "idle"
  /\ mode' = "none"
  /\ writable' = TRUE
  /\ UNCHANGED <<tree, saveVars, files, anyFile, dumpVars, acked, since>>

-----------------------------------------------------------------------------
(* Process::shutdown() is ignored while the trees are saved. *)
Shutdown ==
  /\ mode = "none"
  /\ mode' = "exit"
  /\ UNCHANGED <<tree, saveVars, writable, files, anyFile, dumpVars, acked,
                 since>>

(* shutdown2() waits for the threads that write and saves the trees, whether *)
(* a dump is on or not; it is called again every half second until the udp   *)
(* servers are shut.                                                         *)
WaitForUdp ==
  /\ mode = "exit" /\ dump # "write"
  /\ writable' = FALSE
  /\ SaveNow
  /\ needsSave' = FALSE
  /\ UNCHANGED <<tree, saver, blocks, at, files, anyFile, dumpVars, mode, acked>>

(* What was in memory is gone. *)
GoDown ==
  /\ mode' = "down"
  /\ tree' = EmptyTree /\ needsSave' = FALSE /\ writable' = TRUE
  /\ saver' = "idle" /\ blocks' = EmptyTree /\ at' = 1
  /\ dump' = "idle" /\ nextKey' = 1 /\ queue' = EmptyTree
  /\ UNCHANGED <<anyFile, acked>>

Exit ==
  /\ mode = "exit" /\ dump # "write"
  /\ SaveNow
  /\ GoDown
  /\ UNCHANGED files

(* shutdown(true), from the handler of a deadly signal: it waits for the     *)
(* threads that write, saves and dumps core.                                 *)
UrgentExit ==
  /\ mode = "none"
  /\ files' = IF dump = "write" THEN WithChunk ELSE files
  /\ SaveNow
  /\ GoDown

(* The process is killed, or gets a deadly signal while the trees are saved, *)
(* when shutdown() does nothing; of the chunk being written the file has the *)
(* keys up to last.                                                          *)
Kill(last) ==
  /\ Running
  /\ files' = IF dump = "write"
              THEN [k \in TreeKey |-> IF k <= last THEN WithChunk[k] ELSE files[k]]
              ELSE files
  /\ GoDown
  /\ UNCHANGED <<saved, since>>

(* loadTree() *)
LoadTree ==
  /\ ~Running
  /\ mode' = "none"
  /\ tree' = saved
  /\ acked' = [k \in TreeKey |-> Read(saved, k)]
  /\ since' = [k \in TreeKey |-> {Read(saved, k)}]
  /\ UNCHANGED <<saveVars, writable, files, anyFile, dumpVars>>

-----------------------------------------------------------------------------
SavedInit ==
  /\ tree = EmptyTree /\ needsSave = FALSE /\ writable = TRUE
  /\ saver = "idle" /\ blocks = EmptyTree /\ at = 1 /\ saved = EmptyTree
  /\ files = EmptyTree /\ anyFile = FALSE
  /\ dump = "idle" /\ nextKey = 1 /\ queue = EmptyTree
  /\ mode = "none"
  /\ acked = EmptyTree /\ since = [k \in TreeKey |-> {None}]

SavedAdd == \E k \in TreeKey : AddNegative(k) \/ \E d \in Payload : AddPositive(k, d)
SavedDump == DumpWrite \/ DumpDelete \/ DumpDone \/ \E k \in TreeKey : DumpFetch(k)
SaveStep == WriteBlock \/ RenameSaved \/ SaveDone \/ EndSave

SavedNext == \/ SavedAdd \/ DumpStart \/ SavedDump
             \/ Save \/ SaveStep
             \/ Shutdown \/ WaitForUdp \/ Exit \/ UrgentExit \/ LoadTree
             \/ \E last \in 0 .. LastKey : Kill(last)

(* The save thread runs, and its callback and processSleepWrapper() are      *)
(* called.  A shutdown becomes urgent after ten rounds and then waits in a   *)
(* loop until no thread is writing, which is when it can exit.               *)
SavedFairness == /\ WF_savedVars(SaveStep) /\ WF_savedVars(SavedDump)
                 /\ SF_savedVars(Exit)

SavedSpec == SavedInit /\ [][SavedNext]_savedVars

-----------------------------------------------------------------------------
SavedTypeOK ==
  /\ {tree, blocks, saved, files, queue} \subseteq Recs
  /\ {needsSave, writable, anyFile} \subseteq BOOLEAN
  /\ saver \in {"idle", "writing", "done"} /\ at \in 1 .. LastKey + 1
  /\ dump \in {"idle", "fetch", "write", "written"}
  /\ nextKey \in 1 .. LastKey + 1
  /\ mode \in {"none", "lock", "save", "exit", "down"}
  /\ acked \in [TreeKey -> Payload \union {None}]
  /\ since \in [TreeKey -> SUBSET (Payload \union {None})]

(* Whenever the process ends, no key falls back behind the last save: what  *)
(* a restart would read now has been acknowledged since, whatever has been   *)
(* dumped and deleted from the tree in between.  An orderly or urgent exit   *)
(* saves last of all, so after it every key is as it was acknowledged, also  *)
(* when it came in the middle of a dump.                                     *)
RestartKeepsSaved == \A k \in TreeKey : Read(saved, k) \in since[k]

(* Neither a save nor a shutdown leaves the trees shut for good: writes come *)
(* back, or the process has ended and a new one takes them.                  *)
WritesComeBack == (~writable \/ mode = "exit") ~> (writable /\ mode # "exit")
=============================================================================
