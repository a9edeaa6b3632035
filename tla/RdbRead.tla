------------------------------ MODULE RdbRead -------------------------------
(***************************************************************************)
(* A read of one key (Msg5 with Msg3) that runs beside the adds, the dump  *)
(* and the merge of an Rdb.  It takes the records of the tree, then asks   *)
(* for the list of files, then reads the files in whatever order the disk  *)
(* threads get to them, and merges what it got.                            *)
(***************************************************************************)
EXTENDS Rdb

VARIABLES
  read,     \* "idle", "tree" read, "files" being read
  rkey,     \* the key
  rtree,    \* m_treeList
  pending,  \* files with a read queued or under way
  got,      \* Msg3::m_lists: slots by file
  fresh     \* history: what store had for the key since the read began

readVars == <<read, rkey, rtree, pending, got, fresh>>
allVars == <<vars, readVars>>

NoList == [f \in FileId |-> Empty]

ReadInit ==
  /\ Init
  /\ read = "idle"
  /\ rkey \in Key
  /\ rtree = NoRec
  /\ pending = {}
  /\ got = NoList
  /\ fresh = {}

(* Msg5::readList() takes the list of the tree. *)
ReadTree(k) ==
  /\ read = "idle"
  /\ read' = "tree"
  /\ rkey' = k
  /\ rtree' = tree[k]
  /\ fresh' = {store[k]}
  /\ UNCHANGED <<vars, pending, got>>

(* Mutant: the file being dumped to is not read. *)
ListedDumped == Candidates \ (IF merge = "unlinking" THEN window ELSE {})

(* Msg3::readList(): the files but those being unlinked. *)
Listed == Visible

(* A read of one key that the tree has stops there.  Else, after QUICKPOLL, *)
(* a read of every listed file is queued.                                   *)
ReadFiles ==
  /\ read = "tree"
  /\ rtree = NoRec
  /\ read' = "files"
  /\ pending' = Listed
  /\ got' = NoList
  /\ UNCHANGED <<vars, rkey, rtree, fresh>>

(* A disk thread reads one of the files.  Under the id a merged file has    *)
(* taken over, the list of the file it replaced stands first.               *)
ReadFile(f) ==
  /\ f \in pending
  /\ got' = [got EXCEPT ![f] = IF @.head = NoRec THEN recs[f][rkey] ELSE @]
  /\ pending' = pending \ {f}
  /\ UNCHANGED <<vars, read, rkey, rtree, fresh>>

Answered == \/ read = "tree" /\ rtree # NoRec
            \/ read = "files" /\ pending = {}

(* gotList2(): Msg5 merges the lists, newest first, and drops negatives. *)
Answer ==
  IF rtree # NoRec THEN ValueOf([head |-> rtree, next |-> NoRec])
  ELSE LET F == {f \in FileId : got[f].head # NoRec}
       IN  IF F = {} THEN NoRec ELSE ValueOf(got[MaxOf(F)])

ReadDone ==
  /\ Answered
  /\ read' = "idle"
  /\ rtree' = NoRec
  /\ got' = NoList
  /\ fresh' = {}
  /\ UNCHANGED <<vars, rkey, pending>>

(* Mutant: nothing waits for the reads. *)
BuryAtOnce ==
  /\ Bury
  /\ UNCHANGED readVars

(* doneWrapper4() waits for the reads of the files it buries.  Reads hold   *)
(* pointers to files, so the renamed one goes on under its new id.          *)
BuryUnread ==
  /\ pending \intersect window = {}
  /\ Bury
  /\ pending' = {IF f = MergeId THEN MinOf(window) ELSE f : f \in pending}
  /\ UNCHANGED <<read, rkey, rtree, got, fresh>>

(* A step of the Rdb beside the read. *)
Beside ==
  /\ Next /\ ~Bury
  /\ fresh' = IF read = "idle" THEN {} ELSE fresh \union {store'[rkey]}
  /\ UNCHANGED <<read, rkey, rtree, pending, got>>

ReadNext ==
  \/ Beside \/ BuryUnread
  \/ \E k \in Key : ReadTree(k)
  \/ ReadFiles \/ ReadDone
  \/ \E f \in FileId : ReadFile(f)

ReadSpec == ReadInit /\ [][ReadNext]_allVars

ReadTypeOK ==
  /\ TypeOK
  /\ read \in {"idle", "tree", "files"}
  /\ rkey \in Key
  /\ rtree \in Rec \union {NoRec}
  /\ pending \in SUBSET FileId
  /\ got \in [FileId -> Slot]
  /\ fresh \in SUBSET (Data \union {NoRec})

(* A read that overlaps adds, chunks being dumped and files being merged    *)
(* and unlinked still answers with a record that was current at some moment *)
(* of it.                                                                   *)
AnswerFresh == Answered => Answer \in fresh
=============================================================================
