# A TLA+ model of the Gigablast search engine

Gigablast (C++) is a web search engine in which every host of a cluster runs the
same single-threaded, event-driven process: handlers and callbacks run one at a
time on the main thread, disk reads and writes run in threads and call back, and
hosts talk over a UDP protocol of their own.  Everything the engine knows is kept
in databases ("Rdb"s) of keyed records, sharded over the hosts.  The databases are
what the rest relies on and where most of the interleaving is, so the model starts
there: one database on one host, what outlives its process, how records get from
host to host, and how the spider uses all of it as a queue.

## 1. Inventory

| Component | State | Operations | Interacts with |
|---|---|---|---|
| `Rdb` | tree, memory, dump, list of collections | addList, addRecord, dumpTree, close | everything that stores |
| `RdbMem` | one buffer, two pointers | allocData, freeDumpedMem | `Rdb` (dump mode), `RdbTree` (data pointers) |
| `RdbTree` / `RdbBuckets` | nodes / buckets | addNode, deleteNode3, getList, deleteList, fastSave | `Rdb`, `RdbDump`, `Msg5` |
| `RdbDump` | file, next key, chunk | dumpTree, dumpList, doneReadingForVerify | `RdbTree`, `RdbBase`, disk threads |
| `RdbBase` | files, ids, merge window | addNewFile, attemptMerge, incorporateMerge, buryFiles | `RdbMerge`, `Msg3` |
| `RdbMerge` | start key, window | getNextList, dumpList, doneMerging | `Msg5`, `RdbDump`, `RdbBase` |
| `RdbMap`, `BigFile` | page keys, part files | addList, chopHead, unlink | `RdbDump`, `RdbMerge`, `Msg3` |
| `Msg5`, `Msg3` | lists of a read | readList, gotList2, mergeLists_r | `RdbTree`, `RdbBase`, disk threads |
| `RdbCache` | ring of records, hash chains | addRecord, getRecord | `Msg3`, `Msg0` |
| `Process`, saved tree | phases of saves and exits, X-saved.dat | save2, shutdown2, fastSave, loadTree | every `Rdb`, `Msg4` |
| `Msg4` | buffers by host, waiting lines | addMetaList, storeRec, flush, handleRequest4 | `Multicast`, `Rdb` |
| `UdpServer`, `UdpSlot` | slots, bit windows of sent and acked dgrams | sendRequest, readSock, makeCallbacks, readTimeoutPoll | network, every message class |
| `Multicast` | hosts tried, replies, timers | sendToGroup, gotReply1/2, sleepWrapper1 | `UdpServer`, `PingServer` |
| `Spider` | waiting tree, doledb with its counts, winner cache, locks | addSpiderRequest, evalIpLoop, spiderUrl9, addSpiderReply, nukeDoledb | `Rdb`, `Msg4`, `Msg5` |
| `PingServer`, `Hostdb` | who is alive | pings, shutdown notes | `Multicast` |
| `Parms`, `Collectiondb` | parameters, collections | broadcast of commands | `UdpServer` |
| `Threads`, `Loop` | thread queues, callbacks | call, cleanUp, isHittingFile | all of the above |
| `XmlDoc`, text analysis, queries, pages | per request | pure computation and formatting | the databases |

What is hard in this code: a dump that deletes from the tree what it has written
while adds go on; files that are merged, chopped, unlinked and renamed under
running reads; negative records that must outlive every older positive one and
nothing else; memory that is recycled as a whole while single records still refer
to it; retries after partial success; restarts in the middle of all this; and on
the network lost, repeated and late messages.  `PROJECT.json` lists these hazards
at their lines, and for each the properties that would see it go wrong or the reason
why none does.

What makes each component correct:

- `RdbMem`: no record overlaps another or lies in memory that has been given back.
- `Rdb`, `RdbDump`, `RdbBase`, `RdbMerge` together: a read gives the record last
  acknowledged, at every moment; a full tree gets room again; files get merged.
- `Msg5`/`Msg3`: a read that takes many steps gives a record that was current at one.
- tree save and `Process`: what was acknowledged before an orderly shutdown is there
  after it, and a crash takes no key back behind the last save.
- `Msg4`: every add reaches every twin, and adds of a key keep their order.
- `UdpServer`: a reply is given to its request once; every slot is freed.
- `Multicast`: one callback for each request, whoever answers.
- `Spider`: a url is not spidered twice at a time, no IP is forgotten, and every url
  that is due is spidered.

## 2. The plan

In the order of the work; all of it is done, but for what 7 names.

1. `RdbMem`: allocator and data pointers, checked and proved.
2. `Rdb`, `KeyStore`: one database on one host against its abstract promise;
   `RdbRead`: a read beside it; `Rdb_proof`: no acknowledged record is lost, and the
   database implements `KeyStore`; `RdbRead_proof`: a read gives nothing stale.
3. `RdbBase`: crashes during a merge, resumed merges; `SavedTree`: the saved tree
   and the ways a process ends; `MCRestart` checks both, `Restart_proof` proves both.
4. The network from below: `DgramBits`, `Udp` against the promise `Call`,
   `Multicast`, `Msg4`, each taking what the one below shows; `MCHosts` checks the
   four of them, and `Udp_proof`, `Multicast_proof` and `Msg4_proof` prove them.
5. `Doling`: which url is spidered next, checked with `MCDoling` and proved.

Open for whoever goes on: what still holds of deletes and of killed merges when
windows begin anywhere and the process dies at any time; the dump loop over
collections.

## 3. Modules

### RdbMem: `RdbMem.cpp` with the data pointers of `RdbTree.cpp`

| Model | Code |
|---|---|
| `ptr1`, `ptr2` | `m_ptr1`, `m_ptr2` as offsets into `m_mem` |
| `Up` | the test `m_ptr1 < m_ptr2` that tells which way primary memory grows |
| `addr`, `size`, `live` | `RdbTree::m_data`, `m_sizes`, occupied nodes |
| `inDumpLoop` | `Rdb::m_inDumpLoop` |
| `scan` | the loop index of `freeDumpedMem()`, one turn a step |
| `skipped` | nodes of collections for which `dumpCollLoop()` finds no free file slot |
| `AllocSecondary`, `AllocPrimary` | the branches of `allocData()` |
| `Keep`, `Move`, `MoveFails`, `Swap` | the turns of `freeDumpedMem()` and its end |

`freeDumpedMem()` runs without interruption in the code.  The model lets adds and
deletes happen between its turns: this is more than the code does, so what holds
here holds there.  `BeginFree` says what the end of a dump without error means: what
was in primary memory has been dumped and deleted, or belongs to a skipped collection.

### Rdb: `Rdb.cpp`, `RdbDump.cpp`, `RdbBase.cpp`, `RdbMerge.cpp`, `RdbList::merge_r()`

A key comes as a negative (delete) and a positive key, next to each other in key
order.  The tree never has both.  A file can: a chunk of a dump may end with the
negative key, the positive one may be added before the next chunk is taken.  So a
file has a *slot* for each key with up to two records, `head` and `next`, in file order.

| Model | Code |
|---|---|
| `AddPositive`, `AddNegative` | `addRecord()`: refusal by `m_firstKeyInQueue`/`m_lastKeyInQueue`, annihilation in the tree, negative keys dropped while there are no files |
| `DumpStart`, `DumpFetch`, `DumpWritten`, `DumpDone` | `dumpCollLoop()`/`RdbDump::set()`, `dumpTree()`, the callback of the write with `addList()` on the map and `deleteList()` on the tree, `doneDumping()` |
| `NewId`, `MergeId` | odd ids for dumps; the even id before a window for the file merged into |
| `MergeStart`, `ForceMerge`, `ForceMergeOfOne` | the ways through `attemptMerge()`/`gotTokenForMerge()` |
| `MergeStep`, `ChopHead`, `MergeDone`, `Bury` | `getAnotherList()` with `dumpList()`, the chopping loop of `getNextList()`, `incorporateMerge()`, `doneWrapper2()` to `buryFiles()` |
| `MergedSlot` | what `merge_r()` leaves of one key, with `lastNegi` |
| `Lookup` | what a read of one key gives: the tree, else the newest file |

Three switches confine the model to what a property needs: `WindowAnywhere` (a window
may begin after the oldest file), `BigFiles` (files of more than two parts, whose
heads are chopped off) and `ForceInDump` (a merge may be forced while a dump leaves
one other file).  All three happen in the code.  With all of them on, `rdb_all` shows
what is left; with one of them on, each of three runs shows what goes wrong.

### KeyStore: the promise

One variable for what has been acknowledged, one for what reads give, changed
together.  `Rdb` maps `acked` to the history variable `store` and `kv` to `Lookup`:
every dump and merge step has to be a stutter, and every add takes effect at once.

### RdbRead: `Msg5.cpp`, `Msg3.cpp`

A read in steps, each interleaved with every step of `Rdb`: take the record of the
tree; return it if there is one (`Msg5.cpp:694-702`); else, after a quickpoll, list
the files that are not being unlinked; read them one at a time in any order; merge.
`BuryUnread` is `Bury` with the wait for `isHittingFile()`.  A merged file goes on
under the id of the file it replaced.

### RdbBase: the files across crashes

`Rdb` knows a merge by the set of its files; `RdbBase.cpp` knows it by positions in
the list (`m_mergeStartFileNum`, `m_numFilesToMerge`), and after a restart only by the
even id and the number in the name of the file merged into.  `RdbBase` models that:
the directory (`disk`, `recs`, `mergeNum`) outlives a `Crash`, the list `ids` and the
position of the merge do not.

| Model | Code |
|---|---|
| `Dump` | `addNewFile()` and a whole dump in one step |
| `MergeStart`, `MergeStep` | `gotTokenForMerge()` up to `RdbMerge::merge()`, lists dumped to the target |
| `MergeDone`, `Unlink`, `Rename` | `incorporateMerge()`, its unlinks one by one in any order, `doneWrapper2()` with `doneWrapper4()` and `buryFiles()` |
| `Restart`, `InOrder` | `setFiles()` with `addFile()`: files by id, empty ones to the trash |
| `Resume`, `RenameResumed` | the branch of `attemptMerge()` for an even id: positions counted, merge from the last key of the target, or the target renamed to id 1 |

A file has one record of each key here: how doubles merge is the business of `Rdb`.
`AnyTime` says whether the process may die between two unlinks, and dump before it has
taken up the merge.

### SavedTree: `Process.cpp`, the saves of `RdbTree.cpp`, `Rdb::loadTree()`

The tree of one Rdb against the ways a process ends.  A key has one record in the
tree and one in the files; merges are left to `Rdb` and `RdbBase`.

| Model | Code |
|---|---|
| `mode` | `Process::m_mode`: none, lock, save, exit; "down" is no process |
| `writable`, `needsSave`, `saver` | `m_isWritable`, `m_needsSave`, `m_isSaving` with the save thread |
| `Takes`, `Refused` | `addNode()` refuses while trees are saved, `addRecord()` keys in the range of the chunk |
| `Save` | `save()` or a round of `processSleepWrapper()`: `WaitForDump`, `SaveInThread`, `SaveInline` |
| `WriteBlock`, `RenameSaved`, `SaveDone`, `EndSave` | `fastSaveBlock_r()`, the rename at the end of `fastSave_r()`, `threadDoneWrapper()`, the round of `save2()` that finds no tree saving |
| `Shutdown`, `WaitForUdp`, `Exit` | `shutdown()`, ignored while trees are saved; rounds of `shutdown2()`; the last one |
| `UrgentExit`, `Kill` | `sigbadHandler()` in no mode; a kill, or a deadly signal in another mode, where `shutdown()` does nothing |
| `DumpStart` to `DumpDone` | a dump beside it, which an exit does not wait for (`Process.cpp:1584-1589`) |
| `LoadTree` | the restart; what it reads then counts as acknowledged |

`m_calledSave` is true in mode "save" only and needs no variable.  Two histories,
`acked` and `since`, say what was acknowledged last for each key and what since the
last save.  A waiting save (`LOCK_MODE`) waits as long as new dumps begin, which the
code allows; so no property says that a save ends.  `DiskFails` lets the write of
X-saving.dat fail: `threadDoneWrapper()` clears `m_needsSave` all the same.

### DgramBits, Udp, Call: `UdpSlot.cpp`, `UdpServer.cpp`

`Udp` is one transaction: a client, a server, and a network that keeps every packet
for ever and delivers it never, late, or many times.

| Model | Code |
|---|---|
| `cli`, `srv` | the slot of each side: the sent, read and ack bits as sets, `m_errno`, `m_calledHandler` |
| `forced` | the branch of `readDatagramOrAck()` that sets all bit counts to one for a cancel |
| `buf` | `m_readBuf`; each dgram remembers which call of the handler it is from |
| `SentAfterAck` | what `readAck()` does to earlier dgrams that were not acknowledged |
| `Again` | `prepareForResend()`, of what was not acknowledged or of all |
| `ClientComplete`, `ServerComplete` | `isTransactionComplete()` |
| `ClientCancels`, `ServerReadsCancel` | a reply nobody waits for, and the conditions under which its cancel counts |
| `ServerHandles`, `ServerReplies`, `ServerEnds` | `makeCallback_ass()`, the handler (external), `destroySlot()` |
| `ServerHasNoMemory` | no buffer for a request (`UdpServer.cpp:1734`): the slot ends with an error and no call, and a later dgram begins a new one |

`Call` is what a caller is promised: one callback, and without an error only after
the request has been handled, perhaps more than once.  `Udp` implements it by
`ImplementsCall`.  `ServerLast` says that a server gives up a slot only after its
client has: the code gives a server's slot 60 seconds without a packet
(`UdpServer.cpp:1653`), more than most clients wait, and clients that wait longer
send again and again.

`DgramBits` justifies the sets.  The bit maps of a slot are cleared byte by byte when
first used, by a test that counts on the bytes being reached in order.

### Multicast: `Multicast.cpp`

One `Multicast` and the slots it has in `UdpServer`.  `LoopOutcomes` is
`sendToHostLoop()`: hosts that cannot be sent to are skipped, `pickBestHost()` takes
one that is not retired, and who is dead may change at every call.  `Reroute` is
`sleepWrapper1()`, `GoodReply` and `BadReply` are `gotReply1()` with
`closeUpShop()`; `SendToHosts`, `Resend`, `GroupReply` and `GroupError` are
`sendToGroup()`, `sleepWrapper2()` and `gotReply2()`.  `slotOf` is kept after the
reply, as `m_slots` is, and slots are used again for whatever comes next, also for a
resend of the same group: `Matched` is then the first host that had the slot, not the
one that answers (`Multicast.cpp:388`).  The history `overlooked` holds the hosts
whose error was put down to another host in this way; they stay retired.  This matters for errors only:
a good reply is counted without regard to whose it is.

### Msg4: `Msg4.cpp`

One sending host, one shard of `Twins`.  Records are numbered as they are handed in
and all of one key, so that order can be seen.  `Store` is `storeRec()` for a list
of records with the `sendBuffer()` calls it makes; `AddMetaList`, `FlushLocal`,
`GotReply` with `storeLineWaiters()` and `ExitAndRestart` (`saveAddsInProgress()`
and `loadAddsInProgress()`) are the rest of the sender.  `HandleRequest4` takes all
of a request or refuses after any number of its records, as `Rdb::addList()` does;
`TwinRestarts` makes UdpServer send it anew.  `plain` are requests that were
reloaded, to which nobody listens for a reply.

The code can lose an add, and the model has each way it does.  The history `dropped`
holds what was given up for a twin, from: an error put down to another twin
(`Multicast.cpp:388`, as above); an exit while a request waits for the next attempt,
when it has no slot, or after it was reloaded, when its slot has no callback, so that
`saveAddsInProgress()` passes over it (`Msg4.cpp:1475-1503`); and a reloaded request
that cannot be sent, with all behind it, or is refused (`Msg4.cpp:1706`).  `noMem`
says that `storeRec()` got no memory for a new buffer (`Msg4.cpp:773`): the records
wait in line, and if no request is out then, no reply will ever take the line up
(`Stranded`).

### Doling: `Spider.cpp`

| Model | Code |
|---|---|
| `waiting` | `m_waitingTree` with `m_waitingTable`: time zero, a time that has come, one that has not |
| `doleIp`, `dole` | `m_doleIpTable`, doledb |
| `cache` | `m_winnerListCache`, whose entries may go at any time |
| `scan` | `evalIpLoop()`: idle, in the loop, or reading spiderdb for an IP; `new` is `m_gotNewDataForScanningIp` |
| `locked`, `docs`, `replies` | `m_lockTable`, `m_docs`, replies between `indexedDoc()` and spiderdb |
| `rebuild` | `populateWaitingTreeFromSpiderdb()` with `m_nextKey2` and the list being read |
| `AddSpiderRequest`, `AddSpiderReply`, `SpiderUrl` | the functions of these names, with the `addToWaitingTree()` in each |
| `NextIp`, `ScanEnds`, `ScanFails` | a turn of the loop up to the read; what comes after the read; a read error, or a waiting tree that is being saved |
| `NukeDoledb`, `DailyRebuild`, `RebuildReads`, `RebuildAdds`, `RebuildFails` | changed filters, the rebuild once a day, and how rebuilds go |
| `unstored`, `missed`, `failed` | histories of what goes wrong, below |

The loop does not return to the event loop before it reads: `Waits` keeps everything
else out.  Of times the model knows only whether they have come.

Three things go wrong in this code, and the histories name each.  `unstored`: the IP is
counted before `addList()` is called, and what that returns is not looked at
(`Spider.cpp:5902`), so an IP whose record doledb does not take stays counted and is
not scanned again until doledb is made anew.  `missed`: a rebuild that begins anew
while a list is being read (`rebuild.stale`) moves `m_nextKey2` past that list all the
same (`Spider.cpp:1549`, `3059`), and so past IPs whose entries are gone; the next
rebuild finds them.  `failed`: a spider that ends without a document leaves its lock
(`Spider.cpp:8252`), and the url is not taken again.  A long scan puts its IP off to a
future time although new data came (`Spider.cpp:5601`); that is in `ScanEnds`, and the
url that was added comes when that time does.

## 4. Runs

| Run | Bounds | Shows |
|---|---|---|
| `mem` | buffer of 5, 3 nodes, sizes 0 to 2 | types, `NodesOwned`, `NodesDisjoint`, `MovesOutOfPrimary` |
| `mem_left` | the same | `NoNodeLeftBehind` is violated: a move that fails is only logged |
| `rdb` | 1 key, 2 payloads, 5 files, ids to 7 | `PutsVisible`, `DeletesHold`, `ImplementsKeyStore`, `RoomAgain`, `FilesGetMerged` |
| `rdb_read` | 1 key, 2 payloads, 5 files, ids to 5 | `AnswerFresh` |
| `rdb_all` | 2 keys, 2 payloads, tree of 2, ids to 3, all switches | `QuietReads` |
| `rdb_revived` | windows of 2 of 3 files | `DeletesHold` is violated |
| `rdb_chopped` | two files merged | `PutsVisible` is violated |
| `rdb_wedged` | forced merge beside a dump | `FilesGetMerged` is violated |
| `base` | `RdbBase`: 2 keys, 3 dumped files, 2 crashes; `SavedTree`: 2 keys, 1 payload | `ReadsSurvive`, `KilledMergeEnds`; `RestartKeepsSaved`, `WritesComeBack` |
| `base_killed` | 1 key, 4 dumped files, 1 crash at any time | `KilledMergeLosesNothing` is violated |
| `hosts` | bits: 6 dgrams, 2 to a byte, window 2; call: 2 dgrams each way, window 1, 2 handlings; Multicast: 3 hosts, 4 slots; Msg4: 2 twins, buffers of 2, 1 Multicast, and 4 records or else 2 records and 2 restarts | `BitsSound`; `ReplyOfOneCall`, `HandledWhole`, `EndedWhenRead`, `HandlerKeepsSlot`, `HandledOnceWhileWaited`, `ImplementsCall`, `SlotsComeFree`; `ReplyFindsHost`, `NothingAfterCallback`, `GroupAllServed`, `MulticastEnds`; `AddsKept`, `SentInOrder`, `NewestWins`, `AllArrive` |
| `doling` | 2 IPs with 2 and 1 urls, 1 spider an IP, 2 events: a url due again, a change of filters, a rebuild, a record doledb does not take, a spider that fails | `DoleTableExact`, `SpideredByOne`, `NoIpForgotten`, `EveryDueSpidered` |

`hosts` and `base` check several modules in one run: a behaviour is about one of
them and has the others at rest, since each takes as given what the one below shows.

Why the bounds are enough: a buffer of five bytes fills in either direction within
three additions, and three nodes are one to move, one to collide with and one to be
added during the dump.  One key shows all that can go wrong between the copies of
one record, as files meet only key by key; ids up to seven let a dump run beside a
merge and let the next merge take its file.  The second key of `rdb_all` puts one
key before the cursor of a merge and one behind it, and one key in a chunk and one
outside.  In `base` three files are the fewest of which a window can leave out the
oldest or the newest, two keys let a merge die with one of them written, and with two
crashes a resumed merge dies again.  `MaxId` bounds the ids: in the code they go on to the next odd number.
In `SavedTree` two keys are one before and one behind the save thread or a dump, and
what can go wrong with a record is that it is there, deleted or old; crashes and
restarts are not bounded.  Two dgrams with a window of one are the fewest of which
one waits for the other's ack, is lost alone, or comes from another reply; two
handlings are one that is expected and one that is not.  Six dgrams are three bytes
of two bits: one may be skipped.  With three hosts a group has one that has answered,
one that has failed and one that is asked, and four slots let a slot be reused while
others are held.  Four records fill two buffers of a Msg4 that can send one, so that
callers wait in line half-way through a list; two restarts are what it takes to
reload a request and to end again before it is taken, and two records are then
enough for one request and one in the buffer (three with two restarts gave nothing
new).  Two events in `doling` are two changes of the filters, or a change and
something that fails; the fewest for a list read before a change.  Two urls of an IP are one that is
doled and one that is kept as a winner; the second IP is one a rebuild has not come
to.  The proofs of 6 need no such argument: they are for all of these numbers.

Fairness: `FairSpec` has weak fairness for each step of a dump and for merges.  The
code takes each of them from the callback of the disk operation before it, or from a
sleep callback that tries again (`attemptMergeAll`, the retry of `dumpTree()` after a
second).  In `RdbBase` the restart is fair as well, for the loop that starts the
process again (`main.cpp:5278`); crashes are bounded.  Adds, forced merges and chops are not fair.

`SavedFairness`: the save thread and the steps of a dump go on; `Exit` is strongly fair,
because a shutdown turns urgent after ten rounds and then waits in a loop until no
thread writes (`Process.cpp:1508`, `1547-1551`).  The restart is not fair, and need
not be: a kill leaves a writable tree for the next process.

`UdpFairness`: slots time out, and callbacks and handlers are called, as `timePoll()`
comes every few milliseconds; that handlers reply is what their authors promise.
Delivery is not fair, and `SlotsComeFree` does without.  `MulticastFairness`: slots
are called back (`SlotsComeFree`), `sleepWrapper2()` comes every five seconds, and a
host asked again and again answers well some day, which is strong fairness and what
`sendToGroup()` counts on.  `Msg4Fairness` says the same of twins that refuse, and has
weak fairness for flushes and answers.  `DolingFairness` is weak for the sleep
callback, the loop, spiders and their replies, the daily rebuild and its reads, and
for a time to come; the ends of scans and of rebuild reads are strongly fair, because
a read may fail and is then made again, but does not fail for ever.

### Switches

What the code can do and the run leaves out, with what TLC finds when it is let in:

| Switch | Let in | Then |
|---|---|---|
| `DiskFails` (SavedTree) | the save thread has a write error; `m_needsSave` is cleared, `RdbTree.cpp:2531` | `RestartKeepsSaved` fails |
| `Strays` (DgramBits) | a server restarts in the middle of a long message; its slot begins with a late dgram, `UdpSlot.h:235` | `BitsSound` fails |
| `ServerLast` off (Udp) | a server's slot times out before the client's | `ReplyOfOneCall`, `HandledOnceWhileWaited` fail |

`Multicast`, `Msg4` and `Doling` have no switches: what goes wrong there is part of the
model, and the properties name it (`overlooked`, `dropped`, `Stranded`, `unstored`,
`missed`, `failed`).

## 5. Findings

- **`mem_left`**: `freeDumpedMem()` logs a failed move and frees the memory all the
  same.  Nodes can be left in primary memory when a collection got no file to dump to.
- **`rdb_revived`**: a deleted record comes back.  A negative key and its positive
  twin are dumped to the same file (delete, chunk, add, chunk); the key is deleted
  again and dumped to a newer file; a merge of these two but not the oldest file
  keeps the negative record of the newer and, behind it, the positive record of the
  older file: two records of one file, of which a read takes the second.
- **`rdb_chopped`**: an old record is read.  The newer of two merged files loses its
  first part before the older one, and the merge file ranks below both.
- **`rdb_wedged`**: the refusal of a merge of one file comes after the even-numbered
  file has been added; from then on every attempt finds it, reads from its name that
  it merges one file, and gives up.
- **`base_killed`**: the process dies after two of three merged files have been
  unlinked.  The restart finds one file behind the target, takes the merge for
  complete and renames the target to id 1; the file that was left now ranks above it,
  and the record it has is older than the one merged.  With two later dumps in the
  directory it is these that are counted, merged from behind the target's last key
  and unlinked.  The same happens without any unlink when a file of the window is
  empty, as after a merge in which everything annihilated: the restart does not find
  it.  `base` therefore lets the process die only before the first unlink, with no
  empty file in the list, or after the last one.

A disagreement that `hosts` has as a part of the model rather than as a run of its own:
`Multicast.h:43` says of a group "we don't call callback until we got a non-error reply
from each host in the group".  Without `overlooked` in `GroupAllServed` TLC finds a run
of seven states against it, in which a host answers, its slot goes to the resend of
another, and the error of that one is put down to the first, which is asked again and
counted twice.

What is not a contradiction but worth knowing: a crash may read an older record than
the newest one dumped to a file, because the saved tree counts as the newest list
(`Rdb.cpp:1086`) and may be older than the files.  `RestartKeepsSaved` is what does
hold.  A reloaded request and a new one of the same key may reach a twin in either
order; `NewestWins` holds when requests have not overlapped.

## 6. Proofs

`RdbMem_proof` proves for every buffer size, every number of nodes and every set of
sizes that `Spec` implies `TypeOK`, `NodesOwned`, `NodesDisjoint` and
`MovesOutOfPrimary`.  Assumed are only the named assumptions of `RdbMem`: the buffer
is not empty and sizes are natural numbers.  `NodesOwned` is not inductive: to see
that the swap gives back nothing that is in use one needs that the regions never
touch (`RegionsApart`, or the direction of growth would turn), that the scan happens
in dump mode only (`ScanInDump`, or copies would come from primary memory), and that
whatever the scan has passed is in secondary memory (`ScannedMoved`).  `IInv` is the
conjunction; `NextIInv` has a step for each action and a lemma for each conjunct that
an action can disturb.

`Rdb_proof` proves for all numbers of keys and files, all sizes of tree, all merge
windows and every setting of the switches that `Spec` implies `TypeOK` and
`QuietReads`, and, when heads are not chopped, `PutsVisible`.  Assumed are only the
named assumptions of `Rdb`.  The argument:

- `Sources(k)` are the files that together have the records of a key: while a merge
  runs, the window and what is around it for keys ahead of the cursor, and for keys
  behind it the target in place of the window.
- `NothingLost` says that the acknowledged record is in the tree or, if the tree has
  none of the key, that the newest of the sources that has the key gives it.  What a
  read sees in a quiet moment are just the sources.
- To keep it, a merge step needs that the target ranks where the window ranked
  (`MergeWindow`: all other files are before the target or behind the window) and that
  `merge_r()` passes the newest slot's value on (`MergedSlotValue`); a dump needs that
  its file is newest (`DumpNewest`) and that the chunk is what the tree has
  (`ChunkInTree`, which the refusal of adds in the range of the chunk maintains); that
  the two signs of a key arrive in order is `DumpOrder`.
- `RdbPutsVisible` adds `WindowWhole`: the files of the window are complete, and
  whatever the target has, a file of the window has too.

The second half of `Rdb_proof` is about what the files have of a key altogether, and
holds when windows begin at the oldest file and heads are not chopped
(`~WindowAnywhere`, `~BigFiles`; without the first, `rdb_revived` is the counterexample).
`StoreInv` says that the acknowledged record, or its absence, is in the tree or is what
the newest *complete* file that has the key gives, the target of a merge not being one
before its end (`StoreGiven`), that the target has of each key behind the cursor just what `merge_r()`
makes of the window (`Mirror`), and that file 1 stays the oldest and in every window
(`OldestFirst`), so that a dropped negative record has nothing older to hide.  From it
follow `DeletesHold` and, step by step, the refinement of `KeyStore`
(`RdbImplementsKeyStore`): `Kv = store` in every state, so an add is a step of
`KeyStore`, and everything that leaves `store` alone is a stutter.

`RdbRead_proof`: `ReadTypeOK`, and under the same two conditions `AnswerFresh`, for any
number of keys, payloads and files and any interleaving of the read with adds, dumps
and merges.  `ReadInv` has `StoreInv` and what the read has in hand: whatever it took
from the tree was current (`TreeFresh`), a chunk it missed there is on its way to a file
that is still to be listed (`QueueFresh`, `FilesFresh`), and the records already read,
with those that the files still waited for have *now*, give one that was current
(`OwedFresh`).  For the last to survive a dump the file dumped to must be the newest one
waited for (`DumpLast`), and to survive a merge the target must have been listed with
its whole window or with none of it (`WindowListed`).

`Restart_proof` is about both parts of a restart.  For `RdbBase`, any number of files,
keys and crashes, as long as the process dies only where `AllOrNothing` lets it and takes
up a merge before it dumps (`~AnyTime`, as in `base`; `base_killed` shows what happens
otherwise): `ReadsSurvive`.  The inductive invariant `BaseInv` says what the directory is about, up or down: `Settled`, no even file
and the files give what was dumped; `Half`, the target has the keys below some key of as
many files behind it as its name says, all there; `Whole`, only the target is left.  While
merged files are unlinked it is `Sweeping`: some are gone, and the files outside the window
hold everything.  A crash goes from any of these to `Stopped`, which has one of them on
disk without the list and without the position of the merge, and the restart finds which:
a file `Half` done by counting the files behind it, the target alone by there being none.
That a merge takes neighbours, and that a list in order is determined by its set of ids
(`OneOrder`), is what makes counting enough.

For `SavedTree`, any number of keys and payloads, while `DiskFails` is off:
`RestartKeepsSaved`; the types without that assumption.  What a restart reads is of
the saved tree and the files, so the invariant ties both to the tree in memory:
nobody writes to a tree that is being saved (`SavingIsShut`), so the file is the tree
(`CopyOfTree`); a tree that need not be saved has been (`CleanIsSaved`); a chunk is in
the tree until it is in the file (`ChunkIsInTree`), and reads give what was
acknowledged (`ReadsRight`).  `RestartKeepsSaved` is itself a part of it: a dump moves
records to files under an old saved tree, and all of them are records acknowledged since.

`RestartTypeCorrect` and `RestartFindsAll` put the two together for `RestartSpec`, whose
behaviours are about one of them and have the other at rest.

`Udp_proof`, for `DgramBits` without `Strays`: the bytes cleared are an initial segment, and a
sender that keeps to its window never reaches beyond the next one.

For `Udp`, for messages of up to eight dgrams and any number of handlings:
`HandledWhole`, `HandlerKeepsSlot`, `ImplementsCall` for all values of the constants,
and with `ServerLast` also `ReplyOfOneCall`, `EndedWhenRead` and
`HandledOnceWhileWaited`.  The first three follow from `UdpInv`: a slot is in one of
the stages of its life (`SlotInOrder`, `CallInOrder`), and every reply on the network
is of a handling that happened (`RepliesOfRuns`).  For the others `WaitInv` says what
the packets on the network prove while a client waits: an ack of a reply means the
dgram is in the client's buffer (`AcksOfRead`), cancels, and an error of a slot whose
handler was called, mean it has given up (`TroubleMeansGaveUp`; a slot that got no
memory has an error too, but no handler ran), and so there is one handling (`OneCallWhileWaited`) that all
it has read is from (`ReadOfFirstCall`).

`Multicast_proof`, for any number of hosts and slots, with slots used again in any
order: `ReplyFindsHost`, `NothingAfterCallback`, `GroupAllServed`.  `McInv` says that a slot out belongs to a
host in progress (`OneOut`) or to a host of the group retired (`GroupOut`), that nothing
is out when it is over (`Quiet`), and that `m_numReplies` counts distinct hosts
(`Counted`), which is where the identity of slots comes in.

`Msg4_proof`, for any numbers of twins, records, buffers and restarts, which may come
at any time: `AddsKept` (up to what `dropped` names) and `SentInOrder`, with `AnsweredHas`: a twin that has answered has
the records.  `NewestWins` needs `SentInTurn`: as long as requests have not overlapped,
one is under way at most, and there is a newest record of those that have left the buffer
such that every request under way, resent or reloaded, ends with it, all in the buffer is
newer, and each twin has it last or has a request still coming.  `HostsTypeCorrect` puts
the types of the four layers together for `HostsSpec`.

`Doling_proof`, for any IPs, urls and number of events: `DoleTableExact`,
`SpideredByOne`, and `NoIpForgotten`.  `DolingInv` adds to them
that a url has one place, doledb or one IP's winners or a spider (`OneDoled`,
`OnePlace`), that an IP in doledb does not wait (`DoledWaitNot`) and where a scan is
(`ScanOfIp`); `Remembered` says for each IP whose url is unlocked where it will be
found again, through all steps of a rebuild (`StillToCome`).

TLC checked `IInv` on the instances of `rdb` and `rdb_all`, `WindowWhole` and `StoreInv`
on that of `rdb`, `ReadInv` on that of `rdb_read` with four files, windows of two and ids
to 4, `BaseInv` on that of `base`, and the invariants named above on those of `hosts` and
`doling`.

Every invariant, every action property and both refinements that the passing runs check are
stated by a theorem, for the constants and conditions named above.  Only model-checked
are the liveness properties: `RoomAgain`, `FilesGetMerged`, `KilledMergeEnds`,
`WritesComeBack`, `SlotsComeFree`, `MulticastEnds`, `AllArrive`, `EveryDueSpidered`; they
rest on fairness, and so on ENABLED, which are out of the prover's reach.  The types of
`RdbBase` are proved under `~AnyTime` only.  No module has a RECURSIVE operator.

## 7. Not modelled

`PROJECT.json` lists every component with its status.  Left out of modelled parts:

- `RdbBuckets`, which some Rdbs have in place of the tree; several collections in one
  dump loop; names and trash of `RdbBase`; data file and map as two files.
- Saves of maps, caches and spider tables; `Rdb::close()` with a save thread, as
  Repair calls it, where `addRecord()` deletes the opposite key before `addNode()`
  refuses; a signal handler in the middle of another handler.
- In `UdpServer`: limits of slots for message types, niceness, shutdown, the resend
  timers; in `Multicast`: how much of the timeout of a request is left, which decides
  whether an error goes to a twin (`BadReply` leaves it open; a group has no such
  timeout, `Multicast.cpp:278-280`); `Msg1` and `Msg0`.  Two branches of `Multicast` are
  dead code: `m_giveupOnDeadHosts` (`Multicast.cpp:395`) is set to 0 at every start
  (`main.cpp:3342`) and its parameter is commented out (`Parms.cpp:11743-11755`);
  `m_sendToSelf` is true in both calls that send to a whole group (`Msg1.cpp:585`,
  where the variable is commented out, and `Msg4.cpp:933`), and true by default
  (`Multicast.h:104`).
- In `Spider`: priorities, crawl delays, quotas and rounds; a request that is dropped
  because the waiting tree cannot be written (`Spider.cpp:2532`); `nukeDoledb()` as the
  callback of its own retry, which gets the address of a variable of a stack frame that
  is gone (`Spider.cpp:1523`).  Msg12 is dead code.  `RebuildAdds` leaves out the test
  of `Spider.cpp:3004-3015` that is to leave IPs with spiders alone: nobody sets
  `m_spiderOutstanding`, so it never holds.

Left out as a whole: `RdbCache`, which other parts see as records that may be gone;
`PingServer`, an input of `Multicast`; `Parms`, `Rebalance` and `Repair`, which move
whole databases; `XmlDoc` and the analysis of text, query evaluation, pages and
formatting, which are computations on one document or request and make up most of the
source; vendored code and tables.
