------------------------------- MODULE Doling -------------------------------
(* How one host picks the urls it spiders in one collection (Spider.cpp).   *)
(* All urls of a first IP are in one range of spiderdb.  An IP that may     *)
(* have a url to spider is in the waiting tree; one scan at a time reads    *)
(* spiderdb for an IP, moves one url that is due to doledb, keeps the rest  *)
(* of the winners in a cache, and takes the IP out of the tree.  A spider   *)
(* takes the url out of doledb, locks it, and puts the IP back; the reply   *)
(* of the spider removes the lock and puts the IP back too.                 *)
(*                                                                          *)
(* Times are abstracted to what the code asks of them: whether a url, or an *)
(* entry of the tree, is due.                                               *)
(* The order of the winners (priority, hops, time) is left open.            *)
EXTENDS Integers, FiniteSets, FiniteSetsExt

CONSTANTS
  NumIps,          \* first IPs
  Url,             \* the urls: pairs of a first IP and a number
  MaxPerIp,        \* spiders that may be out for one IP (m_spiderIpMaxSpiders)
  MaxEvents        \* bound: urls that come due again, changes of the url
                   \* filters, daily rebuilds, records doledb does not take
                   \* and spiders that fail, in all

Ip == 1 .. NumIps
ASSUME DolingAssumption ==
  /\ NumIps \in Nat \ {0} /\ Url \subseteq Ip \X Nat /\ MaxPerIp \in Nat \ {0}
  /\ MaxEvents \in Nat

UrlsOf(ip) == {u \in Url : u[1] = ip}

VARIABLES
  crawl,    \* spiderdb: what its records of a url say: "none", "due", "later"
  waiting,  \* m_waitingTree and m_waitingTable: "out", "zero", "past", "future"
  doleIp,   \* m_doleIpTable: the urls of an IP that are in doledb
  dole,     \* doledb
  cache,    \* m_winnerListCache: the rest of the winners of an IP
  scan,     \* evalIpLoop(): where it is, its IP and key, what it has read
  locked,   \* m_lockTable
  docs,     \* m_docs: the urls being spidered
  replies,  \* replies of spiders on their way to spiderdb
  rebuild,  \* populateWaitingTreeFromSpiderdb()
  events,   \* how much of MaxEvents is used
  unstored, \* history: records of an IP that are counted but not in doledb
  missed,   \* history: IPs a rebuild went past though their entries are gone
  failed    \* history: urls whose spider failed
history == <<unstored, missed, failed>>
dolingVars == <<crawl, waiting, doleIp, dole, cache, scan, locked, docs,
                replies, rebuild, events, unstored, missed, failed>>

Idle == [at |-> "idle", ip |-> 0, key |-> "out", due |-> {}, later |-> {},
         new |-> FALSE]
(* m_waitingTreeNeedsRebuild, m_nextKey2, and m_gettingList2 with the IPs of *)
(* the list that is read.  stale: m_nextKey2 was reset since the read began. *)
NoRebuild == [on |-> FALSE, next |-> 1, out |-> FALSE, read |-> {},
              stale |-> FALSE]
RebuildOn(r) == [r EXCEPT !.on = TRUE, !.next = 1, !.stale = r.out]

DolingInit ==
  /\ crawl = [u \in Url |-> "none"]
  /\ waiting = [ip \in Ip |-> "out"] /\ doleIp = [ip \in Ip |-> 0]
  /\ dole = {} /\ cache = [ip \in Ip |-> {}]
  /\ scan = Idle /\ rebuild = NoRebuild
  /\ locked = {} /\ docs = {} /\ replies = {}
  /\ events = 0
  /\ unstored = [ip \in Ip |-> 0] /\ missed = {} /\ failed = {}

(* What is bounded in number. *)
MayHappen == events < MaxEvents
Happens == MayHappen /\ events' = events + 1

(* populateDoledbFromWaitingTree() runs its loop to the end of it or to a   *)
(* read that blocks: nothing else happens while it is at "loop".            *)
Waits == scan.at # "loop"

(* addToWaitingTree(0, ip): an IP with a record in doledb is left out, any  *)
(* other entry of the IP is replaced by one that is due at once.            *)
(* Mutant: whether it has a record in doledb or not. *)
AwaitsAlways(ip, counts) ==
  waiting' = [waiting EXCEPT ![ip] = "zero"] /\ missed' = missed \ {ip}

Awaits(ip, counts) ==
  IF counts[ip] > 0 THEN UNCHANGED <<waiting, missed>>
  ELSE /\ waiting' = [waiting EXCEPT ![ip] = "zero"]
       /\ missed' = missed \ {ip}

(* Mutant: the scan does not hear of it. *)
NoticedNot(ip) == scan

Noticed(ip) == [scan EXCEPT !.new = @ \/ ip = scan.ip]

(* The same with callForScan: the loop starts unless a scan is under way.   *)
AwaitsAndScans(ip) ==
  /\ Awaits(ip, doleIp)
  /\ scan' = IF scan.at = "idle" /\ doleIp[ip] = 0 /\ waiting[ip] # "zero"
               THEN [scan EXCEPT !.at = "loop"]
               ELSE Noticed(ip)

-----------------------------------------------------------------------------
(* addSpiderRequest(): a url that was not known is added to spiderdb.       *)
AddSpiderRequest(u) ==
  /\ Waits /\ crawl[u] = "none"
  /\ crawl' = [crawl EXCEPT ![u] = "due"]
  /\ AwaitsAndScans(u[1])
  /\ UNCHANGED <<doleIp, dole, cache, locked, docs, replies, rebuild, events,
                 unstored, failed>>

(* Time passes until a url is to be spidered again, and with it the time of *)
(* the entry that waits for the earliest such url of the IP.  Bound: as an  *)
(* event, or because a url that is due waits for that time too.             *)
HeldBack(ip) ==
  waiting[ip] = "future" /\ \E u \in UrlsOf(ip) \ locked : crawl[u] = "due"
ComesDue(u) ==
  /\ Waits /\ crawl[u] = "later" /\ (MayHappen \/ HeldBack(u[1]))
  /\ crawl' = [crawl EXCEPT ![u] = "due"]
  /\ waiting' = [waiting EXCEPT ![u[1]] = IF @ = "future" THEN "past" ELSE @]
  /\ events' = IF MayHappen THEN events + 1 ELSE events
  /\ UNCHANGED <<doleIp, dole, cache, scan, locked, docs, replies, rebuild,
                 history>>

(* addDoleBufIntoDoledb() with winners: the IP is counted, the first winner *)
(* goes to doledb, the rest stays in the cache, and the IP waits no more.   *)
(* What addList() returns is not looked at: doledb may not take the record. *)
Dole(ip, u, rest) ==
  /\ doleIp' = [doleIp EXCEPT ![ip] = @ + 1]
  /\ cache' = [cache EXCEPT ![ip] = rest]
  /\ \/ dole' = dole \union {u} /\ UNCHANGED <<events, unstored>>
     \/ /\ Happens
        /\ dole' = dole /\ unstored' = [unstored EXCEPT ![ip] = @ + 1]
  /\ waiting' = [waiting EXCEPT ![ip] = "out"]

(* getNextIpFromWaitingTree(): the entry with the least time that is due.   *)
Ready == {ip \in Ip : waiting[ip] \in {"zero", "past"}}
IsNext(ip) ==
  /\ ip \in Ready
  /\ IF \E i \in Ready : waiting[i] = "zero"
       THEN waiting[ip] = "zero" /\ \A i \in Ready : waiting[i] = "zero" => ip <= i
       ELSE TRUE

(* One turn of the loop.  An IP with cached winners needs no scan.          *)
NextIp ==
  /\ scan.at = "loop"
  /\ UNCHANGED <<crawl, locked, docs, replies, rebuild, missed, failed>>
  /\ \/ /\ Ready = {}
        /\ scan' = Idle
        /\ UNCHANGED <<waiting, doleIp, dole, cache, events, unstored>>
     \/ \E ip \in Ip :
          /\ IsNext(ip) /\ doleIp[ip] > 0
          /\ waiting' = [waiting EXCEPT ![ip] = "out"]
          /\ UNCHANGED <<scan, doleIp, dole, cache, events, unstored>>
     \/ \E ip \in Ip : \E u \in cache[ip] :
          /\ IsNext(ip) /\ doleIp[ip] = 0
          /\ Dole(ip, u, cache[ip] \ {u})
          /\ UNCHANGED scan
     \/ \E ip \in Ip :
          /\ IsNext(ip) /\ doleIp[ip] = 0 /\ cache[ip] = {}
          /\ scan' = [at |-> "read", ip |-> ip, key |-> waiting[ip],
                      due |-> {u \in UrlsOf(ip) : crawl[u] = "due"},
                      later |-> {u \in UrlsOf(ip) : crawl[u] = "later"},
                      new |-> FALSE]
          /\ UNCHANGED <<waiting, doleIp, dole, cache, events, unstored>>

(* scanListForWinners(): what the records that were read say, the time and  *)
(* the locks of now.                                                        *)
(* Mutant: locks are not looked at. *)
WinnersLocked == {u \in scan.due \union scan.later :
                    u \in scan.due \/ crawl[u] = "due"}

Winners == {u \in scan.due \union scan.later :
              u \notin locked /\ (u \in scan.due \/ crawl[u] = "due")}

HasFuture == \E u \in scan.later : crawl[u] # "due"

(* The list has come: addWinnersIntoDoledb(), and the loop goes on.  An IP  *)
(* that got new data meanwhile stays due, unless no url of it is due yet    *)
(* and the scan was a long one (30000 bytes).                               *)
ScanEnds ==
  /\ scan.at = "read"
  /\ scan' = [Idle EXCEPT !.at = "loop"]
  /\ UNCHANGED <<crawl, locked, docs, replies, rebuild, missed, failed>>
  /\ LET ip == scan.ip
         gone == waiting[ip] # scan.key
     IN \/ /\ gone \/ (Winners = {} /\ scan.new)
           /\ UNCHANGED <<waiting, doleIp, dole, cache, events, unstored>>
        \/ /\ ~gone /\ Winners = {} /\ (scan.new => HasFuture)
           /\ waiting' = [waiting EXCEPT ![ip] = IF HasFuture THEN "future" ELSE "out"]
           /\ UNCHANGED <<doleIp, dole, cache, events, unstored>>
        \/ /\ ~gone
           /\ \E u \in Winners : \E rest \in {{}, Winners \ {u}} :
                Dole(ip, u, rest)

(* A read error, or the waiting tree is being saved: the IP stays due.      *)
ScanFails ==
  /\ scan.at = "read"
  /\ scan' = [Idle EXCEPT !.at = "loop"]
  /\ UNCHANGED <<crawl, waiting, doleIp, dole, cache, locked, docs, replies,
                 rebuild, events, history>>

(* doneSleepingWrapperSL() calls the loop regularly.                        *)
Populate ==
  /\ scan.at = "idle" /\ Ready # {}
  /\ scan' = [scan EXCEPT !.at = "loop"]
  /\ UNCHANGED <<crawl, waiting, doleIp, dole, cache, locked, docs, replies,
                 rebuild, events, history>>

(* A cached list gets too old, or its place in the cache is used again.     *)
CacheExpires(ip) ==
  /\ Waits /\ cache[ip] # {}
  /\ cache' = [cache EXCEPT ![ip] = {}]
  /\ UNCHANGED <<crawl, waiting, doleIp, dole, scan, locked, docs, replies,
                 rebuild, events, history>>

-----------------------------------------------------------------------------
(* Mutant: the record is counted out twice. *)
UncountedTwice(ip) == [doleIp EXCEPT ![ip] = @ - 2]

(* removeFromDoledbTable(). *)
Uncounted(ip) == [doleIp EXCEPT ![ip] = @ - 1]

(* gotDoledbList2() and spiderUrl9(): a url of doledb that is not locked is *)
(* taken out, its IP put back without a scan, and only then is it locked.   *)
(* A spider that gets no document leaves the lock.                          *)
SpiderUrl(u) ==
  /\ Waits /\ u \in dole /\ u \notin locked
  /\ Cardinality(docs \intersect UrlsOf(u[1])) < MaxPerIp
  /\ dole' = dole \ {u}
  /\ doleIp' = Uncounted(u[1])
  /\ Awaits(u[1], doleIp') /\ scan' = Noticed(u[1])
  /\ locked' = locked \union {u}
  /\ \/ docs' = docs \union {u} /\ UNCHANGED <<events, failed>>
     \/ Happens /\ docs' = docs /\ failed' = failed \union {u}
  /\ UNCHANGED <<crawl, cache, replies, rebuild, unstored>>

(* indexDoc() has handed its reply to Msg4, and indexedDoc() ends it.       *)
IndexedDoc(u) ==
  /\ Waits /\ u \in docs
  /\ docs' = docs \ {u} /\ replies' = replies \union {u}
  /\ UNCHANGED <<crawl, waiting, doleIp, dole, cache, scan, locked, rebuild,
                 events, history>>

(* Mutant: the lock stays. *)
UnlockedNever(u) == locked

Unlocked(u) == locked \ {u}

AddSpiderReply(u) ==
  /\ Waits /\ u \in replies
  /\ replies' = replies \ {u} /\ locked' = Unlocked(u)
  /\ crawl' = [crawl EXCEPT ![u] = "later"]
  /\ AwaitsAndScans(u[1])
  /\ UNCHANGED <<doleIp, dole, cache, docs, rebuild, events, unstored, failed>>

-----------------------------------------------------------------------------
(* nukeDoledb(): the url filters have changed.                              *)
NukeDoledb ==
  /\ Waits /\ Happens
  /\ cache' = [ip \in Ip |-> {}] /\ dole' = {}
  /\ doleIp' = [ip \in Ip |-> 0] /\ waiting' = [ip \in Ip |-> "out"]
  /\ rebuild' = RebuildOn(rebuild)
  /\ unstored' = [ip \in Ip |-> 0] /\ missed' = {}
  /\ UNCHANGED <<crawl, scan, locked, docs, replies, failed>>

(* Once a day, and when a process has started, the waiting tree is          *)
(* completed from spiderdb.  As an event, or because there is something to  *)
(* complete.                                                                *)
DailyRebuild ==
  /\ Waits /\ ~rebuild.on /\ (MayHappen \/ missed # {})
  /\ rebuild' = RebuildOn(rebuild)
  /\ events' = IF MayHappen THEN events + 1 ELSE events
  /\ missed' = {}
  /\ UNCHANGED <<crawl, waiting, doleIp, dole, cache, scan, locked, docs,
                 replies, unstored, failed>>

(* populateWaitingTreeFromSpiderdb() reads a list from m_nextKey2 on.       *)
KnownFrom(n) == {ip \in Ip : ip >= n /\ \E u \in UrlsOf(ip) : crawl[u] # "none"}
RebuildReads ==
  /\ Waits /\ rebuild.on /\ ~rebuild.out
  /\ LET ips == KnownFrom(rebuild.next)
     IN \E list \in {ips, IF ips = {} THEN {} ELSE {Min(ips)}} :
          rebuild' = [rebuild EXCEPT !.out = TRUE, !.read = list]
  /\ UNCHANGED <<crawl, waiting, doleIp, dole, cache, scan, locked, docs,
                 replies, events, history>>

(* The list has come: IPs in neither table are added, and m_nextKey2 moves  *)
(* past the list, wherever it was put since the read began.  An empty list  *)
(* ends the rebuild.                                                        *)
(* (An IP with spiders out is to be left alone too, but nobody ever sets    *)
(* m_spiderOutstanding, so getNumSpidersOutPerIp() is 0.)                   *)
RebuildAdds ==
  /\ Waits /\ rebuild.out
  /\ LET read == rebuild.read
         out == {ip \in Ip : waiting[ip] = "out" /\ doleIp[ip] = 0}
         next == IF read = {} THEN NumIps + 1 ELSE Max(read) + 1
         added == read \cap out
         past == (KnownFrom(1) \cap out) \ read
     IN /\ waiting' = [ip \in Ip |-> IF ip \in added THEN "zero" ELSE waiting[ip]]
        /\ scan' = [scan EXCEPT !.new = @ \/ scan.ip \in added]
        /\ rebuild' = IF read = {} THEN NoRebuild
                      ELSE [NoRebuild EXCEPT !.on = TRUE, !.next = next]
        /\ missed' = IF rebuild.stale THEN {ip \in past : ip < next}
                     ELSE missed \ added
  /\ UNCHANGED <<crawl, doleIp, dole, cache, locked, docs, replies, events,
                 unstored, failed>>

(* A read error, or the waiting tree is being saved: the list is read again.*)
RebuildFails ==
  /\ Waits /\ rebuild.out
  /\ rebuild' = [rebuild EXCEPT !.out = FALSE, !.read = {}, !.stale = FALSE]
  /\ UNCHANGED <<crawl, waiting, doleIp, dole, cache, scan, locked, docs,
                 replies, events, history>>

DolingNext ==
  \/ \E u \in Url : \/ AddSpiderRequest(u) \/ ComesDue(u) \/ SpiderUrl(u)
                    \/ IndexedDoc(u) \/ AddSpiderReply(u)
  \/ NextIp \/ ScanEnds \/ ScanFails \/ Populate
  \/ \E ip \in Ip : CacheExpires(ip)
  \/ NukeDoledb \/ DailyRebuild
  \/ RebuildReads \/ RebuildAdds \/ RebuildFails

DolingSpec == DolingInit /\ [][DolingNext]_dolingVars

(* Reads of the disk do not fail for ever, the sleep callbacks come, and a  *)
(* document that is being spidered ends with a reply.  (Of the actions of   *)
(* a disjunction one excludes the others.)                                  *)
DolingFairness ==
  /\ WF_dolingVars(Populate \/ NextIp) /\ SF_dolingVars(ScanEnds)
  /\ WF_dolingVars(DailyRebuild \/ RebuildReads) /\ SF_dolingVars(RebuildAdds)
  /\ WF_dolingVars(\E u \in Url : SpiderUrl(u) \/ IndexedDoc(u) \/ AddSpiderReply(u))
  /\ WF_dolingVars(\E u \in Url : ComesDue(u))
DolingFairSpec == DolingSpec /\ DolingFairness

-----------------------------------------------------------------------------
DolingTypeOK ==
  /\ crawl \in [Url -> {"none", "due", "later"}]
  /\ waiting \in [Ip -> {"out", "zero", "past", "future"}]
  /\ {doleIp, unstored} \subseteq [Ip -> Nat] /\ cache \in [Ip -> SUBSET Url]
  /\ {dole, locked, docs, replies} \subseteq SUBSET Url
  /\ scan \in [at : {"idle", "loop", "read"}, ip : 0 .. NumIps,
               key : {"out", "zero", "past"}, due : SUBSET Url,
               later : SUBSET Url, new : BOOLEAN]
  /\ rebuild \in [on : BOOLEAN, next : 1 .. NumIps + 1, out : BOOLEAN,
                  read : SUBSET Ip, stale : BOOLEAN]
  /\ events \in 0 .. MaxEvents /\ missed \subseteq Ip /\ failed \subseteq Url

(* m_doleIpTable counts the urls of an IP that are in doledb, and those     *)
(* whose record doledb did not take.  An IP that is counted does not wait,  *)
(* so one counted by mistake would never be scanned again.                  *)
DoleTableExact ==
  \A ip \in Ip :
    /\ doleIp[ip] = Cardinality(dole \intersect UrlsOf(ip)) + unstored[ip]
    /\ waiting[ip] # "out" => doleIp[ip] = 0

(* A url that is being spidered, or whose reply is on its way, is neither   *)
(* in doledb nor among the winners kept for later, so no second spider gets *)
(* it, though scans of its IP go on all the while.                          *)
SpideredByOne ==
  /\ docs \union replies \subseteq locked
  /\ locked \intersect (dole \union UNION {cache[ip] : ip \in Ip}) = {}

(* A rebuild has yet to come to the IP: it is in the list that is read, or  *)
(* after it, or the rebuild begins anew from the first IP.                  *)
StillToCome(ip) ==
  /\ rebuild.on
  /\ IF rebuild.out /\ ~rebuild.stale
       THEN ip \in rebuild.read
            \/ (rebuild.read # {} /\ \A i \in rebuild.read : ip > i)
       ELSE ip >= rebuild.next

(* An IP with a url that is not locked waits, is counted in m_doleIpTable,  *)
(* or is still to come in a rebuild.  It is forgotten in one way only: a    *)
(* rebuild that was begun anew, when the url filters changed, went past it  *)
(* because a list was read at the time (m_nextKey2 moves past that list).   *)
NoIpForgotten ==
  \A u \in Url : crawl[u] # "none" /\ u \notin locked =>
    \/ waiting[u[1]] # "out" \/ doleIp[u[1]] > 0
    \/ StillToCome(u[1]) \/ u[1] \in missed

(* Every url that is due gets spidered and its reply added, unless its own  *)
(* spider failed (the lock stays), or doledb did not take a record of its   *)
(* IP and was not made anew since (the IP stays counted).  An IP that a     *)
(* rebuild missed is not lost: it comes with the next one.                  *)
EveryDueSpidered ==
  \A u \in Url : []<>(crawl[u] # "due" \/ u \in failed \/ unstored[u[1]] > 0)
=============================================================================
