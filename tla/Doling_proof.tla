---------------------------- MODULE Doling_proof ----------------------------
(***************************************************************************)
(* The tables of the spider stay exact, no url has two spiders and no IP   *)
(* is forgotten: for any number of IPs and urls, of spiders per IP, of     *)
(* rebuilds and changes of the filters.                                    *)
(***************************************************************************)
EXTENDS Doling, FiniteSetTheorems, WellFoundedInduction, TLAPS

-----------------------------------------------------------------------------
(* What TypeOK says, but that no IP is counted twice.                       *)
ScanType == [at : {"idle", "loop", "read"}, ip : 0 .. NumIps,
             key : {"out", "zero", "past"}, due : SUBSET Url,
             later : SUBSET Url, new : BOOLEAN]
RebuildType == [on : BOOLEAN, next : 1 .. NumIps + 1, out : BOOLEAN,
                read : SUBSET Ip, stale : BOOLEAN]

TablesTyped ==
  /\ crawl \in [Url -> {"none", "due", "later"}]
  /\ waiting \in [Ip -> {"out", "zero", "past", "future"}]
  /\ doleIp \in [Ip -> {0, 1}] /\ cache \in [Ip -> SUBSET Url]
  /\ dole \in SUBSET Url /\ locked \in SUBSET Url
  /\ docs \in SUBSET Url /\ replies \in SUBSET Url
  /\ events \in 0 .. MaxEvents /\ unstored \in [Ip -> {0, 1}]
  /\ missed \in SUBSET Ip /\ failed \in SUBSET Url

(* The scan reads the records of its own IP, which was waiting; what it has *)
(* read is all there is, unless it has been told of something new.          *)
ScanOfIp ==
  /\ scan \in ScanType
  /\ scan.at = "read" =>
       /\ scan.ip \in Ip /\ scan.key # "out"
       /\ scan.due \union scan.later \subseteq UrlsOf(scan.ip)
       /\ ~scan.new => \A u \in UrlsOf(scan.ip) :
                         crawl[u] # "none" => u \in scan.due \union scan.later

(* An IP is counted when it has a url in doledb, and has one at most, or    *)
(* when doledb did not take that one.                                       *)
OneDoled ==
  /\ \A u \in dole : doleIp[u[1]] = 1 /\ unstored[u[1]] = 0
  /\ \A u, v \in dole : u[1] = v[1] => u = v
  /\ \A ip \in Ip : unstored[ip] = 1 => doleIp[ip] = 1
  /\ \A ip \in Ip : doleIp[ip] = 1 => unstored[ip] = 1 \/ \E u \in dole : u[1] = ip

DoledWaitNot == \A ip \in Ip : waiting[ip] # "out" => doleIp[ip] = 0

(* A url is spidered, answered, doled or cached: one of them at a time.     *)
OnePlace ==
  /\ docs \union replies \subseteq locked /\ docs \intersect replies = {}
  /\ locked \intersect dole = {}
  /\ \A ip \in Ip : \A u \in cache[ip] :
       u \in UrlsOf(ip) /\ u \notin locked /\ u \notin dole

(* The list that is read begins where the rebuild has come to, unless that  *)
(* was changed since.                                                       *)
RebuildTyped ==
  /\ rebuild \in RebuildType
  /\ rebuild.stale => rebuild.out
  /\ ~rebuild.stale => \A i \in rebuild.read : i >= rebuild.next

DolingInv == /\ TablesTyped /\ ScanOfIp /\ RebuildTyped
             /\ OneDoled /\ DoledWaitNot /\ OnePlace

(* What NoIpForgotten says, with the counts of OneDoled.                    *)
Remembered ==
  \A u \in Url : crawl[u] # "none" /\ u \notin locked =>
    waiting[u[1]] # "out" \/ doleIp[u[1]] = 1
    \/ StillToCome(u[1]) \/ u[1] \in missed

-----------------------------------------------------------------------------
LEMMA UrlIp == DolingAssumption => \A u \in Url : u[1] \in Ip /\ u \in UrlsOf(u[1])
  BY DEF DolingAssumption, UrlsOf

LEMMA UrlsOfIp == \A ip : \A u \in UrlsOf(ip) : u \in Url /\ u[1] = ip
  BY DEF UrlsOf

-----------------------------------------------------------------------------
(* What the steps that several actions take do to the invariant.            *)

LEMMA AwaitsKeeps ==
    ASSUME DolingInv, DolingAssumption, NEW ip \in Ip,
           NEW counts \in [Ip -> {0, 1}], Awaits(ip, counts),
           \A i \in Ip : i # ip => counts[i] = doleIp[i]
    PROVE  /\ waiting' \in [Ip -> {"out", "zero", "past", "future"}]
           /\ \A i \in Ip : waiting'[i] # "out" => waiting[i] # "out" \/ counts[i] = 0
           /\ \A i \in Ip : waiting[i] # "out" => waiting'[i] # "out"
           /\ counts[ip] = 0 => waiting'[ip] # "out"
           /\ missed' \in SUBSET Ip
           /\ \A i \in missed : i \in missed' \/ waiting'[i] # "out"
  BY DEF Awaits, DolingInv, TablesTyped

LEMMA NoticedKeeps ==
    ASSUME ScanOfIp, NEW ip \in Ip
    PROVE  /\ Noticed(ip) \in ScanType
           /\ Noticed(ip).at = scan.at /\ Noticed(ip).ip = scan.ip
           /\ Noticed(ip).key = scan.key
           /\ Noticed(ip).due = scan.due /\ Noticed(ip).later = scan.later
           /\ Noticed(ip).new = (scan.new \/ ip = scan.ip)
  BY DEF Noticed, ScanOfIp, ScanType

(* A scan that is told of an IP may take what it has read for all there is  *)
(* of its own IP only if that is another one.                               *)
LEMMA ScanStaysOfIp ==
    ASSUME ScanOfIp, NEW ip \in Ip, scan' = Noticed(ip),
           \A u \in Url : u[1] # ip /\ crawl'[u] # "none" => crawl[u] # "none"
    PROVE  ScanOfIp'
  <1>1. /\ scan' \in ScanType
        /\ scan'.at = scan.at /\ scan'.ip = scan.ip /\ scan'.key = scan.key
        /\ scan'.due = scan.due /\ scan'.later = scan.later
        /\ scan'.new = (scan.new \/ ip = scan.ip)
    BY NoticedKeeps
  <1>2. ASSUME scan'.at = "read", ~scan'.new, NEW u \in UrlsOf(scan.ip),
               crawl'[u] # "none"
        PROVE  u \in scan.due \union scan.later
    <2>1. scan.at = "read" /\ ~scan.new /\ ip # scan.ip
      BY <1>1, <1>2, Zenon
    <2>2. u \in Url /\ u[1] # ip
      BY <1>2, <2>1, UrlsOfIp
    <2> QED BY <1>2, <2>1, <2>2 DEF ScanOfIp
  <1>3. ScanType' = ScanType /\ UrlsOf(scan.ip)' = UrlsOf(scan'.ip)
    BY DEF ScanType, UrlsOf
  <1> QED BY <1>1, <1>2, <1>3 DEF ScanOfIp

LEMMA AwaitsAndScansKeeps ==
    ASSUME DolingInv, DolingAssumption, NEW ip \in Ip, AwaitsAndScans(ip),
           \A u \in Url : u[1] # ip /\ crawl'[u] # "none" => crawl[u] # "none"
    PROVE  /\ ScanOfIp'
           /\ waiting' \in [Ip -> {"out", "zero", "past", "future"}]
           /\ \A i \in Ip : waiting'[i] # "out" => doleIp[i] = 0
           /\ \A i \in Ip : waiting[i] # "out" => waiting'[i] # "out"
           /\ waiting'[ip] # "out" \/ doleIp[ip] = 1
           /\ missed' \in SUBSET Ip
           /\ \A i \in missed : i \in missed' \/ waiting'[i] # "out"
  <1>1. doleIp \in [Ip -> {0, 1}] /\ Awaits(ip, doleIp)
    BY DEF DolingInv, TablesTyped, AwaitsAndScans
  <1>2. ScanOfIp'
    <2>1. CASE scan' = Noticed(ip)
      BY <2>1, ScanStaysOfIp DEF DolingInv
    <2>2. CASE scan' = [scan EXCEPT !.at = "loop"]
      BY <2>2 DEF DolingInv, ScanOfIp, ScanType
    <2> QED BY <2>1, <2>2 DEF AwaitsAndScans
  <1>3. \A i \in Ip : waiting'[i] # "out" => doleIp[i] = 0
    BY <1>1, AwaitsKeeps DEF DolingInv, DoledWaitNot
  <1> QED BY <1>1, <1>2, <1>3, AwaitsKeeps

(* A url that is not locked is doled for an IP that has none in doledb.     *)
LEMMA DoleKeeps ==
    ASSUME DolingInv, DolingAssumption, NEW ip \in Ip,
           NEW u \in UrlsOf(ip), u \notin locked, doleIp[ip] = 0,
           NEW rest \in SUBSET UrlsOf(ip), u \notin rest,
           rest \intersect locked = {}, Dole(ip, u, rest),
           UNCHANGED <<crawl, locked, docs, replies, missed, failed>>
    PROVE  /\ TablesTyped' /\ OneDoled' /\ DoledWaitNot' /\ OnePlace'
           /\ waiting'[ip] = "out" /\ doleIp'[ip] = 1
           /\ \A i \in Ip : i # ip => waiting'[i] = waiting[i] /\ doleIp'[i] = doleIp[i]
  <1>1. /\ doleIp' = [doleIp EXCEPT ![ip] = @ + 1]
        /\ cache' = [cache EXCEPT ![ip] = rest]
        /\ waiting' = [waiting EXCEPT ![ip] = "out"]
        /\ \/ dole' = dole \union {u} /\ unstored' = unstored /\ events' = events
           \/ /\ dole' = dole /\ unstored' = [unstored EXCEPT ![ip] = @ + 1]
              /\ events < MaxEvents /\ events' = events + 1
    BY DEF Dole, Happens, MayHappen
  <1>2. doleIp' \in [Ip -> {0, 1}] /\ doleIp'[ip] = 1
        /\ \A i \in Ip : i # ip => doleIp'[i] = doleIp[i]
    BY <1>1 DEF DolingInv, TablesTyped
  <1>3. waiting' \in [Ip -> {"out", "zero", "past", "future"}] /\ waiting'[ip] = "out"
        /\ \A i \in Ip : i # ip => waiting'[i] = waiting[i]
    BY <1>1 DEF DolingInv, TablesTyped
  <1>4. u \in Url /\ u[1] = ip /\ \A v \in rest : v \in Url /\ v[1] = ip
    BY UrlsOfIp
  <1>5. cache' \in [Ip -> SUBSET Url] /\ cache'[ip] = rest
        /\ \A i \in Ip : i # ip => cache'[i] = cache[i]
    BY <1>1, <1>4 DEF DolingInv, TablesTyped
  <1>6. dole' \in SUBSET Url /\ \A v \in dole : v[1] # ip /\ v[1] \in Ip
    BY <1>1, <1>4, UrlIp DEF DolingInv, TablesTyped, OneDoled
  <1>11. events' \in 0 .. MaxEvents
    BY <1>1 DEF DolingInv, TablesTyped, DolingAssumption
  <1>12. unstored[ip] = 0 /\ unstored' \in [Ip -> {0, 1}]
         /\ \A i \in Ip : i # ip => unstored'[i] = unstored[i]
    BY <1>1 DEF DolingInv, TablesTyped, OneDoled
  <1>7. TablesTyped'
    BY <1>2, <1>3, <1>5, <1>6, <1>11, <1>12 DEF DolingInv, TablesTyped
  <1>8. OneDoled'
    <2>1. CASE dole' = dole \union {u} /\ unstored' = unstored
      BY <1>2, <1>4, <1>6, <1>12, <2>1 DEF DolingInv, OneDoled
    <2>2. CASE dole' = dole /\ unstored' = [unstored EXCEPT ![ip] = @ + 1]
      <3>1. unstored'[ip] = 1
        BY <1>12, <2>2 DEF DolingInv, TablesTyped
      <3> QED BY <1>2, <1>6, <1>12, <2>2, <3>1 DEF DolingInv, OneDoled
    <2> QED BY <1>1, <2>1, <2>2
  <1>9. DoledWaitNot'
    BY <1>2, <1>3 DEF DolingInv, DoledWaitNot
  <1>10. OnePlace'
    <2>1. ASSUME NEW i \in Ip, NEW v \in cache'[i]
          PROVE  v \in UrlsOf(i) /\ v \notin locked /\ v \notin dole'
      <3>1. CASE i = ip
        <4>1. v \in rest
          BY <1>5, <2>1, <3>1
        <4> QED BY <1>1, <1>4, <1>6, <3>1, <4>1
      <3>2. CASE i # ip
        <4>1. v \in cache[i]
          BY <1>5, <2>1, <3>2
        <4>2. v \in UrlsOf(i) /\ v \notin locked /\ v \notin dole
          BY <4>1 DEF DolingInv, OnePlace
        <4> QED BY <1>1, <1>4, <3>2, <4>2, UrlsOfIp
      <3> QED BY <3>1, <3>2
    <2>2. \A i : UrlsOf(i)' = UrlsOf(i)
      BY DEF UrlsOf
    <2>3. locked \intersect dole' = {}
      BY <1>1 DEF DolingInv, OnePlace
    <2> QED BY <2>1, <2>2, <2>3 DEF DolingInv, OnePlace
  <1> QED BY <1>2, <1>3, <1>7, <1>8, <1>9, <1>10

-----------------------------------------------------------------------------
(* Each action keeps the invariant.                                         *)

LEMMA DolingInitInv == DolingAssumption /\ DolingInit => DolingInv
  BY DEF DolingAssumption, DolingInit, DolingInv, TablesTyped, ScanOfIp, ScanType,
         RebuildTyped, RebuildType, OneDoled, DoledWaitNot, OnePlace, Idle,
         NoRebuild, Ip

LEMMA AddSpiderRequestKeeps ==
    ASSUME DolingInv, DolingAssumption, NEW u \in Url, AddSpiderRequest(u)
    PROVE  DolingInv'
  <1>1. u[1] \in Ip /\ AwaitsAndScans(u[1])
    BY UrlIp DEF AddSpiderRequest
  <1>2. crawl' = [crawl EXCEPT ![u] = "due"]
        /\ UNCHANGED <<doleIp, dole, cache, locked, docs, replies, rebuild, events,
                       unstored, failed>>
    BY DEF AddSpiderRequest
  <1>3. \A v \in Url : v[1] # u[1] /\ crawl'[v] # "none" => crawl[v] # "none"
    BY <1>2 DEF DolingInv, TablesTyped
  <1>4. /\ ScanOfIp' /\ waiting' \in [Ip -> {"out", "zero", "past", "future"}]
        /\ \A i \in Ip : waiting'[i] # "out" => doleIp[i] = 0
        /\ missed' \in SUBSET Ip
    BY <1>1, <1>3, AwaitsAndScansKeeps
  <1>5. TablesTyped'
    BY <1>2, <1>4 DEF DolingInv, TablesTyped
  <1>6. OneDoled' /\ OnePlace' /\ RebuildTyped'
    BY <1>2 DEF DolingInv, OneDoled, OnePlace, RebuildTyped, RebuildType, UrlsOf
  <1>7. DoledWaitNot'
    BY <1>2, <1>4 DEF DoledWaitNot
  <1> QED BY <1>4, <1>5, <1>6, <1>7 DEF DolingInv

LEMMA ComesDueKeeps ==
    ASSUME DolingInv, DolingAssumption, NEW u \in Url, ComesDue(u)
    PROVE  DolingInv'
  <1>1. /\ crawl' = [crawl EXCEPT ![u] = "due"] /\ crawl[u] = "later"
        /\ waiting' = [waiting EXCEPT ![u[1]] = IF @ = "future" THEN "past" ELSE @]
        /\ events' = IF events < MaxEvents THEN events + 1 ELSE events
        /\ UNCHANGED <<doleIp, dole, cache, scan, locked, docs, replies, rebuild,
                       unstored, missed, failed>>
    BY DEF ComesDue, MayHappen, history
  <1>2. TablesTyped'
    BY <1>1, UrlIp DEF DolingInv, TablesTyped, DolingAssumption
  <1>3. \A v \in Url : crawl'[v] # "none" => crawl[v] # "none"
    BY <1>1 DEF DolingInv, TablesTyped
  <1>4. ScanOfIp'
    BY <1>1, <1>3, UrlsOfIp DEF DolingInv, ScanOfIp, ScanType, UrlsOf
  <1>5. DoledWaitNot'
    BY <1>1, UrlIp DEF DolingInv, DoledWaitNot, TablesTyped
  <1>6. OneDoled' /\ OnePlace' /\ RebuildTyped'
    BY <1>1 DEF DolingInv, OneDoled, OnePlace, RebuildTyped, RebuildType, UrlsOf
  <1> QED BY <1>2, <1>4, <1>5, <1>6 DEF DolingInv

LEMMA NextIpKeeps ==
    ASSUME DolingInv, DolingAssumption, NextIp
    PROVE  DolingInv'
  <1>1. scan.at = "loop" /\ scan \in ScanType
        /\ UNCHANGED <<crawl, locked, docs, replies, rebuild, missed, failed>>
    BY DEF NextIp, DolingInv, ScanOfIp
  <1>2. RebuildTyped'
    BY <1>1 DEF DolingInv, RebuildTyped, RebuildType
  <1>3. ASSUME scan' = Idle, UNCHANGED <<waiting, doleIp, dole, cache, events, unstored>>
        PROVE  DolingInv'
    <2>1. ScanOfIp'
      BY <1>3 DEF ScanOfIp, ScanType, Idle
    <2> QED BY <1>1, <1>2, <1>3, <2>1
            DEF DolingInv, TablesTyped, OneDoled, DoledWaitNot, OnePlace, UrlsOf
  <1>4. ASSUME NEW ip \in Ip, waiting' = [waiting EXCEPT ![ip] = "out"],
               UNCHANGED <<scan, doleIp, dole, cache, events, unstored>>
        PROVE  DolingInv'
    <2>1. ScanOfIp'
      BY <1>1, <1>4 DEF DolingInv, ScanOfIp, ScanType, UrlsOf
    <2>2. TablesTyped' /\ DoledWaitNot'
      BY <1>1, <1>4 DEF DolingInv, TablesTyped, DoledWaitNot
    <2> QED BY <1>1, <1>2, <1>4, <2>1, <2>2 DEF DolingInv, OneDoled, OnePlace, UrlsOf
  <1>5. ASSUME NEW ip \in Ip, NEW u \in cache[ip], doleIp[ip] = 0,
               Dole(ip, u, cache[ip] \ {u}), UNCHANGED scan
        PROVE  DolingInv'
    <2>1. u \in UrlsOf(ip) /\ u \notin locked
          /\ cache[ip] \ {u} \in SUBSET UrlsOf(ip)
          /\ (cache[ip] \ {u}) \intersect locked = {}
      BY DEF DolingInv, OnePlace
    <2>2. TablesTyped' /\ OneDoled' /\ DoledWaitNot' /\ OnePlace'
      BY <1>1, <1>5, <2>1, DoleKeeps
    <2>3. ScanOfIp'
      BY <1>1, <1>5 DEF DolingInv, ScanOfIp, ScanType, UrlsOf
    <2> QED BY <1>2, <2>2, <2>3 DEF DolingInv
  <1>6. ASSUME NEW ip \in Ip, IsNext(ip),
               UNCHANGED <<waiting, doleIp, dole, cache, events, unstored>>,
               scan' = [at |-> "read", ip |-> ip, key |-> waiting[ip],
                        due |-> {u \in UrlsOf(ip) : crawl[u] = "due"},
                        later |-> {u \in UrlsOf(ip) : crawl[u] = "later"},
                        new |-> FALSE]
        PROVE  DolingInv'
    <2>1. waiting[ip] \in {"zero", "past"} /\ ip \in 0 .. NumIps
      BY <1>6 DEF IsNext, Ready, Ip
    <2>2. \A u \in UrlsOf(ip) : crawl[u] \in {"none", "due", "later"} /\ u \in Url
      BY UrlsOfIp DEF DolingInv, TablesTyped
    <2>3. ScanOfIp'
      BY <1>1, <1>6, <2>1, <2>2 DEF ScanOfIp, ScanType, UrlsOf
    <2> QED BY <1>1, <1>2, <1>6, <2>3
            DEF DolingInv, TablesTyped, OneDoled, DoledWaitNot, OnePlace, UrlsOf
  <1> QED BY <1>3, <1>4, <1>5, <1>6 DEF NextIp

LEMMA ScanEndsKeeps ==
    ASSUME DolingInv, DolingAssumption, ScanEnds \/ ScanFails
    PROVE  DolingInv'
  <1>1. /\ scan.at = "read" /\ scan' = [Idle EXCEPT !.at = "loop"]
        /\ UNCHANGED <<crawl, locked, docs, replies, rebuild, missed, failed>>
    BY DEF ScanEnds, ScanFails, history
  <1>2. scan.ip \in Ip /\ scan.key # "out"
        /\ scan.due \union scan.later \subseteq UrlsOf(scan.ip)
    BY <1>1 DEF DolingInv, ScanOfIp
  <1>3. ScanOfIp' /\ RebuildTyped'
    <2>1. scan' = [at |-> "loop", ip |-> 0, key |-> "out", due |-> {},
                   later |-> {}, new |-> FALSE]
      BY <1>1 DEF Idle
    <2>2. 0 \in 0 .. NumIps
      BY DEF DolingAssumption
    <2>3. ScanOfIp'
      BY <2>1, <2>2 DEF ScanOfIp, ScanType
    <2> QED BY <1>1, <2>3 DEF DolingInv, RebuildTyped, RebuildType
  <1>4. ASSUME UNCHANGED <<waiting, doleIp, dole, cache, events, unstored>>
        PROVE  DolingInv'
    BY <1>1, <1>3, <1>4
       DEF DolingInv, TablesTyped, OneDoled, DoledWaitNot, OnePlace, UrlsOf
  <1>5. ASSUME waiting[scan.ip] = scan.key,
               UNCHANGED <<doleIp, dole, cache, events, unstored>>,
               waiting' = [waiting EXCEPT ![scan.ip] = IF HasFuture THEN "future" ELSE "out"]
        PROVE  DolingInv'
    <2>1. TablesTyped' /\ DoledWaitNot'
      BY <1>1, <1>2, <1>5 DEF DolingInv, TablesTyped, DoledWaitNot
    <2> QED BY <1>1, <1>3, <1>5, <2>1 DEF DolingInv, OneDoled, OnePlace, UrlsOf
  <1>6. ASSUME waiting[scan.ip] = scan.key, NEW u \in Winners,
               NEW rest \in {{}, Winners \ {u}}, Dole(scan.ip, u, rest)
        PROVE  DolingInv'
    <2>1. /\ u \in UrlsOf(scan.ip) /\ u \notin locked /\ u \notin rest
          /\ rest \in SUBSET UrlsOf(scan.ip) /\ rest \intersect locked = {}
      BY <1>2, <1>6 DEF Winners
    <2>2. doleIp[scan.ip] = 0
      BY <1>2, <1>6 DEF DolingInv, DoledWaitNot
    <2>3. TablesTyped' /\ OneDoled' /\ DoledWaitNot' /\ OnePlace'
      BY <1>1, <1>2, <1>6, <2>1, <2>2, DoleKeeps
    <2> QED BY <1>3, <2>3 DEF DolingInv
  <1> QED BY <1>4, <1>5, <1>6 DEF ScanEnds, ScanFails, history

LEMMA SpiderUrlKeeps ==
    ASSUME DolingInv, DolingAssumption, NEW u \in Url, SpiderUrl(u)
    PROVE  /\ DolingInv' /\ waiting'[u[1]] # "out"
           /\ \A i \in Ip : waiting[i] # "out" => waiting'[i] # "out"
           /\ \A i \in Ip : i # u[1] => doleIp'[i] = doleIp[i]
           /\ \A i \in missed : i \in missed' \/ waiting'[i] # "out"
  <1> DEFINE ip == u[1]
  <1>1. /\ ip \in Ip /\ u \in dole /\ u \notin locked
        /\ dole' = dole \ {u} /\ doleIp' = Uncounted(ip)
        /\ Awaits(ip, doleIp') /\ scan' = Noticed(ip)
        /\ locked' = locked \union {u}
        /\ docs' = docs \union {u} \/ docs' = docs
        /\ failed' = failed \/ failed' = failed \union {u}
        /\ events' = events \/ (events < MaxEvents /\ events' = events + 1)
        /\ UNCHANGED <<crawl, cache, replies, rebuild, unstored>>
    BY UrlIp DEF SpiderUrl, Happens, MayHappen
  <1> HIDE DEF ip
  <1>2. doleIp[ip] = 1 /\ \A v \in dole : v[1] = ip => v = u
    BY <1>1 DEF DolingInv, OneDoled, ip
  <1>3. doleIp' = [doleIp EXCEPT ![ip] = 0] /\ doleIp \in [Ip -> {0, 1}]
    BY <1>1, <1>2 DEF DolingInv, TablesTyped, Uncounted
  <1>4. doleIp' \in [Ip -> {0, 1}] /\ doleIp'[ip] = 0
        /\ \A i \in Ip : i # ip => doleIp'[i] = doleIp[i]
    BY <1>1, <1>3
  <1>5. /\ waiting' \in [Ip -> {"out", "zero", "past", "future"}]
        /\ \A i \in Ip : waiting'[i] # "out" => waiting[i] # "out" \/ doleIp'[i] = 0
        /\ \A i \in Ip : waiting[i] # "out" => waiting'[i] # "out"
        /\ waiting'[ip] # "out" /\ missed' \in SUBSET Ip
        /\ \A i \in missed : i \in missed' \/ waiting'[i] # "out"
    BY <1>1, <1>4, AwaitsKeeps
  <1>6. ScanOfIp'
    BY <1>1, ScanStaysOfIp DEF DolingInv
  <1>12. events' \in 0 .. MaxEvents
    BY <1>1 DEF DolingInv, TablesTyped, DolingAssumption
  <1>7. TablesTyped'
    BY <1>1, <1>4, <1>5, <1>12 DEF DolingInv, TablesTyped
  <1>8. OneDoled'
    <2>1. \A v \in dole' : v \in dole /\ v[1] # ip /\ v[1] \in Ip
      BY <1>1, <1>2, UrlIp DEF DolingInv, TablesTyped
    <2>2. \A i \in Ip : doleIp'[i] = 1 => unstored'[i] = 1 \/ \E v \in dole' : v[1] = i
      BY <1>1, <1>4 DEF DolingInv, OneDoled, ip
    <2>3. \A v \in dole' : doleIp'[v[1]] = 1 /\ unstored'[v[1]] = 0
      BY <1>1, <1>4, <2>1 DEF DolingInv, OneDoled
    <2>4. \A v, w \in dole' : v[1] = w[1] => v = w
      BY <2>1 DEF DolingInv, OneDoled
    <2>5. unstored[ip] = 0
      BY <1>1 DEF DolingInv, OneDoled, ip
    <2>6. \A i \in Ip : unstored'[i] = 1 => doleIp'[i] = 1
      BY <1>1, <1>4, <2>5 DEF DolingInv, OneDoled
    <2> QED BY <2>2, <2>3, <2>4, <2>6 DEF OneDoled
  <1>9. DoledWaitNot'
    BY <1>1, <1>4, <1>5 DEF DolingInv, DoledWaitNot
  <1>10. OnePlace'
    BY <1>1 DEF DolingInv, OnePlace, UrlsOf
  <1>11. RebuildTyped'
    BY <1>1 DEF DolingInv, RebuildTyped, RebuildType
  <1> QED BY <1>4, <1>5, <1>6, <1>7, <1>8, <1>9, <1>10, <1>11 DEF DolingInv, ip

LEMMA AddSpiderReplyKeeps ==
    ASSUME DolingInv, DolingAssumption, NEW u \in Url, AddSpiderReply(u)
    PROVE  DolingInv'
  <1>1. /\ u[1] \in Ip /\ AwaitsAndScans(u[1]) /\ u \in replies
        /\ replies' = replies \ {u} /\ locked' = locked \ {u}
        /\ crawl' = [crawl EXCEPT ![u] = "later"]
        /\ UNCHANGED <<doleIp, dole, cache, docs, rebuild, events, unstored, failed>>
    BY UrlIp DEF AddSpiderReply, Unlocked
  <1>2. \A v \in Url : v[1] # u[1] /\ crawl'[v] # "none" => crawl[v] # "none"
    BY <1>1 DEF DolingInv, TablesTyped
  <1>3. /\ ScanOfIp' /\ waiting' \in [Ip -> {"out", "zero", "past", "future"}]
        /\ \A i \in Ip : waiting'[i] # "out" => doleIp[i] = 0
        /\ missed' \in SUBSET Ip
    BY <1>1, <1>2, AwaitsAndScansKeeps
  <1>4. TablesTyped'
    BY <1>1, <1>3 DEF DolingInv, TablesTyped
  <1>5. OneDoled' /\ RebuildTyped'
    BY <1>1 DEF DolingInv, OneDoled, RebuildTyped, RebuildType
  <1>6. OnePlace'
    BY <1>1 DEF DolingInv, OnePlace, UrlsOf
  <1>7. DoledWaitNot'
    BY <1>1, <1>3 DEF DoledWaitNot
  <1> QED BY <1>3, <1>4, <1>5, <1>6, <1>7 DEF DolingInv

(* A rebuild begins, and comes to all IPs.                                  *)
LEMMA RebuildBegins ==
    ASSUME DolingAssumption, RebuildTyped, rebuild' = RebuildOn(rebuild)
    PROVE  RebuildTyped' /\ \A ip \in Ip : StillToCome(ip)'
  <1>1. 1 \in 1 .. NumIps + 1 /\ Ip \subseteq Nat /\ \A ip \in Ip : ip >= 1
    BY DEF DolingAssumption, Ip
  <1>2. /\ rebuild' \in RebuildType /\ rebuild'.on /\ rebuild'.next = 1
        /\ rebuild'.out = rebuild.out /\ rebuild'.stale = rebuild.out
        /\ rebuild'.read \subseteq Ip
    BY <1>1 DEF RebuildTyped, RebuildType, RebuildOn
  <1>3. RebuildTyped'
    BY <1>1, <1>2 DEF RebuildTyped, RebuildType
  <1>4. \A ip \in Ip : StillToCome(ip)'
    BY <1>1, <1>2 DEF StillToCome
  <1> QED BY <1>3, <1>4

LEMMA NukeDoledbKeeps ==
    ASSUME DolingInv, DolingAssumption, NukeDoledb
    PROVE  DolingInv'
  <1>1. /\ cache' = [ip \in Ip |-> {}] /\ dole' = {}
        /\ doleIp' = [ip \in Ip |-> 0] /\ waiting' = [ip \in Ip |-> "out"]
        /\ rebuild' = RebuildOn(rebuild)
        /\ events < MaxEvents /\ events' = events + 1
        /\ unstored' = [ip \in Ip |-> 0] /\ missed' = {}
        /\ UNCHANGED <<crawl, scan, locked, docs, replies, failed>>
    BY DEF NukeDoledb, Happens, MayHappen
  <1>2. TablesTyped'
    BY <1>1 DEF DolingInv, TablesTyped, DolingAssumption
  <1>3. ScanOfIp'
    BY <1>1 DEF DolingInv, ScanOfIp, ScanType, UrlsOf
  <1>4. RebuildTyped'
    BY <1>1, RebuildBegins DEF DolingInv
  <1>5. OneDoled' /\ DoledWaitNot' /\ OnePlace'
    BY <1>1 DEF DolingInv, OneDoled, DoledWaitNot, OnePlace
  <1> QED BY <1>2, <1>3, <1>4, <1>5 DEF DolingInv

(* A nonempty set of IPs has a least and a greatest element.                *)
LEMMA LeastNat ==
    ASSUME NEW S \in SUBSET Nat, S # {}
    PROVE  \E m \in S : \A y \in S : m <= y
  <1> DEFINE R == {p \in Nat \X Nat : p[1] < p[2]}
  <1>1. IsWellFoundedOn(R, Nat)
    BY NatLessThanWellFounded DEF OpToRel
  <1>2. PICK x \in S : \A y \in S : ~ (<<y, x>> \in R)
    <2> HIDE DEF R
    <2> QED BY <1>1, WFMin
  <1>3. ASSUME NEW y \in S, ~ (x <= y) PROVE FALSE
    <2>1. <<y, x>> \in R
      BY <1>3
    <2> QED BY <2>1, <1>2
  <1> QED BY <1>3

LEMMA MinOfIps ==
    ASSUME DolingAssumption, NEW S \in SUBSET Ip, S # {}
    PROVE  Min(S) \in S /\ \A y \in S : Min(S) <= y
  <1>1. \E m \in S : \A y \in S : m <= y
    BY LeastNat DEF Ip, DolingAssumption
  <1> QED BY <1>1 DEF Min

LEMMA MaxOfIps ==
    ASSUME DolingAssumption, NEW S \in SUBSET Ip, S # {}
    PROVE  Max(S) \in S /\ \A y \in S : y <= Max(S)
  <1> DEFINE T == {NumIps - y : y \in S}
  <1>0. NumIps \in Nat /\ \A y \in S : y \in Nat /\ y <= NumIps
    BY DEF Ip, DolingAssumption
  <1>1. T \in SUBSET Nat /\ T # {}
    BY <1>0
  <1>2. PICK m \in T : \A y \in T : m <= y
    <2> HIDE DEF T
    <2> QED BY <1>1, LeastNat
  <1>3. PICK x \in S : m = NumIps - x
    BY <1>2
  <1>4. \A y \in S : x >= y
    <2>1. \A y \in S : NumIps - x <= NumIps - y
      BY <1>2, <1>3
    <2> QED BY <1>0, <2>1
  <1>5. \E z \in S : \A y \in S : z >= y
    BY <1>4
  <1> QED BY <1>0, <1>5 DEF Max

(* The list that is read: of the IPs from m_nextKey2 on.                    *)
LEMMA ListRead ==
    ASSUME DolingInv, DolingAssumption, RebuildReads
    PROVE  \E list \in SUBSET Ip :
             /\ rebuild' = [rebuild EXCEPT !.out = TRUE, !.read = list]
             /\ list \subseteq KnownFrom(rebuild.next)
             /\ KnownFrom(rebuild.next) # {} => list # {}
             /\ \A ip \in KnownFrom(rebuild.next) : ip \in list \/ \A i \in list : ip > i
  <1> DEFINE ips == KnownFrom(rebuild.next)
  <1>1. PICK list \in {ips, IF ips = {} THEN {} ELSE {Min(ips)}} :
          rebuild' = [rebuild EXCEPT !.out = TRUE, !.read = list]
    BY DEF RebuildReads
  <1>2. ips \in SUBSET Ip /\ Ip \subseteq Nat
    BY DEF KnownFrom, Ip, DolingAssumption
  <1> HIDE DEF ips
  <1>3. CASE list = ips
    BY <1>1, <1>2, <1>3 DEF ips
  <1>4. CASE ips # {} /\ list = {Min(ips)}
    <2>1. Min(ips) \in ips /\ \A y \in ips : Min(ips) <= y
      BY <1>2, <1>4, MinOfIps
    <2>2. ASSUME NEW y \in ips PROVE y = Min(ips) \/ y > Min(ips)
      <3>1. y \in Nat /\ Min(ips) \in Nat /\ Min(ips) <= y
        BY <1>2, <2>1
      <3> QED BY <3>1
    <2>3. /\ list \in SUBSET Ip /\ list \subseteq ips /\ list # {}
          /\ \A ip \in ips : ip \in list \/ \A i \in list : ip > i
      BY <1>2, <1>4, <2>1, <2>2
    <2> QED BY <1>1, <2>3 DEF ips
  <1> QED BY <1>1, <1>3, <1>4

LEMMA RebuildReadsKeeps ==
    ASSUME DolingInv, DolingAssumption, RebuildReads
    PROVE  DolingInv'
  <1>1. UNCHANGED <<crawl, waiting, doleIp, dole, cache, scan, locked, docs,
                    replies, events, unstored, missed, failed>>
    BY DEF RebuildReads, history
  <1>2. RebuildTyped'
    <2>1. PICK list \in SUBSET Ip :
            /\ rebuild' = [rebuild EXCEPT !.out = TRUE, !.read = list]
            /\ list \subseteq KnownFrom(rebuild.next)
      BY ListRead
    <2>2. \A i \in list : i >= rebuild.next
      BY <2>1 DEF KnownFrom
    <2> QED BY <2>1, <2>2 DEF DolingInv, RebuildTyped, RebuildType
  <1>3. TablesTyped' /\ ScanOfIp' /\ OneDoled' /\ DoledWaitNot' /\ OnePlace'
    BY <1>1 DEF DolingInv, TablesTyped, ScanOfIp, ScanType, OneDoled, DoledWaitNot,
                OnePlace, UrlsOf
  <1> QED BY <1>2, <1>3 DEF DolingInv

(* What the list that has come does to the waiting tree and the rebuild.    *)
UnlistedIps == {ip \in Ip : waiting[ip] = "out" /\ doleIp[ip] = 0}
Added == rebuild.read \cap UnlistedIps
NextRead == IF rebuild.read = {} THEN NumIps + 1 ELSE Max(rebuild.read) + 1

LEMMA ListAdded ==
    ASSUME DolingInv, DolingAssumption, RebuildAdds
    PROVE  /\ waiting' = [ip \in Ip |-> IF ip \in Added THEN "zero" ELSE waiting[ip]]
           /\ scan' = [scan EXCEPT !.new = @ \/ scan.ip \in Added]
           /\ missed' = IF rebuild.stale
                          THEN {ip \in (KnownFrom(1) \cap UnlistedIps) \ rebuild.read :
                                  ip < NextRead}
                          ELSE missed \ Added
           /\ rebuild' = IF rebuild.read = {} THEN NoRebuild
                         ELSE [NoRebuild EXCEPT !.on = TRUE, !.next = NextRead]
           /\ rebuild.out
           /\ UNCHANGED <<crawl, doleIp, dole, cache, locked, docs, replies, events,
                          unstored, failed>>
           /\ rebuild.read \in SUBSET Ip /\ NextRead \in 1 .. NumIps + 1
           /\ \A ip \in Ip : ip >= NextRead <=>
                  rebuild.read # {} /\ \A i \in rebuild.read : ip > i
  <1>1. rebuild.read \in SUBSET Ip /\ Ip \subseteq Nat /\ NumIps \in Nat
    BY DEF DolingInv, RebuildTyped, RebuildType, Ip, DolingAssumption
  <1>2. /\ NextRead \in 1 .. NumIps + 1
        /\ \A ip \in Ip : ip >= NextRead <=>
              rebuild.read # {} /\ \A i \in rebuild.read : ip > i
    <2>1. CASE rebuild.read = {}
      BY <1>1, <2>1 DEF NextRead, Ip
    <2>2. CASE rebuild.read # {}
      <3>1. /\ Max(rebuild.read) \in rebuild.read
            /\ \A i \in rebuild.read : i <= Max(rebuild.read)
        BY <1>1, <2>2, MaxOfIps
      <3>2. NextRead = Max(rebuild.read) + 1
        BY <2>2 DEF NextRead
      <3> QED BY <1>1, <2>2, <3>1, <3>2 DEF Ip
    <2> QED BY <2>1, <2>2
  <1> QED BY <1>1, <1>2, Zenon DEF RebuildAdds, Added, UnlistedIps, NextRead

LEMMA RebuildAddsKeeps ==
    ASSUME DolingInv, DolingAssumption, RebuildAdds
    PROVE  DolingInv'
  <1>1. /\ waiting' = [ip \in Ip |-> IF ip \in Added THEN "zero" ELSE waiting[ip]]
        /\ scan' = [scan EXCEPT !.new = @ \/ scan.ip \in Added]
        /\ rebuild' = IF rebuild.read = {} THEN NoRebuild
                      ELSE [NoRebuild EXCEPT !.on = TRUE, !.next = NextRead]
        /\ UNCHANGED <<crawl, doleIp, dole, cache, locked, docs, replies, events,
                       unstored, failed>>
        /\ NextRead \in 1 .. NumIps + 1
    BY ListAdded
  <1>2. missed' \in SUBSET Ip
    BY ListAdded DEF KnownFrom, DolingInv, TablesTyped
  <1>3. TablesTyped' /\ DoledWaitNot'
    BY <1>1, <1>2 DEF DolingInv, TablesTyped, DoledWaitNot, Added, UnlistedIps
  <1>4. ScanOfIp'
    <2>1. /\ scan' \in ScanType /\ scan'.at = scan.at /\ scan'.ip = scan.ip
          /\ scan'.key = scan.key /\ scan'.due = scan.due /\ scan'.later = scan.later
          /\ ~scan'.new => ~scan.new
      BY <1>1 DEF DolingInv, ScanOfIp, ScanType
    <2> QED BY <1>1, <2>1 DEF DolingInv, ScanOfIp, ScanType, UrlsOf
  <1>5. RebuildTyped'
    <2>1. 1 \in 1 .. NumIps + 1
      BY DEF DolingAssumption
    <2>2. \E b \in BOOLEAN, n \in 1 .. NumIps + 1 :
            rebuild' = [on |-> b, next |-> n, out |-> FALSE, read |-> {}, stale |-> FALSE]
      BY <1>1, <2>1 DEF NoRebuild
    <2> QED BY <2>2 DEF RebuildTyped, RebuildType
  <1>6. OneDoled' /\ OnePlace'
    BY <1>1 DEF DolingInv, OneDoled, OnePlace, UrlsOf
  <1> QED BY <1>3, <1>4, <1>5, <1>6 DEF DolingInv

(* The steps that touch little.                                             *)
LEMMA SmallStepsKeep ==
    ASSUME DolingInv, DolingAssumption,
           \/ \E u \in Url : IndexedDoc(u)
           \/ Populate \/ DailyRebuild \/ RebuildFails
           \/ \E ip \in Ip : CacheExpires(ip)
           \/ UNCHANGED dolingVars
    PROVE  DolingInv'
  <1>1. ASSUME NEW u \in Url, IndexedDoc(u) PROVE DolingInv'
    BY <1>1 DEF IndexedDoc, history, DolingInv, TablesTyped, ScanOfIp, ScanType,
                RebuildTyped, RebuildType, OneDoled, DoledWaitNot, OnePlace, UrlsOf
  <1>2. CASE Populate
    <2>1. ScanOfIp' /\ RebuildTyped'
      BY <1>2 DEF Populate, DolingInv, ScanOfIp, ScanType, RebuildTyped, RebuildType
    <2> QED BY <1>2, <2>1 DEF Populate, history, DolingInv, TablesTyped, OneDoled,
                              DoledWaitNot, OnePlace, UrlsOf
  <1>3. CASE DailyRebuild
    <2>1. RebuildTyped'
      BY <1>3, RebuildBegins DEF DailyRebuild, DolingInv
    <2>2. events' \in 0 .. MaxEvents
      BY <1>3 DEF DailyRebuild, MayHappen, DolingInv, DolingAssumption, TablesTyped
    <2> QED BY <1>3, <2>1, <2>2 DEF DailyRebuild, DolingInv, TablesTyped, ScanOfIp,
                              ScanType, OneDoled, DoledWaitNot, OnePlace, UrlsOf
  <1>4. ASSUME NEW ip \in Ip, CacheExpires(ip) PROVE DolingInv'
    <2>1. cache' = [cache EXCEPT ![ip] = {}]
          /\ UNCHANGED <<crawl, waiting, doleIp, dole, scan, locked, docs, replies,
                         rebuild, events, unstored, missed, failed>>
      BY <1>4 DEF CacheExpires, history
    <2>2. \A i \in Ip : cache'[i] \subseteq cache[i]
      BY <2>1 DEF DolingInv, TablesTyped
    <2>3. TablesTyped' /\ OnePlace'
      BY <2>1, <2>2 DEF DolingInv, TablesTyped, OnePlace, UrlsOf
    <2> QED BY <2>1, <2>3 DEF DolingInv, ScanOfIp, ScanType, RebuildTyped, RebuildType,
                              OneDoled, DoledWaitNot, UrlsOf
  <1>5. CASE RebuildFails
    <2>1. RebuildTyped'
      BY <1>5 DEF RebuildFails, DolingInv, RebuildTyped, RebuildType
    <2> QED BY <1>5, <2>1 DEF RebuildFails, history, DolingInv, TablesTyped, ScanOfIp,
                              ScanType, OneDoled, DoledWaitNot, OnePlace, UrlsOf
  <1>6. CASE UNCHANGED dolingVars
    BY <1>6 DEF dolingVars, DolingInv, TablesTyped, ScanOfIp, ScanType, RebuildTyped,
                RebuildType, OneDoled, DoledWaitNot, OnePlace, UrlsOf
  <1> QED BY <1>1, <1>2, <1>3, <1>4, <1>5, <1>6

LEMMA DolingInvInductive ==
    ASSUME DolingInv, DolingAssumption, [DolingNext]_dolingVars
    PROVE  DolingInv'
  BY AddSpiderRequestKeeps, ComesDueKeeps, SpiderUrlKeeps, AddSpiderReplyKeeps,
     NextIpKeeps, ScanEndsKeeps, NukeDoledbKeeps, RebuildReadsKeeps,
     RebuildAddsKeeps, SmallStepsKeep DEF DolingNext

(* The count of an IP is the number of its urls in doledb, and of those     *)
(* doledb did not take.                                                     *)
LEMMA CountExact ==
    ASSUME DolingInv, DolingAssumption
    PROVE  DoleTableExact
  <1> SUFFICES ASSUME NEW ip \in Ip
               PROVE  doleIp[ip] = Cardinality(dole \intersect UrlsOf(ip)) + unstored[ip]
    BY DEF DolingInv, DoledWaitNot, DoleTableExact
  <1>1. doleIp[ip] \in {0, 1} /\ unstored[ip] \in {0, 1}
    BY DEF DolingInv, TablesTyped
  <1>2. CASE doleIp[ip] = 0 \/ unstored[ip] = 1
    <2>1. dole \intersect UrlsOf(ip) = {} /\ doleIp[ip] = unstored[ip]
      BY <1>1, <1>2, UrlsOfIp DEF DolingInv, OneDoled
    <2>2. Cardinality(dole \intersect UrlsOf(ip)) = 0
      BY <2>1, FS_EmptySet
    <2> QED BY <1>1, <2>1, <2>2
  <1>3. CASE doleIp[ip] = 1 /\ unstored[ip] = 0
    <2>1. PICK u \in dole : u[1] = ip
      BY <1>3 DEF DolingInv, OneDoled
    <2>2. dole \intersect UrlsOf(ip) = {u}
      BY <2>1, UrlsOfIp, UrlIp DEF DolingInv, OneDoled, TablesTyped
    <2>3. Cardinality(dole \intersect UrlsOf(ip)) = 1
      BY <2>2, FS_Singleton
    <2> QED BY <1>3, <2>3
  <1> QED BY <1>1, <1>2, <1>3

(* m_doleIpTable counts the records of an IP that are in doledb and those   *)
(* doledb did not take, and an IP that is counted does not wait, for any    *)
(* numbers of IPs, urls, spiders and changes of the filters.                *)
THEOREM DoleTableStaysExact ==
    ASSUME DolingAssumption
    PROVE  DolingSpec => []DoleTableExact
  <1>1. DolingInit => DolingInv
    BY DolingInitInv
  <1>2. DolingInv /\ [DolingNext]_dolingVars => DolingInv'
    BY DolingInvInductive
  <1>3. DolingInv => DoleTableExact
    BY CountExact
  <1> QED BY <1>1, <1>2, <1>3, PTL DEF DolingSpec

(* All variables keep their types.                                          *)
THEOREM DolingTypeCorrect ==
    ASSUME DolingAssumption
    PROVE  DolingSpec => []DolingTypeOK
  <1>1. DolingInit => DolingInv
    BY DolingInitInv
  <1>2. DolingInv /\ [DolingNext]_dolingVars => DolingInv'
    BY DolingInvInductive
  <1>3. DolingInv => DolingTypeOK
    BY DEF DolingInv, TablesTyped, ScanOfIp, ScanType, RebuildTyped, RebuildType,
           DolingTypeOK
  <1> QED BY <1>1, <1>2, <1>3, PTL DEF DolingSpec

(* No url is given to a second spider while it is being spidered or its     *)
(* reply is on its way.                                                     *)
THEOREM UrlSpideredByOne ==
    ASSUME DolingAssumption
    PROVE  DolingSpec => []SpideredByOne
  <1>1. DolingInit => DolingInv
    BY DolingInitInv
  <1>2. DolingInv /\ [DolingNext]_dolingVars => DolingInv'
    BY DolingInvInductive
  <1>3. DolingInv => SpideredByOne
    BY DEF DolingInv, OnePlace, SpideredByOne
  <1> QED BY <1>1, <1>2, <1>3, PTL DEF DolingSpec

-----------------------------------------------------------------------------
(* No IP is forgotten.                                                      *)

Open(u) == crawl[u] # "none" /\ u \notin locked
Found(ip) ==
  waiting[ip] # "out" \/ doleIp[ip] = 1 \/ StillToCome(ip) \/ ip \in missed

(* A step that opens no other url, and leaves the IPs that were found to be *)
(* found, forgets none.                                                     *)
LEMMA RememberedKept ==
    ASSUME DolingAssumption, Remembered,
           \A u \in Url : Open(u)' /\ ~Found(u[1])' => Open(u),
           \A ip \in Ip : Found(ip) => Found(ip)'
    PROVE  Remembered'
  BY UrlIp DEF Remembered, Open, Found

LEMMA AnsweredRemembered ==
    ASSUME DolingInv, DolingAssumption, Remembered, NEW u \in Url,
           AwaitsAndScans(u[1]), UNCHANGED <<doleIp, rebuild>>,
           crawl' = [crawl EXCEPT ![u] = crawl'[u]], locked \ {u} \subseteq locked'
    PROVE  Remembered'
  <1>1. u[1] \in Ip
    BY UrlIp
  <1>2. \A v \in Url : v[1] # u[1] /\ crawl'[v] # "none" => crawl[v] # "none"
    BY DEF DolingInv, TablesTyped
  <1>3. /\ \A i \in Ip : waiting[i] # "out" => waiting'[i] # "out"
        /\ waiting'[u[1]] # "out" \/ doleIp[u[1]] = 1
        /\ \A i \in missed : i \in missed' \/ waiting'[i] # "out"
    BY <1>1, <1>2, AwaitsAndScansKeeps
  <1>4. \A ip \in Ip : Found(ip) => Found(ip)'
    BY <1>3 DEF Found, StillToCome
  <1>5. \A v \in Url : Open(v)' /\ ~Found(v[1])' => Open(v)
    BY <1>3 DEF Open, Found, DolingInv, TablesTyped
  <1> QED BY <1>4, <1>5, RememberedKept

LEMMA ScanEndsRemembered ==
    ASSUME DolingInv, DolingAssumption, Remembered, ScanEnds
    PROVE  Remembered'
  <1>1. /\ scan.at = "read" /\ UNCHANGED <<crawl, locked, rebuild>>
        /\ UNCHANGED <<docs, replies, missed, failed>>
    BY DEF ScanEnds
  <1>2. scan.ip \in Ip /\ scan.key # "out"
        /\ scan.due \union scan.later \subseteq UrlsOf(scan.ip)
    BY <1>1 DEF DolingInv, ScanOfIp
  <1>3. ASSUME UNCHANGED <<waiting, doleIp>> PROVE Remembered'
    BY <1>1, <1>3 DEF Remembered, StillToCome
  <1>4. ASSUME Winners = {}, scan.new => HasFuture, UNCHANGED doleIp,
               waiting' = [waiting EXCEPT ![scan.ip] = IF HasFuture THEN "future" ELSE "out"]
        PROVE  Remembered'
    <2>1. \A i \in Ip : i # scan.ip => waiting'[i] = waiting[i]
      BY <1>2, <1>4 DEF DolingInv, TablesTyped
    <2>2. CASE HasFuture
      <3>1. waiting'[scan.ip] # "out"
        BY <1>2, <1>4, <2>2 DEF DolingInv, TablesTyped
      <3> QED BY <1>1, <1>4, <2>1, <3>1, UrlIp DEF Remembered, StillToCome
    <2>3. CASE ~HasFuture
      <3>1. ASSUME NEW u \in UrlsOf(scan.ip), Open(u) PROVE FALSE
        <4>1. u \in scan.due \union scan.later
          BY <1>1, <1>4, <2>3, <3>1 DEF DolingInv, ScanOfIp, Open
        <4>2. u \in Winners
          BY <2>3, <3>1, <4>1 DEF Winners, HasFuture, Open
        <4> QED BY <1>4, <4>2
      <3>2. \A u \in Url : Open(u) => u[1] # scan.ip
        BY <3>1 DEF UrlsOf
      <3> QED BY <1>1, <1>4, <2>1, <3>2, UrlIp DEF Remembered, StillToCome, Open
    <2> QED BY <2>2, <2>3
  <1>5. ASSUME waiting[scan.ip] = scan.key, NEW u \in Winners,
               NEW rest \in {{}, Winners \ {u}}, Dole(scan.ip, u, rest)
        PROVE  Remembered'
    <2>1. /\ u \in UrlsOf(scan.ip) /\ u \notin locked /\ u \notin rest
          /\ rest \in SUBSET UrlsOf(scan.ip) /\ rest \intersect locked = {}
      BY <1>2, <1>5 DEF Winners
    <2>2. doleIp[scan.ip] = 0
      BY <1>2, <1>5 DEF DolingInv, DoledWaitNot
    <2>3. /\ doleIp'[scan.ip] = 1
          /\ \A i \in Ip : i # scan.ip => waiting'[i] = waiting[i] /\ doleIp'[i] = doleIp[i]
      BY <1>1, <1>2, <1>5, <2>1, <2>2, DoleKeeps
    <2> QED BY <1>1, <2>3, UrlIp DEF Remembered, StillToCome
  <1> QED BY <1>3, <1>4, <1>5 DEF ScanEnds

LEMMA NextIpRemembered ==
    ASSUME DolingInv, DolingAssumption, Remembered, NextIp
    PROVE  Remembered'
  <1>1. UNCHANGED <<crawl, locked, docs, replies, rebuild, missed, failed>>
    BY DEF NextIp
  <1>2. ASSUME UNCHANGED <<waiting, doleIp>> PROVE Remembered'
    BY <1>1, <1>2 DEF Remembered, StillToCome
  <1>3. ASSUME NEW ip \in Ip, doleIp[ip] > 0, UNCHANGED doleIp,
               waiting' = [waiting EXCEPT ![ip] = "out"]
        PROVE  Remembered'
    <2>1. doleIp[ip] = 1 /\ \A i \in Ip : i # ip => waiting'[i] = waiting[i]
      BY <1>3 DEF DolingInv, TablesTyped
    <2> QED BY <1>1, <1>3, <2>1, UrlIp DEF Remembered, StillToCome
  <1>4. ASSUME NEW ip \in Ip, NEW u \in cache[ip], doleIp[ip] = 0,
               Dole(ip, u, cache[ip] \ {u})
        PROVE  Remembered'
    <2>1. u \in UrlsOf(ip) /\ u \notin locked
          /\ cache[ip] \ {u} \in SUBSET UrlsOf(ip)
          /\ (cache[ip] \ {u}) \intersect locked = {}
      BY DEF DolingInv, OnePlace
    <2>2. /\ doleIp'[ip] = 1
          /\ \A i \in Ip : i # ip => waiting'[i] = waiting[i] /\ doleIp'[i] = doleIp[i]
      BY <1>1, <1>4, <2>1, DoleKeeps
    <2> QED BY <1>1, <2>2, UrlIp DEF Remembered, StillToCome
  <1> QED BY <1>2, <1>3, <1>4 DEF NextIp

LEMMA SpiderUrlRemembered ==
    ASSUME DolingInv, DolingAssumption, Remembered, NEW u \in Url, SpiderUrl(u)
    PROVE  Remembered'
  <1>1. UNCHANGED <<crawl, rebuild>> /\ locked' = locked \union {u}
    BY DEF SpiderUrl
  <1>2. /\ waiting'[u[1]] # "out"
        /\ \A i \in Ip : waiting[i] # "out" => waiting'[i] # "out"
        /\ \A i \in Ip : i # u[1] => doleIp'[i] = doleIp[i]
        /\ \A i \in missed : i \in missed' \/ waiting'[i] # "out"
    BY SpiderUrlKeeps
  <1>3. \A ip \in Ip : Found(ip) => Found(ip)'
    BY <1>1, <1>2 DEF Found, StillToCome
  <1>4. \A v \in Url : Open(v)' => Open(v)
    BY <1>1 DEF Open
  <1> QED BY <1>3, <1>4, RememberedKept

(* A rebuild that begins comes to all IPs.                                  *)
LEMMA RebuildBeginsRemembered ==
    ASSUME DolingInv, DolingAssumption, NukeDoledb \/ DailyRebuild
    PROVE  Remembered'
  <1>1. rebuild' = RebuildOn(rebuild)
    BY DEF NukeDoledb, DailyRebuild
  <1>2. \A ip \in Ip : StillToCome(ip)'
    BY <1>1, RebuildBegins DEF DolingInv
  <1> QED BY <1>2, UrlIp DEF Remembered

(* The IPs that a read of the rebuild passes over have no url.              *)
LEMMA RebuildReadsRemembered ==
    ASSUME DolingInv, DolingAssumption, Remembered, RebuildReads
    PROVE  Remembered'
  <1>1. /\ rebuild.on /\ ~rebuild.out /\ ~rebuild.stale
        /\ UNCHANGED <<crawl, waiting, doleIp, locked, missed>>
    BY DEF RebuildReads, history, DolingInv, RebuildTyped
  <1>2. PICK list \in SUBSET Ip :
          /\ rebuild' = [rebuild EXCEPT !.out = TRUE, !.read = list]
          /\ KnownFrom(rebuild.next) # {} => list # {}
          /\ \A ip \in KnownFrom(rebuild.next) : ip \in list \/ \A i \in list : ip > i
    BY ListRead
  <1>3. rebuild'.on /\ rebuild'.out /\ ~rebuild'.stale /\ rebuild'.read = list
    BY <1>1, <1>2 DEF DolingInv, RebuildTyped, RebuildType
  <1>4. ASSUME NEW u \in Url, Open(u), StillToCome(u[1])
        PROVE  StillToCome(u[1])'
    <2>1. u[1] \in KnownFrom(rebuild.next)
      BY <1>1, <1>4, UrlIp DEF KnownFrom, Open, StillToCome
    <2> QED BY <1>2, <1>3, <2>1 DEF StillToCome
  <1> QED BY <1>1, <1>4 DEF Remembered, Open

(* The IPs of the list that has come wait, or have a url in doledb; the     *)
(* rebuild comes to those after it, and what it has passed is missed, if    *)
(* the list is not what the rebuild would have read now.                    *)
LEMMA RebuildAddsRemembered ==
    ASSUME DolingInv, DolingAssumption, Remembered, RebuildAdds
    PROVE  Remembered'
  <1>1. /\ waiting' = [ip \in Ip |-> IF ip \in Added THEN "zero" ELSE waiting[ip]]
        /\ missed' = IF rebuild.stale
                       THEN {ip \in (KnownFrom(1) \cap UnlistedIps) \ rebuild.read :
                               ip < NextRead}
                       ELSE missed \ Added
        /\ rebuild' = IF rebuild.read = {} THEN NoRebuild
                      ELSE [NoRebuild EXCEPT !.on = TRUE, !.next = NextRead]
        /\ rebuild.out /\ UNCHANGED <<crawl, doleIp, locked>>
        /\ rebuild.read \in SUBSET Ip /\ NextRead \in 1 .. NumIps + 1
        /\ \A ip \in Ip : ip >= NextRead <=>
              rebuild.read # {} /\ \A i \in rebuild.read : ip > i
    BY ListAdded
  <1>2. ASSUME NEW ip \in Ip, ip >= NextRead PROVE Found(ip)'
    <2>1. rebuild' = [NoRebuild EXCEPT !.on = TRUE, !.next = NextRead]
      BY <1>1, <1>2
    <2> QED BY <1>2, <2>1 DEF Found, StillToCome, NoRebuild
  <1>3. ASSUME NEW ip \in Ip, ip \notin UnlistedIps \/ ip \in rebuild.read
        PROVE  Found(ip)'
    BY <1>1, <1>3 DEF Found, Added, UnlistedIps, DolingInv, TablesTyped
  <1>4. ASSUME NEW u \in Url, Open(u)' PROVE Found(u[1])'
    <2>1. u[1] \in Ip /\ Open(u) /\ u[1] \in KnownFrom(1)
      BY <1>1, <1>4, UrlIp DEF Open, KnownFrom, Ip, DolingAssumption
    <2> SUFFICES ASSUME u[1] \in UnlistedIps, u[1] \notin rebuild.read,
                        ~(u[1] >= NextRead)
                 PROVE  u[1] \in missed'
      BY <1>2, <1>3, <2>1 DEF Found
    <2>2. u[1] < NextRead
      BY <1>1, <2>1 DEF Ip, DolingAssumption
    <2>3. CASE rebuild.stale
      BY <1>1, <2>1, <2>2, <2>3
    <2>4. CASE ~rebuild.stale
      <3>1. ~StillToCome(u[1])
        BY <1>1, <2>1, <2>4 DEF StillToCome
      <3>2. u[1] \in missed
        BY <2>1, <3>1 DEF Remembered, Open, UnlistedIps
      <3> QED BY <1>1, <2>4, <3>2 DEF Added
    <2> QED BY <2>3, <2>4
  <1> QED BY <1>4 DEF Remembered, Open, Found

(* A read that failed is begun again where the rebuild has come to.         *)
LEMMA RebuildFailsRemembered ==
    ASSUME DolingInv, DolingAssumption, Remembered, RebuildFails
    PROVE  Remembered'
  <1>1. /\ rebuild' = [rebuild EXCEPT !.out = FALSE, !.read = {}, !.stale = FALSE]
        /\ UNCHANGED <<crawl, waiting, doleIp, locked, missed>>
    BY DEF RebuildFails, history
  <1>2. /\ rebuild'.on = rebuild.on /\ rebuild'.next = rebuild.next /\ ~rebuild'.out
        /\ rebuild.next \in Nat /\ rebuild.read \subseteq Ip /\ Ip \subseteq Nat
        /\ ~rebuild.stale => \A i \in rebuild.read : i >= rebuild.next
    BY <1>1 DEF DolingInv, RebuildTyped, RebuildType, Ip, DolingAssumption
  <1>3. ASSUME NEW ip \in Ip, StillToCome(ip) PROVE StillToCome(ip)'
    <2>1. rebuild.on /\ ip >= rebuild.next
      <3>1. CASE rebuild.out /\ ~rebuild.stale
        <4>1. rebuild.on /\ \E i \in rebuild.read : ip = i \/ ip > i
          BY <1>3, <3>1 DEF StillToCome
        <4>2. \A i \in rebuild.read : i \in Nat /\ i >= rebuild.next
          BY <1>2, <3>1
        <4> QED BY <1>2, <4>1, <4>2
      <3>2. CASE ~(rebuild.out /\ ~rebuild.stale)
        BY <1>3, <3>2 DEF StillToCome
      <3> QED BY <3>1, <3>2
    <2> QED BY <1>2, <2>1 DEF StillToCome
  <1> QED BY <1>1, <1>3, UrlIp DEF Remembered

LEMMA RememberedInductive ==
    ASSUME DolingAssumption, DolingInv, Remembered,
           [DolingNext]_dolingVars
    PROVE  Remembered'
  <1>1. ASSUME NEW u \in Url, AddSpiderRequest(u) PROVE Remembered'
    <2>1. AwaitsAndScans(u[1]) /\ UNCHANGED <<doleIp, rebuild, locked>>
          /\ crawl' = [crawl EXCEPT ![u] = "due"]
      BY <1>1 DEF AddSpiderRequest
    <2>2. crawl' = [crawl EXCEPT ![u] = crawl'[u]]
      BY <2>1 DEF DolingInv, TablesTyped
    <2> QED BY <2>1, <2>2, AnsweredRemembered
  <1>2. ASSUME NEW u \in Url, AddSpiderReply(u) PROVE Remembered'
    <2>1. AwaitsAndScans(u[1]) /\ UNCHANGED <<doleIp, rebuild>>
          /\ locked' = locked \ {u} /\ crawl' = [crawl EXCEPT ![u] = "later"]
      BY <1>2 DEF AddSpiderReply, Unlocked
    <2>2. crawl' = [crawl EXCEPT ![u] = crawl'[u]]
      BY <2>1 DEF DolingInv, TablesTyped
    <2> QED BY <2>1, <2>2, AnsweredRemembered
  <1>3. ASSUME NEW u \in Url, ComesDue(u) PROVE Remembered'
    <2>1. /\ crawl' = [crawl EXCEPT ![u] = "due"] /\ crawl[u] = "later"
          /\ waiting' = [waiting EXCEPT ![u[1]] = IF @ = "future" THEN "past" ELSE @]
          /\ UNCHANGED <<doleIp, locked, rebuild, missed>>
      BY <1>3 DEF ComesDue, history
    <2>2. \A ip \in Ip : Found(ip) => Found(ip)'
      BY <2>1, UrlIp DEF Found, StillToCome, DolingInv, TablesTyped
    <2>3. \A v \in Url : Open(v)' => Open(v)
      BY <2>1 DEF Open, DolingInv, TablesTyped
    <2> QED BY <2>2, <2>3, RememberedKept
  <1>4. ASSUME NEW u \in Url, IndexedDoc(u) PROVE Remembered'
    BY <1>4 DEF IndexedDoc, history, Remembered, StillToCome
  <1>5. CASE \/ Populate \/ ScanFails \/ UNCHANGED dolingVars
             \/ \E ip \in Ip : CacheExpires(ip)
    BY <1>5 DEF Populate, ScanFails, CacheExpires, history, dolingVars, Remembered,
                StillToCome
  <1> QED
    BY <1>1, <1>2, <1>3, <1>4, <1>5, SpiderUrlRemembered, NextIpRemembered,
       ScanEndsRemembered, RebuildBeginsRemembered, RebuildReadsRemembered,
       RebuildAddsRemembered, RebuildFailsRemembered DEF DolingNext

(* An IP with a url to spider is forgotten only when the filters changed    *)
(* during a read of a rebuild that then went past it, whatever else comes   *)
(* while a scan or a rebuild is under way: for any numbers of IPs and urls, *)
(* of spiders that fail, and of records that doledb does not take.          *)
THEOREM NoIpIsForgotten ==
    ASSUME DolingAssumption
    PROVE  DolingSpec => []NoIpForgotten
  <1>1. DolingInit => DolingInv /\ Remembered
    BY DolingInitInv DEF DolingInit, Remembered
  <1>2. DolingInv /\ Remembered /\ [DolingNext]_dolingVars => (DolingInv /\ Remembered)'
    BY DolingInvInductive, RememberedInductive
  <1>3. DolingInv /\ Remembered => NoIpForgotten
    BY UrlIp DEF DolingInv, TablesTyped, Remembered, NoIpForgotten
  <1> QED BY <1>1, <1>2, <1>3, PTL DEF DolingSpec
=============================================================================
