-------------------------------- MODULE Msg4 --------------------------------
(***************************************************************************)
(* Msg4.cpp: records that a host adds to a shard are gathered in a buffer, *)
(* the buffer is sent to every twin of the shard until each has taken it,  *)
(* and callers for whom there is no room wait in a line.  One sending      *)
(* host, one shard; a caller's list is taken record by record, and what    *)
(* there is no room for keeps its place in the line.                       *)
(*                                                                         *)
(* Records are numbered in the order in which they are handed in, and all  *)
(* of them are of one key: a twin has the record it added last.            *)
(*                                                                         *)
(* Of Multicast it takes what module Multicast shows: a request to a group *)
(* is sent to each twin until it has answered without an error, or until   *)
(* its error is put down to another twin that has answered.                *)
(***************************************************************************)
EXTENDS Integers, Sequences, FiniteSets, FiniteSetsExt

CONSTANTS
    Twins,      \* the hosts of the shard
    MaxRecs,    \* BOUND: how many records are handed in
    BufSize,    \* MAXHOSTBUFSIZE, in records
    MaxMcasts,  \* MAX_MCASTS
    MaxExits    \* BOUND: how often the sending host is restarted

ASSUME Msg4Assumption == /\ Twins # {} /\ IsFiniteSet(Twins)
                         /\ MaxRecs \in Nat
                         /\ BufSize \in Nat \ {0}
                         /\ MaxMcasts \in Nat \ {0}
                         /\ MaxExits \in Nat

VARIABLES
    handed,   \* how many records have been handed in
    line,     \* s_msg4Head: the records that wait
    hostBuf,  \* s_hostBufs[]
    stored,   \* history: the records that storeRec() has taken
    batches,  \* requests of a Multicast: the records, and for each twin how far
    plain,    \* requests that loadAddsInProgress() has sent, to one twin each
    got,      \* what each twin has added,
    last,     \* and what of it last
    overlap,  \* history: a request was sent while another was under way
    dropped,  \* history: the records of requests given up, of each twin
    noMem,    \* history: the line is left from when there was no memory
    exits

m4Vars == <<handed, line, hostBuf, stored, batches, plain, got, last, overlap,
            dropped, noMem, exits>>

Recs  == 1 .. MaxRecs
\* "sent": a slot is open; "added", "refused": the handler has answered, the
\* reply is under way; "again": no slot, sleepWrapper2() will send it; "done".
Stage == {"sent", "added", "refused", "again", "done"}

Msg4TypeOK ==
    /\ handed \in 0 .. MaxRecs
    /\ line \in Seq(Recs) /\ hostBuf \in Seq(Recs)
    /\ Len(hostBuf) <= BufSize
    /\ stored \subseteq Recs
    /\ Cardinality(batches) <= MaxMcasts
    /\ \A b \in batches : b.recs \in Seq(Recs) /\ b.at \in [Twins -> Stage]
    /\ \A p \in plain : p.recs \in Seq(Recs) /\ p.to \in Twins
    /\ {got, dropped} \subseteq [Twins -> SUBSET Recs]
    /\ last \in [Twins -> 0 .. MaxRecs]
    /\ {overlap, noMem} \subseteq BOOLEAN
    /\ exits \in 0 .. MaxExits

Msg4InitWith(n, e) ==
    /\ handed = n
    /\ line = <<>> /\ hostBuf = <<>>
    /\ stored = {} /\ batches = {} /\ plain = {}
    /\ got = [t \in Twins |-> {}]
    /\ last = [t \in Twins |-> 0]
    /\ overlap = FALSE /\ noMem = FALSE
    /\ dropped = [t \in Twins |-> {}]
    /\ exits = e
Msg4Init == Msg4InitWith(0, 0)

RecsOf(s) == {s[i] : i \in DOMAIN s}
NewBatch(recs) == [recs |-> recs, at |-> [t \in Twins |-> "sent"]]

-----------------------------------------------------------------------------
(***************************************************************************)
(* Store(): what storeRec() makes of records, one after the other.  A full *)
(* buffer is sent, if there is a Multicast for it, and a new one begun; so *)
(* of the buffer and the records behind it ("all") every BufSize are a     *)
(* request, but for the last ones.  When there is no memory for the new    *)
(* buffer ("fails") the rest waits in the line, as if there was no room.   *)
(***************************************************************************)
(* Mutant: the buffer that is sent is taken for empty already. *)
RoomTwice(out) == BufSize + BufSize * (MaxMcasts - Cardinality(out))

\* For how many records there is room when the requests in out are under way.
Room(out) == BufSize - Len(hostBuf) + BufSize * (MaxMcasts - Cardinality(out))

(* Mutant: a record goes to the beginning of the buffer. *)
InFront(recs) == recs \o hostBuf

Behind(recs) == hostBuf \o recs

Store(recs, out) ==
    \E n \in 0 .. Len(recs), fails \in BOOLEAN :
      LET fits == Min({Len(recs), Room(out)})
          all  == Behind(SubSeq(recs, 1, n))
          full == IF fails THEN Len(all) \div BufSize
                  ELSE IF all = <<>> THEN 0 ELSE (Len(all) - 1) \div BufSize
          sent == {NewBatch(SubSeq(all, (i - 1) * BufSize + 1, i * BufSize)) : i \in 1 .. full}
      IN  /\ IF fails THEN n < fits /\ Len(all) % BufSize = 0 ELSE n = fits
          /\ hostBuf' = SubSeq(all, full * BufSize + 1, Len(all))
          /\ batches' = out \cup sent
          /\ stored' = stored \cup RecsOf(SubSeq(recs, 1, n))
          /\ line' = SubSeq(recs, n + 1, Len(recs))
          /\ overlap' = (overlap \/ (sent # {} /\ (full > 1 \/ out # {} \/ plain # {})))
          /\ noMem' = (fails \/ (noMem /\ line' # <<>>))

\* addMetaList() of a Msg4: behind the line, if there is one.
AddMetaList ==
    /\ \E n \in 1 .. MaxRecs - handed :
         LET list == [i \in 1 .. n |-> handed + i] IN
         /\ handed' = handed + n
         /\ IF line # <<>>
            THEN /\ line' = line \o list
                 /\ UNCHANGED <<hostBuf, stored, batches, overlap, noMem>>
            ELSE Store(list, batches)
    /\ UNCHANGED <<plain, got, last, dropped, exits>>

(* Mutant: a buffer waits until it is full. *)
FlushDueWhenFull == Len(hostBuf) = BufSize

FlushDue == hostBuf # <<>>

\* sleepCallback4(), every 500 milliseconds, with sendBuffer().
FlushLocal ==
    /\ FlushDue
    /\ Cardinality(batches) < MaxMcasts
    /\ batches' = batches \cup {NewBatch(hostBuf)}
    /\ hostBuf' = <<>>
    /\ overlap' = (overlap \/ batches # {} \/ plain # {})
    /\ UNCHANGED <<handed, line, stored, plain, got, last, dropped, noMem, exits>>

-----------------------------------------------------------------------------
(* A twin.                                                                 *)

\* Rdb::addList() for the first n records of a request.
Added(t, recs, n) ==
    /\ got' = [got EXCEPT ![t] = @ \cup RecsOf(SubSeq(recs, 1, n))]
    /\ last' = [last EXCEPT ![t] = IF n = 0 THEN @ ELSE recs[n]]

At(b, t, s) == (batches \ {b}) \cup {[b EXCEPT !.at[t] = s]}

\* handleRequest4() with addMetaList(): all of the records, or an error after
\* some of them, or before the first (not in sync with host 0, no room).
HandleRequest4(b, t) ==
    /\ b.at[t] = "sent"
    /\ \E n \in 0 .. Len(b.recs) :
         /\ Added(t, b.recs, n)
         /\ batches' = At(b, t, IF n = Len(b.recs) THEN "added" ELSE "refused")
    /\ UNCHANGED <<handed, line, hostBuf, stored, plain, overlap, dropped, noMem, exits>>

\* The twin is restarted before its reply is through: UdpServer sends the
\* request again, and it is handled again.
TwinRestarts(b, t) ==
    /\ b.at[t] = "added"
    /\ batches' = At(b, t, "sent")
    /\ UNCHANGED <<handed, line, hostBuf, stored, plain, got, last, overlap, dropped,
                   noMem, exits>>

\* A request that was reloaded.  Its slot has no callback: nobody looks at the
\* reply, and one that is refused is given up.  The twin may get the request
\* again before its reply is through.
HandlePlain(p) ==
    /\ \E n \in 0 .. Len(p.recs) :
         /\ Added(p.to, p.recs, n)
         /\ \/ plain' = plain /\ UNCHANGED dropped
            \/ /\ plain' = plain \ {p}
               /\ dropped' = IF n = Len(p.recs) THEN dropped
                             ELSE [dropped EXCEPT ![p.to] = @ \cup RecsOf(p.recs)]
    /\ UNCHANGED <<handed, line, hostBuf, stored, batches, overlap, noMem, exits>>

-----------------------------------------------------------------------------
(* Replies and resends.                                                    *)

(* Mutant: any answer ends the request to the twin. *)
GotRefusalIgnored(b, t) ==
    /\ b.at[t] = "refused"
    /\ batches' = At(b, t, "done")
    /\ UNCHANGED <<handed, line, hostBuf, stored, plain, got, last, overlap, dropped,
                   noMem, exits>>

\* gotReply2() of Multicast: the twin is to be asked again, unless its slot is
\* one that a twin that has answered well had before: then that one is.
GotRefusal(b, t) ==
    /\ b.at[t] = "refused"
    /\ \/ batches' = At(b, t, "again") /\ UNCHANGED dropped
       \/ \E u \in Twins :
            /\ b.at[u] = "done"
            /\ batches' = (batches \ {b}) \cup
                 {[b EXCEPT !.at = [@ EXCEPT ![t] = "done", ![u] = "again"]]}
            /\ dropped' = [dropped EXCEPT ![t] = @ \cup RecsOf(b.recs)]
    /\ UNCHANGED <<handed, line, hostBuf, stored, plain, got, last, overlap, noMem, exits>>

\* The last good reply ends the Multicast: gotReplyWrapper4() hands it back,
\* and storeLineWaiters() takes the line as far as there is room.
GotReply(b, t) ==
    /\ b.at[t] = "added"
    /\ IF \A u \in Twins \ {t} : b.at[u] = "done"
       THEN Store(line, batches \ {b})
       ELSE /\ batches' = At(b, t, "done")
            /\ UNCHANGED <<line, hostBuf, stored, overlap, noMem>>
    /\ UNCHANGED <<handed, plain, got, last, dropped, exits>>

\* sleepWrapper2() of Multicast, five seconds after an error.
ResendBatch(b) ==
    /\ \E t \in Twins : b.at[t] = "again"
    /\ batches' = (batches \ {b}) \cup
         {[b EXCEPT !.at = [t \in Twins |-> IF b.at[t] = "again" THEN "sent" ELSE b.at[t]]]}
    /\ UNCHANGED <<handed, line, hostBuf, stored, plain, got, last, overlap, dropped,
                   noMem, exits>>

-----------------------------------------------------------------------------
(* Mutant: the buffer is saved, the requests are not. *)
SavedNone == {}

\* The requests of the open slots that have a callback and no reply.
Saved == UNION {{[recs |-> b.recs, to |-> t] :
                   t \in {u \in Twins : b.at[u] \in {"sent", "added", "refused"}}} :
                  b \in batches}

\* The records for a twin of requests: of some that wait to be sent again, and
\* of some that are, or were to be, sent without a callback.
RecsFor(t, waiting, sent) ==
    (UNION {RecsOf(b.recs) : b \in {c \in waiting : c.at[t] = "again"}})
      \cup (UNION {RecsOf(p.recs) : p \in {q \in sent : q.to = t}})

(***************************************************************************)
(* An orderly exit, and the restart.  saveAddsInProgress() saves the       *)
(* buffer and these requests, loadAddsInProgress() sends them again, each  *)
(* by itself, up to one that cannot be sent (of an order not known).  A    *)
(* request that waits to be sent again has no slot, one that was reloaded  *)
(* no callback: neither is saved.                                          *)
(***************************************************************************)
ExitAndRestart ==
    /\ exits < MaxExits
    /\ exits' = exits + 1
    /\ plain' \in SUBSET Saved
    /\ dropped' = [t \in Twins |->
                     dropped[t] \cup RecsFor(t, batches, plain \cup (Saved \ plain'))]
    /\ batches' = {}
    /\ line' = <<>>
    /\ overlap' = (overlap \/ Cardinality(batches) > 1)
    /\ noMem' = FALSE
    /\ UNCHANGED <<handed, hostBuf, stored, got, last>>

-----------------------------------------------------------------------------
Msg4Next == \/ AddMetaList \/ FlushLocal \/ ExitAndRestart
            \/ \E b \in batches : ResendBatch(b)
            \/ \E b \in batches, t \in Twins :
                 \/ HandleRequest4(b, t) \/ TwinRestarts(b, t)
                 \/ GotRefusal(b, t) \/ GotReply(b, t)
            \/ \E p \in plain : HandlePlain(p)

Msg4Spec == Msg4Init /\ [][Msg4Next]_m4Vars

(***************************************************************************)
(* Fairness.  Sleep callbacks come round, requests get to the twins and    *)
(* replies back (module Udp, with a timeout of years); a twin that is      *)
(* asked again and again takes the records some day and does not restart   *)
(* before each of its replies: it is what sendToGroup() hopes for.         *)
(***************************************************************************)
Takes(t) == \E b \in batches : HandleRequest4(b, t) /\ RecsOf(b.recs) \subseteq got'[t]
                               /\ [b EXCEPT !.at[t] = "added"] \in batches'
Msg4Fairness ==
    /\ WF_m4Vars(FlushLocal)
    /\ WF_m4Vars(\E b \in batches : ResendBatch(b))
    /\ SF_m4Vars(\E t \in Twins : Takes(t))
    /\ SF_m4Vars(\E b \in batches, t \in Twins : GotReply(b, t))
    /\ \A t \in Twins :
         /\ WF_m4Vars(\E b \in batches : GotRefusal(b, t))
         /\ WF_m4Vars(\E p \in plain : p.to = t /\ HandlePlain(p) /\ plain' # plain)
Msg4FairSpec == Msg4Spec /\ Msg4Fairness

-----------------------------------------------------------------------------
\* What has been stored is with each twin or on its way there: in the buffer, in
\* a request the twin has not answered, or in one that was reloaded.  A request
\* is given up for a twin in three cases only: an error that is put down to
\* another twin (Multicast.cpp:388), an exit while it waits to be sent again or
\* after it has been reloaded (Msg4.cpp:1475), and a refusal, or a failure to
\* send it, once it is reloaded (Msg4.cpp:1706).
AddsKept ==
    \A r \in stored, t \in Twins :
      \/ r \in got[t] \/ r \in dropped[t]
      \/ r \in RecsOf(hostBuf)
      \/ \E b \in batches : r \in RecsOf(b.recs) /\ b.at[t] # "done"
      \/ \E p \in plain : p.to = t /\ r \in RecsOf(p.recs)

\* Records are sent in the order in which they were handed in: no caller gets
\* past the line (Msg4.cpp:533), whether it was blocked half-way or not.
SentInOrder ==
    /\ \A i \in 1 .. Len(hostBuf \o line) - 1 : (hostBuf \o line)[i] < (hostBuf \o line)[i + 1]
    /\ \A b \in batches :
         /\ \A i \in 1 .. Len(b.recs) - 1 : b.recs[i] < b.recs[i + 1]
         /\ \A r \in RecsOf(hostBuf \o line) : b.recs[Len(b.recs)] < r

AtRest == line = <<>> /\ hostBuf = <<>> /\ batches = {} /\ plain = {}
Newest == IF stored = {} THEN 0 ELSE Max(stored)

\* When requests have not overlapped, each twin for which none was given up has
\* the newest record in the end: refusals half-way, resends and requests handled
\* twice do no harm.
NewestWins ==
    AtRest /\ ~overlap => \A t \in Twins : dropped[t] = {} => last[t] = Newest

\* A line that nobody takes up: only a reply does (storeLineWaiters()).
Stranded == noMem /\ line # <<>> /\ hostBuf = <<>> /\ batches = {}

\* Again and again each twin has all that has been stored, but for what was given
\* up, and nobody waits in the line: every record arrives, and every caller is
\* called back, unless want of memory has left the line with no request out.
AllArrive ==
    []<>(/\ line = <<>> \/ Stranded
         /\ \A t \in Twins : stored \subseteq got[t] \cup dropped[t])
=============================================================================
