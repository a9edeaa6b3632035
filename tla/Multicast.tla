----------------------------- MODULE Multicast -----------------------------
(***************************************************************************)
(* Multicast.cpp: one request for a group of twins.  "one": to the best    *)
(* host, to its twin after an error or a timeout, first good reply wins    *)
(* (sendToHostLoop(), gotReply1(), sleepWrapper1()).  "group": to all of   *)
(* them, again and again until each has answered without an error          *)
(* (sendToGroup(), gotReply2()).                                           *)
(*                                                                         *)
(* Of UdpServer it takes what module Udp shows: a request that was sent is *)
(* called back once, with a reply or with an error, unless its slot is     *)
(* destroyed.  A slot is a pointer into a pool; after its callback it is   *)
(* free, and other traffic decides which free one is given out next: it    *)
(* may be one that the Multicast still holds a pointer to.                 *)
(*                                                                         *)
(* Two branches are never taken and left out.  m_giveupOnDeadHosts is set  *)
(* to 0 at every start (main.cpp:3342) and is no parameter any more (it is *)
(* commented out at Parms.cpp:11743), and the two that send to a whole     *)
(* group, Msg1 and Msg4, give sendToSelf as true.                          *)
(***************************************************************************)
EXTENDS Integers, FiniteSets, FiniteSetsExt

CONSTANTS
    N,          \* m_numHosts
    Slots       \* the pool of m_slots of UdpServer

Hosts == 1 .. N
NoSlot == 0

ASSUME MulticastAssumption == /\ N \in Nat \ {0}
                              /\ Slots \subseteq Nat \ {0}

VARIABLES
    mode,       \* "idle" (none yet), "one", "group", "over"
    retired,    \* m_retired: hosts not to send to (any more)
    inProgress, \* m_inProgress
    slotOf,     \* m_slots, kept after the reply
    errnos,     \* the hosts with m_errnos set
    numReplies, \* m_numReplies
    sleeping,   \* m_registeredSleep
    out,        \* UdpServer: the host whose request a slot carries, or 0
    served,     \* the hosts whose handler has answered without an error
    overlooked, \* history: hosts whose error was put down to another host
    result,     \* "none", "good", "error", "refused" (send() returned false)
    calls       \* how often the callback has been called

mcVars == <<mode, retired, inProgress, slotOf, errnos, numReplies, sleeping,
            out, served, overlooked, result, calls>>

MulticastTypeOK ==
    /\ mode \in {"idle", "one", "group", "over"}
    /\ retired \subseteq Hosts
    /\ inProgress \subseteq Hosts
    /\ slotOf \in [Hosts -> Slots \cup {NoSlot}]
    /\ errnos \subseteq Hosts
    /\ numReplies \in 0 .. N
    /\ sleeping \in BOOLEAN
    /\ out \in [Slots -> Hosts \cup {0}]
    /\ {served, overlooked} \subseteq SUBSET Hosts
    /\ result \in {"none", "good", "error", "refused"}
    /\ calls \in 0 .. 2

MulticastInitIn(m) ==
    /\ mode = m
    /\ retired = {} /\ inProgress = {} /\ errnos = {}
    /\ slotOf = [h \in Hosts |-> NoSlot]
    /\ numReplies = 0
    /\ sleeping = FALSE
    /\ out = [s \in Slots |-> 0]
    /\ served = {} /\ overlooked = {}
    /\ result = "none"
    /\ calls = 0
MulticastInit == MulticastInitIn("idle")

\* getEmptyUdpSlot_ass(): the head of a list that all traffic shares.
Free == {s \in Slots : out[s] = 0}

-----------------------------------------------------------------------------
(* To one host.                                                            *)

(***************************************************************************)
(* pickBestHost(): a host not tried that is alive; one that is dead only   *)
(* when all are.  Who is dead may be different at every call.              *)
(***************************************************************************)
(* Mutant: hosts tried before are taken as well. *)
PickableAgain(tried) ==
    UNION {IF dead = Hosts THEN Hosts ELSE Hosts \ dead : dead \in SUBSET Hosts}

Pickable(tried) ==
    UNION {IF dead = Hosts THEN Hosts \ tried ELSE (Hosts \ tried) \ dead :
             dead \in SUBSET Hosts}

(***************************************************************************)
(* What a call of sendToHostLoop() may come to: some hosts for which       *)
(* sendRequest() failed ("skipped"), then a host it was sent to, or none,  *)
(* for want of hosts or of slots.                                          *)
(***************************************************************************)
LoopOutcomes ==
    LET skips == SUBSET (Hosts \ retired) IN
    (UNION {{[skipped |-> F, host |-> h] : h \in Pickable(retired \cup F)} : F \in skips})
      \cup {[skipped |-> F, host |-> 0] : F \in {G \in skips : G # {} \/ retired # {}}}

Sent(o) == o.host # 0 /\ Free # {}

\* The state after the call; sleepWrapper1() is registered once.
Launch(o) ==
    /\ retired' = retired \cup o.skipped \cup ({o.host} \ {0})
    /\ \E s \in Free :
         /\ slotOf' = [slotOf EXCEPT ![o.host] = s]
         /\ out' = [out EXCEPT ![s] = o.host]
    /\ inProgress' = inProgress \cup {o.host}
    /\ sleeping' = TRUE

\* send() without sendToWholeGroup.
SendToOne ==
    /\ mode = "idle"
    /\ \E o \in LoopOutcomes :
         \/ /\ Sent(o) /\ Launch(o)
            /\ mode' = "one" /\ UNCHANGED result
         \/ /\ ~Sent(o)
            /\ mode' = "over" /\ result' = "refused"
            /\ retired' = retired \cup o.skipped
            /\ UNCHANGED <<inProgress, slotOf, out, sleeping>>
    /\ UNCHANGED <<errnos, numReplies, served, overlooked, calls>>

\* sleepWrapper1(): the host is taken for dead, or m_redirectTimeout is over.
\* Nothing happens when there is no other host to go to.
Reroute ==
    /\ mode = "one" /\ sleeping
    /\ \E o \in LoopOutcomes :
         \/ Sent(o) /\ Launch(o)
         \/ /\ ~Sent(o)
            /\ retired' = retired \cup o.skipped
            /\ UNCHANGED <<inProgress, slotOf, out, sleeping>>
    /\ UNCHANGED <<mode, errnos, numReplies, served, overlooked, result, calls>>

(* Mutant: the twins' slots stay. *)
NoneInProgress == {}

\* destroySlotsInProgress().
SlotsInProgress == {slotOf[h] : h \in inProgress \ errnos}

\* closeUpShop() with destroySlotsInProgress(), the callback, and the end of
\* the slot that was called back.
CloseUpShop(s, r) ==
    /\ out' = [t \in Slots |-> IF t = s \/ t \in SlotsInProgress THEN 0 ELSE out[t]]
    /\ inProgress' = {}
    /\ sleeping' = FALSE
    /\ mode' = "over"
    /\ result' = r
    /\ calls' = calls + 1

Replier(s) == Min({h \in inProgress : slotOf[h] = s})

\* gotReply1() without g_errno.
GoodReply(s) ==
    /\ mode = "one" /\ out[s] # 0
    /\ served' = served \cup {out[s]}
    /\ CloseUpShop(s, "good")
    /\ UNCHANGED <<retired, slotOf, errnos, numReplies, overlooked>>

\* gotReply1() with g_errno: to the twin, unless the error is one that a twin
\* would give as well, or the time is up, or there is no twin left.
BadReply(s) ==
    /\ mode = "one" /\ out[s] # 0
    /\ errnos' = errnos \cup {Replier(s)}
    /\ \/ \E o \in LoopOutcomes :
            /\ Sent(o)
            /\ retired' = retired \cup o.skipped \cup {o.host}
            /\ \E t \in Free :
                 /\ slotOf' = [slotOf EXCEPT ![o.host] = t]
                 /\ out' = [out EXCEPT ![s] = 0, ![t] = o.host]
            /\ inProgress' = (inProgress \ {Replier(s)}) \cup {o.host}
            /\ UNCHANGED <<mode, sleeping, result, calls>>
       \/ /\ CloseUpShop(s, "error")
          /\ UNCHANGED <<retired, slotOf>>
    /\ UNCHANGED <<numReplies, served, overlooked>>

-----------------------------------------------------------------------------
(* To the whole group.                                                     *)

\* sendToGroup(): to every host not retired.  Those in failed get no slot and
\* are tried again in five seconds.
(* Mutant: to those that have answered already as well. *)
NotAsked == {h \in Hosts : slotOf[h] = NoSlot \/ out[slotOf[h]] # h}

Unretired == Hosts \ retired

SendToHosts(failed) ==
    LET to == Unretired \ failed IN
    /\ \E f \in [to -> Free] :
         /\ \A g, h \in to : g # h => f[g] # f[h]
         /\ slotOf' = [h \in Hosts |-> IF h \in to THEN f[h]
                                       ELSE IF h \in failed THEN NoSlot
                                       ELSE slotOf[h]]
         /\ out' = [s \in Slots |-> IF \E h \in to : f[h] = s
                                    THEN CHOOSE h \in to : f[h] = s
                                    ELSE out[s]]
    /\ errnos' = (errnos \ to) \cup failed
    /\ retired' = retired \cup to
    /\ sleeping' = (failed # {})

SendToGroup ==
    /\ mode = "idle"
    /\ \E failed \in SUBSET Hosts : SendToHosts(failed)
    /\ mode' = "group"
    /\ UNCHANGED <<inProgress, numReplies, served, overlooked, result, calls>>

\* sleepWrapper2().
Resend ==
    /\ mode = "group" /\ sleeping
    /\ \E failed \in SUBSET (Hosts \ retired) : SendToHosts(failed)
    /\ UNCHANGED <<mode, inProgress, numReplies, served, overlooked, result, calls>>

\* gotReply2(): the host is the first one whose slot has this pointer, though
\* it may have answered long ago and the slot be another host's by now.
(* Mutant: hosts are counted from 0. *)
MatchedBefore(s) == Min({h \in Hosts : slotOf[h] = s}) - 1

Matched(s) == Min({h \in Hosts : slotOf[h] = s})

GroupReply(s) ==
    /\ mode = "group" /\ out[s] # 0
    /\ served' = served \cup {out[s]}
    /\ out' = [out EXCEPT ![s] = 0]
    /\ errnos' = errnos \ {Matched(s)}
    /\ numReplies' = numReplies + 1
    /\ IF numReplies + 1 >= N
       THEN mode' = "over" /\ result' = "good" /\ calls' = calls + 1
       ELSE UNCHANGED <<mode, result, calls>>
    /\ UNCHANGED <<retired, inProgress, slotOf, sleeping, overlooked>>

(* Mutant: the host stays retired. *)
RetryNever(h) == retired

\* The host is one to be sent to again.
Retry(h) == retired \ {h}

GroupError(s) ==
    /\ mode = "group" /\ out[s] # 0
    /\ out' = [out EXCEPT ![s] = 0]
    /\ errnos' = errnos \cup {Matched(s)}
    /\ retired' = Retry(Matched(s))
    /\ sleeping' = TRUE
    /\ overlooked' = overlooked \cup ({out[s]} \ {Matched(s)})
    /\ UNCHANGED <<mode, inProgress, slotOf, numReplies, served, result, calls>>

-----------------------------------------------------------------------------
AnyReply(s) == GoodReply(s) \/ BadReply(s) \/ GroupReply(s) \/ GroupError(s)

MulticastNext == \/ SendToOne \/ Reroute \/ SendToGroup \/ Resend
                 \/ \E s \in Slots : AnyReply(s)

MulticastSpec == MulticastInit /\ [][MulticastNext]_mcVars

(***************************************************************************)
(* Fairness.  A slot is called back in the end (module Udp), the sleep     *)
(* callback comes every five seconds; a host that is asked again and again *)
(* answers without an error some day, and a slot is free for a request     *)
(* some day: that is what sendToGroup() hopes for as it "resends to        *)
(* host/ip's that had error forever".                                      *)
(***************************************************************************)
AllSent == Resend /\ retired' = Hosts
MulticastFairness ==
    /\ \A s \in Slots : WF_mcVars(AnyReply(s))
    /\ SF_mcVars(AllSent)
    /\ SF_mcVars(\E s \in Slots : GroupReply(s))
MulticastFairSpec == MulticastSpec /\ MulticastFairness

-----------------------------------------------------------------------------
\* A reply always finds the host it is from among those in progress: else
\* gotReply1() ends the process (Multicast.cpp:1316).
ReplyFindsHost ==
    mode = "one" =>
      \A s \in Slots : out[s] # 0 =>
        /\ \E h \in inProgress : slotOf[h] = s
        /\ Replier(s) = out[s]

\* After the callback no slot is left that would call a Multicast that is used
\* for another request by then (Multicast.cpp:1588), and the callback comes once.
NothingAfterCallback ==
    /\ mode = "over" => \A s \in Slots : out[s] = 0
    /\ calls <= 1
    /\ result = "refused" => calls = 0

\* When a group request is called back, each host has served it but for those
\* whose error was put down to a host that had the slot before: these are never
\* asked again, and a host that had answered is asked twice in their place.  No
\* other order of answers, errors, resends and reuse of slots leaves a host out.
GroupAllServed ==
    mode = "over" /\ result = "good" /\ numReplies > 0 => served \cup overlooked = Hosts

\* Every request ends: to one host whatever happens, to a group as soon as the
\* hosts answer without errors.
MulticastEnds == []<>(mode \notin {"one", "group"})
=============================================================================
