-------------------------- MODULE Multicast_proof --------------------------
(***************************************************************************)
(* A Multicast finds the host of every reply, is called back once with     *)
(* nothing left behind, and a request to a group has been served by each   *)
(* host that was not overlooked: for any number of twins and slots.        *)
(***************************************************************************)
EXTENDS Multicast, FiniteSetTheorems, WellFoundedInduction, TLAPS

-----------------------------------------------------------------------------
(* Slots and hosts point at each other.                                    *)

McTyped ==
    /\ mode \in {"idle", "one", "group", "over"}
    /\ retired \in SUBSET Hosts /\ inProgress \in SUBSET Hosts
    /\ errnos \in SUBSET Hosts /\ served \in SUBSET Hosts /\ overlooked \in SUBSET Hosts
    /\ slotOf \in [Hosts -> Slots \cup {NoSlot}]
    /\ out \in [Slots -> Hosts \cup {0}]
    /\ sleeping \in BOOLEAN
    /\ result \in {"none", "good", "error", "refused"}

\* Before the request nothing is out, afterwards too.
Quiet ==
    /\ mode = "idle" => retired = {} /\ errnos = {} /\ served = {}
                        /\ slotOf = [h \in Hosts |-> NoSlot]
    /\ mode \in {"idle", "over"} => \A s \in Slots : out[s] = 0
    /\ mode \in {"idle", "one"} => inProgress \subseteq retired /\ errnos \subseteq retired
                                /\ inProgress \cap errnos = {}
    /\ mode = "idle" => inProgress = {}

\* To one host: what is out is in progress, and the other way round.
OutInProgress ==
    /\ \A s \in Slots : out[s] # 0 => out[s] \in inProgress /\ slotOf[out[s]] = s
    /\ \A h \in inProgress : slotOf[h] \in Slots /\ out[slotOf[h]] = h
OneOut == mode = "one" => OutInProgress

\* To the group: the last slot of a host is the one its request is out on, if
\* one is, and a host that is to be asked again has none that is in use.
GroupOut ==
    mode = "group" =>
      /\ \A s \in Slots : out[s] # 0 => slotOf[out[s]] = s /\ out[s] \in retired
      /\ \A h \in Hosts \ retired : slotOf[h] # NoSlot => out[slotOf[h]] = 0

\* The hosts that are waited for no more.
Finished == {h \in retired : \A s \in Slots : out[s] # h}

\* The replies counted are as many as these hosts, and each of them has served
\* the request or had its error put down to another one.
Counted ==
    /\ mode \in {"idle", "one"} => numReplies = 0
    /\ mode = "group" => /\ numReplies = Cardinality(Finished) /\ numReplies < N
                         /\ Finished \subseteq served \cup overlooked
    /\ mode = "over" => numReplies = 0 \/ (served \cup overlooked = Hosts /\ numReplies = N)
    /\ mode # "over" => calls = 0 /\ result = "none"
    /\ calls \in {0, 1} /\ (result = "refused" => calls = 0)

McInv == McTyped /\ Quiet /\ OneOut /\ GroupOut /\ Counted

-----------------------------------------------------------------------------
LEMMA HostsAndSlots ==
    ASSUME MulticastAssumption
    PROVE  /\ N \in Nat \ {0} /\ \A h \in Hosts : h \in Nat /\ h # 0
           /\ \A s \in Slots : s \in Nat /\ s # 0
           /\ IsFiniteSet(Hosts) /\ Cardinality(Hosts) = N
  BY FS_Interval DEF MulticastAssumption, Hosts

\* The only host with a property is the first one.
LEMMA MinOfOne == ASSUME NEW h \in Nat PROVE Min({h}) = h
  BY DEF Min

\* A set of hosts that is not empty has a first one.
LEMMA MinOfHosts ==
    ASSUME MulticastAssumption, NEW S \in SUBSET Hosts, S # {}
    PROVE  Min(S) \in S
  <1> DEFINE R == {p \in Nat \X Nat : p[1] < p[2]}
  <1>1. S \subseteq Nat
    BY HostsAndSlots
  <1>2. IsWellFoundedOn(R, Nat)
    BY NatLessThanWellFounded DEF OpToRel
  <1>3. PICK x \in S : \A y \in S : ~ (<<y, x>> \in R)
    <2> HIDE DEF R
    <2> QED BY <1>1, <1>2, WFMin
  <1>4. ASSUME NEW y \in S, ~ (x <= y) PROVE FALSE
    <2>1. <<y, x>> \in R
      BY <1>1, <1>4
    <2> QED BY <2>1, <1>3
  <1> QED BY <1>4 DEF Min

LEMMA PickableHosts == \A T : Pickable(T) \subseteq Hosts \ T
  BY DEF Pickable

\* A request goes to a host that has not been tried.
LEMMA OutcomeFacts ==
    ASSUME MulticastAssumption, NEW o \in LoopOutcomes
    PROVE  /\ o.skipped \in SUBSET Hosts
           /\ o.host \in Hosts \cup {0}
           /\ o.host # 0 => o.host \in Hosts /\ o.host \notin retired \cup o.skipped
  <1> DEFINE skips == SUBSET (Hosts \ retired)
  <1>1. CASE \E F \in skips : \E h \in Pickable(retired \cup F) : o = [skipped |-> F, host |-> h]
    <2>1. PICK F \in skips : \E h \in Pickable(retired \cup F) : o = [skipped |-> F, host |-> h]
      BY <1>1
    <2>2. PICK h \in Pickable(retired \cup F) : o = [skipped |-> F, host |-> h]
      BY <2>1
    <2>3. h \in Hosts \ (retired \cup F)
      BY PickableHosts
    <2>4. o.skipped = F /\ o.host = h /\ h # 0
      BY <2>2, <2>3, HostsAndSlots
    <2> QED BY <2>3, <2>4
  <1>2. CASE \E F \in skips : o = [skipped |-> F, host |-> 0]
    <2>1. PICK F \in skips : o = [skipped |-> F, host |-> 0]
      BY <1>2
    <2>2. o.skipped = F /\ o.host = 0
      BY <2>1
    <2> QED BY <2>2
  <1>3. \/ \E F \in skips : \E h \in Pickable(retired \cup F) : o = [skipped |-> F, host |-> h]
        \/ \E F \in skips : o = [skipped |-> F, host |-> 0]
    <2> DEFINE to(F) == {[skipped |-> F, host |-> h] : h \in Pickable(retired \cup F)}
               A == {to(F) : F \in skips}
               B == {[skipped |-> F, host |-> 0] : F \in {G \in skips : G # {} \/ retired # {}}}
    <2>1. o \in UNION A \/ o \in B
      BY Zenon DEF LoopOutcomes
    <2>2. CASE o \in UNION A
      <3>1. PICK F \in skips : o \in to(F)
        BY <2>2
      <3> QED BY <3>1
    <2>3. CASE o \in B
      BY <2>3
    <2> QED BY <2>1, <2>2, <2>3
  <1> QED BY <1>1, <1>2, <1>3

-----------------------------------------------------------------------------
(* To one host.                                                            *)

\* The slot a reply comes in on is that of the one host that has sent it.
LEMMA ReplierFacts ==
    ASSUME MulticastAssumption, McTyped, OutInProgress, NEW s \in Slots, out[s] # 0
    PROVE  Replier(s) = out[s] /\ out[s] \in inProgress /\ out[s] \in Hosts
  <1>1. out[s] \in inProgress /\ slotOf[out[s]] = s /\ out[s] \in Hosts /\ out[s] \in Nat
    BY HostsAndSlots DEF OutInProgress, McTyped
  <1>2. {h \in inProgress : slotOf[h] = s} = {out[s]}
    BY <1>1 DEF OutInProgress
  <1> QED BY <1>1, <1>2, MinOfOne DEF Replier

LEMMA LaunchKeeps ==
    ASSUME MulticastAssumption, McTyped, OutInProgress, inProgress \cap errnos = {},
           inProgress \subseteq retired, errnos \subseteq retired,
           NEW o \in LoopOutcomes, Sent(o), Launch(o), UNCHANGED errnos
    PROVE  /\ retired' \in SUBSET Hosts /\ inProgress' \in SUBSET Hosts
           /\ slotOf' \in [Hosts -> Slots \cup {NoSlot}]
           /\ out' \in [Slots -> Hosts \cup {0}]
           /\ sleeping' = TRUE /\ OutInProgress'
           /\ inProgress' \subseteq retired' /\ errnos' \subseteq retired'
           /\ inProgress' \cap errnos' = {}
  <1> DEFINE h == o.host
  <1>1. h \in Hosts /\ h \notin retired /\ o.skipped \in SUBSET Hosts
    BY OutcomeFacts DEF Sent
  <1>2. PICK s \in Free : slotOf' = [slotOf EXCEPT ![h] = s] /\ out' = [out EXCEPT ![s] = h]
    BY DEF Launch
  <1>3. /\ retired' = retired \cup o.skipped \cup ({h} \ {0})
        /\ inProgress' = inProgress \cup {h} /\ sleeping' = TRUE
    BY DEF Launch
  <1> HIDE DEF h
  <1>4. s \in Slots /\ out[s] = 0 /\ h # 0
    BY <1>1, HostsAndSlots DEF Free
  <1>5. slotOf' \in [Hosts -> Slots \cup {NoSlot}] /\ out' \in [Slots -> Hosts \cup {0}]
    BY <1>1, <1>2, <1>4 DEF McTyped
  <1>6. OutInProgress'
    <2>1. ASSUME NEW t \in Slots, out'[t] # 0
          PROVE  out'[t] \in inProgress' /\ slotOf'[out'[t]] = t
      <3>1. CASE t = s
        BY <1>1, <1>2, <1>3, <1>4, <3>1 DEF McTyped
      <3>2. CASE t # s
        <4>1. out'[t] = out[t] /\ out[t] \in inProgress /\ slotOf[out[t]] = t
          BY <1>2, <2>1, <3>2 DEF McTyped, OutInProgress
        <4>2. out[t] # h
          BY <1>1, <4>1
        <4> QED BY <1>2, <1>3, <4>1, <4>2 DEF McTyped
      <3> QED BY <3>1, <3>2
    <2>2. ASSUME NEW g \in inProgress'
          PROVE  slotOf'[g] \in Slots /\ out'[slotOf'[g]] = g
      <3>1. CASE g = h
        BY <1>1, <1>2, <1>4, <3>1 DEF McTyped
      <3>2. CASE g # h
        <4>1. g \in inProgress /\ slotOf[g] \in Slots /\ out[slotOf[g]] = g /\ g \in Hosts
          BY <1>3, <2>2, <3>2 DEF OutInProgress, McTyped
        <4>2. slotOf[g] # s /\ slotOf'[g] = slotOf[g]
          BY <1>2, <1>4, <3>2, <4>1, HostsAndSlots DEF McTyped
        <4> QED BY <1>2, <4>1, <4>2 DEF McTyped
      <3> QED BY <3>1, <3>2
    <2> QED BY <2>1, <2>2 DEF OutInProgress
  <1> QED BY <1>1, <1>3, <1>4, <1>5, <1>6 DEF McTyped

\* Before the first request of a Multicast nothing is out.
LEMMA IdleOut ==
    ASSUME McTyped, Quiet, mode = "idle"
    PROVE  OutInProgress
  BY DEF Quiet, OutInProgress

LEMMA SendToOneKeeps ==
    ASSUME MulticastAssumption, McInv, SendToOne
    PROVE  McInv'
  <1>1. /\ mode = "idle" /\ McTyped /\ OutInProgress /\ inProgress = {} /\ errnos = {}
        /\ retired = {} /\ numReplies = 0 /\ calls = 0 /\ result = "none"
        /\ UNCHANGED <<errnos, numReplies, served, overlooked, calls>>
        /\ \A s \in Slots : out[s] = 0
    BY IdleOut DEF SendToOne, McInv, Quiet, Counted
  <1>2. ASSUME NEW o \in LoopOutcomes, Sent(o), Launch(o), mode' = "one", UNCHANGED result
        PROVE  McInv'
    <2>1. /\ retired' \in SUBSET Hosts /\ inProgress' \in SUBSET Hosts
          /\ slotOf' \in [Hosts -> Slots \cup {NoSlot}]
          /\ out' \in [Slots -> Hosts \cup {0}]
          /\ sleeping' = TRUE /\ OutInProgress'
          /\ inProgress' \subseteq retired' /\ errnos' \subseteq retired'
          /\ inProgress' \cap errnos' = {}
      BY <1>1, <1>2, LaunchKeeps
    <2>2. McTyped'
      BY <1>1, <1>2, <2>1 DEF McTyped, Hosts
    <2>3. Quiet' /\ OneOut' /\ GroupOut' /\ Counted'
      BY <1>1, <1>2, <2>1 DEF Quiet, OneOut, GroupOut, Counted
    <2> QED BY <2>2, <2>3 DEF McInv
  <1>3. ASSUME NEW o \in LoopOutcomes, mode' = "over", result' = "refused",
               retired' = retired \cup o.skipped,
               UNCHANGED <<inProgress, slotOf, out, sleeping>>
        PROVE  McInv'
    <2>1. o.skipped \in SUBSET Hosts
      BY OutcomeFacts
    <2>2. McTyped'
      BY <1>1, <1>3, <2>1 DEF McTyped, Hosts
    <2>3. Quiet' /\ OneOut' /\ GroupOut' /\ Counted'
      BY <1>1, <1>3 DEF Quiet, OneOut, GroupOut, Counted
    <2> QED BY <2>2, <2>3 DEF McInv
  <1> QED BY <1>2, <1>3 DEF SendToOne

LEMMA RerouteKeeps ==
    ASSUME MulticastAssumption, McInv, Reroute
    PROVE  McInv'
  <1>1. /\ mode = "one" /\ McTyped /\ OutInProgress /\ inProgress \cap errnos = {}
        /\ inProgress \subseteq retired /\ errnos \subseteq retired
        /\ UNCHANGED <<mode, errnos, numReplies, served, overlooked, result, calls>>
    BY DEF Reroute, McInv, Quiet, OneOut
  <1>2. ASSUME NEW o \in LoopOutcomes, Sent(o), Launch(o)
        PROVE  McInv'
    <2>1. /\ retired' \in SUBSET Hosts /\ inProgress' \in SUBSET Hosts
          /\ slotOf' \in [Hosts -> Slots \cup {NoSlot}]
          /\ out' \in [Slots -> Hosts \cup {0}]
          /\ sleeping' = TRUE /\ OutInProgress'
          /\ inProgress' \subseteq retired' /\ errnos' \subseteq retired'
          /\ inProgress' \cap errnos' = {}
      BY <1>1, <1>2, LaunchKeeps
    <2>2. McTyped'
      BY <1>1, <2>1 DEF McTyped, Hosts
    <2>3. Quiet' /\ OneOut' /\ GroupOut' /\ Counted'
      BY <1>1, <2>1 DEF McInv, Quiet, OneOut, GroupOut, Counted
    <2> QED BY <2>2, <2>3 DEF McInv
  <1>3. ASSUME NEW o \in LoopOutcomes, retired' = retired \cup o.skipped,
               UNCHANGED <<inProgress, slotOf, out, sleeping>>
        PROVE  McInv'
    <2>1. o.skipped \in SUBSET Hosts
      BY OutcomeFacts
    <2>2. McTyped'
      BY <1>1, <1>3, <2>1 DEF McTyped, Hosts
    <2>3. Quiet' /\ OneOut' /\ GroupOut' /\ Counted'
      BY <1>1, <1>3 DEF McInv, Quiet, OneOut, OutInProgress, GroupOut, Counted
    <2> QED BY <2>2, <2>3 DEF McInv
  <1> QED BY <1>2, <1>3 DEF Reroute


\* closeUpShop() leaves nothing out.
LEMMA ShopIsClosed ==
    ASSUME MulticastAssumption, McTyped, OutInProgress, inProgress \cap errnos = {},
           NEW s \in Slots,
           out' = [t \in Slots |-> IF t = s \/ t \in SlotsInProgress THEN 0 ELSE out[t]]
    PROVE  \A t \in Slots : out'[t] = 0
  <1> SUFFICES ASSUME NEW t \in Slots, out[t] # 0 PROVE t \in SlotsInProgress
    OBVIOUS
  <1>1. out[t] \in inProgress \ errnos /\ slotOf[out[t]] = t
    BY DEF OutInProgress
  <1> QED BY <1>1 DEF SlotsInProgress


LEMMA GoodReplyKeeps ==
    ASSUME MulticastAssumption, McInv, NEW s \in Slots, GoodReply(s)
    PROVE  McInv'
  <1>1. /\ mode = "one" /\ out[s] # 0 /\ McTyped /\ OutInProgress /\ inProgress \cap errnos = {}
        /\ numReplies = 0 /\ calls = 0
        /\ served' = served \cup {out[s]}
        /\ UNCHANGED <<retired, slotOf, errnos, numReplies, overlooked>>
    BY DEF GoodReply, McInv, Quiet, OneOut, Counted
  <1>2. /\ out' = [t \in Slots |-> IF t = s \/ t \in SlotsInProgress THEN 0 ELSE out[t]]
        /\ inProgress' = {} /\ sleeping' = FALSE /\ mode' = "over"
        /\ result' = "good" /\ calls' = calls + 1
    BY DEF GoodReply, CloseUpShop
  <1>3. out[s] \in Hosts
    BY <1>1, ReplierFacts
  <1>4. \A t \in Slots : out'[t] = 0
    BY <1>1, <1>2, ShopIsClosed
  <1>5. out' \in [Slots -> Hosts \cup {0}]
    BY <1>1, <1>2 DEF McTyped
  <1>6. McTyped'
    BY <1>1, <1>2, <1>3, <1>5 DEF McTyped, Hosts
  <1>7. Quiet' /\ OneOut' /\ GroupOut' /\ Counted'
    BY <1>1, <1>2, <1>4 DEF Quiet, OneOut, GroupOut, Counted
  <1> QED BY <1>6, <1>7 DEF McInv

LEMMA BadReplyKeeps ==
    ASSUME MulticastAssumption, McInv, NEW s \in Slots, BadReply(s)
    PROVE  McInv'
  <1> DEFINE r == Replier(s)
  <1>1. /\ mode = "one" /\ out[s] # 0 /\ McTyped /\ OutInProgress /\ inProgress \cap errnos = {}
        /\ inProgress \subseteq retired /\ errnos \subseteq retired
        /\ numReplies = 0 /\ calls = 0 /\ result = "none"
        /\ errnos' = errnos \cup {r}
        /\ UNCHANGED <<numReplies, served, overlooked>>
    BY DEF BadReply, McInv, Quiet, OneOut, Counted
  <1>2. r = out[s] /\ r \in inProgress /\ r \in Hosts /\ slotOf[r] = s /\ r # 0
    BY <1>1, ReplierFacts DEF OutInProgress
  <1> HIDE DEF r
  <1>3. errnos' \in SUBSET Hosts
    BY <1>1, <1>2 DEF McTyped
  <1>4. ASSUME CloseUpShop(s, "error"), UNCHANGED <<retired, slotOf>>
        PROVE  McInv'
    <2>1. /\ out' = [t \in Slots |-> IF t = s \/ t \in SlotsInProgress THEN 0 ELSE out[t]]
          /\ inProgress' = {} /\ sleeping' = FALSE /\ mode' = "over"
          /\ result' = "error" /\ calls' = calls + 1
      BY <1>4 DEF CloseUpShop
    <2>2. \A t \in Slots : out'[t] = 0
      BY <1>1, <2>1, ShopIsClosed
    <2>3. out' \in [Slots -> Hosts \cup {0}]
      BY <1>1, <2>1 DEF McTyped
    <2>4. McTyped'
      BY <1>1, <1>3, <1>4, <2>1, <2>3 DEF McTyped, Hosts
    <2>5. Quiet' /\ OneOut' /\ GroupOut' /\ Counted'
      BY <1>1, <2>1, <2>2 DEF Quiet, OneOut, GroupOut, Counted
    <2> QED BY <2>4, <2>5 DEF McInv
  <1>5. ASSUME NEW o \in LoopOutcomes, Sent(o), retired' = retired \cup o.skipped \cup {o.host},
               NEW t \in Free, slotOf' = [slotOf EXCEPT ![o.host] = t],
               out' = [out EXCEPT ![s] = 0, ![t] = o.host],
               inProgress' = (inProgress \ {r}) \cup {o.host},
               UNCHANGED <<mode, sleeping, result, calls>>
        PROVE  McInv'
    <2> DEFINE h == o.host
    <2>1. h \in Hosts /\ h \notin retired /\ o.skipped \in SUBSET Hosts
      BY <1>5, OutcomeFacts DEF Sent
    <2>2. t \in Slots /\ out[t] = 0 /\ t # s /\ h # r /\ h # 0
      BY <1>1, <1>2, <2>1, HostsAndSlots DEF Free
    <2>3. slotOf' = [slotOf EXCEPT ![h] = t] /\ out' = [out EXCEPT ![s] = 0, ![t] = h]
          /\ inProgress' = (inProgress \ {r}) \cup {h}
          /\ retired' = retired \cup o.skipped \cup {h}
      BY <1>5
    <2> HIDE DEF h
    <2>4. slotOf' \in [Hosts -> Slots \cup {NoSlot}] /\ out' \in [Slots -> Hosts \cup {0}]
      BY <1>1, <2>1, <2>2, <2>3 DEF McTyped
    <2>5. McTyped'
      BY <1>1, <1>2, <1>3, <1>5, <2>1, <2>3, <2>4 DEF McTyped, Hosts
    <2>6. ASSUME NEW u \in Slots, out'[u] # 0
          PROVE  out'[u] \in inProgress' /\ slotOf'[out'[u]] = u
      <3>1. CASE u = t
        BY <1>1, <2>1, <2>2, <2>3, <3>1 DEF McTyped
      <3>2. CASE u = s
        BY <1>1, <2>2, <2>3, <2>6, <3>2 DEF McTyped
      <3>3. CASE u # t /\ u # s
        <4>1. out'[u] = out[u] /\ out[u] \in inProgress /\ slotOf[out[u]] = u
          BY <1>1, <2>3, <2>6, <3>3 DEF McTyped, OutInProgress
        <4>2. out[u] # h /\ out[u] # r
          BY <1>1, <1>2, <2>1, <3>3, <4>1
        <4> QED BY <1>1, <2>3, <4>1, <4>2 DEF McTyped
      <3> QED BY <3>1, <3>2, <3>3
    <2>7. ASSUME NEW g \in inProgress'
          PROVE  slotOf'[g] \in Slots /\ out'[slotOf'[g]] = g
      <3>1. CASE g = h
        BY <1>1, <2>1, <2>2, <2>3, <3>1 DEF McTyped
      <3>2. CASE g # h
        <4>1. g \in inProgress /\ g # r /\ slotOf[g] \in Slots /\ out[slotOf[g]] = g /\ g \in Hosts
          BY <1>1, <2>3, <2>7, <3>2 DEF OutInProgress, McTyped
        <4>2. slotOf[g] # s /\ slotOf[g] # t /\ slotOf'[g] = slotOf[g]
          BY <1>1, <1>2, <2>2, <2>3, <3>2, <4>1, HostsAndSlots DEF McTyped
        <4> QED BY <1>1, <2>3, <4>1, <4>2 DEF McTyped
      <3> QED BY <3>1, <3>2
    <2>8. OutInProgress'
      BY <2>6, <2>7 DEF OutInProgress
    <2>9. inProgress' \subseteq retired' /\ errnos' \subseteq retired' /\ inProgress' \cap errnos' = {}
      BY <1>1, <1>2, <2>1, <2>2, <2>3
    <2>10. Quiet' /\ OneOut' /\ GroupOut' /\ Counted'
      BY <1>1, <1>5, <2>8, <2>9 DEF Quiet, OneOut, GroupOut, Counted
    <2> QED BY <2>5, <2>10 DEF McInv
  <1> QED
    <2>1. (\E o \in LoopOutcomes :
            /\ Sent(o)
            /\ retired' = retired \cup o.skipped \cup {o.host}
            /\ \E t \in Free : /\ slotOf' = [slotOf EXCEPT ![o.host] = t]
                               /\ out' = [out EXCEPT ![s] = 0, ![t] = o.host]
            /\ inProgress' = (inProgress \ {r}) \cup {o.host}
            /\ UNCHANGED <<mode, sleeping, result, calls>>)
          \/ (CloseUpShop(s, "error") /\ UNCHANGED <<retired, slotOf>>)
      BY DEF BadReply, r
    <2> QED BY <1>4, <1>5, <2>1

-----------------------------------------------------------------------------
(* To the whole group.                                                     *)

\* gotReply2() finds a host: the one whose request the slot carries, or one
\* that is waited for no more.
LEMMA MatchedFacts ==
    ASSUME MulticastAssumption, McTyped, GroupOut, mode = "group", NEW s \in Slots, out[s] # 0
    PROVE  /\ out[s] \in Hosts /\ slotOf[out[s]] = s /\ out[s] \in retired
           /\ Matched(s) \in Hosts /\ slotOf[Matched(s)] = s
           /\ Matched(s) # out[s] => Matched(s) \in Finished
  <1>1. slotOf[out[s]] = s /\ out[s] \in Hosts /\ out[s] \in retired
    BY HostsAndSlots DEF GroupOut, McTyped
  <1> DEFINE S == {h \in Hosts : slotOf[h] = s}
  <1>2. Matched(s) \in S
    BY <1>1, MinOfHosts DEF Matched
  <1>3. ASSUME Matched(s) # out[s]
        PROVE  Matched(s) \in Finished
    <2>1. Matched(s) \in retired
      BY <1>2, HostsAndSlots DEF GroupOut, NoSlot
    <2>2. ASSUME NEW t \in Slots, out[t] = Matched(s)
          PROVE  FALSE
      <3>1. slotOf[Matched(s)] = t
        BY <1>2, <2>2, HostsAndSlots DEF GroupOut
      <3> QED BY <1>2, <1>3, <2>2, <3>1
    <2> QED BY <2>1, <2>2 DEF Finished
  <1> QED BY <1>1, <1>2, <1>3

\* A (re)send gives every host that is not retired a slot of its own.
LEMMA SendToHostsKeeps ==
    ASSUME MulticastAssumption, McTyped, NEW failed \in SUBSET (Hosts \ retired),
           SendToHosts(failed), GroupOut, Quiet,
           mode \in {"idle", "group"}, mode' = "group"
    PROVE  /\ retired' \in SUBSET Hosts /\ errnos' \in SUBSET Hosts
           /\ slotOf' \in [Hosts -> Slots \cup {NoSlot}]
           /\ out' \in [Slots -> Hosts \cup {0}]
           /\ sleeping' \in BOOLEAN /\ GroupOut'
           /\ Finished' = Finished
  <1> DEFINE to == Unretired \ failed
  <1>1. /\ to = (Hosts \ retired) \ failed /\ to \subseteq Hosts
        /\ retired' = retired \cup to
        /\ errnos' = (errnos \ to) \cup failed
        /\ sleeping' = (failed # {})
    BY DEF SendToHosts, Unretired
  <1>2. PICK f \in [to -> Free] :
          /\ \A g, h \in to : g # h => f[g] # f[h]
          /\ slotOf' = [h \in Hosts |-> IF h \in to THEN f[h]
                                        ELSE IF h \in failed THEN NoSlot
                                        ELSE slotOf[h]]
          /\ out' = [s \in Slots |-> IF \E h \in to : f[h] = s
                                     THEN CHOOSE h \in to : f[h] = s
                                     ELSE out[s]]
    BY DEF SendToHosts
  <1>3. \A s \in Slots : out[s] # 0 => slotOf[out[s]] = s /\ out[s] \in retired
    <2>1. CASE GroupOut /\ mode = "group"
      BY <2>1 DEF GroupOut
    <2>2. CASE mode = "idle"
      BY <2>2 DEF Quiet
    <2> QED BY <2>1, <2>2
  <1> HIDE DEF to
  <1>4. \A h \in to : f[h] \in Slots /\ out[f[h]] = 0
    BY <1>2 DEF Free
  <1>5. \A h \in to : slotOf'[h] = f[h] /\ out'[f[h]] = h
    <2> SUFFICES ASSUME NEW h \in to PROVE slotOf'[h] = f[h] /\ out'[f[h]] = h
      OBVIOUS
    <2>1. slotOf'[h] = f[h]
      BY <1>1, <1>2
    <2>2. out'[f[h]] = CHOOSE g \in to : f[g] = f[h]
      BY <1>2, <1>4
    <2>3. (CHOOSE g \in to : f[g] = f[h]) = h
      BY <1>2
    <2> QED BY <2>1, <2>2, <2>3
  <1>6. \A s \in Slots : (\A h \in to : f[h] # s) => out'[s] = out[s]
    BY <1>2
  <1>7. slotOf' \in [Hosts -> Slots \cup {NoSlot}]
    BY <1>2, <1>4 DEF McTyped
  <1>8. out' \in [Slots -> Hosts \cup {0}]
    <2>1. \A s \in Slots : out'[s] \in Hosts \cup {0}
      BY <1>1, <1>4, <1>5, <1>6 DEF McTyped
    <2>2. out' = [s \in Slots |-> out'[s]]
      BY <1>2
    <2> QED BY <2>1, <2>2
  <1>9. ASSUME NEW s \in Slots, out'[s] # 0
        PROVE  slotOf'[out'[s]] = s /\ out'[s] \in retired'
    <2>1. CASE \E h \in to : f[h] = s
      <3>1. PICK h \in to : f[h] = s
        BY <2>1
      <3> QED BY <1>1, <1>5, <3>1
    <2>2. CASE \A h \in to : f[h] # s
      <3>1. out'[s] = out[s] /\ out[s] \in retired /\ slotOf[out[s]] = s /\ out[s] \in Hosts
        BY <1>3, <1>6, <1>9, <2>2 DEF McTyped
      <3>2. out[s] \notin to /\ out[s] \notin failed
        BY <1>1, <3>1
      <3> QED BY <1>1, <1>2, <3>1, <3>2
    <2> QED BY <2>1, <2>2
  <1>10. \A h \in Hosts \ retired' : slotOf'[h] = NoSlot
    BY <1>1, <1>2
  <1>11. GroupOut'
    BY <1>9, <1>10 DEF GroupOut
  <1>12. Finished' = Finished
    <2>1. ASSUME NEW h \in Finished
          PROVE  h \in Finished'
      <3>1. h \in retired /\ h \notin to /\ \A s \in Slots : out[s] # h
        BY <1>1, <2>1 DEF Finished
      <3>2. \A s \in Slots : out'[s] # h
        BY <1>5, <1>6, <3>1
      <3> QED BY <1>1, <3>1, <3>2 DEF Finished
    <2>2. ASSUME NEW h \in Finished'
          PROVE  h \in Finished
      <3>1. h \in retired' /\ \A s \in Slots : out'[s] # h
        BY <2>2 DEF Finished
      <3>2. h \notin to
        BY <1>4, <1>5, <3>1
      <3>3. h \in retired
        BY <1>1, <3>1, <3>2
      <3>4. ASSUME NEW s \in Slots, out[s] = h
            PROVE  FALSE
        <4>1. h # 0
          BY <3>3, HostsAndSlots DEF McTyped
        <4>2. out'[s] = h
          BY <1>4, <1>6, <3>4, <4>1
        <4> QED BY <3>1, <4>2
      <3> QED BY <3>3, <3>4 DEF Finished
    <2> QED BY <2>1, <2>2
  <1> QED BY <1>1, <1>7, <1>8, <1>11, <1>12 DEF McTyped

LEMMA SendToGroupKeeps ==
    ASSUME MulticastAssumption, McInv, SendToGroup \/ Resend
    PROVE  McInv'
  <1>1. PICK failed \in SUBSET (Hosts \ retired) : SendToHosts(failed)
    BY DEF SendToGroup, Resend, McInv, Quiet
  <1>2. /\ mode \in {"idle", "group"} /\ mode' = "group"
        /\ GroupOut /\ Quiet /\ McTyped
        /\ UNCHANGED <<inProgress, numReplies, served, overlooked, result, calls>>
    BY DEF SendToGroup, Resend, McInv
  <1>3. /\ retired' \in SUBSET Hosts /\ errnos' \in SUBSET Hosts
        /\ slotOf' \in [Hosts -> Slots \cup {NoSlot}]
        /\ out' \in [Slots -> Hosts \cup {0}]
        /\ sleeping' \in BOOLEAN /\ GroupOut'
        /\ Finished' = Finished
    BY <1>1, <1>2, SendToHostsKeeps
  <1>4. McTyped'
    BY <1>2, <1>3 DEF McTyped, Hosts
  <1>5. Counted'
    <2>1. CASE mode = "idle"
      <3>1. Finished = {} /\ numReplies = 0
        BY <1>2, <2>1 DEF Finished, Quiet, McInv, Counted
      <3> QED BY <1>2, <1>3, <2>1, <3>1, HostsAndSlots, FS_EmptySet DEF McInv, Counted
    <2>2. CASE mode = "group"
      BY <1>2, <1>3, <2>2 DEF McInv, Counted
    <2> QED BY <1>2, <2>1, <2>2
  <1>6. Quiet' /\ OneOut'
    BY <1>2 DEF Quiet, OneOut
  <1> QED BY <1>3, <1>4, <1>5, <1>6 DEF McInv

\* A host that is waited for no more is one more of them.
LEMMA OneMoreFinished ==
    ASSUME MulticastAssumption, McTyped, GroupOut, mode = "group",
           NEW s \in Slots, out[s] # 0, out' = [out EXCEPT ![s] = 0]
    PROVE  /\ out' \in [Slots -> Hosts \cup {0}]
           /\ out[s] \notin Finished
           /\ \A t \in Slots : out'[t] # 0 => t # s /\ out'[t] = out[t] /\ out[t] # out[s]
           /\ \A h \in Hosts : (\A t \in Slots : out'[t] # h) <=> h = out[s] \/ \A t \in Slots : out[t] # h
  <1>1. out' \in [Slots -> Hosts \cup {0}] /\ out'[s] = 0 /\ \A t \in Slots : t # s => out'[t] = out[t]
    BY DEF McTyped
  <1>2. \A t \in Slots : out[t] = out[s] => t = s
    BY DEF GroupOut
  <1>3. \A h \in Hosts : h # 0
    BY HostsAndSlots
  <1> QED BY <1>1, <1>2, <1>3 DEF Finished

LEMMA GroupReplyKeeps ==
    ASSUME MulticastAssumption, McInv, NEW s \in Slots, GroupReply(s)
    PROVE  McInv'
  <1> DEFINE r == out[s]
  <1>1. /\ mode = "group" /\ out[s] # 0 /\ McTyped /\ GroupOut
        /\ numReplies = Cardinality(Finished) /\ numReplies < N /\ calls = 0 /\ result = "none"
        /\ Finished \subseteq served \cup overlooked
        /\ served' = served \cup {r}
        /\ out' = [out EXCEPT ![s] = 0]
        /\ errnos' = errnos \ {Matched(s)}
        /\ numReplies' = numReplies + 1
        /\ UNCHANGED <<retired, inProgress, slotOf, sleeping, overlooked>>
    BY DEF GroupReply, McInv, Counted
  <1>2. r \in Hosts /\ slotOf[r] = s /\ r \in retired
    BY <1>1, MatchedFacts
  <1>3. /\ out' \in [Slots -> Hosts \cup {0}]
        /\ r \notin Finished
        /\ \A t \in Slots : out'[t] # 0 => t # s /\ out'[t] = out[t] /\ out[t] # r
        /\ \A h \in Hosts : (\A t \in Slots : out'[t] # h) <=> h = r \/ \A t \in Slots : out[t] # h
    BY <1>1, OneMoreFinished
  <1> HIDE DEF r
  <1>4. Finished' = Finished \cup {r}
    BY <1>1, <1>2, <1>3 DEF Finished, McTyped
  <1>5. /\ Finished' \in SUBSET Hosts /\ IsFiniteSet(Finished')
        /\ numReplies \in Nat
        /\ Cardinality(Finished') = numReplies + 1
    <2>1. Finished \in SUBSET Hosts
      BY <1>1 DEF McTyped, Finished
    <2>2. IsFiniteSet(Finished) /\ Cardinality(Finished) \in Nat
      BY <2>1, HostsAndSlots, FS_Subset, FS_CardinalityType
    <2>3. IsFiniteSet(Finished') /\ Cardinality(Finished') = Cardinality(Finished) + 1
      BY <1>3, <1>4, <2>2, FS_AddElement
    <2> QED BY <1>1, <1>2, <1>4, <2>1, <2>2, <2>3
  <1>6. Finished' \subseteq served' \cup overlooked'
    BY <1>1, <1>4
  <1>7. CASE numReplies + 1 >= N
    <2>1. mode' = "over" /\ result' = "good" /\ calls' = calls + 1
      BY <1>7 DEF GroupReply
    <2>2. numReplies' = N /\ Finished' = Hosts
      BY <1>1, <1>5, <1>7, HostsAndSlots, FS_Subset
    <2>3. \A t \in Slots : out'[t] = 0
      BY <1>3, <2>2 DEF Finished
    <2>4. McTyped'
      BY <1>1, <1>2, <1>3, <2>1 DEF McTyped, Hosts
    <2>5. Counted'
      <3>1. served' \cup overlooked' = Hosts'
        BY <1>6, <2>2, <2>4 DEF McTyped, Hosts
      <3> QED BY <1>1, <2>1, <2>2, <3>1 DEF Counted
    <2>6. Quiet' /\ OneOut' /\ GroupOut'
      BY <2>1, <2>3 DEF Quiet, OneOut, GroupOut
    <2> QED BY <2>4, <2>5, <2>6 DEF McInv
  <1>8. CASE ~(numReplies + 1 >= N)
    <2>1. UNCHANGED <<mode, result, calls>>
      BY <1>8 DEF GroupReply
    <2>2. McTyped'
      BY <1>1, <1>2, <1>3, <2>1 DEF McTyped, Hosts
    <2>3. Counted'
      BY <1>1, <1>5, <1>6, <1>8, <2>1, HostsAndSlots DEF Counted
    <2>4. GroupOut'
      <3>1. \A t \in Slots : out'[t] # 0 => slotOf'[out'[t]] = t /\ out'[t] \in retired'
        BY <1>1, <1>3 DEF GroupOut
      <3>2. \A h \in Hosts \ retired' : slotOf'[h] # NoSlot => out'[slotOf'[h]] = 0
        BY <1>1 DEF GroupOut, McTyped
      <3> QED BY <3>1, <3>2 DEF GroupOut, Hosts, NoSlot
    <2>5. Quiet' /\ OneOut'
      BY <1>1, <2>1 DEF Quiet, OneOut
    <2> QED BY <2>2, <2>3, <2>4, <2>5 DEF McInv
  <1> QED BY <1>7, <1>8

LEMMA GroupErrorKeeps ==
    ASSUME MulticastAssumption, McInv, NEW s \in Slots, GroupError(s)
    PROVE  McInv'
  <1> DEFINE r == out[s]
             m == Matched(s)
  <1>1. /\ mode = "group" /\ out[s] # 0 /\ McTyped /\ GroupOut
        /\ out' = [out EXCEPT ![s] = 0]
        /\ errnos' = errnos \cup {m}
        /\ retired' = retired \ {m}
        /\ sleeping' = TRUE
        /\ overlooked' = overlooked \cup ({r} \ {m})
        /\ UNCHANGED <<mode, inProgress, slotOf, numReplies, served, result, calls>>
        /\ numReplies = Cardinality(Finished) /\ Finished \subseteq served \cup overlooked
    BY DEF GroupError, Retry, McInv, Counted
  <1>2. /\ r \in Hosts /\ slotOf[r] = s /\ r \in retired
        /\ m \in Hosts /\ slotOf[m] = s /\ (m # r => m \in Finished)
    BY <1>1, MatchedFacts
  <1>3. /\ out' \in [Slots -> Hosts \cup {0}]
        /\ r \notin Finished
        /\ \A t \in Slots : out'[t] # 0 => t # s /\ out'[t] = out[t] /\ out[t] # r
        /\ \A h \in Hosts : (\A t \in Slots : out'[t] # h) <=> h = r \/ \A t \in Slots : out[t] # h
    BY <1>1, OneMoreFinished
  <1> HIDE DEF r, m
  <1>4. Finished' = (Finished \cup {r}) \ {m}
    BY <1>1, <1>2, <1>3 DEF Finished, McTyped
  <1>5. Cardinality(Finished') = Cardinality(Finished)
    <2>1. CASE m = r
      BY <1>3, <1>4, <2>1
    <2>2. CASE m # r
      <3>1. Finished \in SUBSET Hosts
        BY <1>1 DEF McTyped, Finished
      <3>2. IsFiniteSet(Finished) /\ Cardinality(Finished) \in Nat
        BY <3>1, HostsAndSlots, FS_Subset, FS_CardinalityType
      <3>3. IsFiniteSet(Finished \cup {r}) /\ Cardinality(Finished \cup {r}) = Cardinality(Finished) + 1
        BY <1>3, <3>2, FS_AddElement
      <3>4. Cardinality((Finished \cup {r}) \ {m}) = Cardinality(Finished \cup {r}) - 1
        BY <1>2, <2>2, <3>3, FS_RemoveElement
      <3> QED BY <1>4, <3>2, <3>3, <3>4
    <2> QED BY <2>1, <2>2
  <1>6. Finished' \subseteq served' \cup overlooked'
    BY <1>1, <1>4
  <1>7. McTyped'
    BY <1>1, <1>2, <1>3 DEF McTyped, Hosts
  <1>8. GroupOut'
    <2>1. ASSUME NEW t \in Slots, out'[t] # 0
          PROVE  slotOf'[out'[t]] = t /\ out'[t] \in retired'
      <3>1. t # s /\ out'[t] = out[t] /\ slotOf[out[t]] = t /\ out[t] \in retired
        BY <1>1, <1>3, <2>1 DEF GroupOut
      <3> QED BY <1>1, <1>2, <3>1
    <2>2. ASSUME NEW h \in Hosts \ retired', slotOf'[h] # NoSlot
          PROVE  out'[slotOf'[h]] = 0
      <3>1. CASE h = m
        BY <1>1, <1>2, <3>1 DEF McTyped
      <3>2. CASE h # m
        <4>1. out[slotOf[h]] = 0 /\ slotOf[h] \in Slots
          BY <1>1, <2>2, <3>2 DEF GroupOut, McTyped
        <4> QED BY <1>1, <4>1 DEF McTyped
      <3> QED BY <3>1, <3>2
    <2> QED BY <2>1, <2>2 DEF GroupOut, Hosts, NoSlot
  <1>9. Quiet' /\ OneOut' /\ Counted'
    BY <1>1, <1>5, <1>6 DEF McInv, Quiet, OneOut, Counted
  <1> QED BY <1>7, <1>8, <1>9 DEF McInv

-----------------------------------------------------------------------------
(* The invariant and what it gives.                                        *)

LEMMA McInvInit == ASSUME MulticastAssumption, MulticastInit PROVE McInv
  <1>1. McTyped
    BY DEF MulticastInit, MulticastInitIn, McTyped
  <1>2. Quiet /\ OneOut /\ GroupOut /\ Counted
    BY DEF MulticastInit, MulticastInitIn, Quiet, OneOut, GroupOut, Counted
  <1> QED BY <1>1, <1>2 DEF McInv

LEMMA McInvStep ==
    ASSUME MulticastAssumption, McInv, [MulticastNext]_mcVars
    PROVE  McInv'
  <1>1. CASE SendToOne
    BY <1>1, SendToOneKeeps
  <1>2. CASE Reroute
    BY <1>2, RerouteKeeps
  <1>3. CASE SendToGroup \/ Resend
    BY <1>3, SendToGroupKeeps
  <1>4. ASSUME NEW s \in Slots, AnyReply(s)
        PROVE  McInv'
    <2>1. CASE GoodReply(s)
      BY <2>1, GoodReplyKeeps
    <2>2. CASE BadReply(s)
      BY <2>2, BadReplyKeeps
    <2>3. CASE GroupReply(s)
      BY <2>3, GroupReplyKeeps
    <2>4. CASE GroupError(s)
      BY <2>4, GroupErrorKeeps
    <2> QED BY <1>4, <2>1, <2>2, <2>3, <2>4 DEF AnyReply
  <1>5. CASE UNCHANGED mcVars
    <2>1. UNCHANGED <<mode, retired, inProgress, slotOf, errnos, numReplies, sleeping,
                      out, served, overlooked, result, calls>>
      BY <1>5 DEF mcVars
    <2>2. McTyped'
      BY <2>1 DEF McInv, McTyped, Hosts
    <2>3. Quiet' /\ OneOut' /\ Counted'
      BY <2>1 DEF McInv, Quiet, OneOut, OutInProgress, Counted, Finished, Hosts
    <2>4. GroupOut'
      BY <2>1 DEF McInv, GroupOut
    <2> QED BY <2>2, <2>3, <2>4 DEF McInv
  <1> QED BY <1>1, <1>2, <1>3, <1>4, <1>5 DEF MulticastNext

LEMMA McInvGives ==
    ASSUME MulticastAssumption, McInv
    PROVE  MulticastTypeOK /\ ReplyFindsHost /\ NothingAfterCallback /\ GroupAllServed
  <1>1. numReplies \in 0 .. N
    <2>1. CASE mode = "group"
      <3>1. Finished \in SUBSET Hosts
        BY DEF McInv, McTyped, Finished
      <3>2. Cardinality(Finished) \in Nat
        BY <3>1, HostsAndSlots, FS_Subset, FS_CardinalityType
      <3> QED BY <2>1, <3>2, HostsAndSlots DEF McInv, Counted
    <2>2. CASE mode # "group"
      BY <2>2, HostsAndSlots DEF McInv, McTyped, Counted
    <2> QED BY <2>1, <2>2
  <1>2. MulticastTypeOK
    BY <1>1 DEF McInv, McTyped, Counted, MulticastTypeOK
  <1>3. ReplyFindsHost
    <2> SUFFICES ASSUME mode = "one", NEW s \in Slots, out[s] # 0
                 PROVE  (\E h \in inProgress : slotOf[h] = s) /\ Replier(s) = out[s]
      BY DEF ReplyFindsHost
    <2>1. McTyped /\ OutInProgress
      BY DEF McInv, OneOut
    <2> QED BY <2>1, ReplierFacts DEF OutInProgress
  <1>4. NothingAfterCallback /\ GroupAllServed
    BY DEF McInv, Quiet, Counted, NothingAfterCallback, GroupAllServed
  <1> QED BY <1>2, <1>3, <1>4

THEOREM McInvHolds ==
    ASSUME MulticastAssumption
    PROVE  MulticastSpec => []McInv
  <1>1. MulticastInit => McInv
    BY McInvInit
  <1>2. McInv /\ [MulticastNext]_mcVars => McInv'
    BY McInvStep
  <1> QED BY <1>1, <1>2, PTL DEF MulticastSpec

\* The state of a Multicast is what its fields allow at every step.
THEOREM MulticastTypeCorrect ==
    ASSUME MulticastAssumption
    PROVE  MulticastSpec => []MulticastTypeOK
  <1>1. McInv => MulticastTypeOK
    BY McInvGives
  <1> QED BY <1>1, McInvHolds, PTL

\* The slot of every reply to gotReply1() is that of one host in progress, the
\* one the reply is from: its die-if-not-found is never reached.
THEOREM EveryReplyFindsHost ==
    ASSUME MulticastAssumption
    PROVE  MulticastSpec => []ReplyFindsHost
  <1>1. McInv => ReplyFindsHost
    BY McInvGives
  <1> QED BY <1>1, McInvHolds, PTL

\* Once closeUpShop() has called back, no slot of this Multicast is left to
\* call it again, and there was one call.
THEOREM CalledBackOnce ==
    ASSUME MulticastAssumption
    PROVE  MulticastSpec => []NothingAfterCallback
  <1>1. McInv => NothingAfterCallback
    BY McInvGives
  <1> QED BY <1>1, McInvHolds, PTL

\* A request to a group that gotReply2() has called back for has been served by
\* each host of the group but for those overlooked, whose error came in on a slot
\* that another host still pointed to: whatever slots are given out again, and
\* in whatever order hosts answer, fail and are asked again.
THEOREM WholeGroupServed ==
    ASSUME MulticastAssumption
    PROVE  MulticastSpec => []GroupAllServed
  <1>1. McInv => GroupAllServed
    BY McInvGives
  <1> QED BY <1>1, McInvHolds, PTL
=============================================================================
