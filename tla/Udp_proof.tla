----------------------------- MODULE Udp_proof -----------------------------
(***************************************************************************)
(* What a transaction promises, for messages of up to eight dgrams, every  *)
(* window and every number of calls of the handler, over a network that    *)
(* loses, repeats and reorders packets; and of the bits its slots keep,    *)
(* for messages of any length.                                             *)
(***************************************************************************)
EXTENDS Udp, DgramBits, FiniteSetTheorems, WellFoundedInduction, TLAPS

-----------------------------------------------------------------------------
GaveUp == phase = "done" \/ cli.errno

\* The order in which a slot of the server gets to its states, and that no slot
\* and no packet is there before the request.
SlotInOrder ==
    /\ ~srv.on => srv = NoServer
    /\ srv.called => srv.read = Req /\ runs > 0
    /\ srv.reply # "none" => srv.called
    /\ srv.forced => srv.reply # "none"
    /\ srv.called /\ srv.reply = "none" => ~srv.errno
    /\ whole

CallInOrder ==
    /\ phase = "idle" => net = {} /\ ~srv.on /\ runs = 0 /\ ~cli.errno
    /\ phase = "done" <=> given # "none"
    /\ given = "reply" => BufRead = Rep

\* What the client may have read has been sent in a call of the handler.
RepliesOfRuns ==
    /\ \A p \in net : p \in Reply => p.run <= runs
    /\ \A d \in Rep : buf[d] <= runs

UdpInv == UdpTypeOK /\ SlotInOrder /\ CallInOrder /\ RepliesOfRuns

\* The server has an ack only for what the client has read, and a slot whose
\* handler has been called learns of an error or a cancel only when the client
\* has given up.
AcksOfRead ==
    \A d \in Rep : [kind |-> "ackReply", num |-> d] \in net \/ d \in srv.acked
                     => buf[d] # 0 \/ GaveUp
TroubleMeansGaveUp ==
    Cancel \in net \/ (srv.called /\ srv.errno) \/ srv.forced => GaveUp

\* While the client waits there is one call of the handler at most, its slot
\* stays, and dgrams of a reply are there only if it has replied.
OneCallWhileWaited ==
    ~GaveUp /\ BufRead # Rep =>
      /\ runs <= 1
      /\ runs > 0 => srv.called
      /\ srv.reply # "reply" => BufRead = {} /\ net \cap Reply = {}

\* So what it reads meanwhile, and is given in the end, is of the first call.
ReadOfFirstCall ==
    ~GaveUp \/ given = "reply" => \A d \in Rep : buf[d] <= 1

WaitInv == AcksOfRead /\ TroubleMeansGaveUp /\ OneCallWhileWaited /\ ReadOfFirstCall

-----------------------------------------------------------------------------
\* A nonempty set of dgrams has a first one.
LEMMA FirstDgramOf ==
    ASSUME NEW n \in Nat, NEW S \in SUBSET (0 .. n), S # {}
    PROVE  First(S) \in S
  <1> DEFINE R == {p \in Nat \X Nat : p[1] < p[2]}
  <1>1. IsWellFoundedOn(R, Nat)
    BY NatLessThanWellFounded DEF OpToRel
  <1>2. S \subseteq Nat
    OBVIOUS
  <1>3. PICK x \in S : \A y \in S : ~ (<<y, x>> \in R)
    <2> HIDE DEF R
    <2> QED BY <1>1, <1>2, WFMin
  <1>4. ASSUME NEW y \in S, ~ (x <= y) PROVE FALSE
    <2>1. <<y, x>> \in R
      BY <1>4
    <2> QED BY <2>1, <1>3
  <1>5. \E d \in S : \A e \in S : d <= e
    BY <1>4
  <1> QED BY <1>5 DEF First

LEMMA FirstReq == UdpAssumption => \A S \in SUBSET Req : S # {} => First(S) \in S
  BY FirstDgramOf DEF Req, UdpAssumption

LEMMA FirstRep == UdpAssumption => \A S \in SUBSET Rep : S # {} => First(S) \in S
  BY FirstDgramOf DEF Rep, UdpAssumption

LEMMA Dgrams == UdpAssumption => 0 \in Req /\ 0 \in Rep /\ MaxRuns \in Nat
  BY DEF UdpAssumption, Req, Rep

\* The kinds of packets.
LEMMA Kinds ==
    /\ \A p \in Request : p.kind = "request" /\ p.num \in Req
    /\ \A p \in Reply : p.kind = "reply" /\ p.num \in Rep /\ p.run \in Runs
    /\ \A p \in ErrorReply : p.kind = "error"
    /\ \A p \in AckOfRequest : p.kind = "ackRequest" /\ p.num \in Req
    /\ \A p \in AckOfReply : p.kind = "ackReply" /\ p.num \in Rep
    /\ Cancel.kind = "cancel"
    /\ \A d \in Req : [kind |-> "request", num |-> d] \in Request
    /\ \A d \in Req : [kind |-> "ackRequest", num |-> d] \in AckOfRequest
    /\ \A d \in Rep : [kind |-> "ackReply", num |-> d] \in AckOfReply
    /\ \A d \in Rep, r \in Runs : [kind |-> "reply", num |-> d, run |-> r] \in Reply
    /\ [kind |-> "error"] \in ErrorReply
  BY DEF Request, Reply, ErrorReply, AckOfRequest, AckOfReply, Cancel

\* The fields of the slots.
LEMMA ClientFields ==
    ASSUME cli \in InSlot
    PROVE  /\ cli.sent \in SUBSET Req /\ cli.acked \in SUBSET Req
           /\ cli.ackSent \in SUBSET Rep /\ cli.errno \in BOOLEAN
           /\ \A s \in SUBSET Req : [cli EXCEPT !.sent = s] \in InSlot
           /\ \A s, a \in SUBSET Req : [cli EXCEPT !.sent = s, !.acked = a] \in InSlot
  BY DEF InSlot

LEMMA ClientAck ==
    ASSUME cli \in InSlot, NEW d \in Req
    PROVE  WithAck(cli, d) \in InSlot /\ WithAck(cli, d).errno = cli.errno
  <1>1. CASE d \in cli.acked
    BY <1>1 DEF WithAck
  <1>2. CASE d \notin cli.acked
    <2> DEFINE s == SentAfterAck(cli.sent, cli.acked, d)
               a == cli.acked \cup {d}
    <2>1. WithAck(cli, d) = [cli EXCEPT !.acked = a, !.sent = s]
      BY <1>2 DEF WithAck
    <2>2. s \in SUBSET Req /\ a \in SUBSET Req
      BY ClientFields DEF SentAfterAck
    <2> HIDE DEF s, a
    <2> QED BY <2>1, <2>2 DEF InSlot
  <1> QED BY <1>1, <1>2

LEMMA ServerAck ==
    ASSUME srv \in OutSlot, NEW d \in Rep
    PROVE  /\ WithAck(srv, d) \in OutSlot
           /\ WithAck(srv, d).on = srv.on /\ WithAck(srv, d).read = srv.read
           /\ WithAck(srv, d).called = srv.called /\ WithAck(srv, d).reply = srv.reply
           /\ WithAck(srv, d).errno = srv.errno /\ WithAck(srv, d).forced = srv.forced
           /\ WithAck(srv, d).acked = srv.acked \cup {d}
  <1>1. CASE d \in srv.acked
    BY <1>1 DEF WithAck
  <1>2. CASE d \notin srv.acked
    <2> DEFINE s == SentAfterAck(srv.sent, srv.acked, d)
               a == srv.acked \cup {d}
    <2>1. WithAck(srv, d) = [srv EXCEPT !.acked = a, !.sent = s]
      BY <1>2 DEF WithAck
    <2>2. s \in SUBSET Rep /\ a \in SUBSET Rep
      BY DEF SentAfterAck, OutSlot
    <2> HIDE DEF s
    <2> QED BY <2>1, <2>2 DEF OutSlot
  <1> QED BY <1>1, <1>2

LEMMA ClientAgain ==
    ASSUME cli \in InSlot, NEW all \in BOOLEAN
    PROVE  Again(cli, all) \in InSlot /\ Again(cli, all).errno = cli.errno
  BY DEF Again, InSlot

LEMMA ServerAgain ==
    ASSUME srv \in OutSlot, NEW all \in BOOLEAN
    PROVE  /\ Again(srv, all) \in OutSlot
           /\ Again(srv, all).on = srv.on /\ Again(srv, all).read = srv.read
           /\ Again(srv, all).called = srv.called /\ Again(srv, all).reply = srv.reply
           /\ Again(srv, all).errno = srv.errno /\ Again(srv, all).forced = srv.forced
           /\ Again(srv, all).acked \subseteq srv.acked
  BY DEF Again, OutSlot

-----------------------------------------------------------------------------
\* The invariant is kept by the client,

LEMMA UdpInitInv == UdpAssumption /\ UdpInit => UdpInv /\ WaitInv
  <1> SUFFICES ASSUME UdpAssumption, UdpInit PROVE UdpInv /\ WaitInv
    OBVIOUS
  <1>1. /\ net = {} /\ phase = "idle" /\ cli = NoClient /\ buf = Empty
        /\ given = "none" /\ srv = NoServer /\ runs = 0 /\ whole = TRUE
    BY DEF UdpInit, UdpInitIn
  <1>2. UdpTypeOK
    BY <1>1, Dgrams DEF UdpTypeOK, NoClient, NoServer, Empty, InSlot, OutSlot
  <1>3. SlotInOrder /\ CallInOrder /\ RepliesOfRuns
    BY <1>1 DEF SlotInOrder, CallInOrder, RepliesOfRuns, NoServer, NoClient, Empty
  <1>4. BufRead = {}
    BY <1>1 DEF BufRead, Empty
  <1>5. WaitInv
    BY <1>1, <1>4 DEF WaitInv, AcksOfRead, TroubleMeansGaveUp, OneCallWhileWaited,
                      ReadOfFirstCall, NoServer, NoClient, Empty
  <1> QED BY <1>2, <1>3, <1>5 DEF UdpInv

\* A step that changes only the client's slot, sends what is no reply, and
\* leaves m_errno on.
LEMMA ClientStepKeeps ==
    ASSUME UdpInv, phase = "open", cli' \in InSlot, net' \subseteq Packet,
           \A p \in net' : p \in net \/ p \notin Reply,
           UNCHANGED <<phase, buf, given, srv, runs, whole>>
    PROVE  UdpInv'
  <1>1. UdpTypeOK'
    BY DEF UdpInv, UdpTypeOK, Packet, Request, Reply, ErrorReply, AckOfRequest,
           AckOfReply, InSlot, OutSlot, Runs, Req, Rep
  <1>2. SlotInOrder' /\ CallInOrder'
    BY DEF UdpInv, SlotInOrder, CallInOrder, BufRead
  <1>3. RepliesOfRuns'
    BY DEF UdpInv, RepliesOfRuns
  <1> QED BY <1>1, <1>2, <1>3 DEF UdpInv

LEMMA SendRequestKeeps ==
    ASSUME UdpInv, SendRequest
    PROVE  UdpInv'
  <1>1. UdpTypeOK'
    BY DEF SendRequest, UdpInv, UdpTypeOK, InSlot, NoClient
  <1>2. SlotInOrder' /\ CallInOrder' /\ RepliesOfRuns'
    BY DEF SendRequest, UdpInv, SlotInOrder, CallInOrder, RepliesOfRuns, BufRead, NoClient
  <1> QED BY <1>1, <1>2 DEF UdpInv

\* What a dgram or an ack that is sent does to the set of packets.
LEMMA ClientSendsWhat ==
    ASSUME UdpInv, UdpAssumption, ClientSends
    PROVE  /\ phase = "open" /\ cli' \in InSlot /\ cli'.errno = cli.errno
           /\ \E p \in Request \cup AckOfReply :
                /\ net' = net \cup {p}
                /\ p \in AckOfReply => p.num \in BufRead
           /\ UNCHANGED <<phase, buf, given, srv, runs, whole>>
  <1>1. cli \in InSlot /\ BufRead \in SUBSET Rep
    BY DEF UdpInv, UdpTypeOK, BufRead
  <1>2. ASSUME BufRead \ cli.ackSent # {},
               Send([kind |-> "ackReply", num |-> First(BufRead \ cli.ackSent)]),
               cli' = [cli EXCEPT !.ackSent = @ \cup {First(BufRead \ cli.ackSent)}]
        PROVE  /\ cli' \in InSlot /\ cli'.errno = cli.errno
               /\ \E p \in Request \cup AckOfReply :
                    /\ net' = net \cup {p}
                    /\ p \in AckOfReply => p.num \in BufRead
    <2> DEFINE d == First(BufRead \ cli.ackSent)
    <2>1. d \in BufRead /\ d \in Rep
      BY <1>1, <1>2, FirstRep
    <2> HIDE DEF d
    <2>2. net' = net \cup {[kind |-> "ackReply", num |-> d]}
          /\ cli' = [cli EXCEPT !.ackSent = @ \cup {d}]
      BY <1>2 DEF Send, d
    <2>3. cli' \in InSlot /\ cli'.errno = cli.errno
      BY <1>1, <2>1, <2>2 DEF InSlot
    <2>4. [kind |-> "ackReply", num |-> d] \in AckOfReply
      BY <2>1, Kinds
    <2> QED BY <2>1, <2>2, <2>3, <2>4
  <1>3. ASSUME Req \ cli.sent # {},
               Send([kind |-> "request", num |-> First(Req \ cli.sent)]),
               cli' = [cli EXCEPT !.sent = @ \cup {First(Req \ cli.sent)}]
        PROVE  /\ cli' \in InSlot /\ cli'.errno = cli.errno
               /\ \E p \in Request \cup AckOfReply :
                    /\ net' = net \cup {p}
                    /\ p \in AckOfReply => p.num \in BufRead
    <2> DEFINE d == First(Req \ cli.sent)
    <2>1. d \in Req
      BY <1>3, FirstReq
    <2> HIDE DEF d
    <2>2. net' = net \cup {[kind |-> "request", num |-> d]}
          /\ cli' = [cli EXCEPT !.sent = @ \cup {d}]
      BY <1>3 DEF Send, d
    <2>3. cli' \in InSlot /\ cli'.errno = cli.errno
      BY <1>1, <2>1, <2>2 DEF InSlot
    <2>4. [kind |-> "request", num |-> d] \in Request
          /\ [kind |-> "request", num |-> d] \notin AckOfReply
      BY <2>1, Kinds
    <2> QED BY <2>2, <2>3, <2>4
  <1> QED BY <1>2, <1>3 DEF ClientSends

\* What the client does with a packet it reads, but for a dgram of a reply.
LEMMA ClientReadsWhat ==
    ASSUME UdpInv, UdpAssumption, NEW p \in net,
           ClientReadsAck(p) \/ ClientHasNoMemory(p) \/ ClientReadsError(p)
    PROVE  /\ phase = "open" /\ cli' \in InSlot
           /\ \/ net' = net /\ cli'.errno = cli.errno
              \/ cli'.errno = TRUE /\ net' \subseteq net \cup AckOfReply \cup {Cancel}
           /\ UNCHANGED <<phase, buf, given, srv, runs, whole>>
  <1>1. cli \in InSlot
    BY DEF UdpInv, UdpTypeOK
  <1>2. CASE ClientReadsAck(p)
    BY <1>1, <1>2, ClientAck, Kinds DEF ClientReadsAck
  <1>3. CASE ClientHasNoMemory(p)
    BY <1>1, <1>3 DEF ClientHasNoMemory, Send, InSlot
  <1>4. CASE ClientReadsError(p)
    <2>1. cli' = [cli EXCEPT !.errno = TRUE] /\ phase = "open"
          /\ net' \in {net, net \cup {[kind |-> "ackReply", num |-> 0]}}
          /\ UNCHANGED <<phase, buf, given, srv, runs, whole>>
      BY <1>4 DEF ClientReadsError
    <2>2. cli' \in InSlot /\ cli'.errno = TRUE
      BY <1>1, <2>1 DEF InSlot
    <2>3. [kind |-> "ackReply", num |-> 0] \in AckOfReply
      BY Kinds, Dgrams
    <2> QED BY <2>1, <2>2, <2>3
  <1> QED BY <1>2, <1>3, <1>4

\* A dgram of a reply that is read for the first time, or again.
LEMMA ClientReadsReplyWhat ==
    ASSUME UdpInv, UdpAssumption, NEW p \in net, ClientReadsReply(p)
    PROVE  /\ phase = "open" /\ cli' \in InSlot /\ cli'.errno = cli.errno
           /\ p \in Reply /\ p.num \in Rep /\ p.run \in Runs /\ p.run <= runs /\ runs \in Nat
           /\ buf' = IF buf[p.num] # 0 THEN buf ELSE [buf EXCEPT ![p.num] = p.run]
           /\ UNCHANGED <<net, phase, given, srv, runs, whole>>
  <1>1. cli \in InSlot /\ p \in Reply /\ p.num \in Rep /\ p.run \in Runs
        /\ runs \in Nat /\ p.run <= runs
    BY Kinds DEF UdpInv, UdpTypeOK, ClientReadsReply, RepliesOfRuns
  <1>2. cli' \in InSlot /\ cli'.errno = cli.errno
    BY <1>1 DEF ClientReadsReply, InSlot
  <1> QED BY <1>1, <1>2 DEF ClientReadsReply

LEMMA ClientReadsReplyKeeps ==
    ASSUME UdpInv, UdpAssumption, NEW p \in net, ClientReadsReply(p)
    PROVE  UdpInv'
  <1>1. /\ phase = "open" /\ cli' \in InSlot
        /\ p.num \in Rep /\ p.run \in Runs /\ p.run <= runs
        /\ buf' = IF buf[p.num] # 0 THEN buf ELSE [buf EXCEPT ![p.num] = p.run]
        /\ UNCHANGED <<net, phase, given, srv, runs, whole>>
    BY ClientReadsReplyWhat
  <1>2. buf' \in [Rep -> 0 .. MaxRuns] /\ \A d \in Rep : buf'[d] <= runs
    BY <1>1 DEF UdpInv, UdpTypeOK, RepliesOfRuns, Runs
  <1>3. UdpTypeOK'
    BY <1>1, <1>2 DEF UdpInv, UdpTypeOK, Packet, Request, Reply, ErrorReply,
                      AckOfRequest, AckOfReply, InSlot, OutSlot, Runs, Req, Rep
  <1>4. SlotInOrder' /\ CallInOrder' /\ RepliesOfRuns'
    BY <1>1, <1>2 DEF UdpInv, SlotInOrder, CallInOrder, RepliesOfRuns
  <1> QED BY <1>3, <1>4 DEF UdpInv

LEMMA ClientCallbackKeeps ==
    ASSUME UdpInv, ClientCallback
    PROVE  UdpInv'
  <1>1. UdpTypeOK'
    BY DEF ClientCallback, UdpInv, UdpTypeOK, InSlot, NoClient
  <1>2. given' = "reply" => BufRead' = Rep
    BY DEF ClientCallback, ClientComplete, BufRead
  <1>3. SlotInOrder' /\ CallInOrder' /\ RepliesOfRuns'
    BY <1>2 DEF ClientCallback, UdpInv, SlotInOrder, CallInOrder, RepliesOfRuns, BufRead
  <1> QED BY <1>1, <1>3 DEF UdpInv

LEMMA ClientCancelsKeeps ==
    ASSUME UdpInv, NEW p \in net, ClientCancels(p)
    PROVE  UdpInv'
  <1>1. phase = "done" /\ net' = net \cup {Cancel} /\ Cancel \in Packet /\ Cancel \notin Reply
        /\ UNCHANGED <<phase, cli, buf, given, srv, runs, whole>>
    BY Kinds DEF ClientCancels, Send, Packet
  <1>2. UdpTypeOK'
    BY <1>1 DEF UdpInv, UdpTypeOK
  <1>3. SlotInOrder' /\ CallInOrder' /\ RepliesOfRuns'
    BY <1>1 DEF UdpInv, SlotInOrder, CallInOrder, RepliesOfRuns, BufRead
  <1> QED BY <1>2, <1>3 DEF UdpInv

LEMMA ClientKeeps ==
    ASSUME UdpInv, UdpAssumption,
           SendRequest \/ ClientSends \/ ClientResends \/ ClientTimesOut
             \/ ClientReads \/ ClientCallback
    PROVE  UdpInv'
  <1>0. cli \in InSlot /\ net \subseteq Packet
    BY DEF UdpInv, UdpTypeOK
  <1>1. CASE ClientSends
    <2>1. PICK p \in Request \cup AckOfReply : net' = net \cup {p}
      BY <1>1, ClientSendsWhat
    <2>2. p \in Packet /\ p \notin Reply
      BY Kinds DEF Packet
    <2> QED BY <1>0, <1>1, <2>1, <2>2, ClientSendsWhat, ClientStepKeeps
  <1>2. CASE ClientResends
    <2>1. cli' \in InSlot /\ phase = "open"
          /\ UNCHANGED <<net, phase, buf, given, srv, runs, whole>>
      BY <1>0, <1>2, ClientAgain DEF ClientResends
    <2> QED BY <1>0, <2>1, ClientStepKeeps
  <1>3. CASE ClientTimesOut
    <2>1. cli' \in InSlot /\ phase = "open"
          /\ UNCHANGED <<net, phase, buf, given, srv, runs, whole>>
      BY <1>0, <1>3 DEF ClientTimesOut, InSlot
    <2> QED BY <1>0, <2>1, ClientStepKeeps
  <1>4. ASSUME NEW p \in net,
               ClientReadsAck(p) \/ ClientHasNoMemory(p) \/ ClientReadsError(p)
        PROVE  UdpInv'
    <2>1. /\ phase = "open" /\ cli' \in InSlot
          /\ net' \subseteq net \cup AckOfReply \cup {Cancel}
          /\ UNCHANGED <<phase, buf, given, srv, runs, whole>>
      BY <1>4, ClientReadsWhat
    <2>2. net' \subseteq Packet /\ \A q \in net' : q \in net \/ q \notin Reply
      BY <1>0, <2>1, Kinds DEF Packet
    <2> QED BY <2>1, <2>2, ClientStepKeeps
  <1> QED BY <1>1, <1>2, <1>3, <1>4, SendRequestKeeps, ClientReadsReplyKeeps,
             ClientCancelsKeeps, ClientCallbackKeeps DEF ClientReads

-----------------------------------------------------------------------------
\* and by the server.

\* A step that changes the server's slot only, and sends dgrams of a reply of
\* the last call, if of any.
LEMMA ServerStepKeeps ==
    ASSUME UdpInv, phase # "idle", srv' \in OutSlot, SlotInOrder',
           net' \subseteq Packet,
           \A p \in net' : p \in net \/ (p \in Reply => p.run = runs),
           UNCHANGED <<phase, cli, buf, given, runs, whole>>
    PROVE  UdpInv'
  <1>1. UdpTypeOK'
    BY DEF UdpInv, UdpTypeOK, Packet, Request, Reply, ErrorReply, AckOfRequest,
           AckOfReply, InSlot, OutSlot, Runs, Req, Rep
  <1>2. CallInOrder'
    BY DEF UdpInv, CallInOrder, BufRead
  <1>3. runs \in Nat
    BY DEF UdpInv, UdpTypeOK
  <1>4. RepliesOfRuns'
    BY <1>3 DEF UdpInv, RepliesOfRuns
  <1> QED BY <1>1, <1>2, <1>4 DEF UdpInv

LEMMA PhaseOfServer ==
    ASSUME UdpInv
    PROVE  /\ srv.on \/ net # {} => phase # "idle"
           /\ srv \in OutSlot /\ net \subseteq Packet
    BY DEF UdpInv, UdpTypeOK, CallInOrder

LEMMA ServerReadsRequestWhat ==
    ASSUME UdpInv, NEW p \in net, ServerReadsRequest(p)
    PROVE  /\ srv' \in OutSlot /\ srv'.on
           /\ \/ /\ ~srv.on /\ runs < MaxRuns
                 /\ ~srv'.called /\ srv'.reply = "none" /\ ~srv'.errno /\ ~srv'.forced
                 /\ srv'.acked = {}
              \/ /\ srv.on /\ srv.read \subseteq srv'.read /\ srv'.read \subseteq Req
                 /\ srv'.called = srv.called /\ srv'.reply = srv.reply
                 /\ srv'.errno = srv.errno /\ srv'.forced = srv.forced
                 /\ srv'.acked = srv.acked
           /\ UNCHANGED <<net, phase, cli, buf, given, runs, whole>>
  <1>1. p.num \in Req /\ srv \in OutSlot
    BY Kinds, PhaseOfServer DEF ServerReadsRequest
  <1>2. CASE ~srv.on
    <2>1. srv' = [NoServer EXCEPT !.on = TRUE, !.read = {p.num}]
      BY <1>2 DEF ServerReadsRequest
    <2>2. srv' = [on |-> TRUE, read |-> {p.num}, ackSent |-> {}, called |-> FALSE,
                  reply |-> "none", sent |-> {}, acked |-> {}, errno |-> FALSE,
                  forced |-> FALSE]
      BY <2>1 DEF NoServer
    <2>3. {p.num} \in SUBSET Req
      BY <1>1
    <2>4. srv' \in OutSlot
      BY <2>2, <2>3 DEF OutSlot
    <2>5. runs < MaxRuns /\ UNCHANGED <<net, phase, cli, buf, given, runs, whole>>
      BY <1>2 DEF ServerReadsRequest
    <2> QED BY <1>2, <2>2, <2>4, <2>5
  <1>3. CASE srv.on /\ p.num \in srv.read
    <2>1. srv' = [srv EXCEPT !.ackSent = @ \ {p.num}]
      BY <1>3 DEF ServerReadsRequest
    <2> QED BY <1>1, <1>3, <2>1 DEF ServerReadsRequest, OutSlot
  <1>4. CASE srv.on /\ p.num \notin srv.read
    <2>1. srv' = [srv EXCEPT !.read = @ \cup {p.num}]
      BY <1>4 DEF ServerReadsRequest
    <2> QED BY <1>1, <1>4, <2>1 DEF ServerReadsRequest, OutSlot
  <1> QED BY <1>2, <1>3, <1>4

LEMMA ServerReadsRequestKeeps ==
    ASSUME UdpInv, NEW p \in net, ServerReadsRequest(p)
    PROVE  UdpInv'
  <1>1. phase # "idle"
    BY PhaseOfServer
  <1>2. SlotInOrder'
    BY ServerReadsRequestWhat DEF UdpInv, SlotInOrder, OutSlot
  <1> QED BY <1>1, <1>2, ServerReadsRequestWhat, ServerStepKeeps, PhaseOfServer

LEMMA ServerHasNoMemoryWhat ==
    ASSUME UdpInv, NEW p \in net, ServerHasNoMemory(p)
    PROVE  /\ srv' \in OutSlot /\ srv'.on /\ ~srv.on /\ runs < MaxRuns
           /\ srv'.read = {} /\ ~srv'.called /\ srv'.reply = "none" /\ ~srv'.forced
           /\ srv'.acked = {}
           /\ UNCHANGED <<net, phase, cli, buf, given, runs, whole>>
  <1>1. srv' = [on |-> TRUE, read |-> {}, ackSent |-> {}, called |-> FALSE,
                reply |-> "none", sent |-> {}, acked |-> {}, errno |-> TRUE,
                forced |-> FALSE]
    BY DEF ServerHasNoMemory, NoServer
  <1>2. srv' \in OutSlot
    BY <1>1 DEF OutSlot
  <1>3. ~srv.on /\ runs < MaxRuns /\ UNCHANGED <<net, phase, cli, buf, given, runs, whole>>
    BY DEF ServerHasNoMemory
  <1> QED BY <1>1, <1>2, <1>3

LEMMA ServerHasNoMemoryKeeps ==
    ASSUME UdpInv, NEW p \in net, ServerHasNoMemory(p)
    PROVE  UdpInv'
  <1>1. phase # "idle"
    BY PhaseOfServer
  <1>2. SlotInOrder'
    BY ServerHasNoMemoryWhat DEF UdpInv, SlotInOrder, OutSlot
  <1> QED BY <1>1, <1>2, ServerHasNoMemoryWhat, ServerStepKeeps, PhaseOfServer

LEMMA ServerReadsAckWhat ==
    ASSUME UdpInv, NEW p \in net, ServerReadsAck(p)
    PROVE  /\ srv' \in OutSlot /\ srv.on /\ srv'.on /\ srv'.read = srv.read
           /\ srv'.called = srv.called /\ srv'.reply = srv.reply
           /\ srv'.errno = srv.errno /\ srv'.forced = srv.forced
           /\ p \in AckOfReply /\ p.num \in Rep /\ srv'.acked = srv.acked \cup {p.num}
           /\ UNCHANGED <<net, phase, cli, buf, given, runs, whole>>
  BY ServerAck, Kinds, PhaseOfServer DEF ServerReadsAck

LEMMA ServerReadsAckKeeps ==
    ASSUME UdpInv, NEW p \in net, ServerReadsAck(p)
    PROVE  UdpInv'
  <1>1. phase # "idle"
    BY PhaseOfServer
  <1>2. SlotInOrder'
    BY ServerReadsAckWhat DEF UdpInv, SlotInOrder
  <1> QED BY <1>1, <1>2, ServerReadsAckWhat, ServerStepKeeps, PhaseOfServer

\* A cancel, the end of a wait, a reply and what is sent again: the bits of the
\* slot are as they were, or off.
LEMMA ServerSameWhat ==
    ASSUME UdpInv,
           \/ \E p \in net : ServerReadsCancel(p)
           \/ ServerTimesOut \/ ServerReplies \/ ServerResends
    PROVE  /\ srv' \in OutSlot /\ srv.on /\ srv'.on /\ srv'.read = srv.read
           /\ srv'.called = srv.called /\ srv'.acked \subseteq srv.acked
           /\ srv'.reply = srv.reply \/ (ServerReplies /\ srv'.reply \in {"reply", "error"})
           /\ srv'.forced # srv.forced => Cancel \in net
           /\ srv'.errno # srv.errno => Cancel \in net \/ ServerTimesOut
           /\ UNCHANGED <<net, phase, cli, buf, given, runs, whole>>
           /\ SlotInOrder'
  <1>0. srv \in OutSlot /\ SlotInOrder
    BY DEF UdpInv, UdpTypeOK
  <1>1. ASSUME NEW p \in net, ServerReadsCancel(p)
        PROVE  /\ srv' = [srv EXCEPT !.forced = TRUE, !.errno = TRUE]
               /\ Cancel \in net /\ srv.on /\ srv.reply # "none"
               /\ UNCHANGED <<net, phase, cli, buf, given, runs, whole>>
    BY <1>1 DEF ServerReadsCancel, Cancellable
  <1>2. CASE \E p \in net : ServerReadsCancel(p)
    <2>1. /\ srv' = [srv EXCEPT !.forced = TRUE, !.errno = TRUE]
          /\ Cancel \in net /\ srv.on /\ srv.reply # "none"
          /\ UNCHANGED <<net, phase, cli, buf, given, runs, whole>>
      BY <1>1, <1>2
    <2> QED BY <1>0, <2>1 DEF OutSlot, SlotInOrder
  <1>3. CASE ServerTimesOut
    <2>1. srv' = [srv EXCEPT !.errno = TRUE] /\ srv.on
          /\ UNCHANGED <<net, phase, cli, buf, given, runs, whole>>
          /\ ~(srv.read = Req /\ srv.reply = "none")
      BY <1>3 DEF ServerTimesOut, WithHandler, ServerDoneReading
    <2> QED BY <1>0, <1>3, <2>1 DEF OutSlot, SlotInOrder
  <1>4. CASE ServerReplies
    <2>1. PICK r \in {"reply", "error"} : srv' = [srv EXCEPT !.reply = r]
      BY <1>4 DEF ServerReplies
    <2> QED BY <1>0, <1>4, <2>1 DEF ServerReplies, OutSlot, SlotInOrder
  <1>5. CASE ServerResends
    <2>1. /\ srv' \in OutSlot /\ srv'.on = srv.on /\ srv'.read = srv.read
          /\ srv'.called = srv.called /\ srv'.reply = srv.reply
          /\ srv'.errno = srv.errno /\ srv'.forced = srv.forced
          /\ srv'.acked \subseteq srv.acked
      BY <1>0, <1>5, ServerAgain DEF ServerResends
    <2> QED BY <1>0, <1>5, <2>1 DEF ServerResends, SlotInOrder
  <1> QED BY <1>2, <1>3, <1>4, <1>5

LEMMA ServerSameKeeps ==
    ASSUME UdpInv,
           \/ \E p \in net : ServerReadsCancel(p)
           \/ ServerTimesOut \/ ServerReplies \/ ServerResends
    PROVE  UdpInv'
  BY ServerSameWhat, ServerStepKeeps, PhaseOfServer

LEMMA ServerSendsWhat ==
    ASSUME UdpInv, UdpAssumption, ServerSends
    PROVE  /\ srv' \in OutSlot /\ srv.on /\ srv'.on /\ srv'.read = srv.read
           /\ srv'.called = srv.called /\ srv'.reply = srv.reply
           /\ srv'.errno = srv.errno /\ srv'.forced = srv.forced
           /\ srv'.acked = srv.acked
           /\ \E p \in AckOfRequest \cup ErrorReply \cup Reply :
                /\ net' = net \cup {p}
                /\ p \in Reply => p.run = runs /\ srv.reply = "reply"
           /\ UNCHANGED <<phase, cli, buf, given, runs, whole>>
  <1> DEFINE SlotSent ==
               /\ srv' \in OutSlot /\ srv'.on /\ srv'.read = srv.read
               /\ srv'.called = srv.called /\ srv'.reply = srv.reply
               /\ srv'.errno = srv.errno /\ srv'.forced = srv.forced
               /\ srv'.acked = srv.acked
             SlotSends ==
               /\ SlotSent
               /\ \E p \in AckOfRequest \cup ErrorReply \cup Reply :
                    /\ net' = net \cup {p}
                    /\ p \in Reply => p.run = runs /\ srv.reply = "reply"
  <1>0. srv \in OutSlot /\ srv.on /\ runs \in 0 .. MaxRuns
        /\ UNCHANGED <<phase, cli, buf, given, runs, whole>>
    BY DEF UdpInv, UdpTypeOK, ServerSends
  <1>1. ASSUME srv.read \ srv.ackSent # {},
               Send([kind |-> "ackRequest", num |-> First(srv.read \ srv.ackSent)]),
               srv' = [srv EXCEPT !.ackSent = @ \cup {First(srv.read \ srv.ackSent)}]
        PROVE  \E d \in Req : /\ net' = net \cup {[kind |-> "ackRequest", num |-> d]}
                              /\ srv' = [srv EXCEPT !.ackSent = @ \cup {d}]
    <2>1. First(srv.read \ srv.ackSent) \in Req
      BY <1>0, <1>1, FirstReq DEF OutSlot
    <2> QED BY <1>1, <2>1 DEF Send
  <1>2. ASSUME NEW d \in Req, net' = net \cup {[kind |-> "ackRequest", num |-> d]},
               srv' = [srv EXCEPT !.ackSent = @ \cup {d}]
        PROVE  SlotSends
    <2>1. [kind |-> "ackRequest", num |-> d] \in AckOfRequest
          /\ [kind |-> "ackRequest", num |-> d] \notin Reply
      BY Kinds
    <2>2. SlotSent
      BY <1>0, <1>2 DEF OutSlot
    <2> QED BY <1>2, <2>1, <2>2
  <1>3. ASSUME ToSend \ srv.sent # {},
               Send(IF srv.reply = "error" THEN [kind |-> "error"]
                    ELSE [kind |-> "reply", num |-> First(ToSend \ srv.sent), run |-> runs]),
               srv' = [srv EXCEPT !.sent = @ \cup {First(ToSend \ srv.sent)}]
        PROVE  SlotSends
    <2> DEFINE d == First(ToSend \ srv.sent)
    <2>1. srv.reply \in {"reply", "error"} /\ runs \in Runs
      BY <1>0, <1>3 DEF ToSend, OutSlot, UdpInv, SlotInOrder, Runs
    <2>2. ToSend \subseteq Rep
      BY <2>1, Dgrams DEF ToSend
    <2>3. d \in Rep
      BY <1>3, <2>2, FirstRep
    <2> HIDE DEF d
    <2>4. SlotSent
      <3>1. srv' = [srv EXCEPT !.sent = @ \cup {d}]
        BY <1>3 DEF d
      <3> QED BY <1>0, <2>3, <3>1 DEF OutSlot
    <2>5. CASE srv.reply = "error"
      <3>1. net' = net \cup {[kind |-> "error"]}
        BY <1>3, <2>5 DEF Send
      <3>2. [kind |-> "error"] \in ErrorReply /\ [kind |-> "error"] \notin Reply
        BY Kinds
      <3> QED BY <2>4, <3>1, <3>2
    <2>6. CASE srv.reply = "reply"
      <3>1. net' = net \cup {[kind |-> "reply", num |-> d, run |-> runs]}
        BY <1>3, <2>6 DEF Send, d
      <3>2. [kind |-> "reply", num |-> d, run |-> runs] \in Reply
        BY <2>1, <2>3, Kinds
      <3> QED BY <2>4, <2>6, <3>1, <3>2
    <2> QED BY <2>1, <2>5, <2>6
  <1>4. SlotSends
    BY <1>1, <1>2, <1>3 DEF ServerSends
  <1> QED BY <1>0, <1>4

LEMMA ServerSendsKeeps ==
    ASSUME UdpInv, UdpAssumption, ServerSends
    PROVE  UdpInv'
  <1>1. PICK p \in AckOfRequest \cup ErrorReply \cup Reply :
          net' = net \cup {p} /\ (p \in Reply => p.run = runs)
    BY ServerSendsWhat
  <1>2. p \in Packet
    BY DEF Packet
  <1>3. phase # "idle" /\ net \subseteq Packet
    BY ServerSendsWhat, PhaseOfServer
  <1>4. SlotInOrder'
    BY ServerSendsWhat DEF UdpInv, SlotInOrder
  <1> QED BY <1>1, <1>2, <1>3, <1>4, ServerSendsWhat, ServerStepKeeps

\* makeCallback_ass() calls the handler: the request is whole, for a slot is
\* forced only after the handler has been called.
LEMMA ServerHandlesWhat ==
    ASSUME UdpInv, UdpAssumption, ServerHandles
    PROVE  /\ srv.on /\ ~srv.called /\ srv.reply = "none" /\ ~srv.forced /\ srv.read = Req
           /\ runs' = runs + 1 /\ runs \in Nat /\ runs < MaxRuns
           /\ srv' \in OutSlot /\ srv'.on /\ srv'.read = Req /\ srv'.called
           /\ srv'.reply = "none" /\ ~srv'.errno /\ ~srv'.forced /\ srv'.acked = srv.acked
           /\ whole' = TRUE
           /\ UNCHANGED <<net, phase, cli, buf, given>>
  <1>1. srv \in OutSlot /\ runs \in 0 .. MaxRuns /\ MaxRuns \in Nat /\ whole = TRUE
    BY Dgrams DEF UdpInv, UdpTypeOK, SlotInOrder
  <1>2. srv.on /\ ~srv.called /\ srv.reply = "none" /\ ~srv.forced /\ srv.read = Req
    BY DEF ServerHandles, ServerDoneReading, UdpInv, SlotInOrder
  <1>3. srv' = [srv EXCEPT !.called = TRUE, !.errno = FALSE]
        /\ whole' = (whole /\ srv.read = Req)
        /\ runs' = runs + 1 /\ runs < MaxRuns /\ UNCHANGED <<net, phase, cli, buf, given>>
    BY DEF ServerHandles
  <1>4. whole' = TRUE
    BY <1>1, <1>2, <1>3
  <1>5. /\ srv' \in OutSlot /\ srv'.on = srv.on /\ srv'.read = srv.read /\ srv'.called
        /\ srv'.reply = srv.reply /\ ~srv'.errno /\ srv'.forced = srv.forced
        /\ srv'.acked = srv.acked
    BY <1>1, <1>3 DEF OutSlot
  <1> QED BY <1>1, <1>2, <1>3, <1>4, <1>5

LEMMA ServerHandlesKeeps ==
    ASSUME UdpInv, UdpAssumption, ServerHandles
    PROVE  UdpInv'
  <1>0. /\ runs' = runs + 1 /\ runs \in Nat /\ runs < MaxRuns /\ MaxRuns \in Nat
        /\ UNCHANGED <<net, phase, cli, buf, given>>
    BY ServerHandlesWhat, Dgrams
  <1>1. runs' \in 0 .. MaxRuns
    BY <1>0
  <1>2. UdpTypeOK'
    BY <1>1, ServerHandlesWhat
       DEF UdpInv, UdpTypeOK, Packet, Request, Reply, ErrorReply, AckOfRequest,
           AckOfReply, InSlot, OutSlot, Runs, Req, Rep
  <1>3. SlotInOrder'
    <2>1. /\ srv'.on /\ srv'.read = Req /\ srv'.called /\ srv'.reply = "none"
          /\ ~srv'.errno /\ ~srv'.forced /\ whole' = TRUE
      BY ServerHandlesWhat
    <2>2. runs' > 0
      BY <1>0
    <2> QED BY <2>1, <2>2 DEF SlotInOrder, Req
  <1>4. CallInOrder'
    BY ServerHandlesWhat, PhaseOfServer DEF UdpInv, CallInOrder, BufRead
  <1>5. RepliesOfRuns'
    <2>1. \A p \in net : p \in Reply => p.run \in Nat /\ p.run <= runs
      BY Kinds DEF UdpInv, RepliesOfRuns, Runs
    <2>2. \A d \in Rep : buf[d] \in Nat /\ buf[d] <= runs
      BY DEF UdpInv, UdpTypeOK, RepliesOfRuns
    <2>3. (\A p \in net : p \in Reply => p.run <= runs') /\ \A d \in Rep : buf[d] <= runs'
      BY <1>0, <2>1, <2>2
    <2> QED BY <1>0, <2>3 DEF RepliesOfRuns, Reply, Rep, Runs
  <1> QED BY <1>2, <1>3, <1>4, <1>5 DEF UdpInv

LEMMA ServerEndsKeeps ==
    ASSUME UdpInv, ServerEnds
    PROVE  UdpInv'
  <1>1. srv.on /\ srv' = NoServer /\ UNCHANGED <<net, phase, cli, buf, given, runs, whole>>
    BY DEF ServerEnds
  <1>2. srv' \in OutSlot
    BY <1>1 DEF NoServer, OutSlot
  <1>3. SlotInOrder'
    BY <1>1 DEF UdpInv, SlotInOrder, NoServer
  <1> QED BY <1>1, <1>2, <1>3, ServerStepKeeps, PhaseOfServer

LEMMA StutterKeeps ==
    ASSUME UdpInv, UNCHANGED udpVars
    PROVE  UdpInv'
  BY DEF udpVars, UdpInv, UdpTypeOK, SlotInOrder, CallInOrder, RepliesOfRuns, BufRead,
         Packet, Request, Reply, ErrorReply, AckOfRequest, AckOfReply, InSlot, OutSlot,
         Runs, Req, Rep

LEMMA UdpInvInductive ==
    ASSUME UdpInv, UdpAssumption, [UdpNext]_udpVars
    PROVE  UdpInv'
  BY ClientKeeps, ServerReadsRequestKeeps, ServerHasNoMemoryKeeps,
     ServerReadsAckKeeps, ServerSameKeeps,
     ServerSendsKeeps, ServerHandlesKeeps, ServerEndsKeeps, StutterKeeps
     DEF UdpNext, ServerReads

LEMMA UdpInvAlways == UdpAssumption => (UdpSpec => []UdpInv)
  <1> SUFFICES ASSUME UdpAssumption PROVE UdpSpec => []UdpInv
    OBVIOUS
  <1>1. UdpInit => UdpInv
    BY UdpInitInv
  <1>2. UdpInv /\ [UdpNext]_udpVars => UdpInv'
    BY UdpInvInductive
  <1> QED BY <1>1, <1>2, PTL DEF UdpSpec

\* All variables keep their types.
THEOREM UdpTypeCorrect == ASSUME UdpAssumption PROVE UdpSpec => []UdpTypeOK
  <1>1. UdpInv => UdpTypeOK
    BY DEF UdpInv
  <1> QED BY <1>1, UdpInvAlways, PTL

\* A handler is given whole requests only, for any window and order of packets.
THEOREM RequestsHandledWhole == ASSUME UdpAssumption PROVE UdpSpec => []HandledWhole
  <1>1. UdpInv => HandledWhole
    BY DEF UdpInv, SlotInOrder, HandledWhole
  <1> QED BY <1>1, UdpInvAlways, PTL

\* A slot stays while the handler works on its reply.
THEOREM SlotOfHandlerStays == ASSUME UdpAssumption PROVE UdpSpec => HandlerKeepsSlot
  <1> DEFINE A == srv.on /\ srv.called /\ srv.reply = "none" => srv'.on
  <1>1. ASSUME UdpInv, UdpNext PROVE A
    <2>1. CASE ServerEnds
      BY <1>1, <2>1 DEF ServerEnds, ServerComplete, UdpInv, SlotInOrder
    <2>2. CASE ServerSends
      BY <1>1, <2>2, ServerSendsWhat
    <2>3. CASE ServerHandles
      BY <1>1, <2>3 DEF ServerHandles
    <2>4. CASE ServerTimesOut \/ ServerReplies \/ ServerResends
      BY <1>1, <2>4, ServerSameWhat
    <2>5. CASE ServerReads
      BY <1>1, <2>5, ServerReadsRequestWhat, ServerHasNoMemoryWhat,
         ServerReadsAckWhat, ServerSameWhat
         DEF ServerReads
    <2>6. CASE SendRequest \/ ClientSends \/ ClientResends \/ ClientTimesOut
                 \/ ClientReads \/ ClientCallback
      BY <2>6 DEF SendRequest, ClientSends, ClientResends, ClientTimesOut, ClientReads,
                  ClientReadsAck, ClientReadsReply, ClientHasNoMemory, ClientReadsError,
                  ClientCancels, ClientCallback
    <2> QED BY <1>1, <2>1, <2>2, <2>3, <2>4, <2>5, <2>6 DEF UdpNext
  <1>2. UdpInv /\ [UdpNext]_udpVars => [A]_udpVars
    BY <1>1
  <1> QED BY <1>2, UdpInvAlways, PTL DEF UdpSpec, HandlerKeepsSlot

-----------------------------------------------------------------------------
\* The transaction implements the promise of module Call.

Status == IF phase = "open" THEN "waiting"
          ELSE CASE given = "none"  -> "none"
                 [] given = "reply" -> "replied"
                 [] given = "error" -> "failed"

LEMMA StepOfCall ==
    ASSUME UdpAssumption, UdpInv, [UdpNext]_udpVars
    PROVE  Caller!Next \/ UNCHANGED <<Status, runs>>
  <1>0. phase \in {"idle", "open", "done"} /\ given \in {"none", "reply", "error"}
        /\ (phase = "done" <=> given # "none") /\ (phase = "idle" => runs = 0)
        /\ runs \in Nat
    BY DEF UdpInv, UdpTypeOK, CallInOrder
  <1>1. ASSUME UNCHANGED <<phase, given, runs>> PROVE UNCHANGED <<Status, runs>>
    BY <1>1 DEF Status
  <1>2. CASE SendRequest
    <2>1. Status = "none" /\ Status' = "waiting" /\ runs' = runs
      BY <1>0, <1>2 DEF SendRequest, Status
    <2> QED BY <2>1 DEF Caller!Next, Caller!Ask, Status
  <1>3. CASE ClientCallback
    <2>1. /\ Status = "waiting" /\ runs' = runs /\ phase' = "done"
          /\ given' = IF cli.errno THEN "error" ELSE "reply"
      BY <1>3 DEF ClientCallback, Status
    <2>2. CASE cli.errno
      <3>1. Status' = "failed"
        BY <2>1, <2>2 DEF Status
      <3> QED BY <2>1, <3>1 DEF Caller!Next, Caller!GiveUp, Status
    <2>3. CASE ~cli.errno
      <3>1. Status' = "replied"
        BY <2>1, <2>3 DEF Status
      <3>2. BufRead = Rep
        BY <1>3, <2>3 DEF ClientCallback, ClientComplete
      <3>3. buf[0] # 0 /\ buf[0] \in Nat /\ buf[0] <= runs
        BY <3>2, Dgrams DEF BufRead, UdpInv, UdpTypeOK, RepliesOfRuns
      <3>4. runs > 0
        BY <1>0, <3>3
      <3> QED BY <2>1, <3>1, <3>4 DEF Caller!Next, Caller!Answer, Status
    <2> QED BY <2>2, <2>3
  <1>4. CASE ServerHandles
    <2>1. runs' = runs + 1 /\ UNCHANGED <<phase, given>> /\ phase # "idle"
      BY <1>4, ServerHandlesWhat, PhaseOfServer
    <2>2. Status # "none" /\ Status' = Status
      BY <1>0, <2>1 DEF Status
    <2> QED BY <2>1, <2>2 DEF Caller!Next, Caller!Handle, Status
  <1>5. CASE \/ ClientSends \/ ClientResends \/ ClientTimesOut \/ ClientReads
             \/ ServerReads \/ ServerSends \/ ServerResends \/ ServerTimesOut
             \/ ServerReplies \/ ServerEnds \/ UNCHANGED udpVars
    <2>1. UNCHANGED <<phase, given, runs>>
      BY <1>5 DEF ClientSends, ClientResends, ClientTimesOut, ClientReads,
                  ClientReadsAck, ClientReadsReply, ClientHasNoMemory,
                  ClientReadsError, ClientCancels, ServerReads, ServerReadsRequest,
                  ServerHasNoMemory,
                  ServerReadsAck, ServerReadsCancel, ServerSends, ServerResends,
                  ServerTimesOut, ServerReplies, ServerEnds, udpVars
    <2> QED BY <1>1, <2>1
  <1> QED BY <1>2, <1>3, <1>4, <1>5 DEF UdpNext

\* Every behaviour of client, network and server is one of module Call: one
\* callback, and a reply only for a request that was handled.
THEOREM UdpImplementsCall == ASSUME UdpAssumption PROVE UdpSpec => ImplementsCall
  <1>1. UdpInit => Caller!Init
    BY DEF UdpInit, UdpInitIn, Caller!Init
  <1>2. UdpInv /\ [UdpNext]_udpVars => [Caller!Next]_<<Status, runs>>
    BY StepOfCall
  <1> QED BY <1>1, <1>2, UdpInvAlways, PTL DEF UdpSpec, ImplementsCall, Caller!Spec, Status

-----------------------------------------------------------------------------
\* While a client waits.

\* A step of the client that reads no dgram of a reply.
LEMMA ClientStepWaits ==
    ASSUME UdpInv, WaitInv, phase = "open", GaveUp => GaveUp',
           \/ GaveUp'
           \/ \A p \in net' : \/ p \in net \/ p \in Request
                              \/ p \in AckOfReply /\ p.num \in BufRead,
           UNCHANGED <<phase, buf, given, srv, runs>>
    PROVE  WaitInv'
  <1>1. Rep' = Rep /\ Reply' = Reply /\ BufRead' = BufRead /\ given' = "none"
    BY DEF Rep, Reply, Runs, BufRead, UdpInv, UdpTypeOK, CallInOrder
  <1>2. CASE GaveUp'
    BY <1>1, <1>2 DEF WaitInv, AcksOfRead, TroubleMeansGaveUp, OneCallWhileWaited,
                      ReadOfFirstCall
  <1>3. CASE ~GaveUp'
    <2>1. ~GaveUp /\ \A p \in net' : \/ p \in net \/ p \in Request
                                     \/ p \in AckOfReply /\ p.num \in BufRead
      BY <1>3
    <2>2. Cancel \in net' => Cancel \in net
      BY <2>1, Kinds
    <2>3. \A p \in net' : p \in Reply => p \in net
      BY <2>1, Kinds
    <2>4. ASSUME NEW d \in Rep, [kind |-> "ackReply", num |-> d] \in net'
          PROVE  [kind |-> "ackReply", num |-> d] \in net \/ buf[d] # 0
      BY <2>1, <2>4, Kinds DEF BufRead
    <2>5. AcksOfRead' /\ TroubleMeansGaveUp' /\ ReadOfFirstCall'
      BY <1>1, <2>1, <2>2, <2>4 DEF WaitInv, AcksOfRead, TroubleMeansGaveUp, ReadOfFirstCall
    <2>6. OneCallWhileWaited'
      BY <1>1, <2>1, <2>3 DEF WaitInv, OneCallWhileWaited
    <2> QED BY <2>5, <2>6 DEF WaitInv
  <1> QED BY <1>2, <1>3

LEMMA SendRequestWaits ==
    ASSUME UdpInv, WaitInv, SendRequest
    PROVE  WaitInv'
  <1>1. /\ phase = "idle" /\ phase' = "open" /\ cli' = NoClient /\ net = {} /\ runs = 0
        /\ ~cli.errno /\ given = "none"
        /\ UNCHANGED <<net, buf, given, srv, runs>>
    BY DEF SendRequest, UdpInv, UdpTypeOK, CallInOrder
  <1>2. ~GaveUp /\ ~GaveUp' /\ BufRead' = BufRead
    BY <1>1 DEF GaveUp, NoClient, BufRead
  <1> QED BY <1>1, <1>2 DEF WaitInv, AcksOfRead, TroubleMeansGaveUp, OneCallWhileWaited,
                            ReadOfFirstCall, Reply, Rep, Runs

LEMMA ClientReadsReplyWaits ==
    ASSUME UdpInv, UdpAssumption, WaitInv, NEW p \in net, ClientReadsReply(p)
    PROVE  WaitInv'
  <1>1. /\ phase = "open" /\ cli'.errno = cli.errno
        /\ p \in Reply /\ p.num \in Rep /\ p.run \in Runs /\ p.run <= runs /\ runs \in Nat
        /\ buf' = IF buf[p.num] # 0 THEN buf ELSE [buf EXCEPT ![p.num] = p.run]
        /\ UNCHANGED <<net, phase, given, srv, runs>>
    BY ClientReadsReplyWhat
  <1>2. GaveUp' = GaveUp /\ given = "none"
    BY <1>1 DEF GaveUp, UdpInv, UdpTypeOK, CallInOrder
  <1>3. buf \in [Rep -> 0 .. MaxRuns] /\ p.run # 0 /\ p.run \in Nat
    BY <1>1 DEF UdpInv, UdpTypeOK, Runs
  <1>4. BufRead \subseteq BufRead' /\ BufRead' \subseteq Rep /\ Rep' = Rep
        /\ \A d \in Rep : buf[d] # 0 => buf'[d] # 0
    BY <1>1, <1>3 DEF BufRead, Rep
  <1>5. AcksOfRead' /\ TroubleMeansGaveUp'
    BY <1>1, <1>2, <1>4 DEF WaitInv, AcksOfRead, TroubleMeansGaveUp
  <1>6. OneCallWhileWaited'
    <2> SUFFICES ASSUME ~GaveUp', BufRead' # Rep'
                 PROVE  runs <= 1 /\ (runs > 0 => srv.called) /\ srv.reply = "reply"
      BY <1>1 DEF OneCallWhileWaited
    <2>1. ~GaveUp /\ BufRead # Rep
      BY <1>2, <1>4
    <2> QED BY <1>1, <2>1 DEF WaitInv, OneCallWhileWaited
  <1>7. ReadOfFirstCall'
    <2> SUFFICES ASSUME ~GaveUp PROVE \A d \in Rep : buf'[d] <= 1
      BY <1>1, <1>2, <1>4 DEF ReadOfFirstCall
    <2>1. \A d \in Rep : buf[d] <= 1
      BY DEF WaitInv, ReadOfFirstCall
    <2>2. CASE buf[p.num] # 0
      BY <1>1, <2>1, <2>2
    <2>3. CASE buf[p.num] = 0
      <3>1. BufRead # Rep
        BY <1>1, <2>3 DEF BufRead
      <3>2. p.run <= 1
        BY <1>1, <1>3, <3>1 DEF WaitInv, OneCallWhileWaited
      <3> QED BY <1>1, <1>3, <2>1, <2>3, <3>2
    <2> QED BY <2>2, <2>3
  <1> QED BY <1>5, <1>6, <1>7 DEF WaitInv

LEMMA ClientDoneWaits ==
    ASSUME UdpInv, WaitInv, ClientCallback \/ \E p \in net : ClientCancels(p)
    PROVE  WaitInv'
  <1>1. /\ phase' = "done" /\ UNCHANGED <<buf, srv, runs>>
        /\ given' = given \/ (given' = "reply" => ~GaveUp)
    BY DEF ClientCallback, ClientCancels, GaveUp, UdpInv, UdpTypeOK, InSlot
  <1>2. GaveUp' /\ Rep' = Rep
    BY <1>1 DEF GaveUp, Rep
  <1>3. ReadOfFirstCall'
    BY <1>1, <1>2 DEF WaitInv, ReadOfFirstCall
  <1> QED BY <1>1, <1>2, <1>3 DEF WaitInv, AcksOfRead, TroubleMeansGaveUp, OneCallWhileWaited

LEMMA ClientWaits ==
    ASSUME UdpInv, UdpAssumption, WaitInv,
           SendRequest \/ ClientSends \/ ClientResends \/ ClientTimesOut
             \/ ClientReads \/ ClientCallback
    PROVE  WaitInv'
  <1>0. cli \in InSlot
    BY DEF UdpInv, UdpTypeOK
  <1>1. CASE ClientSends
    <2>1. PICK p \in Request \cup AckOfReply :
            net' = net \cup {p} /\ (p \in AckOfReply => p.num \in BufRead)
      BY <1>1, ClientSendsWhat
    <2>2. GaveUp' = GaveUp
      BY <1>1, ClientSendsWhat DEF GaveUp
    <2> QED BY <1>1, <2>1, <2>2, ClientSendsWhat, ClientStepWaits
  <1>2. CASE ClientResends \/ ClientTimesOut
    <2>1. /\ phase = "open"
          /\ cli'.errno = cli.errno \/ cli'.errno = TRUE
          /\ UNCHANGED <<net, phase, buf, given, srv, runs>>
      BY <1>0, <1>2, ClientAgain DEF ClientResends, ClientTimesOut, InSlot
    <2>2. GaveUp => GaveUp'
      BY <2>1 DEF GaveUp
    <2> QED BY <2>1, <2>2, ClientStepWaits
  <1>3. ASSUME NEW p \in net,
               ClientReadsAck(p) \/ ClientHasNoMemory(p) \/ ClientReadsError(p)
        PROVE  WaitInv'
    <2>1. /\ phase = "open"
          /\ \/ net' = net /\ cli'.errno = cli.errno
             \/ cli'.errno = TRUE
          /\ UNCHANGED <<phase, buf, given, srv, runs>>
      BY <1>3, ClientReadsWhat
    <2>2. (GaveUp => GaveUp') /\ (GaveUp' \/ net' = net)
      BY <2>1 DEF GaveUp
    <2> QED BY <2>1, <2>2, ClientStepWaits
  <1> QED BY <1>1, <1>2, <1>3, SendRequestWaits, ClientReadsReplyWaits, ClientDoneWaits
          DEF ClientReads

\* A step of the server's slot that sends no dgram of a reply, and learns of no
\* ack and no trouble but what the network holds.
LEMMA ServerStepWaits ==
    ASSUME UdpInv, WaitInv, UNCHANGED <<net, phase, cli, buf, given, runs>>,
           srv' \in OutSlot, srv.called => srv'.called, srv'.called => srv.called,
           srv'.acked \subseteq srv.acked
             \cup {d \in Rep : [kind |-> "ackReply", num |-> d] \in net},
           srv'.called /\ srv'.errno => srv.errno \/ GaveUp, srv'.forced => srv.forced \/ GaveUp,
           srv'.reply # "reply" => srv.reply # "reply"
    PROVE  WaitInv'
  <1>1. Rep' = Rep /\ Reply' = Reply /\ BufRead' = BufRead /\ GaveUp' = GaveUp
    BY DEF Rep, Reply, Runs, BufRead, GaveUp
  <1>2. AcksOfRead' /\ TroubleMeansGaveUp'
    BY <1>1 DEF WaitInv, AcksOfRead, TroubleMeansGaveUp
  <1>3. OneCallWhileWaited' /\ ReadOfFirstCall'
    BY <1>1 DEF WaitInv, OneCallWhileWaited, ReadOfFirstCall
  <1> QED BY <1>2, <1>3 DEF WaitInv

LEMMA ServerReadsRequestWaits ==
    ASSUME UdpInv, WaitInv, NEW p \in net, ServerReadsRequest(p)
    PROVE  WaitInv'
  <1>1. ~srv.on => ~srv.called /\ srv.reply = "none"
    BY DEF UdpInv, SlotInOrder, NoServer
  <1>2. /\ srv' \in OutSlot /\ UNCHANGED <<net, phase, cli, buf, given, runs>>
        /\ srv.called => srv'.called
        /\ srv'.called => srv.called
        /\ srv'.acked \subseteq srv.acked
        /\ (srv'.errno => srv.errno) /\ (srv'.forced => srv.forced)
        /\ srv'.reply # "reply" => srv.reply # "reply"
    BY <1>1, ServerReadsRequestWhat
  <1> QED BY <1>2, ServerStepWaits

LEMMA ServerHasNoMemoryWaits ==
    ASSUME UdpInv, WaitInv, NEW p \in net, ServerHasNoMemory(p)
    PROVE  WaitInv'
  <1>1. ~srv.on /\ SlotInOrder
    BY ServerHasNoMemoryWhat DEF UdpInv
  <1>2. ~srv.called /\ srv.reply = "none"
    BY <1>1 DEF SlotInOrder, NoServer
  <1> QED BY <1>2, ServerHasNoMemoryWhat, ServerStepWaits

LEMMA ServerReadsAckWaits ==
    ASSUME UdpInv, WaitInv, NEW p \in net, ServerReadsAck(p)
    PROVE  WaitInv'
  <1>1. /\ srv' \in OutSlot /\ UNCHANGED <<net, phase, cli, buf, given, runs>>
        /\ srv'.called = srv.called /\ srv'.reply = srv.reply
        /\ srv'.errno = srv.errno /\ srv'.forced = srv.forced
        /\ p \in AckOfReply /\ p.num \in Rep /\ srv'.acked = srv.acked \cup {p.num}
    BY ServerReadsAckWhat
  <1>2. p = [kind |-> "ackReply", num |-> p.num]
    BY <1>1 DEF AckOfReply
  <1>3. p.num \in {d \in Rep : [kind |-> "ackReply", num |-> d] \in net}
    BY <1>1, <1>2
  <1>4. srv'.acked \subseteq srv.acked
             \cup {d \in Rep : [kind |-> "ackReply", num |-> d] \in net}
    BY <1>1, <1>3
  <1> QED BY <1>1, <1>4, ServerStepWaits

LEMMA ServerSameWaits ==
    ASSUME UdpInv, WaitInv, ServerLast,
           \/ \E p \in net : ServerReadsCancel(p)
           \/ ServerTimesOut \/ ServerReplies \/ ServerResends
    PROVE  WaitInv'
  <1>1. /\ srv' \in OutSlot /\ UNCHANGED <<net, phase, cli, buf, given, runs>>
        /\ srv'.called = srv.called /\ srv'.acked \subseteq srv.acked
        /\ srv'.reply = srv.reply \/ (ServerReplies /\ srv'.reply \in {"reply", "error"})
        /\ srv'.forced # srv.forced => Cancel \in net
        /\ srv'.errno # srv.errno => Cancel \in net \/ ServerTimesOut
    BY ServerSameWhat
  <1>2. ServerTimesOut => GaveUp
    BY DEF ServerTimesOut, GaveUp
  <1>3. Cancel \in net => GaveUp
    BY DEF WaitInv, TroubleMeansGaveUp
  <1>4. srv'.reply # "reply" => srv.reply # "reply"
    BY <1>1 DEF ServerReplies
  <1>5. (srv'.errno => srv.errno \/ GaveUp) /\ (srv'.forced => srv.forced \/ GaveUp)
    BY <1>1, <1>2, <1>3
  <1> QED BY <1>1, <1>4, <1>5, ServerStepWaits

LEMMA ServerSendsWaits ==
    ASSUME UdpInv, UdpAssumption, WaitInv, ServerSends
    PROVE  WaitInv'
  <1>1. /\ srv'.called = srv.called /\ srv'.reply = srv.reply
        /\ srv'.errno = srv.errno /\ srv'.forced = srv.forced /\ srv'.acked = srv.acked
        /\ UNCHANGED <<phase, cli, buf, given, runs>>
    BY ServerSendsWhat
  <1>2. PICK p \in AckOfRequest \cup ErrorReply \cup Reply :
          net' = net \cup {p} /\ (p \in Reply => srv.reply = "reply")
    BY ServerSendsWhat
  <1>3. p # Cancel /\ \A d \in Rep : p # [kind |-> "ackReply", num |-> d]
    BY Kinds
  <1>4. Rep' = Rep /\ Reply' = Reply /\ BufRead' = BufRead /\ GaveUp' = GaveUp
    BY <1>1 DEF Rep, Reply, Runs, BufRead, GaveUp
  <1>5. AcksOfRead' /\ TroubleMeansGaveUp' /\ ReadOfFirstCall'
    BY <1>1, <1>2, <1>3, <1>4 DEF WaitInv, AcksOfRead, TroubleMeansGaveUp, ReadOfFirstCall
  <1>6. OneCallWhileWaited'
    BY <1>1, <1>2, <1>4 DEF WaitInv, OneCallWhileWaited
  <1> QED BY <1>5, <1>6 DEF WaitInv

\* A second call comes only after the client has read the reply, or given up.
LEMMA FirstCallWhileWaited ==
    ASSUME UdpInv, UdpAssumption, WaitInv, ServerHandles, ~GaveUp, BufRead # Rep
    PROVE  runs = 0
  <1>1. ~srv.called /\ runs \in Nat
    BY ServerHandlesWhat
  <1> QED BY <1>1 DEF WaitInv, OneCallWhileWaited

LEMMA ServerHandlesWaits ==
    ASSUME UdpInv, UdpAssumption, WaitInv, ServerHandles
    PROVE  WaitInv'
  <1>1. /\ runs' = runs + 1 /\ srv.reply = "none"
        /\ srv'.called /\ srv'.reply = "none" /\ ~srv'.errno /\ ~srv'.forced
        /\ srv'.acked = srv.acked
        /\ UNCHANGED <<net, phase, cli, buf, given>>
    BY ServerHandlesWhat
  <1>2. Rep' = Rep /\ Reply' = Reply /\ BufRead' = BufRead /\ GaveUp' = GaveUp
    BY <1>1 DEF Rep, Reply, Runs, BufRead, GaveUp
  <1>3. AcksOfRead' /\ TroubleMeansGaveUp' /\ ReadOfFirstCall'
    BY <1>1, <1>2 DEF WaitInv, AcksOfRead, TroubleMeansGaveUp, ReadOfFirstCall
  <1>4. OneCallWhileWaited'
    <2> SUFFICES ASSUME ~GaveUp, BufRead # Rep
                 PROVE  runs' <= 1 /\ BufRead = {} /\ net \cap Reply = {}
      BY <1>1, <1>2 DEF OneCallWhileWaited
    <2>1. runs = 0
      BY FirstCallWhileWaited
    <2> QED BY <1>1, <2>1 DEF WaitInv, OneCallWhileWaited
  <1> QED BY <1>3, <1>4 DEF WaitInv

\* A slot that has not had trouble ends when the client has all of the reply.
LEMMA EndedByAcks ==
    ASSUME UdpInv, UdpAssumption, WaitInv, ServerEnds, ~GaveUp, srv.called \/ ~srv.errno
    PROVE  BufRead = Rep
  <1>1. ~srv.errno /\ ~srv.forced
    BY DEF WaitInv, TroubleMeansGaveUp
  <1>2. srv.reply # "none" /\ ToSend \subseteq srv.acked
    BY <1>1 DEF ServerEnds, ServerComplete
  <1>3. \A d \in Rep : d \in srv.acked => buf[d] # 0
    BY DEF WaitInv, AcksOfRead
  <1>4. CASE srv.reply = "reply"
    BY <1>2, <1>3, <1>4 DEF ToSend, BufRead
  <1>5. CASE srv.reply = "error"
    <2>1. 0 \in BufRead
      BY <1>2, <1>3, <1>5, Dgrams DEF ToSend, BufRead
    <2> QED BY <1>5, <2>1 DEF WaitInv, OneCallWhileWaited
  <1> QED BY <1>2, <1>4, <1>5 DEF UdpInv, UdpTypeOK, OutSlot

LEMMA ServerEndsWaits ==
    ASSUME UdpInv, UdpAssumption, WaitInv, ServerEnds
    PROVE  WaitInv'
  <1>1. srv' = NoServer /\ UNCHANGED <<net, phase, cli, buf, given, runs>>
    BY DEF ServerEnds
  <1>2. srv'.acked = {} /\ ~srv'.errno /\ ~srv'.forced
    BY <1>1 DEF NoServer
  <1>3. Rep' = Rep /\ BufRead' = BufRead /\ GaveUp' = GaveUp
    BY <1>1 DEF Rep, BufRead, GaveUp
  <1>4. AcksOfRead' /\ TroubleMeansGaveUp' /\ ReadOfFirstCall'
    BY <1>1, <1>2, <1>3 DEF WaitInv, AcksOfRead, TroubleMeansGaveUp, ReadOfFirstCall
  <1>5. CASE srv.called
    <2>1. OneCallWhileWaited'
      BY <1>3, <1>5, EndedByAcks DEF OneCallWhileWaited
    <2> QED BY <1>4, <2>1 DEF WaitInv
  <1>6. CASE ~srv.called
    <2>1. srv.reply = "none" /\ Reply' = Reply
      BY <1>1, <1>6 DEF UdpInv, SlotInOrder, NoServer, Reply, Rep, Runs
    <2>2. OneCallWhileWaited'
      BY <1>1, <1>3, <1>6, <2>1 DEF WaitInv, OneCallWhileWaited, UdpInv, UdpTypeOK, NoServer
    <2> QED BY <1>4, <2>2 DEF WaitInv
  <1> QED BY <1>5, <1>6

LEMMA WaitInvInductive ==
    ASSUME UdpInv, UdpAssumption, ServerLast, WaitInv, [UdpNext]_udpVars
    PROVE  WaitInv'
  <1>1. CASE UNCHANGED udpVars
    BY <1>1 DEF udpVars, WaitInv, AcksOfRead, TroubleMeansGaveUp, OneCallWhileWaited,
                ReadOfFirstCall, GaveUp, BufRead, Rep, Reply, Runs
  <1> QED BY <1>1, ClientWaits, ServerReadsRequestWaits, ServerHasNoMemoryWaits,
             ServerReadsAckWaits,
             ServerSameWaits, ServerSendsWaits, ServerHandlesWaits, ServerEndsWaits
          DEF UdpNext, ServerReads

LEMMA WaitInvAlways ==
    ASSUME UdpAssumption, ServerLast
    PROVE  UdpSpec => [](UdpInv /\ WaitInv)
  <1>1. UdpInit => UdpInv /\ WaitInv
    BY UdpInitInv
  <1>2. UdpInv /\ WaitInv /\ [UdpNext]_udpVars => (UdpInv /\ WaitInv)'
    BY UdpInvInductive, WaitInvInductive
  <1> QED BY <1>1, <1>2, PTL DEF UdpSpec

\* A client is given dgrams of one reply only, when the server does not give up
\* first: whatever the network does, for any window and number of calls.
THEOREM ReplyIsOfOneCall ==
    ASSUME UdpAssumption, ServerLast
    PROVE  UdpSpec => []ReplyOfOneCall
  <1>1. UdpInv /\ WaitInv => ReplyOfOneCall
    <2> SUFFICES ASSUME UdpInv, WaitInv, given = "reply"
                 PROVE  \E r \in Runs : buf = [d \in Rep |-> r]
      BY DEF ReplyOfOneCall
    <2>1. BufRead = Rep /\ buf \in [Rep -> 0 .. MaxRuns]
      BY DEF UdpInv, UdpTypeOK, CallInOrder
    <2>2. \A d \in Rep : buf[d] <= 1 /\ buf[d] # 0 /\ buf[d] \in Nat
      BY <2>1 DEF WaitInv, ReadOfFirstCall, BufRead
    <2>3. \A d \in Rep : buf[d] = 1
      BY <2>2
    <2>4. 1 \in Runs
      <3>1. 1 \in 0 .. MaxRuns
        BY <2>1, <2>3, Dgrams
      <3> QED BY <3>1, Dgrams DEF Runs
    <2>5. buf = [d \in Rep |-> 1]
      BY <2>1, <2>3
    <2> QED BY <2>4, <2>5
  <1> QED BY <1>1, WaitInvAlways, PTL

\* The server ends a transaction without an error only when the client has read
\* all of the reply, or has given up.
THEOREM SlotEndedWhenRead ==
    ASSUME UdpAssumption, ServerLast
    PROVE  UdpSpec => EndedWhenRead
  <1> DEFINE A == srv.on /\ ~srv'.on /\ ~srv.errno /\ srv.reply = "reply"
                    => phase = "done" \/ cli.errno \/ BufRead = Rep
  <1>1. ASSUME UdpInv, WaitInv, UdpNext PROVE A
    <2>1. CASE ServerEnds
      BY <1>1, <2>1, EndedByAcks DEF GaveUp
    <2>2. CASE ServerSends
      BY <1>1, <2>2, ServerSendsWhat
    <2>3. CASE ServerHandles
      BY <1>1, <2>3, ServerHandlesWhat
    <2>4. CASE ServerTimesOut \/ ServerReplies \/ ServerResends
      BY <1>1, <2>4, ServerSameWhat
    <2>5. CASE ServerReads
      BY <1>1, <2>5, ServerReadsRequestWhat, ServerHasNoMemoryWhat,
         ServerReadsAckWhat, ServerSameWhat
         DEF ServerReads
    <2>6. CASE SendRequest \/ ClientSends \/ ClientResends \/ ClientTimesOut
                 \/ ClientReads \/ ClientCallback
      BY <2>6 DEF SendRequest, ClientSends, ClientResends, ClientTimesOut, ClientReads,
                  ClientReadsAck, ClientReadsReply, ClientHasNoMemory, ClientReadsError,
                  ClientCancels, ClientCallback
    <2> QED BY <1>1, <2>1, <2>2, <2>3, <2>4, <2>5, <2>6 DEF UdpNext
  <1>2. UdpInv /\ WaitInv /\ [UdpNext]_udpVars => [A]_udpVars
    BY <1>1
  <1> QED BY <1>2, WaitInvAlways, PTL DEF UdpSpec, EndedWhenRead

\* While the client waits its request is handled once.
THEOREM RequestHandledOnce ==
    ASSUME UdpAssumption, ServerLast
    PROVE  UdpSpec => HandledOnceWhileWaited
  <1> DEFINE A == runs' > runs /\ runs > 0 => phase = "done" \/ cli.errno \/ BufRead = Rep
  <1>1. ASSUME UdpInv, WaitInv, UdpNext PROVE A
    <2>1. runs \in Nat
      BY <1>1 DEF UdpInv, UdpTypeOK
    <2>2. CASE ServerHandles
      BY <1>1, <2>1, <2>2, FirstCallWhileWaited DEF GaveUp
    <2>3. CASE ~ServerHandles
      <3>1. runs' = runs
        BY <1>1, <2>3
           DEF UdpNext, SendRequest, ClientSends, ClientResends, ClientTimesOut,
               ClientReads, ClientReadsAck, ClientReadsReply, ClientHasNoMemory,
               ClientReadsError, ClientCancels, ClientCallback, ServerReads,
               ServerReadsRequest, ServerHasNoMemory, ServerReadsAck,
               ServerReadsCancel, ServerSends, ServerResends, ServerTimesOut, ServerReplies, ServerEnds
      <3> QED BY <2>1, <3>1
    <2> QED BY <2>2, <2>3
  <1>2. UdpInv /\ WaitInv /\ [UdpNext]_udpVars => [A]_udpVars
    BY <1>1
  <1> QED BY <1>2, WaitInvAlways, PTL DEF UdpSpec, HandledOnceWhileWaited

-----------------------------------------------------------------------------
\* The bit maps of a slot: their bytes are cleared in order, for a message of any
\* length, as long as the window fits into a byte.

\* What C's division of a dgram's number by eight does.
LEMMA ByteOfDgram ==
    ASSUME NEW n \in Nat, NEW b \in Nat \ {0}
    PROVE  /\ n \div b \in Nat
           /\ (n \div b) * b <= n
           /\ n < (n \div b) * b + b
  OBVIOUS

\* A dgram lies below the first k bytes exactly when its byte is one of them.
LEMMA ByteBelow ==
    ASSUME NEW n \in Nat, NEW k \in Nat, NEW b \in Nat \ {0}
    PROVE  n < k * b <=> n \div b < k
  <1> DEFINE d == n \div b
  <1>1. d \in Nat /\ d * b <= n /\ n < d * b + b
    BY ByteOfDgram
  <1> HIDE DEF d
  <1>2. CASE d < k
    <2>1. PICK j \in Nat : k = d + 1 + j
      <3>1. k - (d + 1) \in Nat /\ k = d + 1 + (k - (d + 1))
        BY <1>1, <1>2
      <3> QED BY <3>1
    <2>2. k * b = d * b + b + j * b /\ j * b \in Nat
      BY <1>1, <2>1
    <2> QED BY <1>1, <1>2, <2>2 DEF d
  <1>3. CASE ~(d < k)
    <2>1. PICK j \in Nat : d = k + j
      <3>1. d - k \in Nat /\ d = k + (d - k)
        BY <1>1, <1>3
      <3> QED BY <3>1
    <2>2. d * b = k * b + j * b /\ j * b \in Nat
      BY <1>1, <2>1
    <2> QED BY <1>1, <1>3, <2>2 DEF d
  <1> QED BY <1>2, <1>3

\* The bytes cleared are the first k, all dgrams read lie in them.
BytesInOrder(k) ==
    /\ k \in Nat
    /\ numInit = k * ByteBits
    /\ cleared = 0 .. k - 1
    /\ read \subseteq 0 .. numInit - 1

BitsInv == sound = TRUE /\ \E k \in Nat : BytesInOrder(k)

\* A set of numbers below m has at most m members.
LEMMA ReadFew ==
    ASSUME NEW m \in Nat, NEW S \in SUBSET (0 .. m - 1)
    PROVE  Cardinality(S) \in Nat /\ Cardinality(S) <= m
  <1>1. IsFiniteSet(0 .. m - 1) /\ Cardinality(0 .. m - 1) = m
    BY FS_Interval
  <1>2. IsFiniteSet(S) /\ Cardinality(S) <= Cardinality(0 .. m - 1)
    BY <1>1, FS_Subset
  <1> QED BY <1>1, <1>2, FS_CardinalityType

\* A dgram that is not past the next byte is touched soundly.
LEMMA TouchInOrder ==
    ASSUME DgramBitsAssumption, NEW k \in Nat, BytesInOrder(k), sound = TRUE,
           NEW n \in Nat, n < numInit + ByteBits, Touch(n),
           read' \subseteq read \cup {n}
    PROVE  BitsInv'
  <1> DEFINE byte == n \div ByteBits
  <1>1. ByteBits \in Nat \ {0} /\ numInit = k * ByteBits /\ cleared = 0 .. k - 1
        /\ k * ByteBits \in Nat /\ (k + 1) * ByteBits = k * ByteBits + ByteBits
    BY DEF DgramBitsAssumption, BytesInOrder
  <1>2. byte \in Nat /\ (n < k * ByteBits <=> byte < k)
    BY <1>1, ByteOfDgram, ByteBelow
  <1>5. n < (k + 1) * ByteBits <=> byte < k + 1
    <2>1. k + 1 \in Nat
      OBVIOUS
    <2> QED BY <1>1, <2>1, ByteBelow
  <1> HIDE DEF byte
  <1>3. CASE n >= numInit
    <2>1. byte = k
      BY <1>1, <1>2, <1>3, <1>5
    <2>2. /\ numInit' = numInit + ByteBits
          /\ cleared' = cleared \cup {byte}
          /\ sound' = (sound /\ byte \notin cleared /\ n < numInit + ByteBits)
      BY <1>3 DEF Touch, byte
    <2>3. cleared' = 0 .. (k + 1) - 1
      BY <1>1, <2>1, <2>2
    <2>4. sound' = TRUE
      <3>1. byte \notin cleared
        BY <1>1, <2>1
      <3> QED BY <2>2, <3>1, Zenon
    <2>5. read' \subseteq 0 .. numInit' - 1
      BY <1>1, <2>2 DEF BytesInOrder
    <2> QED BY <1>1, <2>2, <2>3, <2>4, <2>5 DEF BitsInv, BytesInOrder
  <1>4. CASE n < numInit
    <2>1. byte \in cleared
      BY <1>1, <1>2, <1>4
    <2>2. sound' = (sound /\ byte \in cleared) /\ numInit' = numInit /\ cleared' = cleared
      BY <1>1, <1>4 DEF Touch, byte
    <2>3. read' \subseteq 0 .. numInit' - 1
      BY <1>1, <1>4, <2>2 DEF BytesInOrder
    <2> QED BY <1>1, <2>1, <2>2, <2>3 DEF BitsInv, BytesInOrder
  <1> QED BY <1>1, <1>3, <1>4

\* Whatever the length of a message, no byte of a slot's bit maps is used
\* before it is cleared and none is cleared twice, when the window is no larger
\* than a byte and the first dgram read is one of the first window.
THEOREM BitsStaySound ==
    ASSUME DgramBitsAssumption, ~Strays
    PROVE  DgramBitsSpec => []BitsSound
  <1>1. DgramBitsInit => BitsInv
    <2> SUFFICES ASSUME DgramBitsInit PROVE BitsInv
      OBVIOUS
    <2>1. BytesInOrder(0)
      BY DEF BytesInOrder, DgramBitsInit, DgramBitsAssumption
    <2> QED BY <2>1 DEF BitsInv, DgramBitsInit
  <1>2. BitsInv /\ [DgramBitsNext]_bitsVars => BitsInv'
    <2> SUFFICES ASSUME BitsInv, [DgramBitsNext]_bitsVars PROVE BitsInv'
      OBVIOUS
    <2>1. PICK k \in Nat : BytesInOrder(k)
      BY DEF BitsInv
    <2>2. sound = TRUE /\ ByteBits \in Nat \ {0} /\ k * ByteBits \in Nat
          /\ AckWindow \in Nat /\ AckWindow <= ByteBits
      BY DEF BitsInv, DgramBitsAssumption
    <2>3. ASSUME NEW n \in Dgram, ReadDatagram(n) PROVE BitsInv'
      <3>1. n \in Nat /\ read' \subseteq read \cup {n} /\ Touch(n) /\ Sendable(n)
        BY <2>3 DEF ReadDatagram, Dgram, DgramBitsAssumption
      <3>2. n \in Nat /\ n < numInit + ByteBits
        <4>1. n \in Nat /\ n < Cardinality(read) + AckWindow
          BY <2>3, <3>1 DEF Sendable, Dgram, DgramBitsAssumption
        <4>2. Cardinality(read) \in Nat /\ Cardinality(read) <= numInit
          BY <2>1, <2>2, ReadFew DEF BytesInOrder
        <4> QED BY <2>1, <2>2, <4>1, <4>2 DEF BytesInOrder
      <3> QED BY <2>1, <2>2, <3>1, <3>2, TouchInOrder
    <2>4. ASSUME NEW n \in Dgram, LookForAck(n) PROVE BitsInv'
      <3>1. PICK m \in read : n <= m + 1
        BY <2>4 DEF LookForAck
      <3>2. n \in Nat /\ n < numInit + ByteBits
        BY <2>1, <2>2, <3>1 DEF BytesInOrder, Dgram, DgramBitsAssumption
      <3> QED BY <2>1, <2>2, <2>4, <3>2, TouchInOrder DEF LookForAck
    <2>5. ASSUME UNCHANGED bitsVars PROVE BitsInv'
      BY <2>5 DEF bitsVars, BitsInv, BytesInOrder
    <2> QED BY <2>3, <2>4, <2>5 DEF DgramBitsNext
  <1>3. BitsInv => BitsSound
    BY DEF BitsInv, BitsSound
  <1> QED BY <1>1, <1>2, <1>3, PTL DEF DgramBitsSpec
=============================================================================
