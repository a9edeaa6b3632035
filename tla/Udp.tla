-------------------------------- MODULE Udp --------------------------------
(***************************************************************************)
(* One transaction of the datagram protocol of UdpServer.cpp and           *)
(* UdpSlot.cpp: a client sends a request in several dgrams, a server reads *)
(* them into a slot of its own, calls the handler of the message type, and *)
(* sends the handler's reply in dgrams.  Each dgram is acknowledged by an  *)
(* ack, and what is not acknowledged is sent again.                        *)
(*                                                                         *)
(* The network keeps every packet ever sent.  A packet may be received     *)
(* never, late, out of order, and any number of times.                     *)
(***************************************************************************)
EXTENDS Integers, FiniteSets

CONSTANTS
    ReqDgrams,  \* how many dgrams the request takes
    RepDgrams,  \* how many dgrams the reply takes
    Window,     \* ACK_WINDOW_SIZE
    MaxRuns,    \* BOUND: how often the handler is called
    ServerLast  \* the server gives up only when the client has done so

\* The bits of up to eight dgrams are in one byte, cleared at first use; for
\* longer messages module DgramBits has the conditions under which they are sets.
ASSUME UdpAssumption == /\ ReqDgrams \in 1 .. 8
                        /\ RepDgrams \in 1 .. 8
                        /\ Window \in Nat \ {0}
                        /\ MaxRuns \in Nat
                        /\ ServerLast \in BOOLEAN

VARIABLES
    net,    \* the packets sent so far
    phase,  \* of the client's request: "idle", "open" (has a slot), "done"
    cli,    \* the client's slot
    buf,    \* its m_readBuf: from which call of the handler each dgram is
    given,  \* what its callback was given: "none", "reply", "error"
    srv,    \* the server's slot
    runs,   \* how often the handler has been called
    whole   \* the requests handed to the handler had all their dgrams

udpVars == <<net, phase, cli, buf, given, srv, runs, whole>>

Req  == 0 .. ReqDgrams - 1
Rep  == 0 .. RepDgrams - 1
Runs == 1 .. MaxRuns

Request == [kind : {"request"}, num : Req]
Reply   == [kind : {"reply"},  num : Rep, run : Runs]
ErrorReply == [kind : {"error"}]
AckOfRequest == [kind : {"ackRequest"}, num : Req]
AckOfReply   == [kind : {"ackReply"}, num : Rep]
Cancel  == [kind |-> "cancel"]
Packet  == Request \cup Reply \cup ErrorReply \cup AckOfRequest
             \cup AckOfReply \cup {Cancel}

(***************************************************************************)
(* The bit maps of a slot.  The code keeps the number of bits of each in a *)
(* variable of its own (m_sentBitsOn...).  "forced" stands for the branch  *)
(* of readDatagramOrAck() that sets all of these numbers to one.           *)
(***************************************************************************)
NoClient == [sent |-> {}, acked |-> {}, ackSent |-> {}, errno |-> FALSE]
NoServer == [on |-> FALSE, read |-> {}, ackSent |-> {}, called |-> FALSE,
             reply |-> "none", sent |-> {}, acked |-> {}, errno |-> FALSE,
             forced |-> FALSE]
Empty == [d \in Rep |-> 0]

InSlot == [sent : SUBSET Req, acked : SUBSET Req, ackSent : SUBSET Rep,
           errno : BOOLEAN]
OutSlot == [on : BOOLEAN, read : SUBSET Req, ackSent : SUBSET Req,
            called : BOOLEAN, reply : {"none", "reply", "error"},
            sent : SUBSET Rep, acked : SUBSET Rep, errno : BOOLEAN,
            forced : BOOLEAN]

UdpTypeOK == /\ net \subseteq Packet
             /\ phase \in {"idle", "open", "done"}
             /\ cli \in InSlot
             /\ buf \in [Rep -> 0 .. MaxRuns]
             /\ given \in {"none", "reply", "error"}
             /\ srv \in OutSlot
             /\ runs \in 0 .. MaxRuns
             /\ whole \in BOOLEAN

UdpInitIn(p) == /\ net = {}
                /\ phase = p
                /\ cli = NoClient
                /\ buf = Empty
                /\ given = "none"
                /\ srv = NoServer
                /\ runs = 0
                /\ whole = TRUE
UdpInit == UdpInitIn("idle")

(* Mutant: the bit after it. *)
FirstPlusOne(S) == 1 + CHOOSE d \in S : \A e \in S : d <= e

First(S) == CHOOSE d \in S : \A e \in S : d <= e

Send(p) == net' = net \cup {p}

BufRead == {d \in Rep : buf[d] # 0}

(***************************************************************************)
(* What readAck() leaves of the bits of dgrams sent: the acknowledged one  *)
(* is on; those before it that are not acknowledged, down to the first     *)
(* that is, are off and will be sent again.                                *)
(***************************************************************************)
SentAfterAck(sent, acked, d) ==
    (sent \cup {d}) \ {i \in sent : i < d /\ \A j \in i .. d - 1 : j \notin acked}

\* readAck().
WithAck(slot, d) ==
    IF d \in slot.acked THEN slot
    ELSE [slot EXCEPT !.acked = @ \cup {d},
                      !.sent = SentAfterAck(@, slot.acked, d)]

\* prepareForResend(): what was sent and not acknowledged is sent again.
Again(slot, all) ==
    IF all THEN [slot EXCEPT !.sent = {}, !.acked = {}]
           ELSE [slot EXCEPT !.sent = @ \cap slot.acked]

-----------------------------------------------------------------------------
(* The client.                                                             *)

\* sendRequest(), up to the loop of doSending_ass().
SendRequest == /\ phase = "idle"
               /\ phase' = "open"
               /\ cli' = NoClient
               /\ UNCHANGED <<net, buf, given, srv, runs, whole>>

\* One turn of the loop of doSending_ass(): an ack if there is one to send,
\* else the next dgram, if the window is open.  The loop may stop at any turn,
\* when the socket is full, and goes on from sendPollWrapper_ass().
ClientSends ==
    /\ phase = "open"
    /\ \/ LET owed == BufRead \ cli.ackSent IN
          /\ owed # {}
          /\ Send([kind |-> "ackReply", num |-> First(owed)])
          /\ cli' = [cli EXCEPT !.ackSent = @ \cup {First(owed)}]
       \/ LET left == Req \ cli.sent IN
          /\ BufRead \subseteq cli.ackSent
          /\ left # {}
          /\ Cardinality(cli.sent) < Cardinality(cli.acked) + Window
          /\ Send([kind |-> "request", num |-> First(left)])
          /\ cli' = [cli EXCEPT !.sent = @ \cup {First(left)}]
    /\ UNCHANGED <<phase, buf, given, srv, runs, whole>>

\* readTimeoutPoll(): after m_resendTime; everything, acknowledged or not, when
\* nothing is owed to us and 30 seconds have passed without a reply.
ClientResends ==
    /\ phase = "open"
    /\ cli' = Again(cli, Cardinality(cli.sent) = Cardinality(cli.acked))
    /\ UNCHANGED <<net, phase, buf, given, srv, runs, whole>>

\* readTimeoutPoll(): nothing read for m_timeout seconds.
ClientTimesOut ==
    /\ phase = "open" /\ ~cli.errno
    /\ cli' = [cli EXCEPT !.errno = TRUE]
    /\ UNCHANGED <<net, phase, buf, given, srv, runs, whole>>

ClientReadsAck(p) ==
    /\ phase = "open" /\ p \in AckOfRequest
    /\ cli' = WithAck(cli, p.num)
    /\ UNCHANGED <<net, phase, buf, given, srv, runs, whole>>

\* A dgram of a reply acknowledges the whole request.  One that has been read
\* before gets its ack once more.
ClientReadsReply(p) ==
    /\ phase = "open" /\ p \in Reply
    /\ IF buf[p.num] # 0
       THEN /\ cli' = [cli EXCEPT !.acked = Req, !.ackSent = @ \ {p.num}]
            /\ UNCHANGED buf
       ELSE /\ cli' = [cli EXCEPT !.acked = Req]
            /\ buf' = [buf EXCEPT ![p.num] = p.run]
    /\ UNCHANGED <<net, phase, given, srv, runs, whole>>

\* The first dgram of a reply for which there is no memory: ENOMEM for the
\* callback and a cancelling ack for the server.
ClientHasNoMemory(p) ==
    /\ phase = "open" /\ p \in Reply /\ BufRead = {}
    /\ Send(Cancel)
    /\ cli' = [cli EXCEPT !.acked = Req, !.errno = TRUE]
    /\ UNCHANGED <<phase, buf, given, srv, runs, whole>>

\* The ack goes out if the socket has room, before the callback.
ClientReadsError(p) ==
    /\ phase = "open" /\ p \in ErrorReply
    /\ net' \in {net, net \cup {[kind |-> "ackReply", num |-> 0]}}
    /\ cli' = [cli EXCEPT !.errno = TRUE]
    /\ UNCHANGED <<phase, buf, given, srv, runs, whole>>

\* A reply for which the client has no slot any more is cancelled.
ClientCancels(p) ==
    /\ phase = "done" /\ p \in Reply \cup ErrorReply
    /\ Cancel \notin net
    /\ Send(Cancel)
    /\ UNCHANGED <<phase, cli, buf, given, srv, runs, whole>>

(* Mutant: only what was sent counts. *)
ClientCompleteOnceSent == cli.sent = Req /\ cli.acked = Req

\* isTransactionComplete() of the client's slot.
ClientComplete == /\ BufRead = Rep /\ cli.ackSent = Rep
                  /\ cli.sent = Req /\ cli.acked = Req

\* makeCallback_ass() for a slot with a callback, and destroySlot().
ClientCallback ==
    /\ phase = "open"
    /\ cli.errno \/ ClientComplete
    /\ phase' = "done"
    /\ given' = IF cli.errno THEN "error" ELSE "reply"
    /\ cli' = NoClient
    /\ UNCHANGED <<net, buf, srv, runs, whole>>

-----------------------------------------------------------------------------
(* The server.                                                             *)

\* readSock_ass() takes a slot for a request it does not know, or drops the
\* dgram when it has no slot to spare.
ServerReadsRequest(p) ==
    /\ p \in Request
    /\ srv.on \/ runs < MaxRuns
    /\ srv' = IF ~srv.on
              THEN [NoServer EXCEPT !.on = TRUE, !.read = {p.num}]
              ELSE IF p.num \in srv.read
              THEN [srv EXCEPT !.ackSent = @ \ {p.num}]
              ELSE [srv EXCEPT !.read = @ \cup {p.num}]
    /\ UNCHANGED <<net, phase, cli, buf, given, runs, whole>>

\* No memory for the read buffer: the slot is made all the same, ends with an
\* error before any handler sees it, and the request has to be sent again.
ServerHasNoMemory(p) ==
    /\ p \in Request
    /\ ~srv.on /\ runs < MaxRuns
    /\ srv' = [NoServer EXCEPT !.on = TRUE, !.errno = TRUE]
    /\ UNCHANGED <<net, phase, cli, buf, given, runs, whole>>

ServerReadsAck(p) ==
    /\ srv.on /\ p \in AckOfReply
    /\ srv' = WithAck(srv, p.num)
    /\ UNCHANGED <<net, phase, cli, buf, given, runs, whole>>

(* Mutant: any slot that counts a dgram as sent may be cancelled. *)
CancellableBefore == srv.sent # {}

Cancellable == srv.sent # {} /\ srv.reply # "none"

\* A cancelling ack counts only when some dgram counts as sent (a late ack
\* makes it so) and there is a reply (m_sendBufSize; replies are not empty here).
ServerReadsCancel(p) ==
    /\ srv.on /\ p = Cancel
    /\ Cancellable
    /\ srv' = [srv EXCEPT !.forced = TRUE, !.errno = TRUE]
    /\ UNCHANGED <<net, phase, cli, buf, given, runs, whole>>

ToSend == CASE srv.reply = "none"  -> {}
            [] srv.reply = "reply" -> Rep
            [] srv.reply = "error" -> {0}

ServerSends ==
    /\ srv.on /\ ~srv.forced
    /\ \/ LET owed == srv.read \ srv.ackSent IN
          /\ owed # {}
          /\ Send([kind |-> "ackRequest", num |-> First(owed)])
          /\ srv' = [srv EXCEPT !.ackSent = @ \cup {First(owed)}]
       \/ LET left == ToSend \ srv.sent IN
          /\ srv.read \subseteq srv.ackSent
          /\ left # {}
          /\ Cardinality(srv.sent) < Cardinality(srv.acked) + Window
          /\ Send(IF srv.reply = "error" THEN [kind |-> "error"]
                  ELSE [kind |-> "reply", num |-> First(left), run |-> runs])
          /\ srv' = [srv EXCEPT !.sent = @ \cup {First(left)}]
    /\ UNCHANGED <<phase, cli, buf, given, runs, whole>>

ServerResends ==
    /\ srv.on /\ srv.reply # "none" /\ ~srv.forced
    /\ srv' = Again(srv, Cardinality(srv.sent) = Cardinality(srv.acked))
    /\ UNCHANGED <<net, phase, cli, buf, given, runs, whole>>

\* isDoneReading() and isTransactionComplete() of the server's slot.
ServerDoneReading == srv.forced \/ srv.read = Req
(* Mutant: what is sent need not be acknowledged. *)
ServerCompleteOnceSent ==
    \/ srv.forced
    \/ /\ srv.read = Req /\ srv.ackSent = Req
       /\ srv.reply # "none" /\ ToSend \subseteq srv.sent

ServerComplete ==
    \/ srv.forced
    \/ /\ srv.read = Req /\ srv.ackSent = Req
       /\ srv.reply # "none"
       /\ ToSend \subseteq srv.sent /\ ToSend \subseteq srv.acked

(* Mutants: a request is with the handler never, or for ever. *)
WithHandlerNever == FALSE
WithHandlerForEver == ServerDoneReading

WithHandler == ServerDoneReading /\ srv.reply = "none"

\* readTimeoutPoll() leaves a slot alone whose request is with the handler.
ServerTimesOut ==
    /\ srv.on /\ ~srv.errno
    /\ ~WithHandler
    /\ ServerLast => phase = "done"
    /\ srv' = [srv EXCEPT !.errno = TRUE]
    /\ UNCHANGED <<net, phase, cli, buf, given, runs, whole>>

\* makeCallback_ass() calls the handler once for a slot that is done reading.
ServerHandles ==
    /\ srv.on /\ ~srv.called /\ ServerDoneReading
    /\ runs < MaxRuns
    /\ runs' = runs + 1
    /\ srv' = [srv EXCEPT !.called = TRUE, !.errno = FALSE]
    /\ whole' = (whole /\ srv.read = Req)
    /\ UNCHANGED <<net, phase, cli, buf, given>>

\* The handler calls sendReply_ass() or sendErrorReply(), at any later time.
ServerReplies ==
    /\ srv.on /\ srv.called /\ srv.reply = "none"
    /\ \E r \in {"reply", "error"} : srv' = [srv EXCEPT !.reply = r]
    /\ UNCHANGED <<net, phase, cli, buf, given, runs, whole>>

\* makeCallback_ass() ends in destroySlot().
ServerEnds ==
    /\ srv.on
    /\ IF srv.called THEN srv.errno \/ ServerComplete
                     ELSE srv.errno /\ ~ServerDoneReading
    /\ srv' = NoServer
    /\ UNCHANGED <<net, phase, cli, buf, given, runs, whole>>

-----------------------------------------------------------------------------
ClientReads == \E p \in net : \/ ClientReadsAck(p)
                              \/ ClientReadsReply(p)
                              \/ ClientHasNoMemory(p)
                              \/ ClientReadsError(p)
                              \/ ClientCancels(p)
ServerReads == \E p \in net : \/ ServerReadsRequest(p)
                              \/ ServerHasNoMemory(p)
                              \/ ServerReadsAck(p)
                              \/ ServerReadsCancel(p)

UdpNext == \/ SendRequest \/ ClientSends \/ ClientResends \/ ClientTimesOut
           \/ ClientReads \/ ClientCallback
           \/ ServerReads \/ ServerSends \/ ServerResends \/ ServerTimesOut
           \/ ServerHandles \/ ServerReplies \/ ServerEnds

UdpSpec == UdpInit /\ [][UdpNext]_udpVars

(***************************************************************************)
(* Fairness.  timePoll() runs every few milliseconds: a slot that nothing  *)
(* comes in for times out, what is ready is called back, and process_ass() *)
(* takes every packet the network does deliver.  Handlers reply in the end *)
(* (external: it is what their authors promise).  Delivery is not fair.    *)
(***************************************************************************)
UdpFairness == /\ WF_udpVars(ClientTimesOut) /\ WF_udpVars(ClientCallback)
               /\ WF_udpVars(ServerTimesOut) /\ WF_udpVars(ServerEnds)
               /\ WF_udpVars(ServerHandles)  /\ WF_udpVars(ServerReplies)
UdpFairSpec == UdpSpec /\ UdpFairness

-----------------------------------------------------------------------------
\* What the layers above see of a transaction: the promise of module Call.
Caller == INSTANCE Call WITH
    call <- IF phase = "open" THEN "waiting"
            ELSE CASE given = "none"  -> "none"
                   [] given = "reply" -> "replied"
                   [] given = "error" -> "failed",
    handled <- runs

\* The callback comes once, and without an error only for a request that was
\* handled, whatever is lost, late or repeated.
ImplementsCall == Caller!Spec

\* A callback without an error has the whole reply, of one call of the handler:
\* dgrams of an earlier and a later reply never meet in one read buffer
\* (UdpSlot.cpp:1378, 1435).  Several packets must be late for it to fail.
ReplyOfOneCall ==
    given = "reply" => \E r \in Runs : buf = [d \in Rep |-> r]

\* The handler never gets a request some of whose dgrams have not come in,
\* whatever late acks and cancels do to the bits of a slot (UdpSlot.cpp:1257).
HandledWhole == whole

\* The server drops a slot without an error only when the client has all of the
\* reply, or is not interested any more.
EndedWhenRead ==
    [][ srv.on /\ ~srv'.on /\ ~srv.errno /\ srv.reply = "reply"
          => phase = "done" \/ cli.errno \/ BufRead = Rep ]_udpVars

\* A slot stays where it is while the handler works on its reply: it is neither
\* cancelled nor timed out under it (UdpSlot.cpp:1242, UdpServer.cpp:2931).
HandlerKeepsSlot ==
    [][ srv.on /\ srv.called /\ srv.reply = "none" => srv'.on ]_udpVars

\* While a client waits and the server is up, its request is handled once: what
\* it sends again finds the slot, until the reply has been read or given up.
HandledOnceWhileWaited ==
    [][ runs' > runs /\ runs > 0 => phase = "done" \/ cli.errno \/ BufRead = Rep ]_udpVars

\* Again and again neither side has a slot: every request is called back, and
\* every slot of the server comes free.
SlotsComeFree == []<>(phase # "open" /\ ~srv.on)
=============================================================================
