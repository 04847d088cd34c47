----------------------------- MODULE SocketLink -----------------------------
(* One connection over TCP, and the tcp.ClientUniversal that each end reads    *)
(* and writes with: tcp.ClientSimple with tcp.Server, raw or framed, and       *)
(* WebSocketClient with WebSocketServer. An end is its list of handlers, the   *)
(* handler in use, and a goroutine that reads; the user writes meanwhile.      *)
(*                                                                             *)
(* TCP keeps bytes, not messages: a stream holds what was written, in atoms    *)
(* that stand for the parts of a frame, and Read takes any number of them.     *)
EXTENDS Integers, Sequences, SequencesExt

CONSTANTS
    Links,      \* subset of {"raw", "framed", "websocket"}
    Messages,   \* messages a user sends, at most once each
    Huge        \* those of more than 65535 bytes

(* Frames without a message: the user of a client may send a ping or a close.  *)
Control == {"ping", "pong", "close"}

ASSUME LinksAssumption == Links \subseteq {"raw", "framed", "websocket"}
ASSUME MessagesAssumption == Huge \subseteq Messages /\ Messages \intersect Control = {}

VARIABLES
    link,           \* what the two ends speak
    stream,         \* end -> atoms on their way to it
    open,           \* end -> its socket is open
    handlers,       \* end -> HandlerFuncs: how to read, and how many times
    current,        \* end -> currentHandlers
    reader,         \* end -> where readNextFunc is
    registered,     \* the connection is in conns of the server
    told,           \* event -> how often the user of the server was told it
    connecting,     \* where Connect of the client is
    awaitingReady, awaitingStatus,
    sent,           \* end -> messages its user has sent
    controls,       \* control frames the user of the client has sent
    got,            \* end -> messages its user was given
    garbled,        \* end -> it was given bytes it did not read as they were meant
    refused         \* the request for the upgrade will not be answered

ends == <<stream, open, handlers, current, reader, garbled>>
clientVars == <<connecting, awaitingReady, awaitingStatus>>
serverSide == <<registered, told>>
exchange == <<sent, controls, got>>
socketVars == <<link, ends, clientVars, serverSide, exchange, refused>>

Ends == {"client", "server"}
Other(e) == IF e = "client" THEN "server" ELSE "client"
NoHandler == <<"none", 0>>

(* generateReadFuncStructure, NewWebSocketClient and handleHTTPAccess.         *)
HandlerFuncs(l, e) ==
    CASE l = "raw"    -> <<<<"raw", -1>>, <<"length", -1>>>>
      [] l = "framed" -> <<<<"raw", 0>>, <<"length", -1>>>>
      [] l = "websocket" /\ e = "client" -> <<<<"raw", 1>>, <<"frames", -1>>>>
      [] l = "websocket" /\ e = "server" -> <<<<"frames", -1>>>>

SocketInit ==
    /\ link \in Links
    /\ stream = [e \in Ends |-> <<>>] /\ open = [e \in Ends |-> FALSE]
    /\ handlers = [e \in Ends |-> HandlerFuncs(link, e)]
    /\ current = [e \in Ends |-> NoHandler] /\ reader = [e \in Ends |-> "off"]
    /\ garbled = [e \in Ends |-> FALSE]
    /\ connecting = "idle" /\ awaitingReady = FALSE /\ awaitingStatus = FALSE
    /\ registered = FALSE /\ told = [connect |-> 0, disconnect |-> 0]
    /\ sent = [e \in Ends |-> <<>>] /\ controls = {} /\ got = [e \in Ends |-> <<>>]
    /\ refused = FALSE

-----------------------------------------------------------------------------
(* What is written *)

(* PackWebSocketFrame: a header, eight bytes of size for a huge message, and   *)
(* the payload.                                                                *)
PackWebSocketFrame(m) ==
    CASE m \in Control -> <<<<"header", m>>>>
      [] m \in Huge    -> <<<<"header", m>>, <<"size", m>>, <<"size", m>>, <<"payload", m>>>>
      [] OTHER         -> <<<<"header", m>>, <<"payload", m>>>>

(* The write handler that goes with a read handler.                            *)
WriteHandler(handler, m) ==
    CASE handler[1] = "frames" -> PackWebSocketFrame(m)
      [] handler[1] = "length" -> <<<<"length", m>>, <<"payload", m>>>>
      [] OTHER                 -> <<<<"payload", m>>>>

(* Bytes written to a closed socket are gone.                                  *)
Put(e, atoms) ==
    stream' = IF open[e] THEN [stream EXCEPT ![Other(e)] = @ \o atoms] ELSE stream

(* Connect of a client has returned, or the user of the server was told of it. *)
CanSend(e) ==
    /\ current[e] # NoHandler
    /\ IF e = "client" THEN connecting = "ready" ELSE registered

(* Send uses the handler in use now, also for the write after a switch that    *)
(* CanOneWriteAfterSwitch is about. One that reads raw bytes writes them so.   *)
Send(e, m) ==
    /\ CanSend(e) /\ \A f \in Ends : m \notin Range(sent[f])
    /\ Put(e, WriteHandler(current[e], m))
    /\ sent' = [sent EXCEPT ![e] = Append(@, m)]
    /\ UNCHANGED <<link, open, handlers, current, reader, garbled, clientVars, serverSide,
                   controls, got, refused>>

(* So do the frames with an opcode of their own.                               *)
SendControl(m) ==
    /\ link = "websocket" /\ CanSend("client") /\ m \notin controls
    /\ Put("client", WriteHandler(current["client"], m))
    /\ controls' = controls \union {m}
    /\ UNCHANGED <<link, open, handlers, current, reader, garbled, clientVars, serverSide,
                   sent, got, refused>>

(* Stop of a client and Close of the server's connection.                      *)
HangUp(e) ==
    /\ CanSend(e) /\ open[e]
    /\ open' = [open EXCEPT ![e] = FALSE]
    /\ UNCHANGED <<link, stream, handlers, current, reader, garbled, clientVars, serverSide,
                   exchange, refused>>

-----------------------------------------------------------------------------
(* The start of a connection *)

(* Dial, and a goroutine that reads. A WebSocket client goes on to ask for     *)
(* the upgrade.                                                                *)
Dial ==
    /\ connecting = "idle"
    /\ connecting' = IF link = "websocket" THEN "request" ELSE "ready"
    /\ open' = [e \in Ends |-> TRUE]
    /\ reader' = [reader EXCEPT !["client"] = "next"]
    /\ UNCHANGED <<link, stream, handlers, current, garbled, awaitingReady, awaitingStatus,
                   serverSide, exchange, refused>>

(* A dial that fails leaves Connect of the others as it was; that of a         *)
(* WebSocket client does not look, first or second: there is no connection to  *)
(* write the request to, and nobody to reset the flag.                         *)
DialFails ==
    /\ link = "websocket" /\ \A e \in Ends : reader[e] = "off"
    /\ connecting \in {"idle", "ready"}
    /\ connecting' = "waiting"
    /\ awaitingReady' = TRUE
    /\ refused' = TRUE
    /\ UNCHANGED <<link, ends, awaitingStatus, serverSide, exchange>>

(* A client that is connected again has no handlers left.                      *)
Reconnect ==
    /\ link = "websocket" /\ connecting = "ready" /\ \A e \in Ends : reader[e] = "off"
    /\ connecting' = "request"
    /\ refused' = TRUE
    /\ open' = [e \in Ends |-> TRUE]
    /\ stream' = [e \in Ends |-> <<>>]
    /\ reader' = [reader EXCEPT !["client"] = "next"]
    /\ UNCHANGED <<link, handlers, current, garbled, awaitingReady, awaitingStatus,
                   serverSide, exchange>>

(* The server accepts, sets its own client up and starts it.                   *)
Accept ==
    /\ link # "websocket" /\ connecting = "ready"
    /\ reader["server"] = "off" /\ current["server"] = NoHandler
    /\ reader' = [reader EXCEPT !["server"] = "next"]
    /\ UNCHANGED <<link, stream, open, handlers, current, garbled, clientVars, serverSide,
                   exchange, refused>>

(* After half a second, in which the reading goroutine has started, the flag   *)
(* is set and the request sent with the handler in use.                        *)
Request ==
    /\ connecting = "request" /\ reader["client"] # "next"
    /\ connecting' = "waiting"
    /\ awaitingReady' = TRUE
    /\ Put("client", <<<<"request", "">>>>)
    /\ UNCHANGED <<link, open, handlers, current, reader, garbled, awaitingStatus,
                   serverSide, exchange, refused>>

(* handleHTTPAccess: an unknown URL, or headers that are not right, are turned *)
(* down; otherwise the connection is taken from the HTTP server, registered    *)
(* and started. The HTTP server may also end before it answers.                *)
handleHTTPAccess(answer) ==
    /\ stream["server"] # <<>> /\ Head(stream["server"])[1] = "request"
    /\ reader["server"] = "off" /\ ~refused
    /\ refused' = (answer = "gone")
    /\ open' = [open EXCEPT !["server"] = (answer # "gone")]
    /\ stream' = [client |-> CASE answer = "accept" -> <<<<"status", "">>, <<"key", "">>>>
                               [] answer = "refuse" -> <<<<"error", "">>>>
                               [] answer = "gone"   -> <<>>,
                  server |-> Tail(stream["server"])]
    /\ registered' = (answer = "accept")
    /\ reader' = [reader EXCEPT !["server"] = IF answer = "accept" THEN "next" ELSE "off"]
    /\ UNCHANGED <<link, handlers, current, garbled, clientVars, told, exchange>>

(* Connect of a WebSocket client looks at the flag once a second.              *)
Poll ==
    /\ connecting = "waiting" /\ ~awaitingReady
    /\ connecting' = IF awaitingStatus THEN "ready" ELSE "failed"
    /\ open' = [open EXCEPT !["client"] = @ /\ awaitingStatus]
    /\ UNCHANGED <<link, stream, handlers, current, reader, garbled, awaitingReady,
                   awaitingStatus, serverSide, exchange, refused>>

-----------------------------------------------------------------------------
(* The reading goroutine *)

(* readFuncLocal of the TCP server makes an entry for whatever comes first.    *)
tcpServerEvent(event) ==
    /\ registered' = (event # "disconnect")
    /\ told' = [told EXCEPT ![event] = @ + 1]

(* The one of the WebSocket server tells nothing of a connection it does not   *)
(* have. Both forget one that disconnects.                                     *)
webSocketServerEvent(event) ==
    /\ registered' = (registered /\ event # "disconnect")
    /\ told' = IF registered THEN [told EXCEPT ![event] = @ + 1] ELSE told

\* mutant: the connection stays in the map
serverEventKeeping(event) ==
    /\ registered' = (registered \/ link # "websocket")
    /\ told' = IF registered' THEN [told EXCEPT ![event] = @ + 1] ELSE told

serverEvent(event) ==
    IF link = "websocket" THEN webSocketServerEvent(event) ELSE tcpServerEvent(event)

(* readNextFunc takes the next handler that may be used, tells of the          *)
(* connection at the first one, and ends when there is none.                   *)
NextHandler(e) ==
    /\ reader[e] = "next"
    /\ \/ /\ \A i \in DOMAIN handlers[e] : handlers[e][i][2] = 0
          /\ reader' = [reader EXCEPT ![e] = "finish"]
          /\ UNCHANGED <<handlers, current, serverSide>>
       \/ \E i \in DOMAIN handlers[e] :
            /\ handlers[e][i][2] # 0 /\ \A j \in 1 .. i - 1 : handlers[e][j][2] = 0
            /\ reader' = [reader EXCEPT ![e] = "read"]
            /\ current' = [current EXCEPT ![e] = handlers[e][i]]
            /\ handlers' = [handlers EXCEPT ![e] = SubSeq(@, i + 1, Len(@))]
            /\ IF e = "server" /\ current[e] = NoHandler THEN serverEvent("connect")
                                                         ELSE UNCHANGED serverSide
    /\ UNCHANGED <<link, stream, open, garbled, clientVars, exchange, refused>>

Reads(e, how) == reader[e] = "read" /\ current[e][1] = how /\ open[e] /\ stream[e] # <<>>
Take(e, n) == stream' = [stream EXCEPT ![e] = SubSeq(@, n + 1, Len(@))]
localReadFunc(e, data) == got' = [got EXCEPT ![e] = @ \o data]

\* mutant: an answer that is not the right one leaves the flag set
UpgradeOrWait(atoms) ==
    /\ awaitingStatus' = ({"status", "key"} \subseteq {atoms[i][1] : i \in DOMAIN atoms})
    /\ awaitingReady' = ~awaitingStatus'

(* readFuncLocalRaw: one Read is taken for the whole answer, whatever it has.  *)
Upgrade(atoms) ==
    /\ awaitingStatus' = ({"status", "key"} \subseteq {atoms[i][1] : i \in DOMAIN atoms})
    /\ awaitingReady' = FALSE

ReadAnswer ==
    /\ link = "websocket" /\ Reads("client", "raw")
    /\ \E n \in 1 .. Len(stream["client"]) :
        /\ Take("client", n)
        /\ Upgrade(SubSeq(stream["client"], 1, n))
        /\ garbled' = [garbled EXCEPT !["client"] = (n # 2)]
    /\ reader' = [reader EXCEPT !["client"] = "next"]
    /\ UNCHANGED <<link, open, handlers, current, connecting, serverSide, exchange,
                   refused>>

(* HandleTCPRead: some of what is there.                                       *)
HandleTCPRead(e) ==
    /\ link = "raw" /\ Reads(e, "raw")
    /\ \E n \in 1 .. Len(stream[e]) :
        /\ Take(e, n)
        /\ localReadFunc(e, [i \in 1 .. n |-> stream[e][i][2]])
    /\ UNCHANGED <<link, open, handlers, current, reader, garbled, clientVars, serverSide,
                   sent, controls, refused>>

HandleTCPReadFramed(e) ==
    /\ Reads(e, "length") /\ stream[e][1][1] = "length"
    /\ Take(e, 2)
    /\ localReadFunc(e, <<stream[e][1][2]>>)
    /\ UNCHANGED <<link, open, handlers, current, reader, garbled, clientVars, serverSide,
                   sent, controls, refused>>

(* HandleWebSocketFrameRead, a frame that is read in step: the user is given   *)
(* a message, and not a ping, which is answered, or a pong.                    *)
ReadMessage(e) ==
    LET m == stream[e][1][2]
    IN /\ Reads(e, "frames") /\ ~garbled[e] /\ stream[e][1][1] = "header" /\ m \notin Control
       /\ Take(e, Len(PackWebSocketFrame(m)))
       /\ localReadFunc(e, <<m>>)
       /\ UNCHANGED <<link, open, handlers, current, reader, garbled, clientVars,
                      serverSide, sent, controls, refused>>

\* mutant: a pong is a message like others
ReadControlGivingPong(e) ==
    LET m == stream[e][1][2]
    IN /\ Reads(e, "frames") /\ ~garbled[e] /\ stream[e][1][1] = "header"
       /\ m \in {"ping", "pong"}
       /\ stream' = [f \in Ends |->
                        IF f = e THEN Tail(stream[f])
                        ELSE stream[f] \o (IF m = "ping" THEN PackWebSocketFrame("pong")
                                                         ELSE <<>>)]
       /\ got' = [got EXCEPT ![e] = IF m = "pong" THEN Append(@, m) ELSE @]
       /\ UNCHANGED <<link, open, handlers, current, reader, garbled, clientVars,
                      serverSide, sent, controls, refused>>

ReadControl(e) ==
    LET m == stream[e][1][2]
    IN /\ Reads(e, "frames") /\ ~garbled[e] /\ stream[e][1][1] = "header"
       /\ m \in {"ping", "pong"}
       /\ stream' = [f \in Ends |->
                        IF f = e THEN Tail(stream[f])
                        ELSE stream[f] \o (IF m = "ping" THEN PackWebSocketFrame("pong")
                                                         ELSE <<>>)]
       /\ UNCHANGED <<link, open, handlers, current, reader, garbled, clientVars,
                      serverSide, exchange, refused>>

(* A close frame: the server hears of it here, and once more at the end.       *)
ReadClose(e) ==
    /\ Reads(e, "frames") /\ ~garbled[e] /\ stream[e][1] = <<"header", "close">>
    /\ Take(e, 1)
    /\ reader' = [reader EXCEPT ![e] = "finish"]
    /\ IF e = "server"
       THEN serverEvent("disconnect") /\ open' = [open EXCEPT ![e] = ~registered]
       ELSE UNCHANGED <<serverSide, open>>
    /\ UNCHANGED <<link, handlers, current, garbled, clientVars, exchange, refused>>

(* The eight bytes of a size are read with one Read, which may have fewer: the *)
(* rest are taken for payload or for the next frame.                           *)
SplitSize(e) ==
    /\ Reads(e, "frames") /\ ~garbled[e] /\ stream[e][1] \in {<<"header", m>> : m \in Huge}
    /\ Take(e, 2)
    /\ garbled' = [garbled EXCEPT ![e] = TRUE]
    /\ UNCHANGED <<link, open, handlers, current, reader, clientVars, serverSide, exchange,
                   refused>>

(* Bytes out of step, or what is not a frame: some are given to the user, some *)
(* are skipped, and some look like a close frame.                              *)
Astray(e) ==
    /\ Reads(e, "frames") /\ (garbled[e] \/ stream[e][1][1] # "header")
    /\ garbled' = [garbled EXCEPT ![e] = TRUE]
    /\ \E n \in 1 .. Len(stream[e]) : Take(e, n)
    /\ got' \in {got, [got EXCEPT ![e] = Append(@, "garbage")]}
    /\ reader' \in {reader, [reader EXCEPT ![e] = "finish"]}
    /\ UNCHANGED <<link, open, handlers, current, clientVars, serverSide, sent, controls,
                   refused>>

\* mutant: one that is waiting does not hear of the other end
ReadFailsClosed(e) ==
    /\ reader[e] = "read" /\ ~open[e]
    /\ reader' = [reader EXCEPT ![e] = "finish"]
    /\ UNCHANGED <<link, stream, open, handlers, current, garbled, clientVars, serverSide,
                   exchange, refused>>

(* A read fails when this end is closed, when the other one is and all has     *)
(* been read, or when it left bytes unread and has reset the connection.       *)
ReadFails(e) ==
    /\ reader[e] = "read"
    /\ \/ ~open[e]
       \/ ~open[Other(e)] /\ (stream[e] = <<>> \/ stream[Other(e)] # <<>>)
    /\ reader' = [reader EXCEPT ![e] = "finish"]
    /\ UNCHANGED <<link, stream, open, handlers, current, garbled, clientVars, serverSide,
                   exchange, refused>>

(* The end of readNextFunc.                                                    *)
Finish(e) ==
    /\ reader[e] = "finish"
    /\ reader' = [reader EXCEPT ![e] = "off"]
    /\ open' = [open EXCEPT ![e] = FALSE]
    /\ IF e = "server" THEN serverEvent("disconnect") ELSE UNCHANGED serverSide
    /\ UNCHANGED <<link, stream, handlers, current, garbled, clientVars, exchange, refused>>

-----------------------------------------------------------------------------

readNextFunc(e) ==
    \/ NextHandler(e) \/ HandleTCPRead(e) \/ HandleTCPReadFramed(e) \/ ReadMessage(e)
    \/ ReadControl(e) \/ ReadClose(e) \/ SplitSize(e) \/ Astray(e) \/ ReadFails(e) \/ Finish(e)

(* What goes on of its own.                                                    *)
SocketProgress ==
    \/ \E e \in Ends : readNextFunc(e)
    \/ ReadAnswer \/ Accept \/ Request \/ Poll
    \/ \E answer \in {"accept", "refuse", "gone"} : handleHTTPAccess(answer)

SocketNext ==
    \/ SocketProgress
    \/ Dial \/ DialFails \/ Reconnect
    \/ \E e \in Ends : HangUp(e) \/ \E m \in Messages : Send(e, m)
    \/ \E m \in Control \ {"pong"} : SendControl(m)

-----------------------------------------------------------------------------
(* Properties *)

(* An end's user is given what the other end's user has sent, in order,        *)
(* nothing twice and nothing else, whatever the stream was cut into; and, when *)
(* all is read and nobody has closed, all of it. But for an end that has lost  *)
(* step: it took more or less than the answer to its upgrade, half a size, or  *)
(* bytes the other end wrote before its handlers were switched.                *)
MessagesIntact ==
    \A e \in Ends :
        ~garbled[e] =>
            /\ IsPrefix(got[e], sent[Other(e)])
            /\ (open["client"] /\ open["server"] /\ reader[e] = "read" /\ stream[e] = <<>>)
                   => got[e] = sent[Other(e)]

(* The user of a server is told once that a connection is gone, though a close *)
(* frame, Close and the end of reading each say so, and only of a connection   *)
(* it was told of; and at the latest when the server has stopped reading.      *)
DisconnectedOnce ==
    /\ told.disconnect <= told.connect /\ told.connect <= 1
    /\ (told.connect = 1 /\ reader["server"] = "off") => told.disconnect = 1 /\ ~registered

(* Connect of a WebSocket client that has reached a server returns, whatever   *)
(* the server answers: while it waits, the request or its answer is still to   *)
(* be read, and the goroutine that reads is there. Three cases are left out,   *)
(* and in each the flag is never reset: a dial that failed, a server that is   *)
(* gone before it answers, and a second Connect, whose reader has no handler.  *)
ConnectReturns ==
    (connecting = "waiting" /\ awaitingReady) =>
        \/ refused
        \/ stream["server"] # <<>> /\ Head(stream["server"])[1] = "request"
        \/ reader["client"] = "read" /\ open["client"] /\ stream["client"] # <<>>

SocketAtRest == connecting # "idle" /\ ~ENABLED SocketProgress

(* Every reader ends with its connection: when nothing more goes on, an end    *)
(* that still reads has read all there is on an open connection, and one that  *)
(* has stopped is on a closed connection, or was never started; and Connect    *)
(* waits only in the three cases that ConnectReturns leaves out.               *)
NothingHangs ==
    LET connected == open["client"] /\ open["server"]
    IN SocketAtRest =>
        /\ connecting = "waiting" => refused
        /\ \A e \in Ends :
              \/ reader[e] = "read" /\ connected /\ stream[e] = <<>>
              \/ reader[e] = "off" /\ (~connected \/ current[e] = NoHandler)
=============================================================================
