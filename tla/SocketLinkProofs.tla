---- MODULE SocketLinkProofs ----
(***************************************************************************)
(* One connection over TCP, raw, framed or a WebSocket: what its users are *)
(* given is what was sent, the user of the server hears once that it is    *)
(* gone, and a client that connects is answered.  For every set of         *)
(* messages, huge or not, and however the stream is cut into reads.        *)
(***************************************************************************)
EXTENDS SocketLink, TLAPS

SocketSpec == SocketInit /\ [][SocketNext]_socketVars

-----------------------------------------------------------------------------
(* The invariant of a connection *)

Atoms == {"header", "size", "payload", "length", "status", "key", "error", "request"}
             \X (Messages \union Control \union {""})

Given == Messages \union Control \union {"", "garbage"}

Handlers == {<<"raw", -1>>, <<"raw", 0>>, <<"raw", 1>>, <<"length", -1>>, <<"frames", -1>>}

SocketTyped ==
    /\ link \in {"raw", "framed", "websocket"}
    /\ stream \in [Ends -> Seq(Atoms)]
    /\ DOMAIN open = Ends /\ DOMAIN garbled = Ends
    /\ handlers \in [Ends -> Seq(Handlers)]
    /\ current \in [Ends -> Handlers \union {NoHandler}]
    /\ reader \in [Ends -> {"off", "next", "read", "finish"}]
    /\ told \in [{"connect", "disconnect"} -> Nat]
    /\ connecting \in {"idle", "request", "waiting", "ready", "failed"}
    /\ sent \in [Ends -> Seq(Messages)]
    /\ got \in [Ends -> Seq(Given)]

(* What the user of the server has been told of. *)
Informed ==
    /\ current["server"] = NoHandler =>
          /\ told.connect = 0 /\ told.disconnect = 0
          /\ reader["server"] \in {"off", "next"}
          /\ registered <=> link = "websocket" /\ reader["server"] = "next"
    /\ current["server"] # NoHandler =>
          /\ told.connect = 1 /\ told.disconnect = (IF registered THEN 0 ELSE 1)
          /\ reader["server"] # "next"
          /\ reader["server"] = "off" => ~registered
          /\ link # "websocket" /\ reader["server"] # "off" => registered

OrderedAt(e) ==
    ~garbled[e] =>
        /\ Len(got[e]) <= Len(sent[Other(e)])
        /\ \A i \in DOMAIN got[e] : got[e][i] = sent[Other(e)][i]

GivenInOrder == \A e \in Ends : OrderedAt(e)

(* A stream of payloads alone. *)
RawFlow(s, n, t, all) ==
    /\ n + Len(s) <= Len(t)
    /\ \A i \in DOMAIN s : s[i] = <<"payload", t[n + i]>>
    /\ all => n + Len(s) = Len(t)

(* A stream of whole frames. *)
Begins(a) == a[1] \in {"header", "length"}
Framed(s, i) ==
    /\ s[i][1] \in {"header", "length", "size", "payload"}
    /\ i = 1 => Begins(s[i])
    /\ s[i][1] = "payload" \/ (s[i][1] = "header" /\ s[i][2] \in Control)
          => i = Len(s) \/ Begins(s[i + 1])
    /\ s[i][1] = "length" \/ (s[i][1] = "header" /\ s[i][2] \notin Control \union Huge)
          => i + 1 <= Len(s) /\ s[i + 1] = <<"payload", s[i][2]>>
    /\ s[i][1] = "header" /\ s[i][2] \in Huge \ Control
          => /\ i + 3 <= Len(s) /\ s[i + 3] = <<"payload", s[i][2]>>
             /\ s[i + 1][1] = "size" /\ s[i + 2][1] = "size"

InFrames(s) == \A i \in 1 .. Len(s) : Framed(s, i)

(* Its payloads are what follows the first n messages of t. *)
Carries(s, n, t, all) ==
    \E p \in [0 .. Len(s) -> 0 .. Len(t)] :
        /\ p[0] = n
        /\ \A i \in 1 .. Len(s) :
              /\ s[i][1] = "payload" => p[i] = p[i - 1] + 1 /\ s[i][2] = t[p[i]]
              /\ s[i][1] # "payload" => p[i] = p[i - 1]
        /\ all => p[Len(s)] = Len(t)

FrameFlow(s, n, t, all) == InFrames(s) /\ Carries(s, n, t, all)

(* What is on its way to e follows what e was given; and nothing that was sent  *)
(* is missing as long as the socket it was written to is open.                  *)
Flow(e) == FrameFlow(stream[e], Len(got[e]), sent[Other(e)], open[Other(e)])

TcpHandler == IF link = "raw" THEN <<"raw", -1>> ELSE <<"length", -1>>

(* Over plain TCP an end has not started to read, or reads with its one handler. *)
TcpFlow(l, s, n, t, all) == IF l = "raw" THEN RawFlow(s, n, t, all) ELSE FrameFlow(s, n, t, all)

TcpEnd(e) ==
    /\ ~garbled[e]
    /\ \/ /\ current[e] = NoHandler /\ reader[e] \in {"off", "next"}
          /\ handlers[e] = HandlerFuncs(link, e)
       \/ current[e] = TcpHandler /\ reader[e] # "next"
    /\ TcpFlow(link, stream[e], Len(got[e]), sent[Other(e)], open[Other(e)])

Tcp ==
    /\ link \in {"raw", "framed"} /\ ~refused /\ connecting \in {"idle", "ready"}
    /\ connecting = "idle" =>
          \A e \in Ends : /\ stream[e] = <<>> /\ sent[e] = <<>> /\ got[e] = <<>>
                          /\ reader[e] = "off" /\ current[e] = NoHandler
    /\ \A e \in Ends : TcpEnd(e)

Frames == <<"frames", -1>>
RawOnce == <<"raw", 1>>

Unanswered ==
    /\ link = "websocket" /\ ~refused /\ connecting \in {"idle", "request", "waiting"}
    /\ reader["server"] = "off" /\ current["server"] = NoHandler /\ handlers["server"] = <<Frames>>
    /\ \A e \in Ends : /\ sent[e] = <<>> /\ got[e] = <<>> /\ ~garbled[e]
                       /\ connecting # "idle" => open[e]
    /\ stream["client"] = <<>>
    /\ stream["server"] = IF connecting = "waiting" THEN << <<"request", "">> >> ELSE <<>>
    /\ ~awaitingStatus /\ (awaitingReady <=> connecting = "waiting")
    /\ connecting = "idle" => reader["client"] = "off"
    /\ connecting = "request" => reader["client"] \in {"next", "read"}
    /\ connecting = "waiting" => reader["client"] = "read"
    /\ IF reader["client"] = "read"
       THEN current["client"] = RawOnce /\ handlers["client"] = <<Frames>>
       ELSE current["client"] = NoHandler /\ handlers["client"] = <<RawOnce, Frames>>

Refused ==
    /\ link = "websocket" /\ refused /\ connecting \in {"request", "waiting"}
    /\ reader["server"] = "off" /\ ~registered
    /\ reader["client"] = "read" => stream["client"] = <<>> /\ ~open["server"]
    /\ reader["client"] = "next" => handlers["client"] = <<>>
    /\ connecting = "waiting" => awaitingReady

Answer == <<"status", "">>
Key == <<"key", "">>

(* The answer, and the frames that were written after it.                       *)
AnswerFlow(s, t, all) ==
    \E rest \in {SubSeq(s, 3, Len(s))} : s = <<Answer, Key>> \o rest /\ FrameFlow(rest, 0, t, all)

Awaited ==
    /\ connecting = "waiting" /\ ~awaitingStatus
    /\ reader["client"] = "read" /\ current["client"] = RawOnce /\ handlers["client"] = <<Frames>>
    /\ open["client"] /\ ~garbled["client"] /\ ~garbled["server"]
    /\ stream["server"] = <<>> /\ got["client"] = <<>> /\ got["server"] = <<>>
    /\ sent["client"] = <<>>
    /\ \/ /\ stream["client"] = << <<"error", "">> >>
          /\ reader["server"] = "off" /\ current["server"] = NoHandler
       \/ AnswerFlow(stream["client"], sent["server"], open["server"])

OutOfStep(e) == stream[e] # <<>> /\ ~Begins(stream[e][1])

(* An end still reads what is meant for it.                                     *)
InStep(e) == reader[e] \in {"next", "read"} /\ ~garbled[e]

(* What the client wrote before its handlers were switched is out of step.      *)
FlowsAt(e) ==
    InStep(e) =>
        /\ Flow(e) \/ (e = "server" /\ OutOfStep(e))
        /\ e = "server" /\ current["client"] = RawOnce => stream[e] = <<>> \/ OutOfStep(e)

Switched ==
    IF reader["client"] = "next"
    THEN current["client"] = RawOnce /\ handlers["client"] = <<Frames>>
    ELSE current["client"] = Frames /\ handlers["client"] = <<>>

Seen ==
    connecting \in {"waiting", "ready", "failed"} /\ Switched /\ \A e \in Ends : FlowsAt(e)

Answering ==
    /\ link = "websocket" /\ ~refused
    /\ \A i \in DOMAIN stream["server"] : stream["server"][i][1] # "request"
    /\ current["server"] = NoHandler => handlers["server"] = <<Frames>>
    /\ current["server"] \in {NoHandler, Frames}

Answered == Answering /\ (awaitingReady => Awaited) /\ (~awaitingReady => Seen)

SocketInv ==
    /\ SocketTyped /\ Informed /\ GivenInOrder
    /\ Tcp \/ Unanswered \/ Refused \/ Answered

-----------------------------------------------------------------------------
(* Streams of frames *)

(* What is left of a stream when its first n atoms are taken. *)
Rest(s, n) == SubSeq(s, n + 1, Len(s))

(* What is left when n atoms are taken, one by one.                           *)
LEMMA RestIs ==
    ASSUME NEW S, NEW s \in Seq(S), NEW n \in 0 .. Len(s)
    PROVE  /\ Rest(s, n) \in Seq(S) /\ Len(Rest(s, n)) = Len(s) - n
           /\ \A i \in DOMAIN Rest(s, n) : i + n \in DOMAIN s /\ Rest(s, n)[i] = s[i + n]
  BY DEF Rest

(* Two sequences in a row, one by one.                                        *)
LEMMA JoinIs ==
    ASSUME NEW S, NEW s \in Seq(S), NEW t \in Seq(S)
    PROVE  /\ s \o t \in Seq(S) /\ Len(s \o t) = Len(s) + Len(t)
           /\ \A i \in 1 .. Len(s) : (s \o t)[i] = s[i]
           /\ \A i \in Len(s) + 1 .. Len(s) + Len(t) : (s \o t)[i] = t[i - Len(s)]
  OBVIOUS

(* An atom is as well framed at another place with the same atoms after it. *)
Fits(s, i, r, j) ==
    /\ r[j] = s[i]
    /\ j = 1 => Begins(s[i])
    /\ i = Len(s) => j = Len(r) \/ Begins(r[j + 1])
    /\ i # Len(s) => r[j + 1] = s[i + 1]
    /\ i + 1 <= Len(s) => j + 1 <= Len(r)
    /\ i + 3 <= Len(s) => j + 3 <= Len(r) /\ r[j + 2] = s[i + 2] /\ r[j + 3] = s[i + 3]

(* It is then framed there as it was here.                                    *)
LEMMA FramedThere ==
    ASSUME NEW s, NEW r, Len(s) \in Nat, NEW i \in Nat, NEW j \in Nat, i <= Len(s),
           Framed(s, i), Fits(s, i, r, j)
    PROVE  Framed(r, j)
  <1>1. r[j][1] \in {"header", "length", "size", "payload"} /\ (j = 1 => Begins(r[j]))
    BY DEF Framed, Fits
  <1>2. r[j][1] = "payload" \/ (r[j][1] = "header" /\ r[j][2] \in Control)
          => j = Len(r) \/ Begins(r[j + 1])
    BY DEF Framed, Fits
  <1>3. r[j][1] = "length" \/ (r[j][1] = "header" /\ r[j][2] \notin Control \union Huge)
          => j + 1 <= Len(r) /\ r[j + 1] = <<"payload", r[j][2]>>
    BY DEF Framed, Fits
  <1>4. r[j][1] = "header" /\ r[j][2] \in Huge \ Control
          => /\ j + 3 <= Len(r) /\ r[j + 3] = <<"payload", r[j][2]>>
             /\ r[j + 1][1] = "size" /\ r[j + 2][1] = "size"
    BY DEF Framed, Fits
  <1> QED BY <1>1, <1>2, <1>3, <1>4 DEF Framed

(* Whole frames after whole frames are whole frames.                          *)
LEMMA FramesJoin ==
    ASSUME NEW s \in Seq(Atoms), NEW t \in Seq(Atoms), InFrames(s), InFrames(t)
    PROVE  InFrames(s \o t)
  <1> DEFINE r == s \o t
             k == Len(s)
             l == Len(t)
  <1>1. Len(r) = k + l /\ k \in Nat /\ l \in Nat
    OBVIOUS
  <1>2. \A i \in 1 .. k : r[i] = s[i]
    OBVIOUS
  <1>3. \A i \in k + 1 .. k + l : r[i] = t[i - k]
    OBVIOUS
  <1>4. (\A i \in 1 .. k : Framed(s, i)) /\ (\A i \in 1 .. l : Framed(t, i))
    BY DEF InFrames
  <1> HIDE DEF r
  <1>5. ASSUME NEW i \in 1 .. k PROVE Framed(r, i)
    <2>1. Framed(s, i) /\ r[i] = s[i]
      BY <1>2, <1>4
    <2>2. i = 1 => Begins(s[i])
      BY <2>1 DEF Framed
    <2>3. i = k => i = Len(r) \/ Begins(r[i + 1])
      <3>1. l # 0 => Begins(t[1])
        BY <1>1, <1>4 DEF Framed
      <3>2. l # 0 => r[k + 1] = t[1]
        <4>1. l # 0 => k + 1 \in k + 1 .. k + l /\ k + 1 - k = 1
          BY <1>1
        <4> QED BY <1>3, <4>1
      <3>3. l = 0 => Len(r) = k
        BY <1>1
      <3> QED BY <3>1, <3>2, <3>3
    <2>4. i # k => r[i + 1] = s[i + 1]
      <3>1. i # k => i + 1 \in 1 .. k
        BY <1>1
      <3> QED BY <1>2, <3>1
    <2>5. i + 3 <= k => r[i + 2] = s[i + 2] /\ r[i + 3] = s[i + 3]
      <3>1. i + 3 <= k => i + 2 \in 1 .. k /\ i + 3 \in 1 .. k
        BY <1>1
      <3> QED BY <1>2, <3>1
    <2>6. (i + 1 <= k => i + 1 <= Len(r)) /\ (i + 3 <= k => i + 3 <= Len(r))
      BY <1>1
    <2>7. Fits(s, i, r, i)
      BY ONLY <2>1, <2>2, <2>3, <2>4, <2>5, <2>6 DEF Fits, k
    <2>8. i \in Nat /\ i <= k
      BY <1>1
    <2> QED BY <1>1, <2>1, <2>7, <2>8, FramedThere
  <1>6. ASSUME NEW j \in 1 .. l PROVE Framed(r, k + j)
    <2>1. PICK i \in Nat : i = k + j /\ i - k = j /\ i + 1 - k = j + 1 /\ i + 2 - k = j + 2
                           /\ i + 3 - k = j + 3
      BY <1>1
    <2>2. r[i] = t[j] /\ Framed(t, j)
      <3>1. i \in k + 1 .. k + l
        BY <1>1, <2>1
      <3> QED BY <1>3, <1>4, <2>1, <3>1
    <2>4. j # l => r[i + 1] = t[j + 1]
      <3>1. j # l => i + 1 \in k + 1 .. k + l
        BY <1>1, <2>1
      <3> QED BY <1>3, <2>1, <3>1
    <2>5. j + 3 <= l => r[i + 2] = t[j + 2] /\ r[i + 3] = t[j + 3]
      <3>1. j + 3 <= l => i + 2 \in k + 1 .. k + l /\ i + 3 \in k + 1 .. k + l
        BY <1>1, <2>1
      <3> QED BY <1>3, <2>1, <3>1
    <2>6. /\ j = l => i = Len(r)
          /\ j + 1 <= l => i + 1 <= Len(r)
          /\ j + 3 <= l => i + 3 <= Len(r)
      BY <1>1, <2>1
    <2>7. i = 1 => Begins(t[j])
      <3>1. i = 1 => j = 1
        BY <1>1, <2>1
      <3> QED BY <2>2, <3>1 DEF Framed
    <2>8. Fits(t, j, r, i)
      BY ONLY <2>2, <2>4, <2>5, <2>6, <2>7 DEF Fits, l
    <2>9. j \in Nat /\ j <= l
      BY <1>1
    <2> QED BY <1>1, <2>1, <2>2, <2>8, <2>9, FramedThere
  <1>7. ASSUME NEW i \in 1 .. Len(r) PROVE Framed(r, i)
    <2>1. i \in 1 .. k \/ \E j \in 1 .. l : i = k + j
      <3>1. PICK j \in Int : j = i - k /\ i = k + j
        BY <1>1
      <3>2. i > k => j \in 1 .. l
        BY <1>1, <3>1
      <3>3. i > k => \E h \in 1 .. l : i = k + h
        BY <3>1, <3>2
      <3> QED BY <1>1, <3>3
    <2> QED BY <1>5, <1>6, <2>1
  <1> QED BY <1>7 DEF InFrames, r

(* What is behind a whole number of frames is whole frames.                   *)
LEMMA FramesRest ==
    ASSUME NEW s \in Seq(Atoms), NEW n \in 1 .. Len(s), InFrames(s),
           n = Len(s) \/ Begins(s[n + 1])
    PROVE  InFrames(Rest(s, n))
  <1> DEFINE r == Rest(s, n)
             k == Len(s)
  <1>0. n \in 0 .. k /\ k \in Nat
    OBVIOUS
  <1>1. Len(r) = k - n /\ DOMAIN r = 1 .. k - n /\ \A i \in 1 .. k - n : r[i] = s[i + n]
    <2>1. r \in Seq(Atoms) /\ Len(r) = k - n /\ \A i \in DOMAIN r : r[i] = s[i + n]
      BY <1>0, RestIs
    <2> HIDE DEF r
    <2>2. DOMAIN r = 1 .. Len(r)
      BY <2>1
    <2> QED BY <2>1, <2>2
  <1>2. \A i \in 1 .. k : Framed(s, i)
    BY DEF InFrames
  <1>a. n = k \/ Begins(s[n + 1])
    OBVIOUS
  <1> HIDE DEF r
  <1>3. ASSUME NEW j \in 1 .. k - n PROVE Framed(r, j)
    <2>1. PICK i \in Nat : i = j + n /\ i + 1 = j + 1 + n /\ i + 2 = j + 2 + n /\ i + 3 = j + 3 + n
                           /\ i \in 1 .. k
      BY <1>0
    <2>2. r[j] = s[i] /\ Framed(s, i)
      BY <1>1, <1>2, <2>1
    <2>3. j = 1 => Begins(s[i])
      <3>1. j = 1 => i = n + 1 /\ n # k
        BY <1>0, <2>1
      <3> QED BY <1>a, <3>1
    <2>4. i # k => r[j + 1] = s[i + 1]
      <3>1. i # k => j + 1 \in 1 .. k - n
        BY <1>0, <2>1
      <3> QED BY <1>1, <2>1, <3>1
    <2>5. i + 3 <= k => r[j + 2] = s[i + 2] /\ r[j + 3] = s[i + 3]
      <3>1. i + 3 <= k => j + 2 \in 1 .. k - n /\ j + 3 \in 1 .. k - n
        BY <1>0, <2>1
      <3> QED BY <1>1, <2>1, <3>1
    <2>6. /\ i = k => j = Len(r)
          /\ i + 1 <= k => j + 1 <= Len(r)
          /\ i + 3 <= k => j + 3 <= Len(r)
      BY <1>0, <1>1, <2>1
    <2>7. Fits(s, i, r, j)
      BY ONLY <2>2, <2>3, <2>4, <2>5, <2>6 DEF Fits, k
    <2>8. i \in Nat /\ i <= k /\ j \in Nat
      BY <1>0, <2>1
    <2> QED BY <1>0, <2>2, <2>7, <2>8, FramedThere
  <1> QED BY <1>1, <1>3 DEF InFrames, r

(* A frame that carries m: one payload, at its end. *)
FrameOf(u, m) ==
    /\ u \in Seq(Atoms) /\ InFrames(u) /\ Len(u) > 0 /\ Begins(u[1])
    /\ u[Len(u)] = <<"payload", m>>
    /\ \A i \in 1 .. Len(u) - 1 : u[i][1] # "payload"

(* A frame at the end of a stream that has all so far carries one message more. *)
LEMMA CarriesFrame ==
    ASSUME NEW s \in Seq(Atoms), NEW n \in Nat, NEW t \in Seq(Messages), NEW m \in Messages, NEW u,
           Carries(s, n, t, TRUE), FrameOf(u, m), NEW all
    PROVE  Carries(s \o u, n, Append(t, m), all)
  <1> DEFINE r == s \o u
             t2 == Append(t, m)
             k == Len(s)
             l == Len(t)
  <1>1. u \in Seq(Atoms) /\ Len(u) \in Nat /\ Len(u) > 0 /\ k \in Nat /\ l \in Nat
    BY DEF FrameOf
  <1>2. /\ Len(r) = k + Len(u) /\ (\A i \in 1 .. k : r[i] = s[i])
        /\ \A i \in k + 1 .. k + Len(u) : r[i] = u[i - k]
    BY <1>1, JoinIs
  <1>3. Len(t2) = l + 1 /\ t2[l + 1] = m /\ \A i \in 1 .. l : t2[i] = t[i]
    OBVIOUS
  <1>4. PICK p \in [0 .. k -> 0 .. l] :
            /\ p[0] = n
            /\ \A i \in 1 .. k : /\ s[i][1] = "payload" => p[i] = p[i - 1] + 1 /\ s[i][2] = t[p[i]]
                                 /\ s[i][1] # "payload" => p[i] = p[i - 1]
            /\ p[k] = l
    BY DEF Carries
  <1> HIDE DEF r, t2, k, l
  <1> DEFINE q == [i \in 0 .. k + Len(u) |->
                      IF i <= k THEN p[i] ELSE IF i = k + Len(u) THEN l + 1 ELSE l]
  <1>5. q \in [0 .. Len(r) -> 0 .. Len(t2)]
    BY <1>1, <1>2, <1>3, <1>4
  <1>6. q[0] = n /\ q[Len(r)] = Len(t2)
    BY <1>1, <1>2, <1>3, <1>4
  <1>7. ASSUME NEW i \in 1 .. k
        PROVE  /\ r[i][1] = "payload" => q[i] = q[i - 1] + 1 /\ r[i][2] = t2[q[i]]
               /\ r[i][1] # "payload" => q[i] = q[i - 1]
    <2>1. q[i] = p[i] /\ q[i - 1] = p[i - 1] /\ r[i] = s[i] /\ i - 1 \in 0 .. k /\ i \in 0 .. k
      BY <1>1, <1>2
    <2>2. r[i][1] = "payload" => p[i] = p[i - 1] + 1 /\ r[i][2] = t[p[i]]
      BY <1>4, <2>1
    <2>3. p[i - 1] \in 0 .. l /\ p[i] \in 0 .. l
      BY <1>4, <2>1
    <2>4. r[i][1] = "payload" => p[i] \in 1 .. l
      BY <1>1, <2>2, <2>3
    <2> QED BY <1>3, <1>4, <2>1, <2>2, <2>4
  <1>8. ASSUME NEW i \in k + 1 .. k + Len(u)
        PROVE  /\ r[i][1] = "payload" => q[i] = q[i - 1] + 1 /\ r[i][2] = t2[q[i]]
               /\ r[i][1] # "payload" => q[i] = q[i - 1]
    <2>1. q[i - 1] = l
      <3>1. PICK j \in Nat : j = i - 1 /\ j \in 0 .. k + Len(u) /\ j >= k /\ j # k + Len(u)
        BY <1>1
      <3>2. CASE j = k
        <4>1. q[j] = p[j]
          BY <3>1, <3>2
        <4> QED BY <1>4, <3>1, <3>2, <4>1
      <3>3. CASE j # k
        <4>1. ~(j <= k)
          BY <1>1, <3>1, <3>3
        <4>2. q[j] = l
          BY <3>1, <4>1
        <4> QED BY <3>1, <4>2
      <3> QED BY <3>2, <3>3
    <2>2. r[i] = u[i - k] /\ i - k \in 1 .. Len(u)
      BY <1>1, <1>2
    <2>3. CASE i = k + Len(u)
      <3>1. r[i] = <<"payload", m>> /\ q[i] = l + 1
        BY <1>1, <2>2, <2>3 DEF FrameOf
      <3> QED BY <1>3, <2>1, <3>1
    <2>4. CASE i # k + Len(u)
      <3>0. \A x, y, z \in Int : x \in y + 1 .. y + z /\ x # y + z => x - y \in 1 .. z - 1
        OBVIOUS
      <3>1. i - k \in 1 .. Len(u) - 1
        <4>1. k \in Int /\ Len(u) \in Int
          BY <1>1
        <4>2. i \in k + 1 .. k + Len(u) /\ i \in Int
          BY <4>1
        <4> QED BY ONLY <2>4, <3>0, <4>1, <4>2
      <3>2. r[i][1] # "payload"
        BY <2>2, <3>1 DEF FrameOf
      <3>3. i \in 0 .. k + Len(u) /\ ~(i <= k)
        BY <1>1
      <3>4. q[i] = l
        BY <2>4, <3>3
      <3> QED BY <2>1, <3>2, <3>4
    <2> QED BY <2>3, <2>4
  <1> HIDE DEF q
  <1>9. \A i \in 1 .. Len(r) : /\ r[i][1] = "payload" => q[i] = q[i - 1] + 1 /\ r[i][2] = t2[q[i]]
                               /\ r[i][1] # "payload" => q[i] = q[i - 1]
    <2> TAKE i \in 1 .. Len(r)
    <2>1. i \in 1 .. k \/ i \in k + 1 .. k + Len(u)
      BY <1>1, <1>2
    <2> QED BY <1>7, <1>8, <2>1
  <1>10. Carries(r, n, t2, all)
    BY <1>5, <1>6, <1>9 DEF Carries
  <1> QED BY <1>10 DEF r, t2

(* A control frame carries nothing. *)
LEMMA CarriesControl ==
    ASSUME NEW s \in Seq(Atoms), NEW n \in Nat, NEW t \in Seq(Messages), NEW all,
           NEW a \in Atoms, a[1] = "header", Carries(s, n, t, all)
    PROVE  Carries(s \o <<a>>, n, t, all)
  <1> DEFINE r == s \o <<a>>
             k == Len(s)
             l == Len(t)
  <1>1. Len(r) = k + 1 /\ r[k + 1] = a /\ (\A i \in 1 .. k : r[i] = s[i]) /\ k \in Nat /\ l \in Nat
    OBVIOUS
  <1>2. PICK p \in [0 .. k -> 0 .. l] :
            /\ p[0] = n
            /\ \A i \in 1 .. k : /\ s[i][1] = "payload" => p[i] = p[i - 1] + 1 /\ s[i][2] = t[p[i]]
                                 /\ s[i][1] # "payload" => p[i] = p[i - 1]
            /\ all => p[k] = l
    BY DEF Carries
  <1> HIDE DEF r, k, l
  <1> DEFINE q == [i \in 0 .. k + 1 |-> IF i <= k THEN p[i] ELSE p[k]]
  <1>3. q \in [0 .. Len(r) -> 0 .. l] /\ q[0] = n /\ (all => q[Len(r)] = l)
    BY <1>1, <1>2
  <1>4. ASSUME NEW i \in 1 .. k + 1
        PROVE  /\ r[i][1] = "payload" => q[i] = q[i - 1] + 1 /\ r[i][2] = t[q[i]]
               /\ r[i][1] # "payload" => q[i] = q[i - 1]
    <2>1. CASE i = k + 1
      BY <1>1, <2>1
    <2>2. CASE i # k + 1
      <3>1. i \in 1 .. k /\ q[i] = p[i] /\ q[i - 1] = p[i - 1] /\ r[i] = s[i]
        BY <1>1, <2>2
      <3> QED BY <1>2, <3>1
    <2> QED BY <2>1, <2>2
  <1> HIDE DEF q
  <1>5. Carries(r, n, t, all)
    BY <1>1, <1>3, <1>4 DEF Carries, l
  <1> QED BY <1>5 DEF r

(* What was written on a closed socket is never carried. *)
LEMMA CarriesLost ==
    ASSUME NEW s \in Seq(Atoms), NEW n \in Nat, NEW t \in Seq(Messages), NEW m \in Messages,
           NEW all,
           Carries(s, n, t, all)
    PROVE  Carries(s, n, t, FALSE) /\ Carries(s, n, Append(t, m), FALSE)
  <1>1. Len(Append(t, m)) = Len(t) + 1 /\ Len(t) \in Nat /\ Len(s) \in Nat
        /\ \A i \in 1 .. Len(t) : Append(t, m)[i] = t[i]
    OBVIOUS
  <1> DEFINE t2 == Append(t, m)
  <1> HIDE DEF t2
  <1>2. PICK p \in [0 .. Len(s) -> 0 .. Len(t)] :
            /\ p[0] = n
            /\ \A i \in 1 .. Len(s) :
                  /\ s[i][1] = "payload" => p[i] = p[i - 1] + 1 /\ s[i][2] = t[p[i]]
                  /\ s[i][1] # "payload" => p[i] = p[i - 1]
    BY DEF Carries
  <1>3. p \in [0 .. Len(s) -> 0 .. Len(t2)]
    BY <1>1, <1>2 DEF t2
  <1>4. ASSUME NEW i \in 1 .. Len(s), s[i][1] = "payload" PROVE s[i][2] = t2[p[i]]
    <2>3. i - 1 \in 0 .. Len(s) /\ i \in 0 .. Len(s)
      BY <1>1
    <2>4. p[i - 1] \in 0 .. Len(t) /\ p[i] \in 0 .. Len(t)
      BY <1>2, <2>3
    <2>1. p[i] = p[i - 1] + 1 /\ s[i][2] = t[p[i]]
      BY <1>2, <1>4
    <2>2. p[i] \in 1 .. Len(t)
      BY <1>1, <2>1, <2>4
    <2> QED BY <1>1, <2>1, <2>2 DEF t2
  <1>5. Carries(s, n, t2, FALSE)
    BY <1>2, <1>3, <1>4 DEF Carries
  <1>6. Carries(s, n, t, FALSE)
    BY <1>2 DEF Carries
  <1> QED BY <1>5, <1>6 DEF t2

(* A stream whose first frame is taken carries what follows its message. *)
LEMMA CarriesRest ==
    ASSUME NEW s \in Seq(Atoms), NEW n \in Nat, NEW t \in Seq(Messages), NEW all,
           Carries(s, n, t, all), NEW k \in {2, 4}, k <= Len(s), s[k][1] = "payload",
           \A i \in 1 .. k - 1 : s[i][1] # "payload"
    PROVE  n + 1 <= Len(t) /\ s[k][2] = t[n + 1] /\ Carries(Rest(s, k), n + 1, t, all)
  <1> DEFINE r == Rest(s, k)
             l == Len(t)
  <1>1. Len(s) \in Nat /\ l \in Nat /\ k \in 0 .. Len(s)
    OBVIOUS
  <1>2. r \in Seq(Atoms) /\ Len(r) = Len(s) - k
        /\ \A i \in DOMAIN r : i + k \in DOMAIN s /\ r[i] = s[i + k]
    BY <1>1, RestIs
  <1>21. DOMAIN r = 1 .. Len(r)
    BY <1>2
  <1>3. PICK p \in [0 .. Len(s) -> 0 .. l] :
            /\ p[0] = n
            /\ \A i \in 1 .. Len(s) :
                  /\ s[i][1] = "payload" => p[i] = p[i - 1] + 1 /\ s[i][2] = t[p[i]]
                  /\ s[i][1] # "payload" => p[i] = p[i - 1]
            /\ all => p[Len(s)] = l
    BY DEF Carries
  <1> HIDE DEF r, l
  <1>4. p[1] = n
    <2>1. 1 \in 1 .. Len(s) /\ s[1][1] # "payload"
      BY <1>1
    <2> QED BY <1>3, <2>1
  <1>5. k = 4 => p[2] = n /\ p[3] = n
    <2>1. k = 4 => /\ 2 \in 1 .. Len(s) /\ s[2][1] # "payload"
                   /\ 3 \in 1 .. Len(s) /\ s[3][1] # "payload"
      BY <1>1
    <2>2. k = 4 => p[2] = p[2 - 1] /\ p[3] = p[3 - 1]
      BY <1>3, <2>1
    <2> QED BY <1>4, <2>2
  <1>6. p[k] = n + 1 /\ s[k][2] = t[p[k]] /\ p[k] \in 0 .. l
    <2>1. k \in 1 .. Len(s) /\ p[k] = p[k - 1] + 1 /\ s[k][2] = t[p[k]]
      BY <1>1, <1>3
    <2>2. p[k - 1] = n
      BY <1>4, <1>5
    <2> QED BY <1>1, <1>3, <2>1, <2>2
  <1> DEFINE q == [i \in 0 .. Len(s) - k |-> p[i + k]]
  <1>7. q \in [0 .. Len(r) -> 0 .. l] /\ q[0] = n + 1 /\ (all => q[Len(r)] = l)
    BY <1>1, <1>2, <1>3, <1>6
  <1>8. ASSUME NEW i \in 1 .. Len(r)
        PROVE  /\ r[i][1] = "payload" => q[i] = q[i - 1] + 1 /\ r[i][2] = t[q[i]]
               /\ r[i][1] # "payload" => q[i] = q[i - 1]
    <2>1. PICK j \in 1 .. Len(s) : j = i + k /\ j - 1 = i - 1 + k
      BY <1>1, <1>2
    <2>2. r[i] = s[j]
      BY <1>2, <1>21, <2>1
    <2>3. i \in 0 .. Len(s) - k /\ i - 1 \in 0 .. Len(s) - k
      BY <1>1, <1>2
    <2>4. q[i] = p[j] /\ q[i - 1] = p[j - 1]
      BY <2>1, <2>3
    <2> QED BY <1>3, <2>2, <2>4
  <1> HIDE DEF q
  <1>9. Carries(r, n + 1, t, all)
    BY <1>7, <1>8 DEF Carries, l
  <1> QED BY <1>6, <1>9 DEF r, l

(* The first atom is no payload: the rest carries the same.                   *)
LEMMA CarriesSkip ==
    ASSUME NEW s \in Seq(Atoms), NEW n \in Nat, NEW t \in Seq(Messages), NEW all,
           Carries(s, n, t, all), 1 <= Len(s), s[1][1] # "payload"
    PROVE  Carries(Rest(s, 1), n, t, all)
  <1> DEFINE r == Rest(s, 1)
             l == Len(t)
  <1>1. Len(s) \in Nat /\ l \in Nat /\ 1 \in 0 .. Len(s)
    OBVIOUS
  <1>2. r \in Seq(Atoms) /\ Len(r) = Len(s) - 1
        /\ \A i \in DOMAIN r : i + 1 \in DOMAIN s /\ r[i] = s[i + 1]
    BY <1>1, RestIs
  <1>21. DOMAIN r = 1 .. Len(r)
    BY <1>2
  <1>3. PICK p \in [0 .. Len(s) -> 0 .. l] :
            /\ p[0] = n
            /\ \A i \in 1 .. Len(s) :
                  /\ s[i][1] = "payload" => p[i] = p[i - 1] + 1 /\ s[i][2] = t[p[i]]
                  /\ s[i][1] # "payload" => p[i] = p[i - 1]
            /\ all => p[Len(s)] = l
    BY DEF Carries
  <1> HIDE DEF r, l
  <1>4. p[1] = n
    <2>1. 1 \in 1 .. Len(s)
      BY <1>1
    <2> QED BY <1>3, <2>1
  <1> DEFINE q == [i \in 0 .. Len(s) - 1 |-> p[i + 1]]
  <1>7. q \in [0 .. Len(r) -> 0 .. l] /\ q[0] = n /\ (all => q[Len(r)] = l)
    BY <1>1, <1>2, <1>3, <1>4
  <1>8. ASSUME NEW i \in 1 .. Len(r)
        PROVE  /\ r[i][1] = "payload" => q[i] = q[i - 1] + 1 /\ r[i][2] = t[q[i]]
               /\ r[i][1] # "payload" => q[i] = q[i - 1]
    <2>1. PICK j \in 1 .. Len(s) : j = i + 1 /\ j - 1 = i - 1 + 1
      BY <1>1, <1>2
    <2>2. r[i] = s[j]
      BY <1>2, <1>21, <2>1
    <2>3. i \in 0 .. Len(s) - 1 /\ i - 1 \in 0 .. Len(s) - 1
      BY <1>1, <1>2
    <2>4. q[i] = p[j] /\ q[i - 1] = p[j - 1]
      BY <2>1, <2>3
    <2> QED BY <1>3, <2>2, <2>4
  <1> HIDE DEF q
  <1>9. Carries(r, n, t, all)
    BY <1>7, <1>8 DEF Carries, l
  <1> QED BY <1>9 DEF r

(* One that is empty has carried everything. *)
LEMMA CarriesNothing ==
    ASSUME NEW n \in Nat, NEW t \in Seq(Messages), NEW all
    PROVE  /\ Carries(<<>>, n, t, TRUE) => n = Len(t)
           /\ n = Len(t) => Carries(<<>>, n, t, all)
           /\ InFrames(<<>>)
  <1>1. Len(<<>>) = 0 /\ DOMAIN <<>> = {} /\ 1 .. 0 = {}
    OBVIOUS
  <1>2. Len(t) \in Nat
    OBVIOUS
  <1>3. n = Len(t) => [i \in 0 .. 0 |-> n] \in [0 .. 0 -> 0 .. Len(t)]
    BY <1>2
  <1>4. n = Len(t) => Carries(<<>>, n, t, all)
    <2> DEFINE p == [i \in 0 .. 0 |-> n]
    <2>1. p[0] = n
      OBVIOUS
    <2> HIDE DEF p
    <2> QED BY <1>1, <1>3, <2>1 DEF Carries, p
  <1> QED BY <1>1, <1>2, <1>4 DEF Carries, InFrames

(* The frames that are written. *)
LEMMA Packed ==
    ASSUME NEW m \in Messages
    PROVE  /\ FrameOf(PackWebSocketFrame(m), m)
           /\ Len(PackWebSocketFrame(m)) = IF m \in Huge THEN 4 ELSE 2
           /\ FrameOf(<<<<"length", m>>, <<"payload", m>>>>, m)
           /\ \A i \in DOMAIN PackWebSocketFrame(m) : PackWebSocketFrame(m)[i][1] # "request"
  <1>1. m \notin Control
    BY MessagesAssumption
  <1>2. \A a \in {"header", "size", "payload", "length"} : <<a, m>> \in Atoms
    BY DEF Atoms
  <1>5. FrameOf(<<<<"length", m>>, <<"payload", m>>>>, m)
    <2> DEFINE u == <<<<"length", m>>, <<"payload", m>>>>
    <2>2. Len(u) = 2 /\ DOMAIN u = 1 .. 2 /\ u \in Seq(Atoms)
          /\ u[1] = <<"length", m>> /\ u[2] = <<"payload", m>>
      BY <1>2
    <2> HIDE DEF u
    <2>3. InFrames(u)
      BY <2>2 DEF InFrames, Framed, Begins
    <2>4. \A i \in 1 .. 1 : u[i][1] # "payload"
      BY <2>2
    <2>5. FrameOf(u, m)
      BY <2>2, <2>3, <2>4 DEF FrameOf, Begins
    <2> QED BY <2>5 DEF u
  <1>3. CASE m \in Huge
    <2> DEFINE u == <<<<"header", m>>, <<"size", m>>, <<"size", m>>, <<"payload", m>>>>
    <2>1. PackWebSocketFrame(m) = u
      BY <1>1, <1>3 DEF PackWebSocketFrame
    <2>2. /\ Len(u) = 4 /\ DOMAIN u = 1 .. 4 /\ u \in Seq(Atoms)
          /\ u[1] = <<"header", m>> /\ u[2] = <<"size", m>> /\ u[3] = <<"size", m>>
          /\ u[4] = <<"payload", m>>
      BY <1>2
    <2> HIDE DEF u
    <2>3. InFrames(u)
      BY <1>1, <1>3, <2>2 DEF InFrames, Framed, Begins
    <2>4. \A i \in 1 .. 3 : u[i][1] # "payload"
      BY <2>2
    <2>5. FrameOf(u, m)
      BY <2>2, <2>3, <2>4 DEF FrameOf, Begins
    <2>6. \A i \in DOMAIN u : u[i][1] # "request"
      BY <2>2
    <2> QED BY <1>3, <1>5, <2>1, <2>2, <2>5, <2>6
  <1>4. CASE m \notin Huge
    <2> DEFINE u == <<<<"header", m>>, <<"payload", m>>>>
    <2>1. PackWebSocketFrame(m) = u
      BY <1>1, <1>4 DEF PackWebSocketFrame
    <2>2. Len(u) = 2 /\ DOMAIN u = 1 .. 2 /\ u \in Seq(Atoms)
          /\ u[1] = <<"header", m>> /\ u[2] = <<"payload", m>>
      BY <1>2
    <2> HIDE DEF u
    <2>3. InFrames(u)
      BY <1>1, <1>4, <2>2 DEF InFrames, Framed, Begins
    <2>4. \A i \in 1 .. 1 : u[i][1] # "payload"
      BY <2>2
    <2>5. FrameOf(u, m)
      BY <2>2, <2>3, <2>4 DEF FrameOf, Begins
    <2>6. \A i \in DOMAIN u : u[i][1] # "request"
      BY <2>2
    <2> QED BY <1>4, <1>5, <2>1, <2>2, <2>5, <2>6
  <1> QED BY <1>3, <1>4

(* A control frame is a header alone.                                         *)
LEMMA PackedControl ==
    ASSUME NEW m \in Control
    PROVE  /\ PackWebSocketFrame(m) = << <<"header", m>> >> /\ <<"header", m>> \in Atoms
           /\ << <<"header", m>> >> \in Seq(Atoms) /\ InFrames(<< <<"header", m>> >>)
  <1>1. <<"header", m>> \in Atoms
    BY DEF Atoms
  <1> DEFINE u == << <<"header", m>> >>
  <1>0. PackWebSocketFrame(m) = u
    <2>1. m \notin Huge
      BY MessagesAssumption
    <2> QED BY <2>1 DEF PackWebSocketFrame
  <1>2. u \in Seq(Atoms) /\ Len(u) = 1 /\ DOMAIN u = 1 .. 1 /\ u[1] = <<"header", m>>
    BY <1>1
  <1> HIDE DEF u
  <1>3. InFrames(u)
    BY <1>2 DEF InFrames, Framed, Begins
  <1> QED BY <1>0, <1>1, <1>2, <1>3 DEF u

-----------------------------------------------------------------------------
(* What the flow of messages to an end becomes when something is written, read  *)
(* or closed                                                                    *)

(* A socket is closed: less is asked of the flow.                             *)
LEMMA FlowWeaker ==
    ASSUME NEW s, NEW n, NEW t, NEW all, NEW some, some => all
    PROVE  /\ FrameFlow(s, n, t, all) => FrameFlow(s, n, t, some)
           /\ RawFlow(s, n, t, all) => RawFlow(s, n, t, some)
  BY DEF FrameFlow, Carries, RawFlow

(* A message is sent: on an open socket its frame is put at the end.            *)
LEMMA FlowSend ==
    ASSUME NEW s \in Seq(Atoms), NEW n \in Nat, NEW t \in Seq(Messages), NEW m \in Messages,
           NEW u, NEW all, FrameFlow(s, n, t, all), FrameOf(u, m)
    PROVE  FrameFlow(IF all THEN s \o u ELSE s, n, Append(t, m), all)
  <1>1. CASE all
    <2>1. Carries(s, n, t, TRUE)
      BY <1>1 DEF FrameFlow, Carries
    <2>2. Carries(s \o u, n, Append(t, m), all)
      BY <2>1, CarriesFrame
    <2>3. InFrames(s \o u)
      BY FramesJoin DEF FrameFlow, FrameOf
    <2> QED BY <1>1, <2>2, <2>3 DEF FrameFlow
  <1>2. CASE ~all
    <2>1. Carries(s, n, Append(t, m), FALSE)
      BY CarriesLost DEF FrameFlow
    <2>2. Carries(s, n, Append(t, m), all)
      BY <1>2, <2>1 DEF Carries
    <2> QED BY <1>2, <2>2 DEF FrameFlow
  <1> QED BY <1>1, <1>2

(* A control frame is.                                                          *)
LEMMA FlowControl ==
    ASSUME NEW s \in Seq(Atoms), NEW n \in Nat, NEW t \in Seq(Messages), NEW m \in Control,
           NEW all, FrameFlow(s, n, t, all)
    PROVE  FrameFlow(s \o PackWebSocketFrame(m), n, t, all)
  <1> DEFINE a == <<"header", m>>
  <1>1. /\ PackWebSocketFrame(m) = <<a>> /\ a \in Atoms /\ a[1] = "header"
        /\ <<a>> \in Seq(Atoms) /\ InFrames(<<a>>)
    BY PackedControl
  <1> HIDE DEF a
  <1>2. Carries(s \o <<a>>, n, t, all)
    BY <1>1, CarriesControl DEF FrameFlow
  <1>3. InFrames(s \o <<a>>)
    BY <1>1, FramesJoin DEF FrameFlow
  <1> QED BY <1>1, <1>2, <1>3 DEF FrameFlow

(* The first frame is read: its message is the next one.                        *)
LEMMA FlowRead ==
    ASSUME NEW s \in Seq(Atoms), NEW n \in Nat, NEW t \in Seq(Messages), NEW all,
           FrameFlow(s, n, t, all), s # <<>>,
           s[1][1] = "length" \/ (s[1][1] = "header" /\ s[1][2] \notin Control),
           NEW k, k = IF s[1][1] = "header" /\ s[1][2] \in Huge THEN 4 ELSE 2
    PROVE  /\ k \in 0 .. Len(s) /\ n + 1 <= Len(t) /\ s[1][2] = t[n + 1]
           /\ FrameFlow(Rest(s, k), n + 1, t, all)
  <1>0. Len(s) \in Nat /\ Len(s) >= 1 /\ 1 \in 1 .. Len(s)
    OBVIOUS
  <1>1. Framed(s, 1) /\ InFrames(s) /\ Carries(s, n, t, all)
    BY <1>0 DEF FrameFlow, InFrames
  <1>2. s[1][1] # "payload" /\ (k = 4 => s[1][1] = "header") /\ k \in {2, 4}
    OBVIOUS
  <1>3. /\ k <= Len(s) /\ s[k] = <<"payload", s[1][2]>>
        /\ \A i \in 1 .. k - 1 : s[i][1] # "payload"
    <2>1. CASE k = 2
      <3>1. 1 + 1 <= Len(s) /\ s[1 + 1] = <<"payload", s[1][2]>>
        BY <1>1, <2>1 DEF Framed
      <3> QED BY <1>0, <1>2, <2>1, <3>1
    <2>2. CASE k = 4
      <3>1. /\ 1 + 3 <= Len(s) /\ s[1 + 3] = <<"payload", s[1][2]>>
            /\ s[1 + 1][1] = "size" /\ s[1 + 2][1] = "size"
        BY <1>1, <2>2 DEF Framed
      <3>2. \A i \in 1 .. 4 - 1 : i = 1 \/ i = 2 \/ i = 3
        OBVIOUS
      <3> QED BY <1>0, <1>2, <2>2, <3>1, <3>2
    <2> QED BY <1>2, <2>1, <2>2
  <1>4. k \in 1 .. Len(s) /\ s[k][1] = "payload" /\ s[k][2] = s[1][2]
    BY <1>0, <1>2, <1>3
  <1>5. k = Len(s) \/ Begins(s[k + 1])
    BY <1>1, <1>4 DEF InFrames, Framed
  <1>6. InFrames(Rest(s, k))
    BY <1>1, <1>4, <1>5, FramesRest
  <1>7. n + 1 <= Len(t) /\ s[k][2] = t[n + 1] /\ Carries(Rest(s, k), n + 1, t, all)
    BY <1>1, <1>2, <1>3, <1>4, CarriesRest
  <1> QED BY <1>0, <1>4, <1>6, <1>7 DEF FrameFlow

(* Or it is a control frame.                                                    *)
LEMMA FlowReadControl ==
    ASSUME NEW s \in Seq(Atoms), NEW n \in Nat, NEW t \in Seq(Messages), NEW all,
           FrameFlow(s, n, t, all), s # <<>>, s[1][1] = "header", s[1][2] \in Control
    PROVE  FrameFlow(Rest(s, 1), n, t, all)
  <1>0. Len(s) \in Nat /\ Len(s) >= 1 /\ 1 \in 1 .. Len(s)
    OBVIOUS
  <1>1. Framed(s, 1) /\ InFrames(s) /\ Carries(s, n, t, all)
    BY <1>0 DEF FrameFlow, InFrames
  <1>2. 1 = Len(s) \/ Begins(s[1 + 1])
    BY <1>1 DEF Framed
  <1>3. InFrames(Rest(s, 1))
    BY <1>0, <1>1, <1>2, FramesRest
  <1>4. Carries(Rest(s, 1), n, t, all)
    BY <1>0, <1>1, CarriesSkip
  <1> QED BY <1>3, <1>4 DEF FrameFlow

(* Nothing is left: all has been given.                                         *)
LEMMA FlowEmpty ==
    ASSUME NEW n \in Nat, NEW t \in Seq(Messages), NEW all
    PROVE  /\ all /\ (FrameFlow(<<>>, n, t, all) \/ RawFlow(<<>>, n, t, all)) => n = Len(t)
           /\ n = Len(t) => FrameFlow(<<>>, n, t, all) /\ RawFlow(<<>>, n, t, all)
  <1>1. Len(<<>>) = 0 /\ DOMAIN <<>> = {} /\ Len(t) \in Nat
    OBVIOUS
  <1>2. all /\ FrameFlow(<<>>, n, t, all) => n = Len(t)
    <2>1. all /\ Carries(<<>>, n, t, all) => Carries(<<>>, n, t, TRUE)
      BY DEF Carries
    <2> QED BY <2>1, CarriesNothing DEF FrameFlow
  <1>3. n = Len(t) => FrameFlow(<<>>, n, t, all)
    BY CarriesNothing DEF FrameFlow
  <1> QED BY <1>1, <1>2, <1>3 DEF RawFlow

(* The same for a stream of payloads.                                           *)
LEMMA RawSend ==
    ASSUME NEW s \in Seq(Atoms), NEW n \in Nat, NEW t \in Seq(Messages), NEW m \in Messages,
           NEW u, u = << <<"payload", m>> >>, NEW all, RawFlow(s, n, t, all)
    PROVE  RawFlow(IF all THEN s \o u ELSE s, n, Append(t, m), all)
  <1>1. u \in Seq(Atoms) /\ Len(u) = 1 /\ u[1] = <<"payload", m>>
    <2>1. <<"payload", m>> \in Atoms
      BY DEF Atoms
    <2> QED BY <2>1
  <1>2. /\ Len(Append(t, m)) = Len(t) + 1 /\ Append(t, m)[Len(t) + 1] = m
        /\ (\A i \in 1 .. Len(t) : Append(t, m)[i] = t[i]) /\ Len(t) \in Nat /\ Len(s) \in Nat
    OBVIOUS
  <1>3. n + Len(s) <= Len(t) /\ DOMAIN s = 1 .. Len(s)
        /\ \A i \in 1 .. Len(s) : s[i] = <<"payload", Append(t, m)[n + i]>>
    BY <1>2 DEF RawFlow
  <1>4. CASE all
    <2> DEFINE r == s \o u
    <2>1. /\ r \in Seq(Atoms) /\ Len(r) = Len(s) + 1
          /\ \A i \in 1 .. Len(s) : r[i] = s[i]
          /\ \A i \in Len(s) + 1 .. Len(s) + 1 : r[i] = u[i - Len(s)]
      BY <1>1, JoinIs
    <2> HIDE DEF r
    <2>2. r[Len(s) + 1] = u[1] /\ DOMAIN r = 1 .. Len(s) + 1
      <3>1. Len(s) + 1 \in Len(s) + 1 .. Len(s) + 1 /\ Len(s) + 1 - Len(s) = 1
        BY <1>2
      <3> QED BY <2>1, <3>1
    <2>3. n + Len(s) = Len(t)
      BY <1>4 DEF RawFlow
    <2>4. \A i \in 1 .. Len(s) + 1 : r[i] = <<"payload", Append(t, m)[n + i]>>
      <3> TAKE i \in 1 .. Len(s) + 1
      <3>1. CASE i = Len(s) + 1
        <4>1. n + i = Len(t) + 1
          BY <1>2, <2>3, <3>1
        <4> QED BY <1>1, <1>2, <2>2, <3>1, <4>1
      <3>2. CASE i # Len(s) + 1
        <4>1. i \in 1 .. Len(s)
          BY <1>2, <3>2
        <4> QED BY <1>3, <2>1, <4>1
      <3> QED BY <3>1, <3>2
    <2>5. n + Len(r) = Len(Append(t, m))
      BY <1>2, <2>1, <2>3
    <2>6. RawFlow(r, n, Append(t, m), all)
      BY <1>2, <2>1, <2>2, <2>4, <2>5 DEF RawFlow
    <2> QED BY <1>4, <2>6 DEF r
  <1>5. CASE ~all
    <2>1. RawFlow(s, n, Append(t, m), all)
      BY <1>2, <1>3, <1>5 DEF RawFlow
    <2> QED BY <1>5, <2>1
  <1> QED BY <1>4, <1>5

(* Some payloads are read: their messages are the next ones.                  *)
LEMMA RawRead ==
    ASSUME NEW s \in Seq(Atoms), NEW n \in Nat, NEW t \in Seq(Messages), NEW all,
           RawFlow(s, n, t, all), NEW k \in 1 .. Len(s)
    PROVE  /\ n + k <= Len(t) /\ \A i \in 1 .. k : s[i][2] = t[n + i]
           /\ RawFlow(Rest(s, k), n + k, t, all)
  <1> DEFINE r == Rest(s, k)
  <1>0. Len(s) \in Nat /\ Len(t) \in Nat /\ k \in 0 .. Len(s) /\ DOMAIN s = 1 .. Len(s)
    OBVIOUS
  <1>1. r \in Seq(Atoms) /\ Len(r) = Len(s) - k
        /\ \A i \in DOMAIN r : i + k \in DOMAIN s /\ r[i] = s[i + k]
    BY <1>0, RestIs
  <1> HIDE DEF r
  <1>2. n + Len(s) <= Len(t) /\ (\A i \in DOMAIN s : s[i] = <<"payload", t[n + i]>>)
        /\ (all => n + Len(s) = Len(t))
    BY DEF RawFlow
  <1>3. ASSUME NEW i \in DOMAIN r PROVE r[i] = <<"payload", t[n + k + i]>>
    <2>1. DOMAIN r = 1 .. Len(r)
      BY <1>1
    <2>2. n + (i + k) = n + k + i
      BY <1>0, <1>1, <2>1
    <2> QED BY <1>1, <1>2, <2>2
  <1>4. n + k + Len(r) <= Len(t) /\ (all => n + k + Len(r) = Len(t))
    <2>1. n + k + Len(r) = n + Len(s)
      BY <1>0, <1>1
    <2> QED BY <1>2, <2>1
  <1>5. n + k <= Len(t) /\ \A i \in 1 .. k : s[i][2] = t[n + i]
    <2>1. \A i \in 1 .. k : i \in DOMAIN s
      BY <1>0
    <2>2. \A i \in 1 .. k : s[i][2] = t[n + i]
      BY <1>2, <2>1
    <2> QED BY <1>0, <1>2, <2>2
  <1>6. RawFlow(r, n + k, t, all)
    BY <1>3, <1>4 DEF RawFlow
  <1> QED BY <1>5, <1>6 DEF r

-----------------------------------------------------------------------------
(* Types *)

(* There are two ends.                                                        *)
LEMMA TheEnds ==
    /\ Ends = {"client", "server"} /\ Other("client") = "server" /\ Other("server") = "client"
    /\ \A e \in Ends : Other(e) \in Ends /\ Other(e) # e /\ Other(Other(e)) = e
    /\ \A e, f \in Ends : f = e \/ f = Other(e)
  BY DEF Ends, Other

(* What is on its way to an end, what it was given and what it has sent.      *)
LEMMA SidesTyped ==
    ASSUME SocketTyped, NEW e \in Ends
    PROVE  /\ stream[e] \in Seq(Atoms) /\ got[e] \in Seq(Given) /\ sent[e] \in Seq(Messages)
           /\ Len(got[e]) \in Nat /\ sent[Other(e)] \in Seq(Messages)
  <1>1. stream[e] \in Seq(Atoms) /\ got[e] \in Seq(Given) /\ sent[e] \in Seq(Messages)
    BY DEF SocketTyped
  <1>2. sent[Other(e)] \in Seq(Messages)
    BY TheEnds DEF SocketTyped
  <1>3. ASSUME NEW s \in Seq(Given) PROVE Len(s) \in Nat
    OBVIOUS
  <1> QED BY <1>1, <1>2, <1>3

(* An atom is a part of some message.                                         *)
LEMMA AtomIs ==
    ASSUME NEW a \in Atoms
    PROVE  a[2] \in Messages \union Control \union {""} /\ a[2] \in Given
  BY DEF Atoms, Given

(* One atom, or two, are a stream.                                            *)
LEMMA AtomsInRow ==
    ASSUME NEW a \in Atoms, NEW b \in Atoms
    PROVE  /\ <<a>> \in Seq(Atoms) /\ Len(<<a>>) = 1 /\ <<a>>[1] = a
           /\ <<a, b>> \in Seq(Atoms) /\ Len(<<a, b>>) = 2 /\ <<a, b>>[1] = a /\ <<a, b>>[2] = b
  OBVIOUS

(* What is left of a stream is one.                                           *)
LEMMA RestTyped ==
    ASSUME NEW S, NEW s \in Seq(S), NEW n \in Nat
    PROVE  Rest(s, n) \in Seq(S)
  BY DEF Rest

(* What is written are atoms.                                                 *)
LEMMA WriteTyped ==
    ASSUME NEW m \in Messages \union Control, NEW h
    PROVE  WriteHandler(h, m) \in Seq(Atoms)
  <1>1. \A a \in {"header", "size", "payload", "length"} : <<a, m>> \in Atoms
    BY DEF Atoms
  <1>2. << <<"header", m>> >> \in Seq(Atoms) /\ << <<"payload", m>> >> \in Seq(Atoms)
    BY <1>1
  <1>3. << <<"header", m>>, <<"payload", m>> >> \in Seq(Atoms)
        /\ << <<"length", m>>, <<"payload", m>> >> \in Seq(Atoms)
    BY <1>1
  <1>4. << <<"header", m>>, <<"size", m>>, <<"size", m>>, <<"payload", m>> >> \in Seq(Atoms)
    BY <1>1
  <1>5. PackWebSocketFrame(m) \in Seq(Atoms)
    BY <1>2, <1>3, <1>4, MessagesAssumption DEF PackWebSocketFrame
  <1> QED BY <1>2, <1>3, <1>5 DEF WriteHandler

(* What an end begins with are handlers.                                      *)
LEMMA HandlersTyped ==
    ASSUME NEW l \in {"raw", "framed", "websocket"}, NEW e \in Ends
    PROVE  HandlerFuncs(l, e) \in Seq(Handlers)
  <1>1. /\ << <<"raw", -1>>, <<"length", -1>> >> \in Seq(Handlers)
        /\ << <<"raw", 0>>, <<"length", -1>> >> \in Seq(Handlers)
        /\ << <<"raw", 1>>, <<"frames", -1>> >> \in Seq(Handlers)
        /\ << <<"frames", -1>> >> \in Seq(Handlers)
    BY DEF Handlers
  <1> QED BY <1>1, TheEnds DEF HandlerFuncs

(* Something is written to the other end.                                     *)
LEMMA PutTyped ==
    ASSUME SocketTyped, NEW e \in Ends, NEW u \in Seq(Atoms), Put(e, u)
    PROVE  /\ stream' \in [Ends -> Seq(Atoms)]
           /\ stream'[e] = stream[e]
           /\ stream'[Other(e)] = IF open[e] THEN stream[Other(e)] \o u ELSE stream[Other(e)]
  <1>1. stream \in [Ends -> Seq(Atoms)] /\ Other(e) \in Ends /\ Other(e) # e
    BY TheEnds DEF SocketTyped
  <1>2. stream[Other(e)] \o u \in Seq(Atoms)
    BY <1>1
  <1> QED BY <1>1, <1>2 DEF Put

(* Something is read from a stream.                                           *)
LEMMA TakeTyped ==
    ASSUME SocketTyped, NEW e \in Ends, NEW n \in Nat, Take(e, n)
    PROVE  /\ stream' \in [Ends -> Seq(Atoms)]
           /\ stream'[e] = Rest(stream[e], n) /\ stream'[Other(e)] = stream[Other(e)]
  <1>1. stream \in [Ends -> Seq(Atoms)] /\ Other(e) \in Ends /\ Other(e) # e
    BY TheEnds DEF SocketTyped
  <1>2. Rest(stream[e], n) \in Seq(Atoms)
    BY <1>1, RestTyped
  <1>3. stream' = [stream EXCEPT ![e] = Rest(stream[e], n)]
    BY DEF Take, Rest
  <1> QED BY <1>1, <1>2, <1>3

(* The user of the server is told of something.                               *)
LEMMA EventTyped ==
    ASSUME SocketTyped, NEW event \in {"connect", "disconnect"}, serverEvent(event)
    PROVE  told' \in [{"connect", "disconnect"} -> Nat]
  <1>1. told' = told \/ told' = [told EXCEPT ![event] = @ + 1]
    BY DEF serverEvent, webSocketServerEvent, tcpServerEvent
  <1> QED BY <1>1 DEF SocketTyped

(* The user of an end is given something.                                     *)
LEMMA GivenTyped ==
    ASSUME SocketTyped, NEW e \in Ends, NEW data \in Seq(Given), localReadFunc(e, data)
    PROVE  got' \in [Ends -> Seq(Given)] /\ got'[e] = got[e] \o data
           /\ got'[Other(e)] = got[Other(e)]
  <1>1. got \in [Ends -> Seq(Given)] /\ Other(e) \in Ends /\ Other(e) # e
    BY TheEnds DEF SocketTyped
  <1>2. got[e] \o data \in Seq(Given)
    BY <1>1
  <1> QED BY <1>1, <1>2 DEF localReadFunc

(* It starts typed.                                                           *)
LEMMA InitTyped == SocketInit => SocketTyped
  <1> SUFFICES ASSUME SocketInit PROVE SocketTyped
    OBVIOUS
  <1>1. link \in {"raw", "framed", "websocket"}
    BY LinksAssumption DEF SocketInit
  <1>2. <<>> \in Seq(Atoms) /\ <<>> \in Seq(Messages) /\ <<>> \in Seq(Given)
    OBVIOUS
  <1>3. handlers \in [Ends -> Seq(Handlers)]
    BY <1>1, HandlersTyped DEF SocketInit
  <1> QED BY <1>1, <1>2, <1>3 DEF SocketInit, SocketTyped

(* Whatever happens, it stays typed. *)
LEMMA NextTyped ==
    ASSUME SocketTyped, SocketNext
    PROVE  SocketTyped'
  <1>1. ASSUME NEW e \in Ends, NextHandler(e) PROVE SocketTyped'
    <2>0. /\ UNCHANGED <<link, stream, open, garbled, connecting, sent, got>>
          /\ reader' \in [Ends -> {"off", "next", "read", "finish"}]
      BY <1>1 DEF NextHandler, SocketTyped, clientVars, exchange
    <2>1. CASE UNCHANGED <<handlers, current, serverSide>>
      BY <2>0, <2>1 DEF SocketTyped, serverSide
    <2>2. ASSUME NEW i \in DOMAIN handlers[e],
                 current' = [current EXCEPT ![e] = handlers[e][i]],
                 handlers' = [handlers EXCEPT ![e] = SubSeq(@, i + 1, Len(@))],
                 told' \in [{"connect", "disconnect"} -> Nat]
          PROVE  SocketTyped'
      <3>1. handlers[e] \in Seq(Handlers)
        BY DEF SocketTyped
      <3>2. /\ handlers[e][i] \in Handlers
            /\ SubSeq(handlers[e], i + 1, Len(handlers[e])) \in Seq(Handlers)
        BY <3>1
      <3>3. /\ current' \in [Ends -> Handlers \union {NoHandler}]
            /\ handlers' \in [Ends -> Seq(Handlers)]
        BY <2>2, <3>2 DEF SocketTyped
      <3> QED BY <2>0, <2>2, <3>3 DEF SocketTyped
    <2>3. ASSUME serverEvent("connect") \/ UNCHANGED serverSide
          PROVE  told' \in [{"connect", "disconnect"} -> Nat]
      BY <2>3, EventTyped DEF serverSide, SocketTyped
    <2> QED BY <1>1, <2>1, <2>2, <2>3 DEF NextHandler
  <1>2. ASSUME NEW e \in Ends, NEW n \in Nat, NEW data \in Seq(Given),
               Take(e, n), localReadFunc(e, data),
               UNCHANGED <<link, open, handlers, current, reader, garbled, clientVars, serverSide,
                           sent, controls, refused>>
        PROVE  SocketTyped'
    BY <1>2, TakeTyped, GivenTyped DEF SocketTyped, clientVars, serverSide
  <1>3. ASSUME NEW e \in Ends, HandleTCPRead(e) PROVE SocketTyped'
    <2>1. PICK n \in 1 .. Len(stream[e]) :
              Take(e, n) /\ localReadFunc(e, [i \in 1 .. n |-> stream[e][i][2]])
      BY <1>3 DEF HandleTCPRead
    <2>2. stream[e] \in Seq(Atoms)
      BY DEF SocketTyped
    <2>3. \A i \in 1 .. n : stream[e][i][2] \in Given
      <3>1. \A i \in 1 .. n : stream[e][i] \in Atoms
        BY <2>2
      <3> QED BY <3>1, AtomIs
    <2>4. n \in Nat
      BY <2>2
    <2>5. [i \in 1 .. n |-> stream[e][i][2]] \in Seq(Given)
      BY <2>3, <2>4
    <2> QED BY <1>2, <1>3, <2>1, <2>4, <2>5 DEF HandleTCPRead
  <1>4. ASSUME NEW e \in Ends, HandleTCPReadFramed(e) \/ ReadMessage(e) PROVE SocketTyped'
    <2>1. stream[e] \in Seq(Atoms) /\ stream[e] # <<>>
      BY <1>4 DEF HandleTCPReadFramed, ReadMessage, SocketTyped, Reads
    <2>2. stream[e][1][2] \in Given /\ stream[e][1][2] \in Messages \union Control \union {""}
      <3>1. stream[e][1] \in Atoms
        BY <2>1
      <3> QED BY <3>1, AtomIs
    <2>3. <<stream[e][1][2]>> \in Seq(Given)
      <3>1. ASSUME NEW d \in Given PROVE <<d>> \in Seq(Given)
        OBVIOUS
      <3> QED BY <2>2, <3>1
    <2>4. CASE HandleTCPReadFramed(e)
      BY <1>2, <2>3, <2>4 DEF HandleTCPReadFramed
    <2>5. CASE ReadMessage(e)
      <3> DEFINE n == Len(PackWebSocketFrame(stream[e][1][2]))
      <3>1. n \in Nat
        BY <2>2 DEF PackWebSocketFrame
      <3> QED BY <1>2, <2>3, <2>5, <3>1 DEF ReadMessage
    <2> QED BY <1>4, <2>4, <2>5
  <1>5. ASSUME NEW e \in Ends, ReadControl(e) PROVE SocketTyped'
    <2> DEFINE m == stream[e][1][2]
    <2>1. stream \in [Ends -> Seq(Atoms)] /\ stream[e] # <<>>
      BY <1>5 DEF ReadControl, SocketTyped, Reads
    <2>2. PackWebSocketFrame("pong") \in Seq(Atoms) /\ <<>> \in Seq(Atoms)
      BY PackedControl DEF Control
    <2>3. \A f \in Ends :
              /\ stream[f] # <<>> => Tail(stream[f]) \in Seq(Atoms)
              /\ stream[f] \o PackWebSocketFrame("pong") \in Seq(Atoms)
              /\ stream[f] \o <<>> \in Seq(Atoms)
      BY <2>1, <2>2
    <2>4. stream' \in [Ends -> Seq(Atoms)]
      BY <1>5, <2>1, <2>3 DEF ReadControl
    <2> QED BY <1>5, <2>4 DEF ReadControl, SocketTyped, clientVars, serverSide, exchange
  <1>6. ASSUME NEW e \in Ends, ReadClose(e) PROVE SocketTyped'
    <2>1. told' \in [{"connect", "disconnect"} -> Nat]
      BY <1>6, EventTyped DEF ReadClose, serverSide, SocketTyped
    <2>2. stream' \in [Ends -> Seq(Atoms)]
      BY <1>6, TakeTyped DEF ReadClose
    <2>3. DOMAIN open' = Ends
      BY <1>6 DEF ReadClose, SocketTyped
    <2> QED BY <1>6, <2>1, <2>2, <2>3 DEF ReadClose, SocketTyped, clientVars, exchange
  <1>7. ASSUME NEW e \in Ends, SplitSize(e) PROVE SocketTyped'
    BY <1>7, TakeTyped DEF SplitSize, SocketTyped, clientVars, serverSide, exchange
  <1>8. ASSUME NEW e \in Ends, Astray(e) PROVE SocketTyped'
    <2>1. PICK n \in 1 .. Len(stream[e]) : Take(e, n)
      BY <1>8 DEF Astray
    <2>2. n \in Nat
      BY DEF SocketTyped
    <2>3. stream' \in [Ends -> Seq(Atoms)]
      BY <2>1, <2>2, TakeTyped
    <2>4. got' \in [Ends -> Seq(Given)]
      <3>1. got \in [Ends -> Seq(Given)] /\ "garbage" \in Given
        BY DEF SocketTyped, Given
      <3>2. Append(got[e], "garbage") \in Seq(Given)
        BY <3>1
      <3> QED BY <1>8, <3>1, <3>2 DEF Astray
    <2> QED BY <1>8, <2>3, <2>4 DEF Astray, SocketTyped, clientVars, serverSide
  <1>9. ASSUME NEW e \in Ends, ReadFails(e) PROVE SocketTyped'
    BY <1>9 DEF ReadFails, SocketTyped, clientVars, serverSide, exchange
  <1>10. ASSUME NEW e \in Ends, Finish(e) PROVE SocketTyped'
    <2>1. told' \in [{"connect", "disconnect"} -> Nat]
      BY <1>10, EventTyped DEF Finish, serverSide, SocketTyped
    <2> QED BY <1>10, <2>1 DEF Finish, SocketTyped, clientVars, exchange
  <1>11. CASE ReadAnswer
    <2>1. PICK n \in 1 .. Len(stream["client"]) :
              Take("client", n) /\ garbled' = [garbled EXCEPT !["client"] = (n # 2)]
      BY <1>11 DEF ReadAnswer
    <2>2. n \in Nat /\ "client" \in Ends
      BY DEF SocketTyped, Ends
    <2>3. stream' \in [Ends -> Seq(Atoms)]
      BY <2>1, <2>2, TakeTyped
    <2> QED BY <1>11, <2>1, <2>3 DEF ReadAnswer, SocketTyped, serverSide, exchange
  <1>12. CASE Accept \/ Poll \/ Dial \/ DialFails
    BY <1>12 DEF Accept, Poll, Dial, DialFails, ends, SocketTyped, clientVars, serverSide, exchange
  <1>13. CASE Request
    <2>1. << <<"request", "">> >> \in Seq(Atoms) /\ "client" \in Ends
      <3>1. <<"request", "">> \in Atoms
        BY DEF Atoms
      <3> QED BY <3>1, AtomsInRow DEF Ends
    <2>2. stream' \in [Ends -> Seq(Atoms)]
      BY <1>13, <2>1, PutTyped DEF Request
    <2> QED BY <1>13, <2>2 DEF Request, SocketTyped, serverSide, exchange
  <1>14. ASSUME NEW answer \in {"accept", "refuse", "gone"}, handleHTTPAccess(answer)
         PROVE  SocketTyped'
    <2>1. /\ << <<"status", "">>, <<"key", "">> >> \in Seq(Atoms)
          /\ << <<"error", "">> >> \in Seq(Atoms) /\ <<>> \in Seq(Atoms)
      <3>1. <<"status", "">> \in Atoms /\ <<"key", "">> \in Atoms /\ <<"error", "">> \in Atoms
        BY DEF Atoms
      <3>2. <<>> \in Seq(Atoms)
        OBVIOUS
      <3> QED BY <3>1, <3>2, AtomsInRow
    <2>2. stream["server"] # <<>> /\ stream["server"] \in Seq(Atoms)
      BY <1>14, TheEnds DEF handleHTTPAccess, SocketTyped
    <2>3. Tail(stream["server"]) \in Seq(Atoms)
      BY <2>2
    <2>4. stream' \in [Ends -> Seq(Atoms)]
      <3>1. \E x \in Seq(Atoms) : stream' = [client |-> x, server |-> Tail(stream["server"])]
        BY <1>14, <2>1 DEF handleHTTPAccess
      <3>2. PICK x \in Seq(Atoms) : stream' = [client |-> x, server |-> Tail(stream["server"])]
        BY <3>1
      <3> DEFINE y == Tail(stream["server"])
      <3> HIDE DEF y
      <3>3. stream' = [client |-> x, server |-> y] /\ y \in Seq(Atoms)
        BY <2>3, <3>2 DEF y
      <3> QED BY ONLY <3>3, TheEnds
    <2> QED BY <1>14, <2>4 DEF handleHTTPAccess, SocketTyped, clientVars, exchange
  <1>15. CASE Reconnect
    <2>1. <<>> \in Seq(Atoms)
      OBVIOUS
    <2> QED BY <1>15, <2>1 DEF Reconnect, SocketTyped, serverSide, exchange
  <1>16. ASSUME NEW e \in Ends, HangUp(e) PROVE SocketTyped'
    BY <1>16 DEF HangUp, SocketTyped, clientVars, serverSide, exchange
  <1>17. ASSUME NEW e \in Ends, NEW m \in Messages, Send(e, m) PROVE SocketTyped'
    <2>1. WriteHandler(current[e], m) \in Seq(Atoms)
      BY WriteTyped
    <2>2. stream' \in [Ends -> Seq(Atoms)]
      BY <1>17, <2>1, PutTyped DEF Send
    <2>3. sent' \in [Ends -> Seq(Messages)]
      BY <1>17 DEF Send, SocketTyped
    <2> QED BY <1>17, <2>2, <2>3 DEF Send, SocketTyped, clientVars, serverSide
  <1>18. ASSUME NEW m \in Control, SendControl(m) PROVE SocketTyped'
    <2>1. WriteHandler(current["client"], m) \in Seq(Atoms) /\ "client" \in Ends
      BY WriteTyped DEF Ends
    <2>2. stream' \in [Ends -> Seq(Atoms)]
      BY <1>18, <2>1, PutTyped DEF SendControl
    <2> QED BY <1>18, <2>2 DEF SendControl, SocketTyped, clientVars, serverSide
  <1> QED BY <1>1, <1>3, <1>4, <1>5, <1>6, <1>7, <1>8, <1>9, <1>10, <1>11, <1>12, <1>13, <1>14,
             <1>15, <1>16, <1>17, <1>18 DEF SocketNext, SocketProgress, readNextFunc

-----------------------------------------------------------------------------
(* What can be read, and what the user of the server is told *)

Phases == Tcp \/ Unanswered \/ Refused \/ Answered

(* Where an end is that reads what it finds in its stream.                      *)
LEMMA ReadingIn ==
    ASSUME SocketTyped, Phases, NEW e \in Ends, reader[e] = "read", stream[e] # <<>>
    PROVE  /\ current[e][1] = "raw" /\ link = "raw" =>
                  Tcp /\ RawFlow(stream[e], Len(got[e]), sent[Other(e)], open[Other(e)])
           /\ current[e][1] = "length" => Tcp /\ link = "framed" /\ Flow(e)
           /\ current[e][1] = "frames" => Answered /\ ~awaitingReady /\ link = "websocket"
           /\ current[e][1] = "frames" /\ ~garbled[e] /\ stream[e][1][1] = "header" => Flow(e)
           /\ current[e][1] = "raw" /\ link = "websocket" /\ e = "client" =>
                  Answered /\ awaitingReady /\ Awaited
  <1>1. CASE Tcp
    <2>1. link \in {"raw", "framed"} /\ current[e] \in {NoHandler, TcpHandler}
      BY <1>1 DEF Tcp, TcpEnd
    <2>2. /\ link = "raw" => RawFlow(stream[e], Len(got[e]), sent[Other(e)], open[Other(e)])
          /\ link = "framed" => Flow(e)
      BY <1>1 DEF Tcp, TcpEnd, TcpFlow, Flow
    <2> QED BY <1>1, <2>1, <2>2 DEF NoHandler, TcpHandler
  <1>2. CASE Unanswered
    <2>1. e = "client" => FALSE
      BY <1>2 DEF Unanswered
    <2>2. e = "server" => FALSE
      BY <1>2 DEF Unanswered
    <2> QED BY <2>1, <2>2, TheEnds
  <1>3. CASE Refused
    <2>1. e = "client" => FALSE
      BY <1>3 DEF Refused
    <2>2. e = "server" => FALSE
      BY <1>3 DEF Refused
    <2> QED BY <2>1, <2>2, TheEnds
  <1>4. CASE Answered /\ awaitingReady
    <2>1. Awaited /\ link = "websocket"
      BY <1>4 DEF Answered, Answering
    <2>2. e = "client" /\ current[e] = RawOnce
      BY <2>1, TheEnds DEF Awaited
    <2> QED BY <1>4, <2>1, <2>2 DEF RawOnce
  <1>5. CASE Answered /\ ~awaitingReady
    <2>1. Seen /\ link = "websocket"
      BY <1>5 DEF Answered, Answering
    <2>2. e = "client" => current[e] = Frames
      BY <2>1 DEF Seen, Switched
    <2>3. e = "server" => current[e] \in {Frames, NoHandler}
      BY <1>5 DEF Answered, Answering
    <2>4. current[e] = Frames \/ current[e] = NoHandler
      BY <2>2, <2>3, TheEnds
    <2>5. ~garbled[e] /\ stream[e][1][1] = "header" => Flow(e)
      <3>1. FlowsAt(e)
        BY <2>1 DEF Seen
      <3> QED BY <3>1 DEF FlowsAt, InStep, OutOfStep, Begins
    <2>6. e = "client" => current[e][1] = "frames"
      BY <2>2 DEF Frames
    <2> QED BY <1>5, <2>1, <2>4, <2>5, <2>6 DEF Frames, NoHandler
  <1> QED BY <1>1, <1>2, <1>3, <1>4, <1>5 DEF Phases

(* Only a request that nobody has answered waits at the server.                 *)
LEMMA RequestWaits ==
    ASSUME SocketTyped, Phases, ~refused, stream["server"] # <<>>,
           Head(stream["server"])[1] = "request"
    PROVE  Unanswered /\ connecting = "waiting"
  <1> DEFINE s == stream["server"]
  <1>0. /\ s \in Seq(Atoms) /\ s # <<>> /\ s[1][1] = "request"
        /\ 1 \in DOMAIN s /\ 1 \in 1 .. Len(s)
    BY TheEnds DEF SocketTyped
  <1> HIDE DEF s
  <1>1. CASE Tcp
    <2>1. link = "raw" => FALSE
      <3>1. link = "raw" => \A i \in DOMAIN s : s[i][1] = "payload"
        BY <1>1, TheEnds DEF Tcp, TcpEnd, TcpFlow, RawFlow, s
      <3> QED BY <1>0, <3>1
    <2>2. link = "framed" => FALSE
      <3>1. link = "framed" => InFrames(s)
        BY <1>1, TheEnds DEF Tcp, TcpEnd, TcpFlow, FrameFlow, s
      <3>2. link = "framed" => s[1][1] \in {"header", "length", "size", "payload"}
        BY <1>0, <3>1 DEF InFrames, Framed
      <3> QED BY <1>0, <3>2
    <2> QED BY <1>1, <2>1, <2>2 DEF Tcp
  <1>2. CASE Unanswered
    BY <1>0, <1>2 DEF Unanswered, s
  <1>3. CASE Answered
    BY <1>0, <1>3 DEF Answered, Answering, s
  <1> QED BY <1>1, <1>2, <1>3 DEF Phases, Refused

(* The server has a handler to start with.                                      *)
LEMMA ServerStarts ==
    ASSUME Phases, Informed, reader["server"] = "next"
    PROVE  \E i \in DOMAIN handlers["server"] : handlers["server"][i][2] # 0
  <1>0. current["server"] = NoHandler
    BY DEF Informed
  <1>1. CASE Tcp
    <2>1. handlers["server"] = HandlerFuncs(link, "server") /\ link \in {"raw", "framed"}
      <3>1. NoHandler # TcpHandler
        BY DEF NoHandler, TcpHandler
      <3> QED BY <1>0, <1>1, <3>1, TheEnds DEF Tcp, TcpEnd
    <2>2. /\ link = "raw" => handlers["server"] = << <<"raw", -1>>, <<"length", -1>> >>
          /\ link = "framed" => handlers["server"] = << <<"raw", 0>>, <<"length", -1>> >>
      BY <2>1 DEF HandlerFuncs
    <2>3. 2 \in DOMAIN handlers["server"] /\ handlers["server"][2][2] = -1
      BY <2>1, <2>2
    <2> QED BY <2>3
  <1>2. CASE Unanswered \/ Refused
    BY <1>2 DEF Unanswered, Refused
  <1>3. CASE Answered
    <2>1. handlers["server"] = <<Frames>>
      BY <1>0, <1>3 DEF Answered, Answering
    <2>2. 1 \in DOMAIN handlers["server"] /\ handlers["server"][1][2] = -1
      BY <2>1 DEF Frames
    <2> QED BY <2>2
  <1> QED BY <1>1, <1>2, <1>3 DEF Phases

-----------------------------------------------------------------------------
(* What the user of the server is told                                          *)

ServerUntouched ==
    /\ current'["server"] = current["server"] /\ UNCHANGED <<link, registered, told>>
    /\ \/ reader'["server"] = reader["server"]
       \/ reader["server"] = "read" /\ reader'["server"] = "finish"

(* A step that does not touch the side of the server.                         *)
LEMMA InformedKept ==
    ASSUME Informed, ServerUntouched
    PROVE  Informed'
  BY DEF Informed, ServerUntouched

(* The user of the server hears that a connection is gone, or has heard before. *)
LEMMA InformedOfIt ==
    ASSUME SocketTyped, Informed, serverEvent("disconnect"), UNCHANGED <<link, current>>,
           \/ reader["server"] = "read" /\ link = "websocket" /\ reader'["server"] = "finish"
           \/ reader["server"] = "finish" /\ reader'["server"] = "off"
    PROVE  Informed'
  <1>1. /\ current["server"] # NoHandler /\ told.connect = 1
        /\ told.disconnect = (IF registered THEN 0 ELSE 1)
        /\ link # "websocket" => registered
    BY DEF Informed
  <1>2. told' = IF registered THEN [told EXCEPT !["disconnect"] = @ + 1] ELSE told
    BY <1>1 DEF serverEvent, tcpServerEvent, webSocketServerEvent
  <1>3. registered' = FALSE
    BY <1>1 DEF serverEvent, tcpServerEvent, webSocketServerEvent
  <1>4. told'.connect = 1 /\ told'.disconnect = 1
    BY <1>1, <1>2 DEF SocketTyped
  <1> QED BY <1>1, <1>3, <1>4 DEF Informed

(* Every step keeps what the user of the server was told.                     *)
LEMMA NextInformed ==
    ASSUME SocketTyped, Informed, Phases, SocketNext
    PROVE  Informed'
  <1>1. ASSUME NextHandler("server") PROVE Informed'
    <2>1. current["server"] = NoHandler /\ told.connect = 0 /\ told.disconnect = 0
      BY <1>1 DEF Informed, NextHandler
    <2>2. registered <=> link = "websocket"
      BY <1>1, <2>1 DEF Informed, NextHandler
    <2>3. PICK i \in DOMAIN handlers["server"] :
              /\ reader' = [reader EXCEPT !["server"] = "read"]
              /\ current' = [current EXCEPT !["server"] = handlers["server"][i]]
              /\ serverEvent("connect")
      BY <1>1, <2>1, ServerStarts DEF NextHandler
    <2>4. handlers["server"][i] # NoHandler
      <3>1. handlers["server"][i] \in Handlers
        BY TheEnds DEF SocketTyped
      <3> QED BY <3>1 DEF Handlers, NoHandler
    <2>5. current'["server"] # NoHandler /\ reader'["server"] = "read"
      BY <2>3, <2>4, TheEnds DEF SocketTyped
    <2>6. registered' /\ told' = [told EXCEPT !["connect"] = @ + 1]
      BY <2>2, <2>3 DEF serverEvent, tcpServerEvent, webSocketServerEvent
    <2>7. told'.connect = 1 /\ told'.disconnect = 0
      BY <2>1, <2>6 DEF SocketTyped
    <2> QED BY <2>5, <2>6, <2>7 DEF Informed
  <1>2. ASSUME NextHandler("client") PROVE ServerUntouched
    BY <1>2, TheEnds DEF NextHandler, ServerUntouched, SocketTyped, serverSide
  <1>3. ASSUME NEW e \in Ends, HandleTCPRead(e) \/ HandleTCPReadFramed(e) \/ ReadMessage(e)
        PROVE  ServerUntouched
    BY <1>3 DEF HandleTCPRead, HandleTCPReadFramed, ReadMessage, ServerUntouched, serverSide
  <1>4. ASSUME NEW e \in Ends, ReadControl(e) \/ SplitSize(e) PROVE ServerUntouched
    BY <1>4 DEF ReadControl, SplitSize, ServerUntouched, serverSide
  <1>5. ASSUME NEW e \in Ends, Astray(e) \/ ReadFails(e) PROVE ServerUntouched
    <2>1. /\ reader[e] = "read" /\ reader' \in {reader, [reader EXCEPT ![e] = "finish"]}
          /\ UNCHANGED <<current, link, registered, told>>
      BY <1>5 DEF Astray, ReadFails, Reads, serverSide
    <2>2. e = "server" => ServerUntouched
      BY <2>1 DEF ServerUntouched, SocketTyped
    <2>3. e = "client" => ServerUntouched
      BY <2>1, TheEnds DEF ServerUntouched, SocketTyped
    <2> QED BY <2>2, <2>3, TheEnds
  <1>6. ASSUME ReadClose("server") PROVE Informed'
    <2>1. reader["server"] = "read" /\ stream["server"] # <<>> /\ current["server"][1] = "frames"
      BY <1>6 DEF ReadClose, Reads
    <2>2. link = "websocket"
      BY <2>1, TheEnds, ReadingIn
    <2>3. reader'["server"] = "finish" /\ serverEvent("disconnect") /\ UNCHANGED <<link, current>>
      BY <1>6, TheEnds DEF ReadClose, SocketTyped
    <2> QED BY <2>1, <2>2, <2>3, InformedOfIt
  <1>7. ASSUME Finish("server") PROVE Informed'
    <2>1. /\ reader["server"] = "finish" /\ reader'["server"] = "off"
          /\ serverEvent("disconnect") /\ UNCHANGED <<link, current>>
      BY <1>7, TheEnds DEF Finish, SocketTyped
    <2> QED BY <2>1, InformedOfIt
  <1>8. ASSUME ReadClose("client") \/ Finish("client") PROVE ServerUntouched
    BY <1>8, TheEnds DEF ReadClose, Finish, ServerUntouched, SocketTyped, serverSide
  <1>9. ASSUME ReadAnswer \/ Request \/ Poll \/ Dial \/ DialFails \/ Reconnect
        PROVE  ServerUntouched
    BY <1>9, TheEnds DEF ReadAnswer, Request, Poll, Dial, DialFails, Reconnect, ServerUntouched,
                         SocketTyped, serverSide, ends
  <1>10. ASSUME Accept PROVE Informed'
    <2>1. /\ link # "websocket" /\ current["server"] = NoHandler /\ reader["server"] = "off"
          /\ reader'["server"] = "next" /\ UNCHANGED <<link, current, registered, told>>
      BY <1>10, TheEnds DEF Accept, SocketTyped, serverSide
    <2> QED BY <2>1 DEF Informed
  <1>11. ASSUME NEW answer \in {"accept", "refuse", "gone"}, handleHTTPAccess(answer)
         PROVE  Informed'
    <2>1. Unanswered
      BY <1>11, RequestWaits DEF handleHTTPAccess
    <2>2. current["server"] = NoHandler /\ link = "websocket"
      BY <2>1 DEF Unanswered
    <2>3. /\ reader'["server"] = (IF answer = "accept" THEN "next" ELSE "off")
          /\ registered' = (answer = "accept") /\ UNCHANGED <<link, current, told>>
      BY <1>11, TheEnds DEF handleHTTPAccess, SocketTyped
    <2> QED BY <2>2, <2>3 DEF Informed
  <1>12. ASSUME NEW e \in Ends, HangUp(e) \/ \E m \in Messages : Send(e, m) PROVE ServerUntouched
    BY <1>12 DEF HangUp, Send, ServerUntouched, serverSide
  <1>13. ASSUME NEW m \in Control, SendControl(m) PROVE ServerUntouched
    BY <1>13 DEF SendControl, ServerUntouched, serverSide
  <1> QED BY <1>1, <1>2, <1>3, <1>4, <1>5, <1>6, <1>7, <1>8, <1>9, <1>10, <1>11, <1>12, <1>13,
             InformedKept, TheEnds DEF SocketNext, SocketProgress, readNextFunc

-----------------------------------------------------------------------------
(* What the users are given *)

(* What was given stays what was sent, when more is sent or more is given.      *)
LEMMA OrderedWhenSent ==
    ASSUME SocketTyped, SocketTyped', NEW e \in Ends, OrderedAt(e), ~garbled'[e] => ~garbled[e],
           got'[e] = got[e],
           \/ sent'[Other(e)] = sent[Other(e)]
           \/ \E m \in Messages : sent'[Other(e)] = Append(sent[Other(e)], m)
    PROVE  OrderedAt(e)'
  <1> DEFINE t == sent[Other(e)]
             g == got[e]
  <1>1. t \in Seq(Messages) /\ g \in Seq(Given)
    BY TheEnds DEF SocketTyped
  <1>2. ~garbled'[e] => Len(g) <= Len(t) /\ \A i \in DOMAIN g : g[i] = t[i]
    BY DEF OrderedAt
  <1>3. got'[e] = g /\ (sent'[Other(e)] = t \/ \E m \in Messages : sent'[Other(e)] = Append(t, m))
    OBVIOUS
  <1> HIDE DEF t, g
  <1>4. CASE sent'[Other(e)] = t
    BY <1>2, <1>3, <1>4 DEF OrderedAt
  <1>5. ASSUME NEW m \in Messages, sent'[Other(e)] = Append(t, m) PROVE OrderedAt(e)'
    <2>1. Len(Append(t, m)) = Len(t) + 1 /\ \A i \in 1 .. Len(t) : Append(t, m)[i] = t[i]
      BY <1>1
    <2>2. DOMAIN g = 1 .. Len(g) /\ Len(g) \in Nat /\ Len(t) \in Nat
      BY <1>1
    <2>3. ~garbled'[e] => Len(g) <= Len(t) + 1 /\ \A i \in DOMAIN g : g[i] = Append(t, m)[i]
      BY <1>2, <2>1, <2>2
    <2> QED BY <1>3, <1>5, <2>1, <2>3 DEF OrderedAt
  <1> QED BY <1>3, <1>4, <1>5

(* The next messages are put behind those that were given.                    *)
LEMMA OrderedWhenGiven ==
    ASSUME SocketTyped, NEW e \in Ends, OrderedAt(e), ~garbled[e],
           NEW data \in Seq(Given), got'[e] = got[e] \o data,
           sent'[Other(e)] = sent[Other(e)],
           Len(got[e]) + Len(data) <= Len(sent[Other(e)]),
           \A i \in 1 .. Len(data) : data[i] = sent[Other(e)][Len(got[e]) + i]
    PROVE  OrderedAt(e)'
  <1> DEFINE t == sent[Other(e)]
             g == got[e]
             r == g \o data
  <1>1. t \in Seq(Messages) /\ g \in Seq(Given) /\ Len(g) \in Nat /\ Len(data) \in Nat
    BY TheEnds DEF SocketTyped
  <1>2. Len(g) <= Len(t) /\ \A i \in 1 .. Len(g) : g[i] = t[i]
    BY <1>1 DEF OrderedAt
  <1>3. got'[e] = r /\ sent'[Other(e)] = t /\ Len(g) + Len(data) <= Len(t)
        /\ \A i \in 1 .. Len(data) : data[i] = t[Len(g) + i]
    OBVIOUS
  <1>4. /\ r \in Seq(Given) /\ Len(r) = Len(g) + Len(data)
        /\ \A i \in 1 .. Len(g) : r[i] = g[i]
        /\ \A i \in Len(g) + 1 .. Len(g) + Len(data) : r[i] = data[i - Len(g)]
    BY <1>1, JoinIs
  <1> HIDE DEF t, g, r
  <1>5. DOMAIN r = 1 .. Len(g) + Len(data)
    BY <1>4
  <1>6. ASSUME NEW i \in DOMAIN r PROVE r[i] = t[i]
    <2>1. CASE i \in 1 .. Len(g)
      BY <1>2, <1>4, <2>1
    <2>2. CASE i \notin 1 .. Len(g)
      <3>1. PICK j \in 1 .. Len(data) : j = i - Len(g) /\ Len(g) + j = i
        BY <1>1, <1>5, <2>2
      <3>2. i \in Len(g) + 1 .. Len(g) + Len(data)
        BY <1>1, <1>5, <2>2
      <3> QED BY <1>3, <1>4, <3>1, <3>2
    <2> QED BY <2>1, <2>2
  <1> QED BY <1>3, <1>4, <1>6 DEF OrderedAt

(* The user of an end is given the next messages.                               *)
LEMMA NextGiven ==
    ASSUME SocketTyped, Phases, NEW e \in Ends, NEW data,
           got' = [got EXCEPT ![e] = @ \o data], sent' = sent, garbled' = garbled,
           \/ \E n \in 1 .. Len(stream[e]) : data = [i \in 1 .. n |-> stream[e][i][2]]
              /\ link = "raw" /\ Reads(e, "raw")
           \/ data = <<stream[e][1][2]>> /\ Reads(e, "length") /\ stream[e][1][1] = "length"
           \/ data = <<stream[e][1][2]>> /\ Reads(e, "frames") /\ ~garbled[e]
                    /\ stream[e][1][1] = "header" /\ stream[e][1][2] \notin Control
    PROVE  /\ data \in Seq(Given) /\ Len(got[e]) + Len(data) <= Len(sent[Other(e)])
           /\ \A i \in 1 .. Len(data) : data[i] = sent[Other(e)][Len(got[e]) + i]
           /\ ~garbled[e]
  <1> DEFINE s == stream[e]
             n == Len(got[e])
             t == sent[Other(e)]
  <1>1. s \in Seq(Atoms) /\ n \in Nat /\ t \in Seq(Messages) /\ s # <<>>
    BY TheEnds DEF SocketTyped, Reads
  <1>2. s[1] \in Atoms
    BY <1>1
  <1>3. s[1][2] \in Given
    BY <1>2, AtomIs
  <1>4. ASSUME NEW k \in 1 .. Len(s), data = [i \in 1 .. k |-> s[i][2]],
               link = "raw", Reads(e, "raw")
        PROVE  /\ data \in Seq(Given) /\ n + Len(data) <= Len(t)
               /\ \A i \in 1 .. Len(data) : data[i] = t[n + i]
               /\ ~garbled[e]
    <2>1. Tcp /\ RawFlow(s, n, t, open[Other(e)])
      BY <1>4, ReadingIn DEF Reads
    <2>2. n + k <= Len(t) /\ \A i \in 1 .. k : s[i][2] = t[n + i]
      <3> HIDE DEF s, n, t
      <3> QED BY <1>1, <2>1, RawRead
    <2>3. \A i \in 1 .. k : s[i] \in Atoms
      BY <1>1
    <2>4. \A i \in 1 .. k : s[i][2] \in Given
      BY <2>3, AtomIs
    <2>5. k \in Nat
      BY <1>1
    <2> HIDE DEF s, n, t
    <2>6. data \in Seq(Given) /\ Len(data) = k /\ \A i \in 1 .. k : data[i] = s[i][2]
      BY <1>4, <2>4, <2>5
    <2>7. ~garbled[e]
      BY <2>1 DEF Tcp, TcpEnd
    <2> QED BY <2>2, <2>6, <2>7
  <1>5. ASSUME data = <<s[1][2]>>, FrameFlow(s, n, t, open[Other(e)]), ~garbled[e],
               s[1][1] = "length" \/ (s[1][1] = "header" /\ s[1][2] \notin Control)
        PROVE  /\ data \in Seq(Given) /\ n + Len(data) <= Len(t)
               /\ \A i \in 1 .. Len(data) : data[i] = t[n + i]
    <2> HIDE DEF s, n, t
    <2>1. n + 1 <= Len(t) /\ s[1][2] = t[n + 1]
      BY <1>1, <1>5, FlowRead
    <2>2. ASSUME NEW d \in Given PROVE <<d>> \in Seq(Given) /\ Len(<<d>>) = 1 /\ <<d>>[1] = d
      OBVIOUS
    <2>3. data \in Seq(Given) /\ Len(data) = 1 /\ data[1] = s[1][2]
      BY <1>3, <1>5, <2>2
    <2> QED BY <2>1, <2>3
  <1>6. ASSUME Reads(e, "length") PROVE FrameFlow(s, n, t, open[Other(e)]) /\ ~garbled[e]
    BY <1>6, ReadingIn DEF Reads, Flow, Tcp, TcpEnd
  <1>7. ASSUME Reads(e, "frames"), ~garbled[e], s[1][1] = "header"
        PROVE  FrameFlow(s, n, t, open[Other(e)])
    BY <1>7, ReadingIn DEF Reads, Flow
  <1>8. CASE \E k \in 1 .. Len(s) : data = [i \in 1 .. k |-> s[i][2]]
             /\ link = "raw" /\ Reads(e, "raw")
    BY <1>4, <1>8
  <1>9. CASE data = <<s[1][2]>> /\ Reads(e, "length") /\ s[1][1] = "length"
    <2>1. FrameFlow(s, n, t, open[Other(e)]) /\ ~garbled[e]
      BY <1>6, <1>9
    <2>2. data = <<s[1][2]>> /\ s[1][1] = "length"
      BY <1>9
    <2>3. n + Len(data) <= Len(t) /\ data \in Seq(Given)
          /\ \A i \in 1 .. Len(data) : data[i] = t[n + i]
      BY ONLY <1>5, <2>1, <2>2
    <2> QED BY <2>1, <2>3, Zenon
  <1>10. CASE data = <<s[1][2]>> /\ Reads(e, "frames") /\ ~garbled[e]
              /\ s[1][1] = "header" /\ s[1][2] \notin Control
    <2>1. FrameFlow(s, n, t, open[Other(e)])
      BY <1>7, <1>10
    <2> QED BY <1>5, <1>10, <2>1
  <1> QED BY <1>8, <1>9, <1>10

(* Every step keeps the order of what was given.                              *)
LEMMA NextInOrder ==
    ASSUME SocketTyped, SocketTyped', GivenInOrder, Phases, SocketNext
    PROVE  GivenInOrder'
  <1>1. ASSUME UNCHANGED <<got, sent>>, \A e \in Ends : ~garbled'[e] => ~garbled[e]
        PROVE  GivenInOrder'
    BY <1>1, OrderedWhenSent DEF GivenInOrder
  <1>2. ASSUME NEW e \in Ends,
               NextHandler(e) \/ ReadControl(e) \/ ReadClose(e) \/ ReadFails(e) \/ Finish(e)
                   \/ HangUp(e)
        PROVE  GivenInOrder'
    BY <1>1, <1>2 DEF NextHandler, ReadControl, ReadClose, ReadFails, Finish, HangUp, exchange
  <1>3. ASSUME Accept \/ Request \/ Poll \/ Dial \/ DialFails \/ Reconnect
        PROVE  GivenInOrder'
    BY <1>1, <1>3 DEF Accept, Request, Poll, Dial, DialFails, Reconnect, exchange, ends
  <1>4. ASSUME NEW answer \in {"accept", "refuse", "gone"}, handleHTTPAccess(answer)
        PROVE  GivenInOrder'
    BY <1>1, <1>4 DEF handleHTTPAccess, exchange
  <1>5. ASSUME NEW m \in Control, SendControl(m) PROVE GivenInOrder'
    BY <1>1, <1>5 DEF SendControl
  <1>6. ASSUME NEW e \in Ends, NEW data, localReadFunc(e, data), sent' = sent, garbled' = garbled,
               /\ data \in Seq(Given) /\ Len(got[e]) + Len(data) <= Len(sent[Other(e)])
               /\ \A i \in 1 .. Len(data) : data[i] = sent[Other(e)][Len(got[e]) + i]
               /\ ~garbled[e]
        PROVE  GivenInOrder'
    <2>1. got'[e] = got[e] \o data /\ got'[Other(e)] = got[Other(e)]
      BY <1>6, GivenTyped
    <2>2. OrderedAt(e)'
      BY <1>6, <2>1, OrderedWhenGiven DEF GivenInOrder
    <2>3. OrderedAt(Other(e))'
      BY <1>6, <2>1, OrderedWhenSent, TheEnds DEF GivenInOrder
    <2>4. \A f \in Ends : f = e \/ f = Other(e)
      BY TheEnds
    <2> QED BY <2>2, <2>3, <2>4, Zenon DEF GivenInOrder
  <1>7. ASSUME NEW e \in Ends, HandleTCPRead(e) PROVE GivenInOrder'
    <2>1. PICK n \in 1 .. Len(stream[e]) : localReadFunc(e, [i \in 1 .. n |-> stream[e][i][2]])
      BY <1>7 DEF HandleTCPRead
    <2>2. link = "raw" /\ Reads(e, "raw") /\ sent' = sent /\ garbled' = garbled
      BY <1>7 DEF HandleTCPRead
    <2> DEFINE data == [i \in 1 .. n |-> stream[e][i][2]]
    <2>3. localReadFunc(e, data)
          /\ \E k \in 1 .. Len(stream[e]) : data = [i \in 1 .. k |-> stream[e][i][2]]
      BY <2>1
    <2> HIDE DEF data
    <2> QED BY <1>6, <2>2, <2>3, NextGiven DEF localReadFunc
  <1>8. ASSUME NEW e \in Ends, HandleTCPReadFramed(e) PROVE GivenInOrder'
    BY <1>6, <1>8, NextGiven DEF HandleTCPReadFramed, localReadFunc
  <1>9. ASSUME NEW e \in Ends, ReadMessage(e) PROVE GivenInOrder'
    BY <1>6, <1>9, NextGiven DEF ReadMessage, localReadFunc
  <1>10. ASSUME NEW e \in Ends, SplitSize(e) PROVE GivenInOrder'
    <2>1. \A f \in Ends : ~garbled'[f] => ~garbled[f]
      BY <1>10, Zenon DEF SplitSize, SocketTyped
    <2> QED BY <1>1, <1>10, <2>1 DEF SplitSize, exchange
  <1>11. ASSUME NEW e \in Ends, Astray(e) PROVE GivenInOrder'
    <2>1. garbled' = [garbled EXCEPT ![e] = TRUE] /\ DOMAIN garbled = Ends /\ sent' = sent
      BY <1>11 DEF Astray, SocketTyped
    <2>2. /\ garbled'[e] /\ garbled'[Other(e)] = garbled[Other(e)]
          /\ \A f \in Ends : f = e \/ f = Other(e)
      BY <2>1, TheEnds, Zenon
    <2>3. got'[Other(e)] = got[Other(e)]
      BY <1>11, TheEnds DEF Astray, SocketTyped
    <2>4. OrderedAt(Other(e))'
      BY <2>1, <2>2, <2>3, OrderedWhenSent, TheEnds DEF GivenInOrder
    <2>5. OrderedAt(e)'
      BY <2>2 DEF OrderedAt
    <2> QED BY <2>2, <2>4, <2>5, Zenon DEF GivenInOrder
  <1>12. ASSUME ReadAnswer PROVE GivenInOrder'
    <2>1. Awaited
      BY <1>12, ReadingIn, TheEnds DEF ReadAnswer, Reads
    <2>2. \A f \in Ends : ~garbled[f]
      BY <2>1, TheEnds DEF Awaited
    <2> QED BY <1>1, <1>12, <2>2 DEF ReadAnswer, exchange
  <1>13. ASSUME NEW e \in Ends, NEW m \in Messages, Send(e, m) PROVE GivenInOrder'
    <2>1. got' = got /\ garbled' = garbled /\ sent' = [sent EXCEPT ![e] = Append(@, m)]
      BY <1>13 DEF Send
    <2>2. sent'[e] = Append(sent[e], m) /\ sent'[Other(e)] = sent[Other(e)]
      BY <2>1, TheEnds DEF SocketTyped
    <2>3. OrderedAt(e)'
      BY <2>1, <2>2, OrderedWhenSent DEF GivenInOrder
    <2>4. OrderedAt(Other(e))'
      BY <2>1, <2>2, OrderedWhenSent, TheEnds DEF GivenInOrder
    <2>5. \A f \in Ends : f = e \/ f = Other(e)
      BY TheEnds
    <2> QED BY <2>3, <2>4, <2>5, Zenon DEF GivenInOrder
  <1> QED BY <1>2, <1>3, <1>4, <1>5, <1>7, <1>8, <1>9, <1>10, <1>11, <1>12, <1>13, TheEnds
          DEF SocketNext, SocketProgress, readNextFunc

-----------------------------------------------------------------------------
(* Plain TCP *)

(* Nothing that was sent to e is touched, and its reader goes its way.          *)
FlowKept(e) ==
    /\ stream'[e] = stream[e] /\ got'[e] = got[e] /\ sent'[Other(e)] = sent[Other(e)]
    /\ open'[Other(e)] => open[Other(e)]

ReaderGoes(e) ==
    \/ reader'[e] = reader[e]
    \/ reader[e] \notin {"off", "next"} /\ reader'[e] # "next"
    \/ reader[e] = "off" /\ reader'[e] = "next" /\ current[e] = NoHandler

(* An end of plain TCP of which only the reader goes on.                      *)
LEMMA TcpSame ==
    ASSUME NEW e \in Ends, TcpEnd(e), link' = link, garbled'[e] = garbled[e],
           current'[e] = current[e], handlers'[e] = handlers[e], ReaderGoes(e), FlowKept(e)
    PROVE  TcpEnd(e)'
  <1>1. TcpFlow(link', stream'[e], Len(got'[e]), sent'[Other(e)], open'[Other(e)])
    <2>1. TcpFlow(link, stream[e], Len(got[e]), sent[Other(e)], open[Other(e)])
      BY DEF TcpEnd
    <2>2. TcpFlow(link, stream[e], Len(got[e]), sent[Other(e)], open'[Other(e)])
      BY <2>1, FlowWeaker DEF TcpFlow, FlowKept
    <2> QED BY <2>2 DEF FlowKept
  <1>2. \/ /\ current'[e] = NoHandler /\ reader'[e] \in {"off", "next"}
           /\ handlers'[e] = HandlerFuncs(link', e)
        \/ current'[e] = TcpHandler' /\ reader'[e] # "next"
    <2>1. TcpHandler' = TcpHandler /\ NoHandler # TcpHandler
      BY DEF TcpHandler, NoHandler
    <2> QED BY <2>1 DEF TcpEnd, ReaderGoes
  <1>3. ~garbled'[e]
    BY DEF TcpEnd
  <1> QED BY <1>1, <1>2, <1>3 DEF TcpEnd

(* Plain TCP stays plain TCP.                                                 *)
LEMMA TcpNext ==
    ASSUME SocketTyped, SocketTyped', Phases, Tcp, SocketNext
    PROVE  Tcp'
  <1>0. /\ link \in {"raw", "framed"} /\ ~refused /\ connecting \in {"idle", "ready"}
        /\ \A e \in Ends : TcpEnd(e)
    BY DEF Tcp
  <1>1. ASSUME UNCHANGED <<link, refused>>, connecting' = "ready", \A e \in Ends : TcpEnd(e)'
        PROVE  Tcp'
    BY <1>0, <1>1 DEF Tcp
  <1>2. ASSUME NEW e \in Ends, current[e] # NoHandler \/ reader[e] # "off" \/ stream[e] # <<>>
        PROVE  connecting = "ready"
    BY <1>2 DEF Tcp
  <1>3. ASSUME UNCHANGED <<link, refused, handlers, current, garbled, connecting>>,
               connecting = "ready", \A e \in Ends : ReaderGoes(e) /\ FlowKept(e)
        PROVE  Tcp'
    <2>1. \A e \in Ends : TcpEnd(e)'
      BY <1>0, <1>3, TcpSame
    <2> QED BY <1>1, <1>3, <2>1
  <1>4. ASSUME NEW e \in Ends, ReadFails(e) \/ Finish(e) \/ HangUp(e) PROVE Tcp'
    <2>1. /\ UNCHANGED <<link, refused, handlers, current, garbled, connecting>>
          /\ UNCHANGED <<stream, got, sent>>
      BY <1>4 DEF ReadFails, Finish, HangUp, clientVars, exchange
    <2>2. connecting = "ready"
      BY <1>2, <1>4 DEF ReadFails, Finish, HangUp, CanSend
    <2>3. open' = open \/ open' = [open EXCEPT ![e] = FALSE]
      BY <1>4 DEF ReadFails, Finish, HangUp
    <2>4. \A f \in Ends : open'[f] => open[f]
      BY <2>3, Zenon DEF SocketTyped
    <2>5. ReaderGoes(e) /\ ReaderGoes(Other(e))
      BY <1>4, TheEnds DEF ReadFails, Finish, HangUp, ReaderGoes, SocketTyped
    <2>6. \A f \in Ends : FlowKept(f)
      BY <2>1, <2>4, TheEnds DEF FlowKept
    <2>7. \A f \in Ends : ReaderGoes(f) /\ FlowKept(f)
      BY <2>5, <2>6, TheEnds, Zenon
    <2> QED BY <1>3, <2>1, <2>2, <2>7
  <1>5. ASSUME Accept PROVE Tcp'
    <2>1. /\ UNCHANGED <<link, refused, handlers, current, garbled, connecting>>
          /\ UNCHANGED <<stream, got, sent, open>> /\ connecting = "ready"
          /\ reader["server"] = "off" /\ current["server"] = NoHandler
          /\ reader' = [reader EXCEPT !["server"] = "next"]
      BY <1>5 DEF Accept, clientVars, exchange
    <2>2. \A f \in Ends : ReaderGoes(f) /\ FlowKept(f)
      BY <2>1, TheEnds DEF ReaderGoes, FlowKept, SocketTyped
    <2> QED BY <1>3, <2>1, <2>2
  <1>6. ASSUME Dial PROVE Tcp'
    <2>1. /\ \A e \in Ends : /\ stream[e] = <<>> /\ sent[e] = <<>> /\ got[e] = <<>>
                             /\ reader[e] = "off" /\ current[e] = NoHandler
          /\ connecting' = "ready" /\ UNCHANGED <<link, refused>>
          /\ UNCHANGED <<stream, handlers, current, garbled, sent, got>>
          /\ reader' = [reader EXCEPT !["client"] = "next"]
      BY <1>0, <1>6 DEF Dial, Tcp, exchange
    <2>2. ASSUME NEW e \in Ends PROVE TcpEnd(e)'
      <3>1. \A all : TcpFlow(link, <<>>, 0, <<>>, all)
        <4>1. Len(<<>>) = 0 /\ <<>> \in Seq(Messages)
          OBVIOUS
        <4> QED BY <4>1, FlowEmpty DEF TcpFlow
      <3>2. TcpFlow(link', stream'[e], Len(got'[e]), sent'[Other(e)], open'[Other(e)])
        <4>1. stream[e] = <<>> /\ got[e] = <<>> /\ sent[Other(e)] = <<>> /\ Len(<<>>) = 0
          BY <2>1, TheEnds
        <4> QED BY <2>1, <3>1, <4>1
      <3>3. current'[e] = NoHandler /\ reader'[e] \in {"off", "next"}
        BY <2>1 DEF SocketTyped
      <3>4. ~garbled'[e] /\ handlers'[e] = HandlerFuncs(link', e)
        <4>1. NoHandler # TcpHandler
          BY DEF NoHandler, TcpHandler
        <4> QED BY <1>0, <2>1, <4>1 DEF TcpEnd
      <3> QED BY <3>2, <3>3, <3>4 DEF TcpEnd
    <2> QED BY <1>1, <2>1, <2>2
  (* An end that begins to read takes its one handler.                          *)
  <1>7. ASSUME NEW e \in Ends, NextHandler(e) PROVE Tcp'
    <2>1. /\ UNCHANGED <<link, refused, garbled, connecting, stream, got, sent, open>>
          /\ reader[e] = "next" /\ connecting = "ready"
      BY <1>2, <1>7 DEF NextHandler, clientVars, exchange
    <2>2. current[e] = NoHandler /\ handlers[e] = HandlerFuncs(link, e)
      BY <1>0, <2>1 DEF TcpEnd
    <2>3. /\ link = "raw" => handlers[e] = << <<"raw", -1>>, <<"length", -1>> >>
          /\ link = "framed" => handlers[e] = << <<"raw", 0>>, <<"length", -1>> >>
      BY <2>2 DEF HandlerFuncs
    <2>4. /\ DOMAIN handlers[e] = 1 .. 2 /\ handlers[e][2][2] = -1
          /\ link = "raw" => handlers[e][1] = TcpHandler /\ handlers[e][1][2] = -1
          /\ link = "framed" => handlers[e][2] = TcpHandler /\ handlers[e][1][2] = 0
      BY <1>0, <2>3 DEF TcpHandler
    <2>5. PICK i \in DOMAIN handlers[e] :
              /\ handlers[e][i][2] # 0 /\ \A j \in 1 .. i - 1 : handlers[e][j][2] = 0
              /\ reader' = [reader EXCEPT ![e] = "read"]
              /\ current' = [current EXCEPT ![e] = handlers[e][i]]
              /\ handlers' = [handlers EXCEPT ![e] = SubSeq(@, i + 1, Len(@))]
      BY <1>7, <2>4 DEF NextHandler
    <2>6. handlers[e][i] = TcpHandler
      <3>1. i \in {1, 2} /\ 1 \in 1 .. 2 - 1
        BY <2>4
      <3> QED BY <1>0, <2>4, <2>5, <3>1
    <2>7. current'[e] = TcpHandler' /\ reader'[e] = "read"
      BY <2>1, <2>5, <2>6 DEF SocketTyped, TcpHandler
    <2>8. TcpEnd(e)'
      BY <1>0, <2>1, <2>7 DEF TcpEnd
    <2>9. TcpEnd(Other(e))'
      <3>1. Other(e) \in Ends /\ Other(e) # e
        BY TheEnds
      <3>2. /\ current'[Other(e)] = current[Other(e)] /\ handlers'[Other(e)] = handlers[Other(e)]
            /\ reader'[Other(e)] = reader[Other(e)]
        BY <2>5, <3>1 DEF SocketTyped
      <3>3. ReaderGoes(Other(e)) /\ FlowKept(Other(e))
        BY <2>1, <3>2 DEF ReaderGoes, FlowKept
      <3> QED BY <1>0, <2>1, <3>1, <3>2, <3>3, TcpSame
    <2>10. \A f \in Ends : TcpEnd(f)'
      BY <2>8, <2>9, TheEnds, Zenon
    <2> QED BY <1>1, <2>1, <2>10
  (* What is read is taken from the stream of the end.                          *)
  <1>8. ASSUME NEW e \in Ends, NEW k \in Nat, NEW data \in Seq(Given), Take(e, k),
               localReadFunc(e, data), connecting = "ready",
               UNCHANGED <<link, open, handlers, current, reader, garbled, connecting,
                           sent, refused>>,
               TcpFlow(link, Rest(stream[e], k), Len(got[e]) + Len(data), sent[Other(e)],
                       open[Other(e)])
        PROVE  Tcp'
    <2>1. /\ stream'[e] = Rest(stream[e], k) /\ stream'[Other(e)] = stream[Other(e)]
          /\ got'[e] = got[e] \o data /\ got'[Other(e)] = got[Other(e)]
      BY <1>8, TakeTyped, GivenTyped
    <2>2. Len(got'[e]) = Len(got[e]) + Len(data)
      <3>1. got[e] \in Seq(Given)
        BY DEF SocketTyped
      <3> QED BY <2>1, <3>1
    <2>3. TcpEnd(e)'
      <3>1. TcpFlow(link', stream'[e], Len(got'[e]), sent'[Other(e)], open'[Other(e)])
        BY <1>8, <2>1, <2>2
      <3>2. TcpHandler' = TcpHandler
        BY <1>8 DEF TcpHandler
      <3> QED BY <1>0, <1>8, <3>1, <3>2 DEF TcpEnd
    <2>4. TcpEnd(Other(e))'
      <3>1. Other(e) \in Ends
        BY TheEnds
      <3>2. ReaderGoes(Other(e)) /\ FlowKept(Other(e))
        BY <1>8, <2>1 DEF ReaderGoes, FlowKept
      <3> QED BY <1>0, <1>8, <3>1, <3>2, TcpSame
    <2>5. \A f \in Ends : TcpEnd(f)'
      BY <2>3, <2>4, TheEnds, Zenon
    <2> QED BY <1>1, <1>8, <2>5
  <1>9. ASSUME NEW e \in Ends, HandleTCPRead(e) PROVE Tcp'
    <2>1. PICK n \in 1 .. Len(stream[e]) :
              Take(e, n) /\ localReadFunc(e, [i \in 1 .. n |-> stream[e][i][2]])
      BY <1>9 DEF HandleTCPRead
    <2>2. /\ link = "raw" /\ Reads(e, "raw") /\ sent' = sent /\ garbled' = garbled
          /\ UNCHANGED <<link, open, handlers, current, reader, garbled, connecting, sent, refused>>
      BY <1>9 DEF HandleTCPRead, clientVars
    <2>3. connecting = "ready"
      BY <1>2, <2>2 DEF Reads
    <2> DEFINE data == [i \in 1 .. n |-> stream[e][i][2]]
    <2>4. localReadFunc(e, data) /\ n \in Nat /\ stream[e] \in Seq(Atoms)
          /\ \E k \in 1 .. Len(stream[e]) : data = [i \in 1 .. k |-> stream[e][i][2]]
      BY <2>1 DEF SocketTyped
    <2>5. Len(data) = n
      BY <2>4
    <2> HIDE DEF data
    <2>6. data \in Seq(Given)
      BY <2>2, <2>4, NextGiven DEF localReadFunc
    <2>7. RawFlow(stream[e], Len(got[e]), sent[Other(e)], open[Other(e)])
      BY <1>0, <2>2 DEF TcpEnd, TcpFlow
    <2>8. RawFlow(Rest(stream[e], n), Len(got[e]) + n, sent[Other(e)], open[Other(e)])
      <3>1. Len(got[e]) \in Nat /\ sent[Other(e)] \in Seq(Messages)
        BY SidesTyped
      <3> QED BY <2>1, <2>4, <2>7, <3>1, RawRead
    <2> QED BY <1>8, <2>1, <2>2, <2>3, <2>4, <2>5, <2>6, <2>8 DEF TcpFlow
  <1>10. ASSUME NEW e \in Ends, HandleTCPReadFramed(e) PROVE Tcp'
    <2> DEFINE data == <<stream[e][1][2]>>
    <2>1. /\ Take(e, 2) /\ localReadFunc(e, data) /\ Reads(e, "length")
          /\ stream[e][1][1] = "length"
          /\ UNCHANGED <<link, open, handlers, current, reader, garbled, connecting, sent, refused>>
      BY <1>10 DEF HandleTCPReadFramed, clientVars
    <2>2. Len(data) = 1 /\ 2 \in Nat /\ stream[e] \in Seq(Atoms) /\ stream[e] # <<>>
      BY <2>1 DEF SocketTyped, Reads
    <2>3. data \in Seq(Given)
      BY <2>1, NextGiven DEF localReadFunc
    <2>4. connecting = "ready"
      BY <1>2, <2>1 DEF Reads
    <2>5. link = "framed" /\ Flow(e)
      BY <2>1, <2>2, ReadingIn DEF Reads
    <2>6. FrameFlow(Rest(stream[e], 2), Len(got[e]) + 1, sent[Other(e)], open[Other(e)])
      <3>1. Len(got[e]) \in Nat /\ sent[Other(e)] \in Seq(Messages)
        BY SidesTyped
      <3>2. 2 = IF stream[e][1][1] = "header" /\ stream[e][1][2] \in Huge THEN 4 ELSE 2
        BY <2>1
      <3> QED BY <2>1, <2>2, <2>5, <3>1, <3>2, FlowRead DEF Flow
    <2>7. TcpFlow(link, Rest(stream[e], 2), Len(got[e]) + Len(data), sent[Other(e)], open[Other(e)])
      BY <2>2, <2>5, <2>6 DEF TcpFlow
    <2> HIDE DEF data
    <2> QED BY <1>8, <2>1, <2>2, <2>3, <2>4, <2>7
  <1>11. ASSUME NEW e \in Ends, NEW m \in Messages, Send(e, m) PROVE Tcp'
    <2>1. /\ UNCHANGED <<link, open, handlers, current, reader, garbled, connecting, got, refused>>
          /\ Put(e, WriteHandler(current[e], m)) /\ sent' = [sent EXCEPT ![e] = Append(@, m)]
          /\ current[e] # NoHandler /\ connecting = "ready"
      BY <1>2, <1>11 DEF Send, CanSend, clientVars
    <2> DEFINE u == WriteHandler(current[e], m)
               d == Other(e)
    <2>2. u \in Seq(Atoms) /\ d \in Ends /\ Other(d) = e /\ d # e
      BY WriteTyped, TheEnds
    <2>3. current[e] = TcpHandler
      BY <1>0, <2>1 DEF TcpEnd
    <2>4. /\ link = "raw" => u = << <<"payload", m>> >>
          /\ link = "framed" => u = << <<"length", m>>, <<"payload", m>> >>
      BY <2>3 DEF WriteHandler, TcpHandler
    <2> HIDE DEF u
    <2>5. /\ stream'[e] = stream[e]
          /\ stream'[d] = IF open[e] THEN stream[d] \o u ELSE stream[d]
      BY <2>1, <2>2, PutTyped DEF u
    <2>6. sent'[e] = Append(sent[e], m) /\ sent'[d] = sent[d]
      BY <2>1, <2>2 DEF SocketTyped
    <2>7. /\ stream[d] \in Seq(Atoms) /\ Len(got[d]) \in Nat /\ sent[e] \in Seq(Messages)
      BY <2>2, SidesTyped
    <2>8. TcpFlow(link, stream[d], Len(got[d]), sent[e], open[e])
      BY <1>0, <2>2 DEF TcpEnd
    <2> HIDE DEF d
    <2>9. TcpFlow(link, stream'[d], Len(got[d]), Append(sent[e], m), open[e])
      <3>1. CASE link = "raw"
        <4>1. RawFlow(stream'[d], Len(got[d]), Append(sent[e], m), open[e])
          BY <2>4, <2>5, <2>7, <2>8, <3>1, RawSend DEF TcpFlow
        <4> QED BY <3>1, <4>1 DEF TcpFlow
      <3>2. CASE link = "framed"
        <4>1. FrameOf(u, m)
          BY <2>4, <3>2, Packed
        <4>2. FrameFlow(stream'[d], Len(got[d]), Append(sent[e], m), open[e])
          BY <2>5, <2>7, <2>8, <3>2, <4>1, FlowSend DEF TcpFlow
        <4> QED BY <3>2, <4>2 DEF TcpFlow
      <3> QED BY <1>0, <3>1, <3>2
    <2>10. TcpEnd(d)'
      <3>1. TcpFlow(link', stream'[d], Len(got'[d]), sent'[Other(d)], open'[Other(d)])
        BY <2>1, <2>2, <2>6, <2>9
      <3>2. TcpHandler' = TcpHandler
        BY <2>1 DEF TcpHandler
      <3> QED BY <1>0, <2>1, <2>2, <3>1, <3>2 DEF TcpEnd
    <2>11. TcpEnd(e)'
      <3>1. ReaderGoes(e) /\ FlowKept(e)
        BY <2>1, <2>5, <2>6 DEF ReaderGoes, FlowKept, d
      <3> QED BY <1>0, <2>1, <3>1, TcpSame
    <2>12. \A f \in Ends : TcpEnd(f)'
      BY <2>10, <2>11, TheEnds, Zenon DEF d
    <2> QED BY <1>1, <2>1, <2>12
  (* The rest is what a WebSocket does.                                         *)
  <1>12. ASSUME NEW e \in Ends, Reads(e, "frames") PROVE FALSE
    <2>1. current[e] = NoHandler \/ current[e] = TcpHandler
      BY <1>0 DEF TcpEnd
    <2> QED BY <1>12, <2>1 DEF Reads, NoHandler, TcpHandler
  <1>13. ASSUME NEW e \in Ends,
                ReadMessage(e) \/ ReadControl(e) \/ ReadClose(e) \/ SplitSize(e) \/ Astray(e)
         PROVE  FALSE
    BY <1>12, <1>13 DEF ReadMessage, ReadControl, ReadClose, SplitSize, Astray
  <1>14. ASSUME \/ ReadAnswer \/ Request \/ Poll \/ DialFails \/ Reconnect
                \/ \E m \in Control : SendControl(m)
         PROVE  FALSE
    BY <1>0, <1>14 DEF ReadAnswer, Request, Poll, DialFails, Reconnect, SendControl
  <1>15. ASSUME NEW answer \in {"accept", "refuse", "gone"}, handleHTTPAccess(answer)
         PROVE  FALSE
    <2>1. Unanswered
      BY <1>15, RequestWaits DEF handleHTTPAccess
    <2> QED BY <1>0, <2>1 DEF Unanswered
  <1> QED BY <1>4, <1>5, <1>6, <1>7, <1>9, <1>10, <1>11, <1>13, <1>14, <1>15
          DEF SocketNext, SocketProgress, readNextFunc

-----------------------------------------------------------------------------
(* A WebSocket that is not answered *)

(* What is behind the first handler of a list.                                  *)
LEMMA Behind ==
    ASSUME NEW a, NEW b
    PROVE  /\ SubSeq(<<a, b>>, 2, Len(<<a, b>>)) = <<b>>
           /\ SubSeq(<<a>>, 2, Len(<<a>>)) = <<>>
  <1> DEFINE t == <<a, b>>
             r == SubSeq(t, 2, Len(t))
  <1>1. t \in Seq({a, b}) /\ Len(t) = 2 /\ t[2] = b
    OBVIOUS
  <1> HIDE DEF t
  <1>2. r \in Seq({a, b}) /\ Len(r) = 1 /\ r[1] = b
    BY <1>1
  <1> HIDE DEF r
  <1>3. r = <<b>>
    BY <1>2
  <1>4. SubSeq(<<a>>, 2, Len(<<a>>)) = <<>>
    OBVIOUS
  <1> QED BY <1>3, <1>4 DEF t, r

(* A WebSocket waits for its answer, until the server gives one or is gone.   *)
LEMMA UnansweredNext ==
    ASSUME SocketTyped, SocketTyped', Phases, Unanswered, SocketNext, ~DialFails
    PROVE  Unanswered' \/ Refused' \/ Answered'
  <1>0. /\ link = "websocket" /\ ~refused /\ connecting \in {"idle", "request", "waiting"}
        /\ reader["server"] = "off" /\ current["server"] = NoHandler
        /\ handlers["server"] = <<Frames>> /\ stream["client"] = <<>>
        /\ \A e \in Ends : /\ sent[e] = <<>> /\ got[e] = <<>> /\ ~garbled[e]
                           /\ connecting # "idle" => open[e]
        /\ ~awaitingStatus /\ (awaitingReady <=> connecting = "waiting")
    BY DEF Unanswered
  <1>a. /\ DOMAIN reader = Ends /\ DOMAIN open = Ends
        /\ DOMAIN current = Ends /\ DOMAIN handlers = Ends
    BY DEF SocketTyped
  <1>1. ASSUME Dial PROVE Unanswered'
    <2>1. /\ connecting' = "request" /\ open' = [e \in Ends |-> TRUE]
          /\ reader' = [reader EXCEPT !["client"] = "next"] /\ reader["client"] = "off"
          /\ UNCHANGED <<link, stream, handlers, current, garbled, awaitingReady,
                         awaitingStatus, sent, got, refused>>
          /\ connecting = "idle"
      BY <1>0, <1>1 DEF Dial, exchange, Unanswered
    <2>2. reader'["client"] = "next" /\ reader'["server"] = "off"
      BY <1>0, <1>a, <2>1, TheEnds
    <2>3. \A e \in Ends : open'[e]
      BY <2>1, Zenon
    <2>4. current["client"] = NoHandler /\ handlers["client"] = <<RawOnce, Frames>>
          /\ stream["server"] = <<>>
      BY <2>1 DEF Unanswered
    <2> QED BY <1>0, <2>1, <2>2, <2>3, <2>4 DEF Unanswered
  <1>2. ASSUME NextHandler("client") PROVE Unanswered'
    <2>1. /\ reader["client"] = "next" /\ connecting = "request"
          /\ UNCHANGED <<link, stream, open, garbled, connecting, awaitingReady,
                         awaitingStatus, sent, got, refused>>
      BY <1>0, <1>2 DEF NextHandler, Unanswered, clientVars, exchange
    <2>2. current["client"] = NoHandler /\ handlers["client"] = <<RawOnce, Frames>>
          /\ stream["server"] = <<>>
      BY <2>1 DEF Unanswered
    <2>3. /\ DOMAIN handlers["client"] = 1 .. 2 /\ handlers["client"][1] = RawOnce
          /\ handlers["client"][1][2] = 1 /\ handlers["client"][2] = Frames
      BY <2>2 DEF RawOnce
    <2>7. SubSeq(handlers["client"], 2, Len(handlers["client"])) = <<Frames>>
      BY <2>2, Behind
    <2>4. PICK i \in DOMAIN handlers["client"] :
              /\ handlers["client"][i][2] # 0
              /\ \A j \in 1 .. i - 1 : handlers["client"][j][2] = 0
              /\ reader' = [reader EXCEPT !["client"] = "read"]
              /\ current' = [current EXCEPT !["client"] = handlers["client"][i]]
              /\ handlers' = [handlers EXCEPT !["client"] = SubSeq(@, i + 1, Len(@))]
      BY <1>2, <2>3 DEF NextHandler
    <2>5. i = 1
      <3>1. i \in {1, 2} /\ 1 \in 1 .. 2 - 1
        BY <2>3
      <3> QED BY <2>3, <2>4, <3>1
    <2>6. /\ reader'["client"] = "read" /\ reader'["server"] = "off"
          /\ current'["client"] = RawOnce /\ current'["server"] = NoHandler
          /\ handlers'["client"] = <<Frames>> /\ handlers'["server"] = <<Frames>>
      BY <1>0, <1>a, <2>3, <2>4, <2>5, <2>7, TheEnds
    <2> QED BY <1>0, <2>1, <2>2, <2>6 DEF Unanswered
  <1>3. ASSUME Request PROVE Unanswered'
    <2>1. /\ connecting = "request" /\ connecting' = "waiting" /\ awaitingReady'
          /\ reader["client"] # "next" /\ Put("client", << <<"request", "">> >>)
          /\ UNCHANGED <<link, open, handlers, current, reader, garbled, awaitingStatus,
                         sent, got, refused>>
      BY <1>3 DEF Request, exchange
    <2>2. reader["client"] = "read" /\ stream["server"] = <<>> /\ open["client"]
      BY <1>0, <2>1, TheEnds DEF Unanswered
    <2>3. current["client"] = RawOnce /\ handlers["client"] = <<Frames>>
      BY <2>2 DEF Unanswered
    <2>4. <<"request", "">> \in Atoms
      BY DEF Atoms
    <2>5. << <<"request", "">> >> \in Seq(Atoms)
      BY <2>4, AtomsInRow
    <2>6. stream'["client"] = <<>> /\ stream'["server"] = <<>> \o << <<"request", "">> >>
      <3> DEFINE u == << <<"request", "">> >>
      <3>1. u \in Seq(Atoms) /\ Put("client", u)
        BY <2>1, <2>5
      <3> HIDE DEF u
      <3>2. /\ stream'["client"] = stream["client"]
            /\ stream'["server"] = IF open["client"] THEN stream["server"] \o u
                                                     ELSE stream["server"]
        BY <3>1, PutTyped, TheEnds
      <3>3. stream'["client"] = <<>> /\ stream'["server"] = <<>> \o u
        BY <1>0, <2>2, <3>2
      <3> QED BY <3>3 DEF u
    <2>7. <<>> \o << <<"request", "">> >> = << <<"request", "">> >>
      OBVIOUS
    <2> QED BY <1>0, <2>1, <2>2, <2>3, <2>6, <2>7, TheEnds DEF Unanswered
  <1>4. ASSUME NEW answer \in {"accept", "refuse", "gone"}, handleHTTPAccess(answer)
        PROVE  Refused' \/ Answered'
    <2>1. connecting = "waiting"
      BY <1>4, RequestWaits DEF handleHTTPAccess
    <2>2. /\ reader["client"] = "read" /\ current["client"] = RawOnce /\ awaitingReady
          /\ handlers["client"] = <<Frames>> /\ stream["server"] = << <<"request", "">> >>
      BY <1>0, <2>1 DEF Unanswered
    <2>3. /\ refused' = (answer = "gone")
          /\ open' = [open EXCEPT !["server"] = (answer # "gone")]
          /\ registered' = (answer = "accept")
          /\ reader' = [reader EXCEPT !["server"] = IF answer = "accept" THEN "next" ELSE "off"]
          /\ UNCHANGED <<link, handlers, current, garbled, connecting, awaitingReady,
                         awaitingStatus, sent, got>>
      BY <1>4 DEF handleHTTPAccess, clientVars, exchange
    <2>4. /\ stream'["client"] = CASE answer = "accept" -> <<Answer, Key>>
                                   [] answer = "refuse" -> << <<"error", "">> >>
                                   [] answer = "gone"   -> <<>>
          /\ stream'["server"] = Tail(stream["server"])
      BY <1>4 DEF handleHTTPAccess, Answer, Key
    <2>5. stream'["server"] = <<>> /\ DOMAIN <<>> = {}
      <3>1. ASSUME NEW a PROVE Tail(<<a>>) = <<>> /\ DOMAIN <<>> = {}
        OBVIOUS
      <3> QED BY <2>2, <2>4, <3>1
    <2>6. /\ reader'["client"] = "read"
          /\ reader'["server"] = (IF answer = "accept" THEN "next" ELSE "off")
      BY <1>a, <2>2, <2>3, TheEnds
    <2>7. open'["client"] /\ (open'["server"] <=> answer # "gone")
      <3>1. open["client"] /\ "client" \in Ends /\ "server" \in Ends /\ "client" # "server"
        BY <1>0, <2>1, TheEnds
      <3>2. open'["client"] = open["client"]
        BY <1>a, <2>3, <3>1, Zenon
      <3>3. open'["server"] = (answer # "gone")
        BY <1>a, <2>3, <3>1, Zenon
      <3> QED BY <3>1, <3>2, <3>3, Zenon
    <2>8. CASE answer = "gone"
      BY <1>0, <2>1, <2>2, <2>3, <2>4, <2>6, <2>7, <2>8 DEF Refused
    <2>9. CASE answer # "gone"
      <3>1. Answering'
        BY <1>0, <2>3, <2>5, <2>9 DEF Answering
      <3>2. CASE answer = "refuse"
        <4>1. Awaited'
          BY <1>0, <2>1, <2>2, <2>3, <2>4, <2>5, <2>6, <2>7, <3>2, TheEnds DEF Awaited
        <4> QED BY <2>2, <2>3, <3>1, <4>1 DEF Answered
      <3>3. CASE answer = "accept"
        <4>1. stream'["client"] = <<Answer, Key>>
          BY <2>4, <3>3
        <4>2. SubSeq(<<Answer, Key>>, 3, Len(<<Answer, Key>>)) = <<>>
              /\ <<Answer, Key>> \o <<>> = <<Answer, Key>>
          OBVIOUS
        <4>3. \A all : FrameFlow(<<>>, 0, <<>>, all)
          <5>1. Len(<<>>) = 0 /\ <<>> \in Seq(Messages)
            OBVIOUS
          <5> QED BY <5>1, FlowEmpty
        <4>4. sent'["server"] = <<>>
          BY <1>0, <2>3, TheEnds
        <4>5. AnswerFlow(stream'["client"], sent'["server"], open'["server"])
          BY <4>1, <4>2, <4>3, <4>4 DEF AnswerFlow
        <4>6. Awaited'
          BY <1>0, <2>1, <2>2, <2>3, <2>5, <2>6, <2>7, <4>5, TheEnds DEF Awaited
        <4> QED BY <2>2, <2>3, <3>1, <4>6 DEF Answered
      <3> QED BY <2>9, <3>2, <3>3
    <2> QED BY <2>8, <2>9
  (* Nothing else can happen.                                                   *)
  <1>5. ASSUME NEW e \in Ends, reader[e] = "read"
        PROVE  e = "client" /\ current[e] = RawOnce /\ stream[e] = <<>>
               /\ open["client"] /\ open["server"]
    <2>1. e = "client"
      BY <1>0, <1>5, TheEnds
    <2>2. current[e] = RawOnce /\ connecting # "idle"
      BY <1>5, <2>1 DEF Unanswered
    <2> QED BY <1>0, <2>1, <2>2, TheEnds
  <1>6. ASSUME NEW e \in Ends,
               HandleTCPRead(e) \/ HandleTCPReadFramed(e) \/ ReadMessage(e) \/ ReadControl(e)
                   \/ ReadClose(e) \/ SplitSize(e) \/ Astray(e)
        PROVE  FALSE
    BY <1>5, <1>6 DEF HandleTCPRead, HandleTCPReadFramed, ReadMessage, ReadControl, ReadClose,
                      SplitSize, Astray, Reads
  <1>7. ASSUME NEW e \in Ends, ReadFails(e) \/ Finish(e) PROVE FALSE
    <2>1. ReadFails(e) => FALSE
      BY <1>5, TheEnds DEF ReadFails
    <2>2. reader[e] # "finish"
      <3>1. reader["client"] # "finish"
        BY <1>0 DEF Unanswered
      <3> QED BY <1>0, <3>1, TheEnds
    <2> QED BY <1>7, <2>1, <2>2 DEF Finish
  <1>8. ASSUME NextHandler("server") PROVE FALSE
    BY <1>0, <1>8 DEF NextHandler
  <1>9. ASSUME ReadAnswer \/ Accept \/ Poll \/ Reconnect PROVE FALSE
    BY <1>0, <1>9 DEF ReadAnswer, Accept, Poll, Reconnect, Reads
  <1>10. ASSUME NEW e \in Ends, CanSend(e) PROVE FALSE
    BY <1>0, <1>10, TheEnds DEF CanSend
  <1>11. ASSUME NEW e \in Ends, HangUp(e) \/ \E m \in Messages : Send(e, m) PROVE FALSE
    BY <1>10, <1>11 DEF HangUp, Send
  <1>12. ASSUME NEW m \in Control, SendControl(m) PROVE FALSE
    BY <1>10, <1>12, TheEnds DEF SendControl
  <1> QED BY <1>1, <1>2, <1>3, <1>4, <1>6, <1>7, <1>8, <1>9, <1>11, <1>12, TheEnds
          DEF SocketNext, SocketProgress, readNextFunc

(* A request that is not answered stays so.                                   *)
LEMMA RefusedNext ==
    ASSUME SocketTyped, SocketTyped', Phases, Refused, SocketNext
    PROVE  Refused'
  <1>0. /\ link = "websocket" /\ refused /\ connecting \in {"request", "waiting"}
        /\ reader["server"] = "off" /\ ~registered
        /\ reader["client"] = "read" => stream["client"] = <<>> /\ ~open["server"]
        /\ reader["client"] = "next" => handlers["client"] = <<>>
        /\ connecting = "waiting" => awaitingReady
    BY DEF Refused
  <1>a. DOMAIN reader = Ends /\ DOMAIN open = Ends
    BY DEF SocketTyped
  <1>1. ASSUME NextHandler("client") PROVE Refused'
    <2>1. /\ reader["client"] = "next"
          /\ UNCHANGED <<link, connecting, awaitingReady, refused>>
      BY <1>1 DEF NextHandler, clientVars
    <2>2. DOMAIN handlers["client"] = {}
      BY <1>0, <2>1
    <2>3. reader' = [reader EXCEPT !["client"] = "finish"] /\ registered' = registered
      BY <1>1, <2>2 DEF NextHandler, serverSide
    <2>4. reader'["client"] = "finish" /\ reader'["server"] = "off"
      BY <1>0, <1>a, <2>3, TheEnds
    <2> QED BY <1>0, <2>1, <2>3, <2>4 DEF Refused
  <1>2. ASSUME ReadFails("client") \/ Finish("client") PROVE Refused'
    <2>1. /\ UNCHANGED <<link, connecting, awaitingReady, refused, registered>>
          /\ \/ reader' = [reader EXCEPT !["client"] = "finish"]
             \/ reader' = [reader EXCEPT !["client"] = "off"]
      BY <1>2, TheEnds DEF ReadFails, Finish, clientVars, serverSide
    <2>2. reader'["client"] \notin {"read", "next"} /\ reader'["server"] = "off"
      BY <1>0, <1>a, <2>1, TheEnds
    <2> QED BY <1>0, <2>1, <2>2 DEF Refused
  <1>3. ASSUME Request PROVE Refused'
    <2>1. /\ connecting' = "waiting" /\ awaitingReady' /\ Put("client", << <<"request", "">> >>)
          /\ UNCHANGED <<link, open, handlers, reader, refused, registered>>
      BY <1>3 DEF Request, serverSide
    <2>2. <<"request", "">> \in Atoms
      BY DEF Atoms
    <2>3. << <<"request", "">> >> \in Seq(Atoms)
      BY <2>2, AtomsInRow
    <2>4. stream'["client"] = stream["client"]
      BY <2>1, <2>3, PutTyped, TheEnds
    <2> QED BY <1>0, <2>1, <2>4 DEF Refused
  (* Nothing else can happen.                                                   *)
  <1>4. ASSUME NEW e \in Ends, reader[e] = "read" PROVE stream[e] = <<>>
    BY <1>0, <1>4, TheEnds
  <1>5. ASSUME NEW e \in Ends,
               HandleTCPRead(e) \/ HandleTCPReadFramed(e) \/ ReadMessage(e) \/ ReadControl(e)
                   \/ ReadClose(e) \/ SplitSize(e) \/ Astray(e)
        PROVE  FALSE
    BY <1>4, <1>5 DEF HandleTCPRead, HandleTCPReadFramed, ReadMessage, ReadControl, ReadClose,
                      SplitSize, Astray, Reads
  <1>6. ASSUME NextHandler("server") \/ ReadFails("server") \/ Finish("server") PROVE FALSE
    BY <1>0, <1>6 DEF NextHandler, ReadFails, Finish
  <1>7. ASSUME ReadAnswer \/ Accept \/ Poll \/ Dial \/ DialFails \/ Reconnect PROVE FALSE
    BY <1>0, <1>4, <1>7, TheEnds DEF ReadAnswer, Accept, Poll, Dial, DialFails, Reconnect, Reads
  <1>8. ASSUME NEW answer \in {"accept", "refuse", "gone"}, handleHTTPAccess(answer)
        PROVE  FALSE
    BY <1>0, <1>8 DEF handleHTTPAccess
  <1>9. ASSUME NEW e \in Ends, CanSend(e) PROVE FALSE
    BY <1>0, <1>9, TheEnds DEF CanSend
  <1>10. ASSUME NEW e \in Ends, HangUp(e) \/ \E m \in Messages : Send(e, m) PROVE FALSE
    BY <1>9, <1>10 DEF HangUp, Send
  <1>11. ASSUME NEW m \in Control, SendControl(m) PROVE FALSE
    BY <1>9, <1>11, TheEnds DEF SendControl
  <1> QED BY <1>1, <1>2, <1>3, <1>5, <1>6, <1>7, <1>8, <1>10, <1>11, TheEnds
          DEF SocketNext, SocketProgress, readNextFunc

-----------------------------------------------------------------------------
(* A WebSocket once it is answered *)

(* What goes on once the server has answered.                                   *)
AnsweredStep ==
    \/ \E e \in Ends :
          \/ NextHandler(e) \/ ReadMessage(e) \/ ReadControl(e) \/ ReadClose(e) \/ SplitSize(e)
          \/ Astray(e) \/ ReadFails(e) \/ Finish(e) \/ HangUp(e)
          \/ \E m \in Messages : Send(e, m)
    \/ ReadAnswer \/ Poll \/ Reconnect
    \/ \E m \in Control : SendControl(m)

(* Once the server has answered, nothing of the start is repeated.            *)
LEMMA AnsweredSteps ==
    ASSUME SocketTyped, Phases, Answered, SocketNext, ~DialFails
    PROVE  AnsweredStep
  <1>0. link = "websocket" /\ connecting \in {"waiting", "ready", "failed"} /\ ~refused
    BY DEF Answered, Answering, Awaited, Seen
  <1>1. ASSUME Dial \/ Accept \/ Request PROVE FALSE
    BY <1>0, <1>1 DEF Dial, Accept, Request
  <1>2. ASSUME NEW e \in Ends, HandleTCPRead(e) \/ HandleTCPReadFramed(e) PROVE FALSE
    BY <1>0, <1>2, ReadingIn DEF HandleTCPRead, HandleTCPReadFramed, Reads
  <1>3. ASSUME NEW answer \in {"accept", "refuse", "gone"}, handleHTTPAccess(answer)
        PROVE  FALSE
    <2>1. stream["server"] \in Seq(Atoms) /\ stream["server"] # <<>>
          /\ Head(stream["server"])[1] = "request"
      BY <1>3, TheEnds DEF handleHTTPAccess, SocketTyped
    <2>2. 1 \in DOMAIN stream["server"] /\ stream["server"][1][1] = "request"
      BY <2>1
    <2> QED BY <2>2 DEF Answered, Answering
  <1> QED BY <1>1, <1>2, <1>3 DEF SocketNext, SocketProgress, readNextFunc, AnsweredStep

NoRequest(s) == \A i \in DOMAIN s : s[i][1] # "request"

(* What is left of a stream without a request has none.                       *)
LEMMA NoRequestLeft ==
    ASSUME NEW s \in Seq(Atoms), NEW n \in Nat, NoRequest(s)
    PROVE  NoRequest(Rest(s, n))
  <1>1. CASE n <= Len(s)
    BY <1>1, RestIs DEF NoRequest
  <1>2. CASE n > Len(s)
    <2>1. Rest(s, n) = <<>>
      BY <1>2 DEF Rest
    <2> QED BY <2>1 DEF NoRequest
  <1> QED BY <1>1, <1>2

(* Nor has one with something else written to it.                             *)
LEMMA NoRequestJoined ==
    ASSUME NEW s \in Seq(Atoms), NEW t \in Seq(Atoms), NoRequest(s), NoRequest(t)
    PROVE  NoRequest(s \o t)
  <1> DEFINE r == s \o t
  <1>1. /\ r \in Seq(Atoms) /\ Len(r) = Len(s) + Len(t)
        /\ \A i \in 1 .. Len(s) : r[i] = s[i]
        /\ \A i \in Len(s) + 1 .. Len(s) + Len(t) : r[i] = t[i - Len(s)]
    BY JoinIs
  <1> HIDE DEF r
  <1>2. DOMAIN r = 1 .. Len(s) + Len(t) /\ DOMAIN s = 1 .. Len(s) /\ DOMAIN t = 1 .. Len(t)
        /\ Len(s) \in Nat /\ Len(t) \in Nat
    BY <1>1
  <1>3. ASSUME NEW i \in DOMAIN r PROVE r[i][1] # "request"
    <2>1. CASE i <= Len(s)
      BY <1>1, <1>2, <2>1 DEF NoRequest
    <2>2. CASE i > Len(s)
      <3>1. i - Len(s) \in DOMAIN t /\ i \in Len(s) + 1 .. Len(s) + Len(t)
        BY <1>2, <2>2
      <3> QED BY <1>1, <3>1 DEF NoRequest
    <2> QED BY <1>2, <2>1, <2>2
  <1> QED BY <1>3 DEF NoRequest, r

(* Neither end writes a request once there are handlers.                        *)
LEMMA NoRequestWritten ==
    ASSUME NEW m \in Messages \union Control, NEW h
    PROVE  NoRequest(WriteHandler(h, m)) /\ NoRequest(PackWebSocketFrame(m))
  <1>1. NoRequest(PackWebSocketFrame(m))
    <2>1. CASE m \in Messages
      BY <2>1, Packed DEF NoRequest
    <2>2. CASE m \in Control
      <3>1. PackWebSocketFrame(m) = << <<"header", m>> >>
        BY <2>2, PackedControl
      <3> QED BY <3>1 DEF NoRequest
    <2> QED BY <2>1, <2>2
  <1>2. /\ NoRequest(<< <<"length", m>>, <<"payload", m>> >>)
        /\ NoRequest(<< <<"payload", m>> >>)
    BY DEF NoRequest
  <1> QED BY <1>1, <1>2 DEF WriteHandler

(* How many atoms a frame of a message has.                                   *)
LEMMA PackedLength ==
    ASSUME NEW m, m \notin Control
    PROVE  Len(PackWebSocketFrame(m)) = IF m \in Huge THEN 4 ELSE 2
  <1>1. CASE m \in Huge
    <2>1. PackWebSocketFrame(m) =
              << <<"header", m>>, <<"size", m>>, <<"size", m>>, <<"payload", m>> >>
      BY <1>1 DEF PackWebSocketFrame
    <2> QED BY <1>1, <2>1
  <1>2. CASE m \notin Huge
    <2>1. PackWebSocketFrame(m) = << <<"header", m>>, <<"payload", m>> >>
      BY <1>2 DEF PackWebSocketFrame
    <2> QED BY <1>2, <2>1
  <1> QED BY <1>1, <1>2

(* The server has answered, and keeps its handler.                            *)
LEMMA AnsweringNext ==
    ASSUME SocketTyped, SocketTyped', Informed, Phases, Answered, AnsweredStep, ~Reconnect
    PROVE  Answering'
  <1>0. /\ link = "websocket" /\ ~refused /\ NoRequest(stream["server"])
        /\ current["server"] = NoHandler => handlers["server"] = <<Frames>>
        /\ current["server"] \in {NoHandler, Frames}
        /\ stream["server"] \in Seq(Atoms)
    BY TheEnds DEF Answered, Answering, NoRequest, SocketTyped
  <1>1. ASSUME UNCHANGED <<link, refused>>, NoRequest(stream'["server"]),
               current'["server"] = current["server"], handlers'["server"] = handlers["server"]
        PROVE  Answering'
    BY <1>0, <1>1 DEF Answering, NoRequest
  <1>2. ASSUME NextHandler("server") PROVE Answering'
    <2>1. handlers["server"] = <<Frames>> /\ UNCHANGED <<link, refused, stream>>
      BY <1>0, <1>2 DEF NextHandler, Informed
    <2>2. DOMAIN handlers["server"] = {1} /\ handlers["server"][1] = Frames /\ Frames[2] # 0
      BY <2>1 DEF Frames
    <2>3. current' = [current EXCEPT !["server"] = Frames]
      BY <1>2, <2>2 DEF NextHandler
    <2>4. current'["server"] = Frames /\ Frames # NoHandler
      BY <2>3, TheEnds DEF SocketTyped, Frames, NoHandler
    <2> QED BY <1>0, <2>1, <2>4 DEF Answering, NoRequest
  <1>3. ASSUME NextHandler("client") PROVE Answering'
    <2>1. current'["server"] = current["server"] /\ handlers'["server"] = handlers["server"]
      BY <1>3, TheEnds DEF NextHandler, SocketTyped
    <2> QED BY <1>0, <1>1, <1>3, <2>1 DEF NextHandler
  <1>4. ASSUME NEW e \in Ends, ReadFails(e) \/ Finish(e) \/ HangUp(e) PROVE Answering'
    BY <1>0, <1>1, <1>4 DEF ReadFails, Finish, HangUp
  <1>5. ASSUME Poll PROVE Answering'
    BY <1>0, <1>1, <1>5 DEF Poll
  <1>6. ASSUME NEW e \in Ends, NEW n \in Nat, Take(e, n),
               UNCHANGED <<link, refused, current, handlers>>
        PROVE  Answering'
    <2>1. stream'["server"] = stream["server"] \/ stream'["server"] = Rest(stream["server"], n)
      BY <1>6, TakeTyped, TheEnds
    <2>2. NoRequest(stream'["server"])
      BY <1>0, <2>1, NoRequestLeft
    <2> QED BY <1>1, <1>6, <2>2
  <1>7. ASSUME NEW e \in Ends, ReadMessage(e) PROVE Answering'
    <2> DEFINE n == Len(PackWebSocketFrame(stream[e][1][2]))
    <2>1. Take(e, n) /\ UNCHANGED <<link, refused, current, handlers>> /\ Reads(e, "frames")
      BY <1>7 DEF ReadMessage
    <2>2. n \in Nat
      BY <1>7, PackedLength DEF ReadMessage
    <2> HIDE DEF n
    <2> QED BY <1>6, <2>1, <2>2
  <1>8. ASSUME NEW e \in Ends, ReadClose(e) \/ SplitSize(e) \/ Astray(e) PROVE Answering'
    <2>1. UNCHANGED <<link, refused, current, handlers>>
      BY <1>8 DEF ReadClose, SplitSize, Astray
    <2>2. stream[e] \in Seq(Atoms)
      BY DEF SocketTyped
    <2>3. \E n \in Nat : Take(e, n)
      BY <1>8, <2>2 DEF ReadClose, SplitSize, Astray
    <2> QED BY <1>6, <2>1, <2>3
  <1>9. ASSUME ReadAnswer PROVE Answering'
    <2>1. UNCHANGED <<link, refused, current, handlers>>
      BY <1>9 DEF ReadAnswer
    <2>2. stream["client"] \in Seq(Atoms)
      BY TheEnds DEF SocketTyped
    <2>3. \E n \in Nat : Take("client", n)
      BY <1>9, <2>2 DEF ReadAnswer
    <2> QED BY <1>6, <2>1, <2>3, TheEnds
  <1>10. ASSUME NEW e \in Ends, NEW m \in Messages \union Control,
                Put(e, WriteHandler(current[e], m)),
                UNCHANGED <<link, refused, current, handlers>>
         PROVE  Answering'
    <2> DEFINE u == WriteHandler(current[e], m)
    <2>1. u \in Seq(Atoms) /\ NoRequest(u) /\ Put(e, u)
      BY <1>10, WriteTyped, NoRequestWritten
    <2> HIDE DEF u
    <2>2. stream'["server"] = stream["server"] \/ stream'["server"] = stream["server"] \o u
      <3>1. e = "client" =>
                stream'["server"] = IF open[e] THEN stream["server"] \o u ELSE stream["server"]
        BY <2>1, PutTyped, TheEnds
      <3>2. e = "server" => stream'["server"] = stream["server"]
        BY <2>1, PutTyped
      <3> QED BY <3>1, <3>2, TheEnds
    <2>3. NoRequest(stream'["server"])
      BY <1>0, <2>1, <2>2, NoRequestJoined
    <2> QED BY <1>1, <1>10, <2>3
  <1>11. ASSUME NEW e \in Ends, \E m \in Messages : Send(e, m) PROVE Answering'
    BY <1>10, <1>11 DEF Send
  <1>12. ASSUME NEW m \in Control, SendControl(m) PROVE Answering'
    BY <1>10, <1>12, TheEnds DEF SendControl
  <1>13. ASSUME NEW e \in Ends, ReadControl(e) PROVE Answering'
    <2>1. UNCHANGED <<link, refused, current, handlers>>
      BY <1>13 DEF ReadControl
    <2> DEFINE u == IF stream[e][1][2] = "ping" THEN PackWebSocketFrame("pong") ELSE <<>>
    <2>2. stream' = [f \in Ends |-> IF f = e THEN Tail(stream[f]) ELSE stream[f] \o u]
      BY <1>13 DEF ReadControl
    <2>3. u \in Seq(Atoms) /\ NoRequest(u)
      <3>1. "pong" \in Control
        BY DEF Control
      <3>2. PackWebSocketFrame("pong") \in Seq(Atoms) /\ NoRequest(PackWebSocketFrame("pong"))
        BY <3>1, PackedControl, NoRequestWritten
      <3>3. <<>> \in Seq(Atoms) /\ NoRequest(<<>>)
        BY DEF NoRequest
      <3> QED BY <3>2, <3>3
    <2> HIDE DEF u
    <2>4. stream["server"] # <<>> => Tail(stream["server"]) = Rest(stream["server"], 1)
      BY <1>0 DEF Rest
    <2>5. \/ stream'["server"] = stream["server"] \o u
          \/ stream["server"] # <<>> /\ stream'["server"] = Tail(stream["server"])
      BY <1>13, <2>2, TheEnds DEF ReadControl, Reads
    <2>6. NoRequest(stream'["server"])
      BY <1>0, <2>3, <2>4, <2>5, NoRequestLeft, NoRequestJoined
    <2> QED BY <1>1, <2>1, <2>6
  <1> QED BY <1>2, <1>3, <1>4, <1>5, <1>7, <1>8, <1>9, <1>11, <1>12, <1>13, TheEnds DEF AnsweredStep

(* A second Connect is refused.                                               *)
LEMMA ReconnectNext ==
    ASSUME SocketTyped, Informed, Answered, Reconnect
    PROVE  Refused'
  <1>1. /\ link = "websocket" /\ connecting = "ready" /\ \A e \in Ends : reader[e] = "off"
        /\ connecting' = "request" /\ refused' /\ UNCHANGED <<link, handlers, registered>>
        /\ reader' = [reader EXCEPT !["client"] = "next"]
    BY DEF Reconnect, serverSide
  <1>2. reader'["client"] = "next" /\ reader'["server"] = "off"
    BY <1>1, TheEnds DEF SocketTyped
  <1>3. ~registered
    BY <1>1, TheEnds DEF Informed
  <1>4. handlers["client"] = <<>>
    BY <1>1, TheEnds DEF Answered, Awaited, Seen, Switched
  <1> QED BY <1>1, <1>2, <1>3, <1>4 DEF Refused

(* Nobody answers one that has no connection, first or second.                  *)
LEMMA DialFailsNext ==
    ASSUME SocketTyped, Informed, DialFails
    PROVE  Refused'
  <1>1. /\ link = "websocket" /\ \A e \in Ends : reader[e] = "off"
        /\ connecting' = "waiting" /\ awaitingReady' /\ refused'
        /\ UNCHANGED <<link, reader, registered>>
    BY DEF DialFails, ends, serverSide
  <1>2. ~registered
    BY <1>1, TheEnds DEF Informed
  <1> QED BY <1>1, <1>2, TheEnds DEF Refused

-----------------------------------------------------------------------------
(* The client has yet to read the answer *)

(* What is behind the two atoms of an answer.                                 *)
LEMMA BehindAnswer ==
    ASSUME NEW s \in Seq(Atoms), NEW t, NEW all, AnswerFlow(s, t, all)
    PROVE  /\ s # <<>> /\ 2 <= Len(s) /\ s = <<Answer, Key>> \o Rest(s, 2)
           /\ FrameFlow(Rest(s, 2), 0, t, all)
  <1>1. /\ s = <<Answer, Key>> \o Rest(s, 2) /\ FrameFlow(Rest(s, 2), 0, t, all)
        /\ Rest(s, 2) \in Seq(Atoms)
    <2>1. Rest(s, 2) = SubSeq(s, 3, Len(s))
      BY DEF Rest
    <2>2. Rest(s, 2) \in Seq(Atoms)
      BY RestTyped
    <2> QED BY <2>1, <2>2 DEF AnswerFlow
  <1>2. Answer \in Atoms /\ Key \in Atoms
    BY DEF Atoms, Answer, Key
  <1>3. <<Answer, Key>> \in Seq(Atoms) /\ Len(<<Answer, Key>>) = 2
    BY <1>2, AtomsInRow
  <1> DEFINE r == Rest(s, 2)
             h == <<Answer, Key>>
  <1> HIDE DEF r, h
  <1>4. Len(s) = Len(h) + Len(r) /\ Len(r) \in Nat
    BY <1>1, <1>3, JoinIs DEF r, h
  <1> QED BY <1>1, <1>3, <1>4 DEF r, h

(* The server is closed before the answer is read.                            *)
LEMMA AnswerWeaker ==
    ASSUME NEW s, NEW t, NEW all, NEW some, some => all, AnswerFlow(s, t, all)
    PROVE  AnswerFlow(s, t, some)
  BY FlowWeaker DEF AnswerFlow

(* The server sends a message behind its answer.                              *)
LEMMA AnswerSend ==
    ASSUME NEW s \in Seq(Atoms), NEW t \in Seq(Messages), NEW m \in Messages, NEW u, NEW all,
           AnswerFlow(s, t, all), FrameOf(u, m)
    PROVE  AnswerFlow(IF all THEN s \o u ELSE s, Append(t, m), all)
  <1> DEFINE r == Rest(s, 2)
             h == <<Answer, Key>>
  <1>1. s = h \o r /\ FrameFlow(r, 0, t, all) /\ r \in Seq(Atoms)
    BY BehindAnswer, RestTyped
  <1>2. FrameFlow(IF all THEN r \o u ELSE r, 0, Append(t, m), all)
    BY <1>1, FlowSend
  <1>3. h \in Seq(Atoms) /\ Len(h) = 2
    <2>1. Answer \in Atoms /\ Key \in Atoms
      BY DEF Atoms, Answer, Key
    <2> QED BY <2>1, AtomsInRow
  <1>4. u \in Seq(Atoms)
    BY DEF FrameOf
  <1> HIDE DEF r, h
  <1>5. s \o u = h \o (r \o u)
    BY <1>1, <1>3, <1>4
  <1>6. ASSUME NEW x \in Seq(Atoms) PROVE SubSeq(h \o x, 3, Len(h \o x)) = x
    <2> DEFINE y == h \o x
               q == SubSeq(y, 3, Len(y))
    <2>2. Len(x) \in Nat /\ Len(h) = 2
      BY <1>3
    <2>1. /\ y \in Seq(Atoms) /\ Len(y) = 2 + Len(x)
          /\ \A i \in 3 .. 2 + Len(x) : y[i] = x[i - 2]
      <3>1. /\ y \in Seq(Atoms) /\ Len(y) = Len(h) + Len(x)
            /\ \A i \in Len(h) + 1 .. Len(h) + Len(x) : y[i] = x[i - Len(h)]
        BY <1>3, JoinIs
      <3> HIDE DEF y
      <3> QED BY <2>2, <3>1
    <2> HIDE DEF y
    <2>3. q \in Seq(Atoms) /\ Len(q) = Len(x) /\ \A i \in 1 .. Len(x) : q[i] = y[i + 2]
      BY <2>1, <2>2
    <2> HIDE DEF q
    <2>4. ASSUME NEW i \in 1 .. Len(x) PROVE q[i] = x[i]
      <3>1. PICK j \in 3 .. 2 + Len(x) : j = i + 2 /\ j - 2 = i
        BY <2>2
      <3>2. q[i] = y[j]
        BY <2>3, <3>1
      <3>3. y[j] = x[i]
        BY <2>1, <3>1
      <3> QED BY <3>2, <3>3
    <2>5. q = x
      BY <2>3, <2>4
    <2> QED BY <2>5 DEF q, y
  <1>7. CASE all
    <2>1. SubSeq(s \o u, 3, Len(s \o u)) = r \o u
      <3>1. r \o u \in Seq(Atoms)
        BY <1>1, <1>4
      <3> QED BY <1>5, <1>6, <3>1
    <2>2. AnswerFlow(s \o u, Append(t, m), all)
      BY <1>2, <1>5, <1>7, <2>1 DEF AnswerFlow, h
    <2> QED BY <1>7, <2>2
  <1>8. CASE ~all
    <2>1. SubSeq(s, 3, Len(s)) = r
      BY <1>1, <1>6
    <2>2. AnswerFlow(s, Append(t, m), all)
      BY <1>1, <1>2, <1>8, <2>1 DEF AnswerFlow, h
    <2> QED BY <1>8, <2>2
  <1> QED BY <1>7, <1>8

(* The client waits for the answer, until it reads it.                        *)
LEMMA AwaitedNext ==
    ASSUME SocketTyped, SocketTyped', Informed, Phases, Answered, awaitingReady, AnsweredStep
    PROVE  (awaitingReady' /\ Awaited') \/ (~awaitingReady' /\ Seen')
  <1> DEFINE s == stream["client"]
  <1>0. /\ link = "websocket" /\ connecting = "waiting" /\ ~awaitingStatus
        /\ reader["client"] = "read" /\ current["client"] = RawOnce
        /\ handlers["client"] = <<Frames>> /\ open["client"]
        /\ ~garbled["client"] /\ ~garbled["server"] /\ stream["server"] = <<>>
        /\ got["client"] = <<>> /\ got["server"] = <<>> /\ sent["client"] = <<>>
    BY DEF Answered, Answering, Awaited
  <1>1. \/ /\ s = << <<"error", "">> >>
           /\ reader["server"] = "off" /\ current["server"] = NoHandler
        \/ AnswerFlow(s, sent["server"], open["server"])
    BY DEF Answered, Awaited
  <1>2. s \in Seq(Atoms) /\ s # <<>> /\ sent["server"] \in Seq(Messages)
    <2>1. s \in Seq(Atoms) /\ sent["server"] \in Seq(Messages)
      BY TheEnds DEF SocketTyped
    <2> HIDE DEF s
    <2>2. s # <<>>
      <3>1. << <<"error", "">> >> # <<>>
        OBVIOUS
      <3> QED BY <1>1, <2>1, <3>1, BehindAnswer
    <2> QED BY <2>1, <2>2
  <1> HIDE DEF s
  <1>a. DOMAIN open = Ends /\ DOMAIN garbled = Ends /\ DOMAIN reader = Ends
        /\ DOMAIN current = Ends /\ DOMAIN handlers = Ends
    BY DEF SocketTyped
  (* The server's side goes on.                                                 *)
  <1>3. ASSUME UNCHANGED <<connecting, awaitingReady, awaitingStatus, garbled, got>>,
               reader'["client"] = "read", current'["client"] = RawOnce,
               handlers'["client"] = <<Frames>>, open'["client"], sent'["client"] = <<>>,
               stream'["server"] = <<>>,
               \/ /\ stream'["client"] = << <<"error", "">> >>
                  /\ reader'["server"] = "off" /\ current'["server"] = NoHandler
               \/ AnswerFlow(stream'["client"], sent'["server"], open'["server"])
        PROVE  awaitingReady' /\ Awaited'
    BY <1>0, <1>3 DEF Awaited
  <1>4. ASSUME NextHandler("server") \/ ReadFails("server") \/ Finish("server") \/ HangUp("server")
        PROVE  awaitingReady' /\ Awaited'
    <2>1. UNCHANGED <<connecting, awaitingReady, awaitingStatus, garbled, got, sent, stream>>
      BY <1>4 DEF NextHandler, ReadFails, Finish, HangUp, clientVars, exchange
    <2>2. reader["server"] # "off" \/ current["server"] # NoHandler
      BY <1>4 DEF NextHandler, ReadFails, Finish, HangUp, CanSend
    <2>3. open' = open \/ open' = [open EXCEPT !["server"] = FALSE]
      BY <1>4 DEF NextHandler, ReadFails, Finish, HangUp
    <2>4. open'["client"] = open["client"] /\ (open'["server"] => open["server"])
      <3>1. "client" \in Ends /\ "server" \in Ends /\ "client" # "server"
        BY TheEnds
      <3> QED BY <1>a, <2>3, <3>1, Zenon
    <2>5. /\ reader'["client"] = "read" /\ current'["client"] = RawOnce
          /\ handlers'["client"] = <<Frames>>
      BY <1>0, <1>4, <1>a, TheEnds DEF NextHandler, ReadFails, Finish, HangUp
    <2>6. AnswerFlow(s, sent["server"], open'["server"])
      BY <1>1, <2>2, <2>4, AnswerWeaker
    <2> QED BY <1>0, <1>3, <2>1, <2>4, <2>5, <2>6 DEF s
  <1>5. ASSUME NEW m \in Messages, Send("server", m) PROVE awaitingReady' /\ Awaited'
    <2>1. /\ UNCHANGED <<connecting, awaitingReady, awaitingStatus, garbled, got, open,
                         reader, current, handlers>>
          /\ Put("server", WriteHandler(current["server"], m))
          /\ sent' = [sent EXCEPT !["server"] = Append(@, m)]
          /\ current["server"] # NoHandler
      BY <1>5 DEF Send, CanSend, clientVars
    <2>2. AnswerFlow(s, sent["server"], open["server"])
      BY <1>1, <2>1
    <2>3. current["server"] = Frames
      BY <2>1 DEF Answered, Answering
    <2> DEFINE u == PackWebSocketFrame(m)
    <2>4. WriteHandler(current["server"], m) = u
      BY <2>3 DEF WriteHandler, Frames
    <2>5. FrameOf(u, m) /\ u \in Seq(Atoms) /\ Put("server", u)
      BY <2>1, <2>4, Packed DEF FrameOf
    <2> HIDE DEF u
    <2>6. /\ stream'["server"] = <<>>
          /\ stream'["client"] = IF open["server"] THEN s \o u ELSE s
      BY <1>0, <2>5, PutTyped, TheEnds DEF s
    <2>7. sent'["client"] = <<>> /\ sent'["server"] = Append(sent["server"], m)
      BY <1>0, <2>1, TheEnds DEF SocketTyped
    <2>8. AnswerFlow(stream'["client"], sent'["server"], open'["server"])
      BY <1>2, <2>1, <2>2, <2>5, <2>6, <2>7, AnswerSend
    <2> QED BY <1>0, <1>3, <2>1, <2>6, <2>7, <2>8
  (* The client reads the answer.                                               *)
  <1>6. ASSUME ReadAnswer PROVE ~awaitingReady' /\ Seen'
    <2>1. PICK n \in 1 .. Len(s) :
              /\ Take("client", n) /\ garbled' = [garbled EXCEPT !["client"] = (n # 2)]
              /\ Upgrade(SubSeq(s, 1, n))
      BY <1>6 DEF ReadAnswer, s
    <2>2. /\ reader' = [reader EXCEPT !["client"] = "next"]
          /\ UNCHANGED <<open, handlers, current, connecting, sent, got>> /\ ~awaitingReady'
      BY <1>6, <2>1 DEF ReadAnswer, exchange, Upgrade
    <2>3. n \in Nat
      BY <1>2
    <2>4. stream'["client"] = Rest(s, n) /\ stream'["server"] = <<>>
      BY <1>0, <2>1, <2>3, TakeTyped, TheEnds DEF s
    <2>5. reader'["client"] = "next" /\ reader'["server"] = reader["server"]
      BY <1>a, <2>2, TheEnds
    <2>6. Switched'
      BY <1>0, <2>2, <2>5 DEF Switched
    <2>7. FlowsAt("client")'
      <3>1. ~garbled'["client"] => n = 2
        <4>1. "client" \in Ends
          BY TheEnds
        <4> QED BY <1>a, <2>1, <4>1, Zenon
      <3>2. n = 2 => Flow("client")'
        <4>1. n = 2 => AnswerFlow(s, sent["server"], open["server"])
          <5>1. ASSUME NEW a PROVE Len(<<a>>) = 1
            OBVIOUS
          <5>2. n <= Len(s)
            BY <1>2
          <5>3. n = 2 => s # << <<"error", "">> >>
            <6> DEFINE z == << <<"error", "">> >>
            <6>1. Len(z) = 1
              BY <5>1
            <6> HIDE DEF z
            <6>2. n = 2 => s # z
              BY <5>2, <6>1
            <6> QED BY <6>2 DEF z
          <5> QED BY <1>1, <5>3
        <4>2. n = 2 => FrameFlow(Rest(s, 2), 0, sent["server"], open["server"])
          BY <1>2, <4>1, BehindAnswer
        <4>3. Len(got'["client"]) = 0
          BY <1>0, <2>2
        <4> QED BY <2>2, <2>4, <4>2, <4>3, TheEnds DEF Flow
      <3> QED BY <3>1, <3>2, TheEnds DEF FlowsAt, InStep
    <2>8. FlowsAt("server")'
      <3>1. Len(<<>>) = 0 /\ <<>> \in Seq(Messages)
        OBVIOUS
      <3>2. FrameFlow(<<>>, 0, <<>>, open["client"])
        BY <3>1, FlowEmpty
      <3>3. Flow("server")'
        BY <1>0, <2>2, <2>4, <3>1, <3>2, TheEnds DEF Flow
      <3> QED BY <2>4, <3>3 DEF FlowsAt
    <2> QED BY <1>0, <2>2, <2>6, <2>7, <2>8, TheEnds DEF Seen
  (* Nothing else can happen.                                                   *)
  <1>7. ASSUME NEW e \in Ends, Reads(e, "frames") PROVE FALSE
    BY <1>0, <1>7, TheEnds DEF Reads, RawOnce
  <1>8. ASSUME NEW e \in Ends,
               ReadMessage(e) \/ ReadControl(e) \/ ReadClose(e) \/ SplitSize(e) \/ Astray(e)
        PROVE  FALSE
    BY <1>7, <1>8 DEF ReadMessage, ReadControl, ReadClose, SplitSize, Astray
  <1>9. ASSUME NextHandler("client") \/ ReadFails("client") \/ Finish("client") PROVE FALSE
    BY <1>0, <1>2, <1>9, TheEnds DEF NextHandler, ReadFails, Finish, s
  <1>10. ASSUME Poll \/ Reconnect PROVE FALSE
    BY <1>0, <1>10 DEF Poll, Reconnect
  <1>11. ASSUME CanSend("client") PROVE FALSE
    BY <1>0, <1>11 DEF CanSend
  <1>12. ASSUME HangUp("client") \/ (\E m \in Messages : Send("client", m))
                    \/ \E m \in Control : SendControl(m)
         PROVE  FALSE
    BY <1>11, <1>12 DEF HangUp, Send, SendControl
  <1> QED BY <1>4, <1>5, <1>6, <1>8, <1>9, <1>10, <1>12, TheEnds DEF AnsweredStep

-----------------------------------------------------------------------------
(* The client has read the answer *)

(* A step that touches nothing on its way to an end.                          *)
LEMMA FlowsKept ==
    ASSUME NEW e \in Ends, FlowsAt(e), InStep(e)' => InStep(e), FlowKept(e),
           current'["client"] = RawOnce => current["client"] = RawOnce
    PROVE  FlowsAt(e)'
  <1>1. Flow(e) => Flow(e)'
    <2>1. Flow(e) => FrameFlow(stream[e], Len(got[e]), sent[Other(e)], open'[Other(e)])
      BY FlowWeaker DEF Flow, FlowKept
    <2> QED BY <2>1 DEF Flow, FlowKept
  <1>2. OutOfStep(e) => OutOfStep(e)'
    BY DEF OutOfStep, FlowKept
  <1> QED BY <1>1, <1>2 DEF FlowsAt, FlowKept

(* A stream out of step stays so, whatever is written to it.                  *)
LEMMA StaysOutOfStep ==
    ASSUME NEW e \in Ends, NEW u \in Seq(Atoms), stream[e] \in Seq(Atoms), OutOfStep(e),
           stream'[e] = stream[e] \o u
    PROVE  OutOfStep(e)'
  <1>1. /\ stream[e] \o u \in Seq(Atoms) /\ Len(stream[e] \o u) = Len(stream[e]) + Len(u)
        /\ \A i \in 1 .. Len(stream[e]) : (stream[e] \o u)[i] = stream[e][i]
    BY JoinIs
  <1>2. 1 \in 1 .. Len(stream[e]) /\ Len(u) \in Nat /\ Len(stream[e]) \in Nat
    BY DEF OutOfStep
  <1>3. stream'[e] # <<>> /\ stream'[e][1] = stream[e][1]
    <2> DEFINE r == stream[e] \o u
    <2>1. r \in Seq(Atoms) /\ Len(r) >= 1 /\ r[1] = stream[e][1]
      BY <1>1, <1>2
    <2> HIDE DEF r
    <2>2. r # <<>>
      BY <2>1
    <2> QED BY <2>1, <2>2 DEF r
  <1> QED BY <1>3 DEF OutOfStep

(* The answer was read: both ends exchange frames.                            *)
LEMMA SeenNext ==
    ASSUME SocketTyped, SocketTyped', Informed, Phases, Answered, ~awaitingReady,
           AnsweredStep, ~Reconnect
    PROVE  ~awaitingReady' /\ Seen'
  <1>0. /\ link = "websocket" /\ connecting \in {"waiting", "ready", "failed"} /\ Switched
        /\ \A e \in Ends : FlowsAt(e)
        /\ current["server"] \in {NoHandler, Frames}
    BY DEF Answered, Answering, Seen
  <1>a. DOMAIN open = Ends /\ DOMAIN garbled = Ends /\ DOMAIN reader = Ends
        /\ DOMAIN current = Ends /\ DOMAIN handlers = Ends
    BY DEF SocketTyped
  <1>b. RawOnce # Frames /\ RawOnce # NoHandler /\ Frames # NoHandler
    BY DEF RawOnce, Frames, NoHandler
  <1>1. ASSUME awaitingReady' = awaitingReady, connecting' \in {"waiting", "ready", "failed"},
               Switched', \A e \in Ends : FlowsAt(e)'
        PROVE  ~awaitingReady' /\ Seen'
    BY <1>1 DEF Seen
  (* The reader of an end, and what it was switched to.                         *)
  <1>2. ASSUME reader'["client"] = "next" <=> reader["client"] = "next",
               UNCHANGED <<current, handlers>>
        PROVE  Switched' /\ (current'["client"] = RawOnce => current["client"] = RawOnce)
    BY <1>0, <1>2 DEF Switched
  <1>3. ASSUME NEW e \in Ends, ReadFails(e) \/ Finish(e) \/ HangUp(e)
        PROVE  ~awaitingReady' /\ Seen'
    <2>1. UNCHANGED <<stream, got, sent, current, handlers, garbled, awaitingReady, connecting>>
      BY <1>3 DEF ReadFails, Finish, HangUp, clientVars, exchange
    <2>2. open' = open \/ open' = [open EXCEPT ![e] = FALSE]
      BY <1>3 DEF ReadFails, Finish, HangUp
    <2>3. \A f \in Ends : open'[f] => open[f]
      BY <1>a, <2>2, Zenon
    <2>4. \A f \in Ends : /\ reader'[f] \in {"next", "read"} => reader'[f] = reader[f]
                          /\ reader[f] = "next" => reader'[f] = "next"
      BY <1>3, <1>a DEF ReadFails, Finish, HangUp
    <2>5. reader'["client"] = "next" <=> reader["client"] = "next"
      BY <2>4, TheEnds
    <2>6. ASSUME NEW f \in Ends PROVE FlowsAt(f)'
      <3>1. FlowKept(f) /\ (InStep(f)' => InStep(f))
        BY <2>1, <2>3, <2>4, TheEnds DEF FlowKept, InStep
      <3> QED BY <1>0, <1>2, <2>1, <2>5, <3>1, FlowsKept
    <2> QED BY <1>0, <1>1, <1>2, <2>1, <2>5, <2>6
  <1>4. ASSUME Poll PROVE ~awaitingReady' /\ Seen'
    <2>1. /\ UNCHANGED <<stream, got, sent, current, handlers, garbled, awaitingReady, reader>>
          /\ connecting' \in {"ready", "failed"}
          /\ open' = [open EXCEPT !["client"] = @ /\ awaitingStatus]
      BY <1>4 DEF Poll, exchange
    <2>2. \A f \in Ends : open'[f] => open[f]
      BY <1>a, <2>1, Zenon
    <2>3. ASSUME NEW f \in Ends PROVE FlowsAt(f)'
      <3>1. FlowKept(f) /\ (InStep(f)' => InStep(f))
        BY <2>1, <2>2, TheEnds DEF FlowKept, InStep
      <3> QED BY <1>0, <1>2, <2>1, <3>1, FlowsKept
    <2> QED BY <1>1, <1>2, <2>1, <2>3
  <1>5. ASSUME NEW e \in Ends, NextHandler(e) PROVE ~awaitingReady' /\ Seen'
    <2>1. /\ UNCHANGED <<stream, got, sent, garbled, awaitingReady, connecting, open>>
          /\ reader[e] = "next"
          /\ \/ reader' = [reader EXCEPT ![e] = "finish"]
             \/ reader' = [reader EXCEPT ![e] = "read"]
      BY <1>5 DEF NextHandler, clientVars, exchange
    <2>2. \A f \in Ends : FlowKept(f) /\ (InStep(f)' => InStep(f))
      BY <1>a, <2>1, TheEnds DEF FlowKept, InStep
    <2>3. Switched' /\ (current'["client"] = RawOnce => current["client"] = RawOnce)
      <3>1. CASE e = "server"
        <4>1. /\ current'["client"] = current["client"] /\ handlers'["client"] = handlers["client"]
              /\ reader'["client"] = reader["client"]
          BY <1>5, <1>a, <3>1, TheEnds DEF NextHandler
        <4> QED BY <1>0, <4>1 DEF Switched
      <3>2. CASE e = "client"
        <4>1. handlers["client"] = <<Frames>>
          BY <1>0, <2>1, <3>2 DEF Switched
        <4>2. DOMAIN handlers["client"] = {1} /\ handlers["client"][1] = Frames /\ Frames[2] # 0
          BY <4>1 DEF Frames
        <4>3. /\ current' = [current EXCEPT !["client"] = Frames]
              /\ handlers' = [handlers EXCEPT !["client"] = SubSeq(@, 1 + 1, Len(@))]
              /\ reader' = [reader EXCEPT !["client"] = "read"]
          BY <1>5, <3>2, <4>2 DEF NextHandler
        <4>4. SubSeq(handlers["client"], 2, Len(handlers["client"])) = <<>>
          BY <4>1, Behind
        <4>5. /\ current'["client"] = Frames /\ handlers'["client"] = <<>>
              /\ reader'["client"] = "read"
          BY <1>a, <4>3, <4>4, TheEnds
        <4> QED BY <1>b, <4>5 DEF Switched
      <3> QED BY <3>1, <3>2, TheEnds
    <2>4. \A f \in Ends : FlowsAt(f)'
      BY <1>0, <2>2, <2>3, FlowsKept
    <2> QED BY <1>0, <1>1, <2>1, <2>3, <2>4
  (* A message is sent.                                                         *)
  <1>6. ASSUME NEW e \in Ends, NEW m \in Messages, Send(e, m) PROVE ~awaitingReady' /\ Seen'
    <2> DEFINE d == Other(e)
               u == WriteHandler(current[e], m)
    <2>1. /\ UNCHANGED <<open, handlers, current, reader, garbled, got, awaitingReady, connecting>>
          /\ Put(e, u) /\ sent' = [sent EXCEPT ![e] = Append(@, m)] /\ current[e] # NoHandler
      BY <1>6 DEF Send, CanSend, clientVars
    <2>2. u \in Seq(Atoms) /\ d \in Ends /\ Other(d) = e /\ d # e
      BY WriteTyped, TheEnds
    <2>3. current[e] = Frames \/ (e = "client" /\ current[e] = RawOnce)
      BY <1>0, <2>1, TheEnds DEF Switched
    <2>4. /\ current[e] = Frames => u = PackWebSocketFrame(m)
          /\ current[e] = RawOnce => u = << <<"payload", m>> >>
      BY DEF WriteHandler, Frames, RawOnce
    <2> HIDE DEF u
    <2>5. stream'[e] = stream[e] /\ stream'[d] = IF open[e] THEN stream[d] \o u ELSE stream[d]
      BY <2>1, <2>2, PutTyped
    <2>6. sent'[e] = Append(sent[e], m) /\ sent'[d] = sent[d]
      BY <2>1, <2>2 DEF SocketTyped
    <2>7. /\ stream[d] \in Seq(Atoms) /\ Len(got[d]) \in Nat /\ sent[e] \in Seq(Messages)
      BY <2>2, SidesTyped
    <2> HIDE DEF d
    <2>8. FlowsAt(e)'
      <3>1. FlowKept(e) /\ (InStep(e)' => InStep(e))
        BY <2>1, <2>5, <2>6 DEF FlowKept, InStep, d
      <3> QED BY <1>0, <2>1, <3>1, FlowsKept
    <2>9. ASSUME Flow(d), current[e] = Frames \/ ~open[e] PROVE Flow(d)'
      <3>1. FrameFlow(stream[d], Len(got[d]), sent[e], open[e])
        BY <2>2, <2>9 DEF Flow
      <3>2. FrameOf(PackWebSocketFrame(m), m)
        BY Packed
      <3>3. stream'[d] = IF open[e] THEN stream[d] \o PackWebSocketFrame(m) ELSE stream[d]
        BY <2>4, <2>5, <2>9
      <3>4. FrameFlow(stream'[d], Len(got[d]), Append(sent[e], m), open[e])
        BY <2>7, <3>1, <3>2, <3>3, FlowSend
      <3> QED BY <2>1, <2>2, <2>6, <3>4 DEF Flow
    <2>10. OutOfStep(d) => OutOfStep(d)'
      <3>1. CASE open[e]
        BY <2>2, <2>5, <2>7, <3>1, StaysOutOfStep
      <3>2. CASE ~open[e]
        BY <2>5, <3>2 DEF OutOfStep
      <3> QED BY <3>1, <3>2
    <2>11. FlowsAt(d)'
      <3>1. CASE ~InStep(d)'
        BY <3>1 DEF FlowsAt
      <3>2. CASE InStep(d)' /\ current[e] = Frames
        <4>1. Flow(d) \/ (d = "server" /\ OutOfStep(d))
          BY <1>0, <2>1, <2>2, <3>2 DEF FlowsAt, InStep
        <4>2. Flow(d)' \/ (d = "server" /\ OutOfStep(d)')
          BY <2>9, <2>10, <3>2, <4>1
        <4>3. d = "server" => current'["client"] # RawOnce
          BY <1>b, <2>1, <2>2, <3>2, TheEnds
        <4> QED BY <4>2, <4>3 DEF FlowsAt
      <3>3. CASE InStep(d)' /\ e = "client" /\ current[e] = RawOnce
        <4>1. d = "server" /\ current["client"] = RawOnce
          BY <3>3, TheEnds DEF d
        <4>2. (Flow(d) \/ OutOfStep(d)) /\ (stream[d] = <<>> \/ OutOfStep(d))
          BY <1>0, <2>1, <2>2, <3>3, <4>1 DEF FlowsAt, InStep
        <4>3. CASE OutOfStep(d)
          BY <2>10, <4>1, <4>3 DEF FlowsAt
        <4>4. CASE open[e] /\ stream[d] = <<>>
          <5>1. stream'[d] = << <<"payload", m>> >>
            <6>1. <<>> \o u = u
              BY <2>2
            <6> QED BY <2>4, <2>5, <3>3, <4>4, <6>1
          <5>2. OutOfStep(d)'
            BY <5>1 DEF OutOfStep, Begins
          <5> QED BY <4>1, <5>2 DEF FlowsAt
        <4>5. CASE ~open[e] /\ stream[d] = <<>> /\ Flow(d)
          <5>1. Flow(d)' /\ stream'[d] = <<>>
            BY <2>5, <2>9, <4>5
          <5> QED BY <5>1 DEF FlowsAt
        <4> QED BY <4>2, <4>3, <4>4, <4>5
      <3> QED BY <2>3, <3>1, <3>2, <3>3
    <2>12. \A f \in Ends : FlowsAt(f)'
      BY <2>8, <2>11, TheEnds, Zenon DEF d
    <2> QED BY <1>0, <1>1, <1>2, <2>1, <2>12
  (* A ping or a close is.                                                      *)
  <1>7. ASSUME NEW m \in Control, SendControl(m) PROVE ~awaitingReady' /\ Seen'
    <2> DEFINE u == WriteHandler(current["client"], m)
    <2>1. /\ UNCHANGED <<open, handlers, current, reader, garbled, got, sent, awaitingReady,
                         connecting>>
          /\ Put("client", u) /\ current["client"] # NoHandler
      BY <1>7 DEF SendControl, CanSend, clientVars
    <2>2. u \in Seq(Atoms)
      BY WriteTyped
    <2>3. current["client"] = Frames \/ current["client"] = RawOnce
      BY <1>0 DEF Switched
    <2>4. /\ current["client"] = Frames => u = PackWebSocketFrame(m)
          /\ current["client"] = RawOnce => u = << <<"payload", m>> >>
      BY DEF WriteHandler, Frames, RawOnce
    <2> HIDE DEF u
    <2>5. /\ stream'["client"] = stream["client"]
          /\ stream'["server"] = IF open["client"] THEN stream["server"] \o u ELSE stream["server"]
      BY <2>1, <2>2, PutTyped, TheEnds
    <2>6. FlowsAt("client")'
      <3>1. FlowKept("client") /\ (InStep("client")' => InStep("client"))
        BY <2>1, <2>5, TheEnds DEF FlowKept, InStep
      <3> QED BY <1>0, <2>1, <3>1, FlowsKept, TheEnds
    <2>7. FlowsAt("server")'
      <3>1. CASE ~open["client"]
        <4>1. FlowKept("server") /\ (InStep("server")' => InStep("server"))
          BY <2>1, <2>5, <3>1, TheEnds DEF FlowKept, InStep
        <4> QED BY <1>0, <2>1, <4>1, FlowsKept, TheEnds
      <3>2. CASE open["client"] /\ InStep("server")'
        <4>1. stream'["server"] = stream["server"] \o u /\ stream["server"] \in Seq(Atoms)
          BY <2>5, <3>2, TheEnds DEF SocketTyped
        <4>2. /\ Flow("server") \/ OutOfStep("server")
              /\ current["client"] = RawOnce => stream["server"] = <<>> \/ OutOfStep("server")
          BY <1>0, <2>1, <3>2, TheEnds DEF FlowsAt, InStep
        <4>3. OutOfStep("server") => OutOfStep("server")'
          BY <2>2, <4>1, StaysOutOfStep, TheEnds
        <4>4. Flow("server") /\ current["client"] = Frames => Flow("server")'
          <5>1. Len(got["server"]) \in Nat /\ sent["client"] \in Seq(Messages)
            BY TheEnds, SidesTyped
          <5>2. ASSUME Flow("server"), current["client"] = Frames
                PROVE  FrameFlow(stream'["server"], Len(got["server"]), sent["client"],
                                 open["client"])
            BY <2>4, <4>1, <5>1, <5>2, FlowControl, TheEnds DEF Flow
          <5> QED BY <2>1, <5>2, TheEnds DEF Flow
        <4>5. ASSUME stream["server"] = <<>>, current["client"] = RawOnce
              PROVE  OutOfStep("server")'
          <5>1. <<>> \o u = u
            BY <2>2
          <5>2. stream'["server"] = << <<"payload", m>> >>
            BY <2>4, <4>1, <4>5, <5>1
          <5> QED BY <5>2 DEF OutOfStep, Begins
        <4> QED BY <1>b, <2>1, <2>3, <4>2, <4>3, <4>4, <4>5 DEF FlowsAt
      <3> QED BY <3>1, <3>2 DEF FlowsAt
    <2>8. \A f \in Ends : FlowsAt(f)'
      BY <2>6, <2>7, TheEnds
    <2> QED BY <1>0, <1>1, <1>2, <2>1, <2>8
  (* A message is read.                                                         *)
  <1>8. ASSUME NEW e \in Ends, ReadMessage(e) PROVE ~awaitingReady' /\ Seen'
    <2> DEFINE m == stream[e][1][2]
               k == Len(PackWebSocketFrame(m))
    <2>1. /\ UNCHANGED <<open, handlers, current, reader, garbled, sent, awaitingReady, connecting>>
          /\ Take(e, k) /\ localReadFunc(e, <<m>>) /\ Reads(e, "frames") /\ ~garbled[e]
          /\ stream[e][1][1] = "header" /\ m \notin Control
      BY <1>8 DEF ReadMessage, clientVars
    <2>2. /\ stream[e] \in Seq(Atoms) /\ stream[e] # <<>> /\ Len(got[e]) \in Nat
          /\ sent[Other(e)] \in Seq(Messages) /\ got[e] \in Seq(Given)
      BY <2>1, SidesTyped DEF Reads
    <2>3. m \in Given
      <3>1. stream[e][1] \in Atoms
        BY <2>2
      <3> QED BY <3>1, AtomIs
    <2>4. Flow(e)
      BY <2>1, <2>2, ReadingIn DEF Reads
    <2>5. k = (IF m \in Huge THEN 4 ELSE 2) /\ k \in Nat
      <3>1. k = IF m \in Huge THEN 4 ELSE 2
        BY <2>1, PackedLength
      <3> HIDE DEF k
      <3> QED BY <3>1
    <2>6. FrameFlow(Rest(stream[e], k), Len(got[e]) + 1, sent[Other(e)], open[Other(e)])
      <3>1. k = IF stream[e][1][1] = "header" /\ stream[e][1][2] \in Huge THEN 4 ELSE 2
        BY <2>1, <2>5
      <3> HIDE DEF k
      <3> QED BY <2>1, <2>2, <2>4, <3>1, FlowRead DEF Flow
    <2> HIDE DEF k
    <2>7. stream'[e] = Rest(stream[e], k) /\ stream'[Other(e)] = stream[Other(e)]
      BY <2>1, <2>5, TakeTyped
    <2>8. got'[Other(e)] = got[Other(e)] /\ Len(got'[e]) = Len(got[e]) + 1
      <3> DEFINE data == <<m>>
      <3>1. data \in Seq(Given) /\ Len(data) = 1 /\ localReadFunc(e, data)
        BY <2>1, <2>3
      <3> HIDE DEF data
      <3>2. got'[e] = got[e] \o data /\ got'[Other(e)] = got[Other(e)]
        BY <3>1, GivenTyped
      <3>3. Len(got[e] \o data) = Len(got[e]) + Len(data)
        BY <2>2, <3>1, JoinIs
      <3> QED BY <3>1, <3>2, <3>3
    <2>9. Flow(e)'
      BY <2>1, <2>6, <2>7, <2>8 DEF Flow
    <2>10. ~(e = "server" /\ current["client"] = RawOnce)
      <3>1. FlowsAt(e) /\ InStep(e)
        BY <1>0, <2>1 DEF InStep, Reads
      <3> QED BY <2>1, <2>2, <3>1 DEF FlowsAt, OutOfStep, Begins
    <2>11. FlowsAt(e)'
      BY <2>1, <2>9, <2>10 DEF FlowsAt
    <2>12. FlowsAt(Other(e))'
      <3>1. FlowKept(Other(e)) /\ (InStep(Other(e))' => InStep(Other(e))) /\ Other(e) \in Ends
        BY <2>1, <2>7, <2>8, TheEnds DEF FlowKept, InStep
      <3> QED BY <1>0, <2>1, <3>1, FlowsKept
    <2>13. \A f \in Ends : FlowsAt(f)'
      BY <2>11, <2>12, TheEnds, Zenon
    <2> QED BY <1>0, <1>1, <1>2, <2>1, <2>13
  (* A ping is read, and answered, or a pong.                                   *)
  <1>9. ASSUME NEW e \in Ends, ReadControl(e) PROVE ~awaitingReady' /\ Seen'
    <2> DEFINE d == Other(e)
               u == IF stream[e][1][2] = "ping" THEN PackWebSocketFrame("pong") ELSE <<>>
    <2>1. /\ UNCHANGED <<open, handlers, current, reader, garbled, sent, got, awaitingReady,
                         connecting>>
          /\ stream' = [f \in Ends |-> IF f = e THEN Tail(stream[f]) ELSE stream[f] \o u]
          /\ Reads(e, "frames") /\ ~garbled[e] /\ stream[e][1][1] = "header"
          /\ stream[e][1][2] \in {"ping", "pong"}
      BY <1>9 DEF ReadControl, clientVars, exchange
    <2>2. /\ stream[e] \in Seq(Atoms) /\ stream[e] # <<>> /\ Len(got[e]) \in Nat
          /\ sent[d] \in Seq(Messages) /\ d \in Ends /\ d # e /\ Other(d) = e
          /\ stream[d] \in Seq(Atoms) /\ Len(got[d]) \in Nat /\ sent[e] \in Seq(Messages)
      BY <2>1, TheEnds, SidesTyped DEF Reads
    <2>3. u = <<>> \/ u = PackWebSocketFrame("pong")
      OBVIOUS
    <2> HIDE DEF u
    <2>a. "pong" \in Control /\ PackWebSocketFrame("pong") \in Seq(Atoms) /\ <<>> \in Seq(Atoms)
      <3>1. "pong" \in Control
        BY DEF Control
      <3>2. <<>> \in Seq(Atoms)
        OBVIOUS
      <3> QED BY <3>1, <3>2, PackedControl
    <2>4. u \in Seq(Atoms)
      BY <2>3, <2>a
    <2>5. stream'[e] = Rest(stream[e], 1) /\ stream'[d] = stream[d] \o u
      <3>1. Tail(stream[e]) = Rest(stream[e], 1)
        BY <2>2 DEF Rest
      <3> QED BY <2>1, <2>2, <3>1
    <2> HIDE DEF d
    <2>6. FrameFlow(Rest(stream[e], 1), Len(got[e]), sent[d], open[d])
      <3>1. Flow(e)
        BY <2>1, <2>2, ReadingIn DEF Reads
      <3>2. stream[e][1][2] \in Control
        BY <2>1 DEF Control
      <3> QED BY <2>1, <2>2, <3>1, <3>2, FlowReadControl DEF Flow, d
    <2>7. Flow(e)'
      BY <2>1, <2>5, <2>6 DEF Flow, d
    <2>8. ~(e = "server" /\ current["client"] = RawOnce)
      <3>1. FlowsAt(e) /\ InStep(e)
        BY <1>0, <2>1 DEF InStep, Reads
      <3> QED BY <2>1, <2>2, <3>1 DEF FlowsAt, OutOfStep, Begins
    <2>9. FlowsAt(e)'
      BY <2>1, <2>7, <2>8 DEF FlowsAt
    <2>10. Flow(d) => Flow(d)'
      <3>1. ASSUME FrameFlow(stream[d], Len(got[d]), sent[e], open[e])
            PROVE  FrameFlow(stream'[d], Len(got[d]), sent[e], open[e])
        <4>1. stream[d] \o <<>> = stream[d]
          BY <2>2
        <4>2. FrameFlow(stream[d] \o PackWebSocketFrame("pong"), Len(got[d]), sent[e], open[e])
          BY <2>2, <2>a, <3>1, FlowControl
        <4> QED BY <2>3, <2>5, <3>1, <4>1, <4>2
      <3> QED BY <2>1, <2>2, <3>1 DEF Flow
    <2>11. FlowsAt(d)'
      <3>1. OutOfStep(d) => OutOfStep(d)'
        BY <2>2, <2>4, <2>5, StaysOutOfStep
      <3>2. d = "server" => current'["client"] # RawOnce
        <4>1. d = "server" => e = "client"
          BY TheEnds DEF d
        <4>2. d = "server" => current["client"] = Frames
          BY <1>0, <2>1, <4>1 DEF Switched, Reads
        <4> QED BY <1>b, <2>1, <4>2
      <3>3. InStep(d)' => InStep(d)
        BY <2>1 DEF InStep
      <3> QED BY <1>0, <2>2, <2>10, <3>1, <3>2, <3>3 DEF FlowsAt
    <2>12. \A f \in Ends : FlowsAt(f)'
      BY <2>9, <2>11, TheEnds, Zenon DEF d
    <2> QED BY <1>0, <1>1, <1>2, <2>1, <2>12
  (* After the others an end reads no more, or reads what it cannot.            *)
  <1>10. ASSUME NEW e \in Ends, ReadClose(e) \/ SplitSize(e) \/ Astray(e)
         PROVE  ~awaitingReady' /\ Seen'
    <2> DEFINE d == Other(e)
    <2>1. /\ UNCHANGED <<handlers, current, sent, awaitingReady, connecting>>
          /\ reader[e] = "read" /\ open[e]
          /\ reader' \in {reader, [reader EXCEPT ![e] = "finish"]}
      BY <1>10 DEF ReadClose, SplitSize, Astray, Reads, clientVars, exchange
    <2>2. d \in Ends /\ d # e /\ Other(d) = e /\ stream[e] \in Seq(Atoms)
      BY TheEnds DEF SocketTyped
    <2>3. stream'[d] = stream[d]
      <3>1. \E n \in Nat : Take(e, n)
        BY <1>10, <2>2 DEF ReadClose, SplitSize, Astray
      <3> QED BY <3>1, TakeTyped
    <2>4. open' = open \/ \E b \in BOOLEAN : open' = [open EXCEPT ![e] = b]
      BY <1>10 DEF ReadClose, SplitSize, Astray
    <2>5. open'[e] => open[e]
      BY <2>1
    <2>6. got'[d] = got[d]
      <3>1. got' \in {got, [got EXCEPT ![e] = Append(@, "garbage")]}
        BY <1>10 DEF ReadClose, SplitSize, Astray, exchange
      <3> QED BY <2>2, <3>1 DEF SocketTyped
    <2>7. ~InStep(e)'
      <3>1. reader' = [reader EXCEPT ![e] = "finish"] \/ garbled' = [garbled EXCEPT ![e] = TRUE]
        BY <1>10 DEF ReadClose, SplitSize, Astray
      <3>2. reader'[e] = "finish" \/ garbled'[e]
        BY <1>a, <3>1, Zenon
      <3> QED BY <3>2 DEF InStep
    <2>8. InStep(d)' => InStep(d)
      <3>1. garbled' = garbled \/ garbled' = [garbled EXCEPT ![e] = TRUE]
        BY <1>10 DEF ReadClose, SplitSize, Astray
      <3>2. garbled'[d] = garbled[d]
        BY <1>a, <2>2, <3>1, Zenon
      <3>3. reader'[d] = reader[d]
        BY <1>a, <2>1, <2>2
      <3> QED BY <3>2, <3>3 DEF InStep
    <2>9. FlowsAt(e)'
      BY <2>7 DEF FlowsAt
    <2>10. FlowsAt(d)'
      <3>1. FlowKept(d)
        BY <2>1, <2>2, <2>3, <2>5, <2>6 DEF FlowKept
      <3> QED BY <1>0, <2>1, <2>2, <2>8, <3>1, FlowsKept
    <2>11. reader'["client"] = "next" <=> reader["client"] = "next"
      BY <1>a, <2>1, TheEnds
    <2>12. \A f \in Ends : FlowsAt(f)'
      BY <2>9, <2>10, TheEnds, Zenon
    <2> QED BY <1>0, <1>1, <1>2, <2>1, <2>11, <2>12
  <1>11. ASSUME ReadAnswer PROVE FALSE
    BY <1>0, <1>11 DEF ReadAnswer, Reads, Switched, Frames
  <1> QED BY <1>3, <1>4, <1>5, <1>6, <1>7, <1>8, <1>9, <1>10, <1>11, TheEnds DEF AnsweredStep

-----------------------------------------------------------------------------
(* The invariant, and what follows *)

(* The invariant holds at the start.                                           *)
LEMMA InitSocket == SocketInit => SocketInv
  <1> SUFFICES ASSUME SocketInit PROVE SocketInv
    OBVIOUS
  <1>1. SocketTyped
    BY InitTyped
  <1>2. Len(<<>>) = 0 /\ DOMAIN <<>> = {} /\ <<>> \in Seq(Messages)
    OBVIOUS
  <1>3. /\ \A e \in Ends : /\ stream[e] = <<>> /\ sent[e] = <<>> /\ got[e] = <<>>
                           /\ reader[e] = "off" /\ current[e] = NoHandler
                           /\ handlers[e] = HandlerFuncs(link, e)
        /\ told.connect = 0 /\ told.disconnect = 0 /\ ~registered /\ ~refused
        /\ connecting = "idle" /\ ~awaitingReady /\ ~awaitingStatus
    BY DEF SocketInit
  <1>4. \A e \in Ends : ~garbled[e]
    BY Zenon DEF SocketInit
  <1>5. Informed
    BY <1>3, TheEnds DEF Informed
  <1>6. GivenInOrder
    BY <1>2, <1>3, TheEnds DEF GivenInOrder, OrderedAt
  <1>7. CASE link # "websocket"
    <2>1. \A all : TcpFlow(link, <<>>, 0, <<>>, all)
      BY <1>2, FlowEmpty DEF TcpFlow
    <2>2. ASSUME NEW e \in Ends PROVE TcpEnd(e)
      <3>1. stream[e] = <<>> /\ got[e] = <<>> /\ sent[Other(e)] = <<>> /\ Len(got[e]) = 0
        BY <1>2, <1>3, TheEnds
      <3>2. TcpFlow(link, stream[e], Len(got[e]), sent[Other(e)], open[Other(e)])
        BY <2>1, <3>1
      <3> QED BY <1>3, <1>4, <3>2 DEF TcpEnd
    <2>3. link \in {"raw", "framed"}
      BY <1>1, <1>7 DEF SocketTyped
    <2>4. Tcp
      BY <1>3, <2>2, <2>3 DEF Tcp
    <2> QED BY <1>1, <1>5, <1>6, <2>4 DEF SocketInv
  <1>8. CASE link = "websocket"
    <2>1. handlers["client"] = <<RawOnce, Frames>> /\ handlers["server"] = <<Frames>>
      BY <1>3, <1>8, TheEnds DEF HandlerFuncs, RawOnce, Frames
    <2>2. Unanswered
      BY <1>3, <1>4, <1>8, <2>1, TheEnds DEF Unanswered
    <2> QED BY <1>1, <1>5, <1>6, <2>2 DEF SocketInv
  <1> QED BY <1>7, <1>8

(* Every step keeps it.                                                       *)
LEMMA NextSocket ==
    ASSUME SocketInv, SocketNext
    PROVE  SocketInv'
  <1>1. SocketTyped /\ Informed /\ GivenInOrder /\ Phases
    BY DEF SocketInv, Phases
  <1>2. SocketTyped'
    BY <1>1, NextTyped
  <1>3. Informed' /\ GivenInOrder'
    BY <1>1, <1>2, NextInformed, NextInOrder
  <1>4. Tcp => Tcp'
    BY <1>1, <1>2, TcpNext
  <1>a. DialFails => Refused'
    BY <1>1, DialFailsNext
  <1>5. Unanswered => Unanswered' \/ Refused' \/ Answered'
    BY <1>1, <1>2, <1>a, UnansweredNext
  <1>6. Refused => Refused'
    BY <1>1, <1>2, RefusedNext
  <1>7. ASSUME Answered, ~DialFails PROVE Answered' \/ Refused'
    <2>1. AnsweredStep
      BY <1>1, <1>7, AnsweredSteps
    <2>2. CASE Reconnect
      BY <1>1, <1>7, <2>2, ReconnectNext
    <2>3. CASE ~Reconnect
      <3>1. Answering'
        BY <1>1, <1>2, <1>7, <2>1, <2>3, AnsweringNext
      <3>2. (awaitingReady' /\ Awaited') \/ (~awaitingReady' /\ Seen')
        BY <1>1, <1>2, <1>7, <2>1, <2>3, AwaitedNext, SeenNext
      <3> QED BY <3>1, <3>2 DEF Answered
    <2> QED BY <2>2, <2>3
  <1>8. Tcp' \/ Unanswered' \/ Refused' \/ Answered'
    BY <1>1, <1>4, <1>5, <1>6, <1>7, <1>a DEF Phases
  <1> QED BY <1>2, <1>3, <1>8 DEF SocketInv

(* So does a step in which nothing happens.                                   *)
LEMMA SocketStays ==
    ASSUME SocketInv, UNCHANGED socketVars
    PROVE  SocketInv'
  <1>1. /\ UNCHANGED <<link, stream, open, handlers, current, reader, garbled>>
        /\ UNCHANGED <<connecting, awaitingReady, awaitingStatus, registered, told, sent, got,
                       refused>>
    BY DEF socketVars, ends, clientVars, serverSide, exchange
  <1>2. SocketTyped' /\ Informed' /\ GivenInOrder'
    BY <1>1 DEF SocketInv, SocketTyped, Informed, GivenInOrder, OrderedAt
  <1>3. Tcp => Tcp'
    BY <1>1 DEF Tcp, TcpEnd, TcpHandler
  <1>4. (Unanswered => Unanswered') /\ (Refused => Refused')
    BY <1>1 DEF Unanswered, Refused
  <1>5. Answered => Answered'
    BY <1>1 DEF Answered, Answering, Awaited, Seen, Switched, FlowsAt, InStep, Flow, OutOfStep
  <1> QED BY <1>2, <1>3, <1>4, <1>5 DEF SocketInv

(* What a connection keeps, whichever link it has.                              *)
THEOREM SocketInvariant == SocketSpec => []SocketInv
  <1>1. SocketInv /\ [SocketNext]_socketVars => SocketInv'
    BY NextSocket, SocketStays
  <1> QED BY <1>1, InitSocket, PTL DEF SocketSpec

(* The user of a server is told once that a connection is gone, and only of one *)
(* it was told of.                                                              *)
THEOREM DisconnectionsTold == SocketSpec => []DisconnectedOnce
  <1>1. SocketInv => DisconnectedOnce
    BY DEF SocketInv, Informed, DisconnectedOnce
  <1> QED BY <1>1, SocketInvariant, PTL

(* Connect of a WebSocket client is not left waiting without anything to wait   *)
(* for, but for a dial that failed, a server that is gone before it answers and *)
(* a second Connect.                                                            *)
THEOREM ConnectsReturn == SocketSpec => []ConnectReturns
  <1>1. SocketInv => ConnectReturns
    <2> SUFFICES ASSUME SocketInv, connecting = "waiting", awaitingReady, ~refused
                 PROVE  \/ stream["server"] # <<>> /\ Head(stream["server"])[1] = "request"
                        \/ reader["client"] = "read" /\ open["client"] /\ stream["client"] # <<>>
      BY DEF ConnectReturns
    <2>1. CASE Tcp
      BY <2>1 DEF Tcp
    <2>2. CASE Unanswered
      <3>1. stream["server"] = << <<"request", "">> >>
        BY <2>2 DEF Unanswered
      <3>2. ASSUME NEW a PROVE <<a>> # <<>> /\ Head(<<a>>) = a
        OBVIOUS
      <3> DEFINE a == <<"request", "">>
      <3>3. stream["server"] = <<a>> /\ a[1] = "request"
        BY <3>1
      <3> HIDE DEF a
      <3>4. stream["server"] # <<>> /\ Head(stream["server"]) = a
        BY <3>2, <3>3
      <3> QED BY <3>3, <3>4
    <2>3. CASE Refused
      BY <2>3 DEF Refused
    <2>4. CASE Answered
      <3>1. Awaited
        BY <2>4 DEF Answered
      <3>2. stream["client"] \in Seq(Atoms)
        BY TheEnds DEF SocketInv, SocketTyped
      <3>3. ASSUME NEW a PROVE <<a>> # <<>>
        OBVIOUS
      <3>4. stream["client"] # <<>>
        BY <3>1, <3>2, <3>3, BehindAnswer DEF Awaited
      <3> QED BY <3>1, <3>4 DEF Awaited
    <2> QED BY <2>1, <2>2, <2>3, <2>4 DEF SocketInv
  <1> QED BY <1>1, SocketInvariant, PTL

(* A user is given what the other user has sent, in order; and all of it when   *)
(* all is read and nobody has closed.                                           *)
THEOREM MessagesAreIntact == SocketSpec => []MessagesIntact
  <1>1. ASSUME SocketInv, NEW e \in Ends, ~garbled[e]
        PROVE  /\ IsPrefix(got[e], sent[Other(e)])
               /\ open["client"] /\ open["server"] /\ reader[e] = "read" /\ stream[e] = <<>>
                      => got[e] = sent[Other(e)]
    <2> DEFINE g == got[e]
               t == sent[Other(e)]
    <2>1. g \in Seq(Given) /\ t \in Seq(Given) /\ t \in Seq(Messages) /\ Len(g) \in Nat
      <3>1. got[e] \in Seq(Given) /\ sent[Other(e)] \in Seq(Messages)
        BY <1>1, TheEnds DEF SocketInv, SocketTyped
      <3>2. Messages \subseteq Given
        BY DEF Given
      <3> QED BY <3>1, <3>2
    <2>2. Len(g) <= Len(t) /\ \A i \in DOMAIN g : g[i] = t[i]
      BY <1>1 DEF SocketInv, GivenInOrder, OrderedAt
    <2>3. ASSUME open["client"], open["server"], reader[e] = "read", stream[e] = <<>>
          PROVE  Len(g) = Len(t)
      <3>0. open[Other(e)]
        BY <2>3, TheEnds
      <3>1. FrameFlow(<<>>, Len(g), t, open[Other(e)]) \/ RawFlow(<<>>, Len(g), t, open[Other(e)])
              => Len(g) = Len(t)
        <4> HIDE DEF g, t
        <4> QED BY <2>1, <3>0, FlowEmpty
      <3>2. CASE Tcp
        <4>1. TcpFlow(link, <<>>, Len(g), t, open[Other(e)])
          BY <2>3, <3>2 DEF Tcp, TcpEnd
        <4> QED BY <3>1, <4>1 DEF TcpFlow
      <3>3. CASE Unanswered
        BY <3>3, TheEnds DEF Unanswered
      <3>4. CASE Refused
        BY <2>3, <3>4, TheEnds DEF Refused
      <3>5. CASE Answered /\ awaitingReady
        <4>1. Awaited
          BY <3>5 DEF Answered
        <4>2. e = "server"
          <5>1. ASSUME NEW a PROVE <<a>> # <<>>
            OBVIOUS
          <5>2. <<>> \in Seq(Atoms)
            OBVIOUS
          <5>3. stream["client"] # <<>>
            BY <4>1, <5>1, <5>2, BehindAnswer DEF Awaited
          <5> QED BY <2>3, <5>3, TheEnds
        <4> QED BY <4>1, <4>2, TheEnds DEF Awaited
      <3>6. CASE Answered /\ ~awaitingReady
        <4>1. FlowsAt(e)
          BY <3>6 DEF Answered, Seen
        <4>2. Flow(e)
          BY <1>1, <2>3, <4>1 DEF FlowsAt, InStep, OutOfStep
        <4> QED BY <2>3, <3>1, <4>2 DEF Flow
      <3> QED BY <1>1, <3>2, <3>3, <3>4, <3>5, <3>6 DEF SocketInv
    <2> HIDE DEF g, t
    <2>4. IsPrefix(g, t)
      <3>1. SubSeq(g, 1, Len(g)) \in Seq(Given) /\ SubSeq(t, 1, Len(g)) \in Seq(Given)
            /\ Len(SubSeq(g, 1, Len(g))) = Len(g) /\ Len(SubSeq(t, 1, Len(g))) = Len(g)
            /\ \A i \in 1 .. Len(g) : /\ SubSeq(g, 1, Len(g))[i] = g[i]
                                      /\ SubSeq(t, 1, Len(g))[i] = t[i]
        BY <2>1, <2>2
      <3>2. \A i \in 1 .. Len(g) : g[i] = t[i]
        BY <2>1, <2>2
      <3>3. SubSeq(g, 1, Len(g)) = SubSeq(t, 1, Len(g))
        <4> DEFINE x == SubSeq(g, 1, Len(g))
                   y == SubSeq(t, 1, Len(g))
        <4> HIDE DEF x, y
        <4>1. x = y
          BY <2>1, <3>1, <3>2 DEF x, y
        <4> QED BY <4>1 DEF x, y
      <3> QED BY <2>2, <3>3 DEF IsPrefix
    <2>5. Len(g) = Len(t) => g = t
      BY <2>1, <2>2
    <2> QED BY <2>3, <2>4, <2>5 DEF g, t
  <1>2. SocketInv => MessagesIntact
    BY <1>1 DEF MessagesIntact
  <1> QED BY <1>2, SocketInvariant, PTL
=============================================================================
