---------------------------- MODULE LegacyTunnel ----------------------------
(***************************************************************************)
(* The fallback of websocket_handler in working server/main.py, SOCKS5 over *)
(* a WebSocket, composed with the SOCKS5 helper it connects to              *)
(* (socks5_proxy.py, in a version with and one without user names), between *)
(* a client and a target: four parties in a row.                            *)
(*                                                                          *)
(*     client  --inbox-->  c2s  --q1u-->  helper, hu  --q2u-->  target      *)
(*     client  <--wsq----  s2c  <--q1d--  helper, hd  <--q2d--  target      *)
(*                                                                          *)
(* Going up, what the helper parses in one go is a unit, "ok" or "bad";     *)
(* everything else is a chunk, and is counted.  A write that the buffers    *)
(* have no room for is a task suspended in drain() or send_bytes().         *)
(***************************************************************************)
EXTENDS Naturals, Sequences

CONSTANTS
    Cap,     \* what the buffers of one connection hold in one direction
    MaxUp,   \* bounds: units the client sends, chunks the target sends
    MaxDown

ASSUME BoundsArePos == {Cap, MaxUp, MaxDown} \subseteq Nat \ {0}

VARIABLES
    auth,    \* the helper has a user name and a password configured
    ws,      \* the WebSocket: "open", "left" by the client, "shut" by the server
    inbox,   \* units the client has sent and c2s not received
    sent,    \* how many it has sent
    wsq,     \* chunks s2c has sent and the client not received
    back,    \* how many it has sent
    handler, \* websocket_handler: "gather" or "done"
    c2s,     \* ws_to_socks: "read", "done" or "raised"
    s2c,     \* obfuscate_and_relay_ws: "read", "send", "done" or "raised"
    tclosed, \* socks_writer.close() has been called
    q1u,
    q1d,
    helper,  \* handle_client: where it is
    hu,      \* relay(reader, remote_writer): "off", "read", "write", "done"
    hd,      \* relay(remote_reader, writer)
    hclosed, \* the helper's writer.close() has been called
    q2u,
    q2d,
    target,  \* "none", "open", "fin" once it sends no more, "rst" once gone
    made,    \* chunks the target has sent, units it has received
    got

clientV == <<ws, inbox, sent, wsq, back>>
tunnelV == <<handler, c2s, s2c, tclosed>>
helperV == <<helper, hu, hd, hclosed>>
targetV == <<target, made, got>>
LTvars == <<auth, clientV, tunnelV, q1u, q1d, helperV, q2u, q2d, targetV>>

Over == {"done", "raised"}

LTTypeOK ==
    /\ auth \in BOOLEAN /\ ws \in {"open", "left", "shut"}
    /\ inbox \in Seq({"ok", "bad"}) /\ q1u \in Seq({"ok", "bad"})
    /\ {sent, wsq, back, q1d, q2u, q2d, made, got} \subseteq Nat
    /\ handler \in {"gather", "done"}
    /\ c2s \in {"read"} \cup Over /\ s2c \in {"read", "send"} \cup Over
    /\ {tclosed, hclosed} \subseteq BOOLEAN
    /\ helper \in {"greeting", "auth", "request", "dial", "relay", "done"}
    /\ {hu, hd} \subseteq {"off", "read", "write", "done"}
    /\ target \in {"none", "open", "fin", "rst"}

\* The client is past its first message, and the helper has been reached.
LTInit ==
    /\ auth \in BOOLEAN
    /\ ws = "open" /\ inbox = <<"ok">> /\ sent = 1 /\ wsq = 0 /\ back = 0
    /\ handler = "gather" /\ c2s = "read" /\ s2c = "read" /\ tclosed = FALSE
    /\ helper = "greeting" /\ hu = "off" /\ hd = "off" /\ hclosed = FALSE
    /\ q1u = <<>> /\ q1d = 0 /\ q2u = 0 /\ q2d = 0
    /\ target = "none" /\ made = 0 /\ got = 0

-----------------------------------------------------------------------------
(* The tunnel. *)

\* Closing a connection with bytes in it that were not read resets it, and
\* what was on its way to the other end may then be lost.
Aborts(unread, way, gone) == way' \in IF unread THEN {way, gone} ELSE {way}

\* Mutant (for LeavingFreesTunnel): a task that leaves the connection open.
C2SEndsUnclosed(how) ==
    /\ c2s' = how
    /\ UNCHANGED <<auth, clientV, handler, s2c, tclosed, q1u, q1d, helperV, q2u, q2d, targetV>>

\* ws_to_socks is over: its finally closes the connection to the helper.
C2SEnds(how) ==
    /\ c2s' = how /\ tclosed' = TRUE
    /\ Aborts(q1d > 0, q1u, <<>>)
    /\ UNCHANGED <<auth, clientV, handler, s2c, q1d, helperV, q2u, q2d, targetV>>

C2SWrites ==
    /\ c2s = "read" /\ inbox # <<>> /\ ~hclosed /\ Len(q1u) < Cap
    /\ inbox' = Tail(inbox) /\ q1u' = Append(q1u, Head(inbox))
    /\ UNCHANGED <<auth, ws, sent, wsq, back, tunnelV, q1d, helperV, q2u, q2d, targetV>>

\* The helper has gone: the first write is lost, drain() raises on the next.
C2SWritesInVain ==
    /\ c2s = "read" /\ inbox # <<>> /\ hclosed
    /\ inbox' = Tail(inbox)
    /\ UNCHANGED <<auth, ws, sent, wsq, back, tunnelV, q1u, q1d, helperV, q2u, q2d, targetV>>

C2SRaises == c2s = "read" /\ inbox # <<>> /\ hclosed /\ C2SEnds("raised")

\* Mutant (for UploadArrives): a disconnect noticed before what was sent.
C2SStopsAtOnce == c2s = "read" /\ ws # "open" /\ C2SEnds("done")

\* Messages sent before a disconnect are received before it.
C2SStops == c2s = "read" /\ inbox = <<>> /\ ws # "open" /\ C2SEnds("done")

S2CMoves(to) ==
    /\ s2c' = to
    /\ UNCHANGED <<auth, ws, inbox, sent, handler, c2s, tclosed, q1u, helperV, q2u, q2d, targetV>>

S2CReads == s2c = "read" /\ q1d > 0 /\ q1d' = q1d - 1 /\ UNCHANGED <<wsq, back>> /\ S2CMoves("send")

S2CSends ==
    /\ s2c = "send" /\ ws = "open" /\ wsq < Cap
    /\ wsq' = wsq + 1 /\ back' = back + 1 /\ q1d' = q1d /\ S2CMoves("read")

\* A send to a WebSocket that is gone raises, something the task catches or
\* something it does not.
S2CSendFails ==
    /\ s2c = "send" /\ ws # "open"
    /\ \E how \in Over : S2CMoves(how)
    /\ UNCHANGED <<q1d, wsq, back>>

\* The end of the helper's connection ends this task and closes nothing.
S2CStops == s2c = "read" /\ q1d = 0 /\ (hclosed \/ tclosed) /\ S2CMoves("done") /\ UNCHANGED <<q1d, wsq, back>>

\* gather() returns when both are done, or raises with the first that raises;
\* the handler's return takes the WebSocket with it.
Gathered ==
    /\ handler = "gather"
    /\ "raised" \in {c2s, s2c} \/ {c2s, s2c} \subseteq Over
    /\ handler' = "done" /\ ws' = IF ws = "open" THEN "shut" ELSE ws
    /\ UNCHANGED <<auth, inbox, sent, wsq, back, c2s, s2c, tclosed, q1u, q1d, helperV, q2u, q2d, targetV>>

-----------------------------------------------------------------------------
(* The helper. *)

helperRest == <<auth, clientV, tunnelV, q2u, q2d, made, got>>

\* The finally of handle_client.  The connection to the target is left open.
HelperCloses ==
    /\ helper' = "done" /\ hclosed' = TRUE
    /\ UNCHANGED <<hu, hd, target, helperRest>>

\* A request it accepts leads on, with a reply.
Accepts(from, to) ==
    /\ helper = from /\ q1u # <<>> /\ Head(q1u) = "ok"
    /\ helper' = to /\ q1u' = Tail(q1u)
    /\ q1d' = IF to = "dial" \/ tclosed THEN q1d ELSE q1d + 1
    /\ UNCHANGED <<hu, hd, hclosed, target, helperRest>>

HelperGreets == Accepts("greeting", IF auth THEN "auth" ELSE "request")
HelperAuths  == Accepts("auth", "request")
HelperParses == Accepts("request", "dial")

\* One it does not accept is answered, or not, and ends the connection.
HelperRejects ==
    /\ helper \in {"greeting", "auth", "request"} /\ q1u # <<>> /\ Head(q1u) = "bad"
    /\ q1u' = Tail(q1u) /\ q1d' \in {q1d, q1d + 1}
    /\ HelperCloses

\* readexactly() meets the end of the connection.
HelperGivesUp ==
    /\ helper \in {"greeting", "auth", "request"} /\ q1u = <<>> /\ tclosed
    /\ HelperCloses /\ UNCHANGED <<q1u, q1d>>

DialFails == helper = "dial" /\ q1d' = q1d + 1 /\ q1u' = q1u /\ HelperCloses

DialOk ==
    /\ helper = "dial"
    /\ helper' = "relay" /\ hu' = "read" /\ hd' = "read" /\ target' = "open"
    /\ q1d' = IF tclosed THEN q1d ELSE q1d + 1
    /\ UNCHANGED <<hclosed, q1u, helperRest>>

\* relay(reader, remote_writer)
HuMoves(to) ==
    /\ hu' = to
    /\ UNCHANGED <<auth, clientV, tunnelV, q1d, helper, hd, hclosed, q2d, targetV>>

HuReads == hu = "read" /\ q1u # <<>> /\ q1u' = Tail(q1u) /\ q2u' = q2u /\ HuMoves("write")
HuWrites ==
    /\ hu = "write" /\ target # "rst" /\ q2u < Cap
    /\ q2u' = q2u + 1 /\ q1u' = q1u /\ HuMoves("read")

\* Mutant (for BothEndsFreeHelper): a relay that ends only when it cannot write.
HuStopsOnError == hu = "write" /\ target = "rst" /\ HuMoves("done") /\ UNCHANGED <<q1u, q2u>>

\* Its end, be it the tunnel's close or a target that has gone, is told to
\* nobody: every exception is swallowed and nothing is closed.
HuStops ==
    /\ \/ hu = "read" /\ q1u = <<>> /\ tclosed
       \/ hu = "write" /\ target = "rst"
    /\ HuMoves("done") /\ UNCHANGED <<q1u, q2u>>

\* relay(remote_reader, writer)
HdMoves(to) ==
    /\ hd' = to
    /\ UNCHANGED <<auth, clientV, tunnelV, q1u, helper, hu, hclosed, q2u, targetV>>

HdReads == hd = "read" /\ q2d > 0 /\ q2d' = q2d - 1 /\ q1d' = q1d /\ HdMoves("write")
HdWrites ==
    /\ hd = "write" /\ ~tclosed /\ q1d < Cap
    /\ q1d' = q1d + 1 /\ q2d' = q2d /\ HdMoves("read")
\* Towards a tunnel that has closed, a write is lost and a later one raises.
HdWritesInVain == hd = "write" /\ tclosed /\ HdMoves("read") /\ UNCHANGED <<q1d, q2d>>
HdStops ==
    /\ \/ hd = "read" /\ q2d = 0 /\ target \in {"fin", "rst"}
       \/ hd = "write" /\ tclosed
    /\ HdMoves("done") /\ UNCHANGED <<q1d, q2d>>

\* Mutant (for DownloadArrives): the first direction to end closes the client.
HelperEndsAtOnce ==
    /\ helper = "relay" /\ "done" \in {hu, hd}
    /\ Aborts(q1u # <<>>, q1d, 0) /\ q1u' = q1u
    /\ HelperCloses

\* gather() waits for both directions, then the client's connection is closed.
HelperEnds ==
    /\ helper = "relay" /\ hu = "done" /\ hd = "done"
    /\ Aborts(q1u # <<>>, q1d, 0) /\ q1u' = q1u
    /\ HelperCloses

-----------------------------------------------------------------------------
(* Client and target. *)

ClientSends(u) ==
    /\ ws = "open" /\ sent < MaxUp
    /\ inbox' = Append(inbox, u) /\ sent' = sent + 1
    /\ UNCHANGED <<auth, ws, wsq, back, tunnelV, q1u, q1d, helperV, q2u, q2d, targetV>>

ClientReads ==
    /\ ws = "open" /\ wsq > 0 /\ wsq' = wsq - 1
    /\ UNCHANGED <<auth, ws, inbox, sent, back, tunnelV, q1u, q1d, helperV, q2u, q2d, targetV>>

ClientLeaves ==
    /\ ws = "open" /\ ws' = "left"
    /\ UNCHANGED <<auth, inbox, sent, wsq, back, tunnelV, q1u, q1d, helperV, q2u, q2d, targetV>>

targetRest == <<auth, clientV, tunnelV, q1u, q1d, helperV>>

TargetSends ==
    /\ target = "open" /\ made < MaxDown /\ made' = made + 1 /\ q2d' = q2d + 1
    /\ UNCHANGED <<q2u, target, got, targetRest>>

TargetReads ==
    /\ target \in {"open", "fin"} /\ q2u > 0 /\ q2u' = q2u - 1 /\ got' = got + 1
    /\ UNCHANGED <<q2d, target, made, targetRest>>

TargetEnds == target = "open" /\ target' = "fin" /\ UNCHANGED <<q2u, q2d, made, got, targetRest>>

TargetGoes ==
    /\ target \in {"open", "fin"} /\ target' = "rst" /\ q2d' \in {0, q2d}
    /\ UNCHANGED <<q2u, made, got, targetRest>>

-----------------------------------------------------------------------------
C2S == C2SWrites \/ C2SWritesInVain \/ C2SRaises \/ C2SStops
S2C == S2CReads \/ S2CSends \/ S2CSendFails \/ S2CStops
Negotiates == HelperGreets \/ HelperAuths \/ HelperParses \/ HelperRejects \/ HelperGivesUp
Helper == Negotiates \/ DialOk \/ DialFails \/ HelperEnds
Hu == HuReads \/ HuWrites \/ HuStops
Hd == HdReads \/ HdWrites \/ HdWritesInVain \/ HdStops
Peers ==
    \/ \E u \in {"ok", "bad"} : ClientSends(u)
    \/ ClientReads \/ ClientLeaves
    \/ TargetSends \/ TargetReads \/ TargetEnds \/ TargetGoes

LTNext == C2S \/ S2C \/ Gathered \/ Helper \/ Hu \/ Hd \/ Peers

\* Both event loops run what can run, and a dial ends.  Nothing here has a
\* limit, and neither the client nor the target has to do anything.
LTFairness ==
    /\ WF_LTvars(C2S) /\ WF_LTvars(S2C) /\ WF_LTvars(Gathered)
    /\ WF_LTvars(Helper) /\ WF_LTvars(Hu) /\ WF_LTvars(Hd)

LTSpec == LTInit /\ [][LTNext]_LTvars /\ LTFairness

-----------------------------------------------------------------------------
(* Properties. *)

\* What the helper reads before it relays, and as many answers to it.
Stages == IF auth THEN 3 ELSE 2

\* A client that has been sent all there was to send may leave at once: what
\* it sent before still reaches a target that goes on reading.  (With anything
\* unread the tunnel's close aborts the connection, and the end may be lost.)
UploadArrives ==
    hu = "done" /\ q2u = 0 /\ target # "rst" =>
        got = sent - Stages \/ back < made + Stages

\* All that a target sends before it ends in order reaches a client that stays,
\* whatever it is uploading meanwhile: no end of one direction cuts the other.
DownloadArrives ==
    hd = "done" /\ q1d = 0 /\ s2c \in {"read", "done"} /\ target = "fin" /\ ws = "open" =>
        back = made + Stages

\* A target that stops reading for good holds up everything before it.
TargetStopsReading == [](q2u = Cap)

\* A client that leaves frees the tunnel, both tasks and the handler, whatever
\* the helper and the target do, unless its last messages cannot be written.
LeavingFreesTunnel ==
    ws # "open" ~>
        \/ handler = "done" /\ c2s \in Over /\ s2c \in Over /\ tclosed
        \/ TargetStopsReading

\* Once both ends are gone the helper closes.  (Either end alone is not
\* enough: the helper tells neither side of the other's end.)
BothEndsFreeHelper ==
    (ws # "open" /\ target \in {"fin", "rst"}) ~> hclosed \/ TargetStopsReading

=============================================================================
