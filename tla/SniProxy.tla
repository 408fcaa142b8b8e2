------------------------------ MODULE SniProxy ------------------------------
(***************************************************************************)
(* One connection of the SNI proxy in working server/main.py:              *)
(* handle_connection with TLSBridge, handle_socks5_handshake and the tasks *)
(* _relay_bridge_to_backend ("up") and _relay_backend_to_bridge ("down").  *)
(* Connections share nothing but the configuration, so one is enough.      *)
(*                                                                         *)
(* Bytes are counted, not named: a stream delivers them in order.  What a  *)
(* client sends before the relay is a choice of the step that reads it.    *)
(***************************************************************************)
EXTENDS Naturals

CONSTANTS
    SetupWait,  \* the limit of one wait before the relay (5 s)
    MaxRounds,  \* reads TLSBridge.do_handshake makes at most (32)
    ReadWait,   \* TLSBridge.read's limit (120 s)
    IdleWait,   \* idle_timeout of the connection (120 s unless configured)
    Modes,      \* the values of proxy_mode the configuration allows
    MaxData     \* bound: chunks of an end's that are on their way at a time

ASSUME WaitsArePos == {SetupWait, MaxRounds, ReadWait, IdleWait} \subseteq Nat \ {0}
ASSUME ModesKnown == Modes \subseteq {"direct", "cover", "websocket_forward", "shape"}
ASSUME BoundIsNat == MaxData \in Nat

VARIABLES
    pc,       \* handle_connection
    mode,     \* proxy_mode
    round,    \* reads do_handshake has made
    left,     \* units left of the handler's wait
    age,      \* units since the connection came, while it is in its set-up
    up,       \* the task that relays to the backend, and units left of its wait
    uleft,
    down,     \* the task that relays to the client, likewise
    dleft,
    failed,   \* a task has raised, which wakes the handler out of gather()
    client,   \* the client: "open", "eof" or "reset"
    sent,     \* chunks it has sent since all had last arrived, those up has not
    cq,       \* read, those whose data, if they complete any, has been written on
    wrote,
    backend,  \* the backend: "none", "open", "eof" or "reset"
    bclosed,  \* backend_writer.close() has been called
    made,     \* chunks it has sent since all had last arrived, those down has not
    bq,       \* read, those the client got
    got,
    cquiet,   \* units since the client's, the backend's last chunk (saturate)
    bquiet,
    silent    \* the ends that have once kept silent for their whole limit

handlerV == <<pc, mode, round, left>>
upV      == <<up, uleft>>
downV    == <<down, dleft>>
clientV  == <<client, sent, cq, wrote>>
backendV == <<backend, bclosed, made, bq, got>>
clocks   == <<age, cquiet, bquiet, silent>>
vars     == <<handlerV, upV, downV, failed, clientV, backendV, clocks>>

Setup == {"header", "body", "handshake"}
Socks == {"greeting", "auth", "request"}

TypeOK ==
    /\ pc \in Setup \cup Socks \cup {"dial", "relay", "done"}
    /\ mode \in Modes \cup {"none"}
    /\ round \in 0..MaxRounds
    /\ left \in 0..SetupWait
    /\ age \in Nat
    /\ {up, down} \subseteq {"none", "read", "write", "done"}
    /\ uleft \in 0..ReadWait /\ dleft \in 0..IdleWait
    /\ failed \in BOOLEAN
    /\ client \in {"open", "eof", "reset"}
    /\ backend \in {"none", "open", "eof", "reset"}
    /\ bclosed \in BOOLEAN
    /\ sent \in 0..MaxData /\ cq \in 0..sent /\ wrote \in 0..sent
    /\ made \in 0..MaxData /\ bq \in 0..made /\ got \in 0..made
    /\ cquiet \in 0..ReadWait /\ bquiet \in 0..IdleWait
    /\ silent \subseteq {"client", "backend"}

Init ==
    /\ pc = "header" /\ mode = "none" /\ round = 0 /\ left = SetupWait /\ age = 0
    /\ up = "none" /\ uleft = 0 /\ down = "none" /\ dleft = 0 /\ failed = FALSE
    /\ client = "open" /\ sent = 0 /\ cq = 0 /\ wrote = 0
    /\ backend = "none" /\ bclosed = FALSE /\ made = 0 /\ bq = 0 /\ got = 0
    /\ cquiet = 0 /\ bquiet = 0 /\ silent = {}

-----------------------------------------------------------------------------
(* The set-up: record header, record body, handshake. *)

setupRest == <<upV, downV, failed, clientV, backendV, cquiet, bquiet, silent>>

Waits(p, n) ==
    /\ pc' = p /\ left' = SetupWait /\ round' = n
    /\ UNCHANGED <<mode, age, setupRest>>

\* The set-up is over: what was counted in it no longer matters.
SetupEnds(p) == pc' = p /\ left' = 0 /\ round' = 0 /\ age' = 0

HandlerCloses == SetupEnds("done") /\ UNCHANGED <<mode, setupRest>>

\* Any way out of the set-up but the right one: not a TLS record, no name in
\* the ClientHello, a handshake that fails, a client that leaves, a refused
\* SOCKS request.  Every one ends in client_writer.close().
SetupFails == pc \in Setup \cup Socks /\ HandlerCloses

SetupTimesOut == pc \in Setup /\ left = 0 /\ HandlerCloses

HeaderArrives == pc = "header" /\ Waits("body", 0)

\* The ClientHello alone never completes a handshake, so a read follows.
BodyArrives == pc = "body" /\ Waits("handshake", 0)

\* Mutant (for SetupIsBounded): a read that does not count as a round.
HandshakeReadsOn == pc = "handshake" /\ Waits("handshake", round)

\* The handshake needs more; the bytes of the last read are not looked at.
HandshakeReads ==
    /\ pc = "handshake"
    /\ IF round + 1 = MaxRounds THEN HandlerCloses ELSE Waits("handshake", round + 1)

\* The handshake completes, and the connection is routed by its name, by the
\* client's network and by the configuration.
HandshakeDone ==
    /\ pc = "handshake" /\ round + 1 < MaxRounds
    /\ mode' \in Modes
    /\ SetupEnds(IF mode' = "shape" THEN "greeting" ELSE "dial")
    /\ UNCHANGED setupRest

\* handle_socks5_handshake, which waits for the client without a limit.  With
\* user name and password offered they are asked for, whatever else is offered.
SocksStep(from, to) ==
    /\ pc = from /\ pc' \in to
    /\ UNCHANGED <<mode, round, left, age, setupRest>>
SocksGreeting == SocksStep("greeting", {"auth", "request"})
SocksAuth     == SocksStep("auth", {"request"})
SocksRequest  == SocksStep("request", {"dial"})

DialFails == pc = "dial" /\ HandlerCloses

DialOk ==
    /\ pc = "dial"
    /\ pc' = "relay" /\ backend' = "open"
    /\ up' = "read" /\ uleft' = ReadWait
    /\ down' = "read" /\ dleft' = IdleWait
    /\ UNCHANGED <<mode, round, left, failed, clientV, bclosed, made, bq, got, clocks>>

-----------------------------------------------------------------------------
(* From the client to the backend. *)

\* Mutant (for NoOrphans): a close that only the normal end reaches.
UpStopsUnclosed(raised) ==
    /\ up' = "done" /\ bclosed' = (bclosed \/ ~raised)
    /\ failed' = (failed \/ raised)
    /\ UNCHANGED <<handlerV, uleft, downV, sent, client, backend, made, bq, got, clocks>>

\* up ends, by an exception it does not catch or otherwise; its finally closes
\* the backend in either case.
UpStops(raised) ==
    /\ up' = "done" /\ bclosed' = TRUE
    /\ failed' = (failed \/ raised)
    /\ UNCHANGED <<handlerV, uleft, downV, sent, client, backend, made, bq, got, clocks>>

\* A read brings application data, or only part of a record.
UpReads ==
    /\ up = "read" /\ cq > 0
    /\ cq' = cq - 1
    /\ \/ up' = "write" /\ UNCHANGED <<uleft, wrote>>
       \/ uleft' = ReadWait /\ wrote' = wrote + 1 /\ UNCHANGED up
    /\ UNCHANGED <<handlerV, downV, failed, client, sent, backendV, clocks>>

\* What it brings is not TLS.
UpBadRecord ==
    /\ up = "read" /\ cq > 0
    /\ cq' = cq - 1
    /\ UpStops(TRUE)
    /\ UNCHANGED wrote

\* The client has ended or been closed, or its connection has failed with an
\* error other than a reset, which is not caught.
ClientOver == client = "reset" \/ (cq = 0 /\ (client = "eof" \/ pc = "done"))

UpReadEnds ==
    /\ up = "read" /\ ClientOver
    /\ \E raised \in BOOLEAN : (raised => client = "reset") /\ UpStops(raised)
    /\ UNCHANGED <<cq, wrote>>

\* Mutant (for RelayEnds): a read without limit.
UpWaits == FALSE

UpTimesOut ==
    /\ up = "read" /\ uleft = 0
    /\ UpStops(FALSE)
    /\ UNCHANGED <<cq, wrote>>

\* A direct connection is TLS, whose transport closes when the backend ends.
BackendLost == backend = "reset" \/ (backend = "eof" /\ mode = "direct")

UpWrites ==
    /\ up = "write" /\ ~BackendLost
    /\ up' = "read" /\ uleft' = ReadWait
    /\ wrote' = wrote + 1
    /\ UNCHANGED <<handlerV, downV, failed, client, sent, cq, backendV, clocks>>

UpWriteFails ==
    /\ up = "write" /\ BackendLost
    /\ \E raised \in BOOLEAN : (raised => backend = "reset") /\ UpStops(raised)
    /\ UNCHANGED <<cq, wrote>>

-----------------------------------------------------------------------------
(* From the backend to the client. *)

downRest == <<handlerV, upV, clientV, backend, bclosed, made, clocks>>

DownStops(raised) ==
    /\ down' = "done"
    /\ failed' = (failed \/ raised)
    /\ UNCHANGED <<dleft, bq, got, downRest>>

DownReads ==
    /\ down = "read" /\ bq > 0 /\ backend # "reset"
    /\ bq' = bq - 1 /\ down' = "write"
    /\ UNCHANGED <<dleft, failed, got, downRest>>

\* Mutant (for LossIsExplained): the end is noticed before the data.
BackendOverAtOnce == backend \in {"eof", "reset"} \/ bclosed

\* What has been received before the end is read first, unless it is a reset.
BackendOver == backend = "reset" \/ (bq = 0 /\ (backend = "eof" \/ bclosed))

DownReadEnds ==
    /\ down = "read" /\ BackendOver
    /\ \E raised \in BOOLEAN : (raised => backend = "reset") /\ DownStops(raised)

DownTimesOut ==
    /\ down = "read" /\ dleft = 0
    /\ DownStops(FALSE)

DownWrites ==
    /\ down = "write" /\ client # "reset"
    /\ down' = "read" /\ dleft' = IdleWait
    /\ got' = IF pc = "done" THEN got ELSE got + 1
    /\ UNCHANGED <<failed, bq, downRest>>

DownWriteFails ==
    /\ down = "write" /\ (client = "reset" \/ pc = "done")
    /\ \E raised \in BOOLEAN : (raised => client = "reset") /\ DownStops(raised)

-----------------------------------------------------------------------------
\* gather() returns when both tasks have ended and raises when one has raised;
\* the handler closes the client and does not wait for the other task.
Gathered == pc = "relay" /\ (failed \/ (up = "done" /\ down = "done"))

RelayEnded == Gathered /\ HandlerCloses

\* An end may send for ever: the count starts anew where all has arrived.
OneMoreOf(n, arrived) ==
    \/ n < MaxData /\ n' = n + 1 /\ UNCHANGED arrived
    \/ MaxData > 0 /\ n = MaxData /\ arrived = n /\ n' = 1 /\ arrived' = 0

ClientSends ==
    /\ pc = "relay" /\ client = "open"
    /\ OneMoreOf(sent, wrote)
    /\ cq' = cq + 1 /\ cquiet' = 0
    /\ UNCHANGED <<handlerV, upV, downV, failed, client, backendV, age, bquiet, silent>>

ClientLeaves ==
    /\ pc = "relay" /\ client = "open"
    /\ client' \in {"eof", "reset"}
    /\ UNCHANGED <<handlerV, upV, downV, failed, sent, cq, wrote, backendV, clocks>>

\* What arrives after backend_writer.close() is lost.
BackendSends ==
    /\ backend = "open"
    /\ OneMoreOf(made, got)
    /\ bq' = (IF bclosed THEN bq ELSE bq + 1) /\ bquiet' = 0
    /\ UNCHANGED <<handlerV, upV, downV, failed, clientV, backend, bclosed, age, cquiet, silent>>

BackendEnds ==
    /\ backend = "open"
    /\ backend' \in {"eof", "reset"}
    /\ UNCHANGED <<handlerV, upV, downV, failed, clientV, bclosed, made, bq, got, clocks>>

\* What happens before time passes: a read whose data is there, an end that is
\* seen, a limit that is reached.
Prompt ==
    \/ pc \in Setup /\ left = 0
    \/ Gathered
    \/ up = "read" /\ (cq > 0 \/ ClientOver \/ uleft = 0)
    \/ down = "read" /\ (bq > 0 \/ BackendOver \/ dleft = 0)

Less(n) == IF n > 0 THEN n - 1 ELSE 0
More(n, limit) == IF pc # "relay" \/ n = limit THEN n ELSE n + 1

Tick ==
    /\ ~Prompt
    /\ left' = Less(left) /\ uleft' = Less(uleft) /\ dleft' = Less(dleft)
    /\ age' = IF pc \in Setup THEN age + 1 ELSE age
    /\ cquiet' = More(cquiet, ReadWait) /\ bquiet' = More(bquiet, IdleWait)
    /\ silent' = silent \cup {e \in {"client", "backend"} :
                     IF e = "client" THEN cquiet' = ReadWait ELSE bquiet' = IdleWait}
    /\ UNCHANGED <<pc, mode, round, up, down, failed, clientV, backendV>>

HandlerStep ==
    \/ SetupFails \/ SetupTimesOut \/ HeaderArrives \/ BodyArrives
    \/ HandshakeReads \/ HandshakeDone
    \/ SocksGreeting \/ SocksAuth \/ SocksRequest
    \/ DialFails \/ DialOk \/ RelayEnded
UpStep ==
    UpReads \/ UpBadRecord \/ UpReadEnds \/ UpTimesOut \/ UpWrites \/ UpWriteFails
DownStep ==
    DownReads \/ DownReadEnds \/ DownTimesOut \/ DownWrites \/ DownWriteFails
Peers == ClientSends \/ ClientLeaves \/ BackendSends \/ BackendEnds

Next == HandlerStep \/ UpStep \/ DownStep \/ Peers \/ Tick

\* The event loop runs what can run, a dial ends (the system limits it), and
\* time passes, between the chunks of an end that keeps sending too.  Nobody has
\* to send, to answer or to read: the two writes that wait for a peer to read
\* have no fairness.
Fairness ==
    /\ WF_vars(SetupTimesOut) /\ WF_vars(DialFails \/ DialOk) /\ WF_vars(RelayEnded)
    /\ WF_vars(UpReads \/ UpBadRecord) /\ WF_vars(UpReadEnds) /\ WF_vars(UpTimesOut)
    /\ WF_vars(UpWriteFails)
    /\ WF_vars(DownReads) /\ WF_vars(DownReadEnds) /\ WF_vars(DownTimesOut)
    /\ WF_vars(DownWriteFails)
    /\ SF_vars(Tick)

Spec == Init /\ [][Next]_vars /\ Fairness

-----------------------------------------------------------------------------
\* However slowly a client sends the parts of its handshake, the server waits
\* no longer for it than one limit for each read it may make: two for the
\* record and MaxRounds for the handshake.  (main.py:870-905, 960-968)
SetupIsBounded == age <= (2 + MaxRounds) * SetupWait

\* A connection that has ended lost data only for a reason: a task that raised,
\* an end that left, or an end that once said nothing for its whole limit.
\* That the event loop takes the steps of two tasks, two peers and the timers
\* in some order is not a reason.  (main.py:537-588, 911-939)
Downloaded == got = made
Uploaded   == wrote = sent
LossIsExplained ==
    pc = "done" /\ ~failed /\ client = "open" /\ silent = {} /\ backend # "reset"
        => Downloaded /\ (Uploaded \/ backend = "eof")

\* A write that never ends is a peer that never reads again.
PeerStopsReading == [](up = "write") \/ [](down = "write")

\* A client that never falls silent.
ClientTalksOn == []<><<ClientSends>>_vars

\* Every relay ends once its client falls silent, even if the backend never does,
\* unless a peer stops reading for good.  A backend that half-closes, or only keeps
\* silent, does not end it: gather() waits for both directions, and each chunk
\* from the client renews the limit of its own; so a client that talks on keeps
\* the connection, with nobody at its other end.  (main.py:915-936, 1113)
RelayEnds == ClientTalksOn \/ ((pc = "relay") ~> (pc = "done" \/ PeerStopsReading))

\* After the handler has ended, also by the exception of one task, the other
\* task ends too and the backend's connection is closed.  (main.py:554-557, 1111)
NoOrphans ==
    (pc = "done") ~> (\/ {up, down} \subseteq {"none", "done"} /\ (backend = "none" \/ bclosed)
                      \/ PeerStopsReading)
=============================================================================
