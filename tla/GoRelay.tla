------------------------------ MODULE GoRelay ------------------------------
(***************************************************************************)
(* The WebSocket relay of dpi-evasion/server.go: handleRelay with wsToTcp, *)
(* tcpToWs and lib/obfuscation.go's FakeFrameScheduler.  A session is the  *)
(* handler goroutine of one request, which becomes the loop wsToTcp; a     *)
(* goroutine running tcpToWs; and the scheduler's goroutine.  All three    *)
(* write to one WebSocket without a lock, and each loop has deadlines of   *)
(* its own.                                                                *)
(*                                                                         *)
(* Time passes in units of WriteLimit's scale (30 s); everything that is   *)
(* neither blocked nor asleep for long happens between two ticks.          *)
(***************************************************************************)
EXTENDS Naturals, Sequences, FiniteSets

CONSTANTS
    Sessions,     \* requests that reach handleRelay past limiter and auth
    Idle,         \* idleTimeout
    WriteLimit,   \* the write deadline tcpToWs sets (30 s)
    FirstLimit,   \* the deadline for the first message (30 s)
    Rotation,     \* rotationTime
    Kinds,        \* what a client sends: "data", "padlike", "noise", "end"
    MaxData,      \* bound: data messages a client sends
    MaxQueue,     \* bound: its messages that wait to be read
    MaxChunks,    \* bound: reads' worth of bytes a backend sends
    ClientReads,  \* TRUE: a write to a connected client never blocks
    BackendReads  \* TRUE: a write to a connected backend never blocks

ASSUME LimitsArePos ==
    {Idle, WriteLimit, FirstLimit} \subseteq Nat \ {0} /\ Rotation \in Nat
ASSUME BoundsAreNat == {MaxData, MaxQueue, MaxChunks} \subseteq Nat
ASSUME KindsKnown == Kinds \subseteq {"data", "padlike", "noise", "end"}
ASSUME PeersKnown == ClientReads \in BOOLEAN /\ BackendReads \in BOOLEAN

VARIABLES
    proc,     \* the process: "up", "stopped" by a signal, or "crashed"
    active,   \* stats.activeConns
    hpc,      \* the handler goroutine
    tpc,      \* the goroutine of tcpToWs
    spc,      \* the scheduler's goroutine
    stopped,  \* the scheduler has been told to stop
    ctx,      \* the context is cancelled
    writing,  \* the goroutines inside ws.WriteMessage; the first is writing
    torn,     \* some of the writes under way have overlapped
    wsErr,    \* the WebSocket's write error, which is final
    rdl,      \* units left of the WebSocket's read deadline
    tdl,      \* units left of the backend's read deadline
    wdl,      \* units left of the WebSocket's write deadline
    lim,      \* the same, as each goroutine's write under way found it
    client,   \* the client: "up" or "gone"
    inq,      \* its messages that the server has not read
    sent,     \* data messages it has sent
    padlike,  \* numbers of those whose last bytes look like padding
    backend,  \* the backend: "up", "eof" or "reset"
    made,     \* chunks the backend has sent
    taken,    \* chunks tcpToWs has read
    got,      \* chunks the client has received
    rcv,      \* numbers of the messages whose data the backend received
    told,     \* FIN has reached the client
    age,      \* units since the relay started (saturates)
    since     \* units since the context was cancelled (a history, saturates)

procVars == <<proc, active>>
pcs      == <<hpc, tpc, spc, stopped, ctx>>
wsVars   == <<writing, torn, wsErr>>
timers   == <<rdl, tdl, wdl, lim, age, since>>
clientV  == <<client, inq, sent, padlike, got, told>>
backendV == <<backend, made, taken, rcv>>
vars     == <<procVars, pcs, wsVars, timers, clientV, backendV>>

Writers == {"h", "t", "s"}
Msg     == [kind : {"data", "padlike", "noise", "end"}, n : Nat]
NoLimit == WriteLimit + 1
AgeCap  == Rotation + Idle + 1

TypeOK ==
    /\ proc \in {"up", "stopped", "crashed"}
    /\ active \in Nat
    /\ hpc \in [Sessions -> {"idle", "first", "dial", "top", "arm", "read",
                             "deliver", "fin", "finw", "done"}]
    /\ tpc \in [Sessions -> {"none", "read", "send", "sending", "done"}]
    /\ spc \in [Sessions -> {"none", "wait", "sending", "done"}]
    /\ stopped \in [Sessions -> BOOLEAN]
    /\ ctx \in [Sessions -> BOOLEAN]
    /\ writing \in [Sessions -> Seq(Writers)]
    /\ torn \in [Sessions -> BOOLEAN]
    /\ wsErr \in [Sessions -> BOOLEAN]
    /\ rdl \in [Sessions -> Nat]
    /\ tdl \in [Sessions -> Nat]
    /\ wdl \in [Sessions -> 0..NoLimit]
    /\ lim \in [Sessions -> [Writers -> 0..NoLimit]]
    /\ client \in [Sessions -> {"up", "gone"}]
    /\ inq \in [Sessions -> Seq(Msg)]
    /\ sent \in [Sessions -> Nat]
    /\ padlike \in [Sessions -> SUBSET Nat]
    /\ backend \in [Sessions -> {"up", "eof", "reset"}]
    /\ made \in [Sessions -> Nat]
    /\ taken \in [Sessions -> Nat]
    /\ got \in [Sessions -> Nat]
    /\ rcv \in [Sessions -> Seq(Nat)]
    /\ told \in [Sessions -> BOOLEAN]
    /\ age \in [Sessions -> 0..AgeCap]
    /\ since \in [Sessions -> 0..(Idle + 1)]

All(v) == [x \in Sessions |-> v]

Init ==
    /\ proc = "up" /\ active = 0
    /\ hpc = All("idle") /\ tpc = All("none") /\ spc = All("none")
    /\ stopped = All(FALSE) /\ ctx = All(FALSE)
    /\ writing = All(<<>>) /\ torn = All(FALSE) /\ wsErr = All(FALSE)
    /\ rdl = All(0) /\ tdl = All(0) /\ wdl = All(NoLimit)
    /\ lim = All([w \in Writers |-> 0])
    /\ age = All(0) /\ since = All(0)
    /\ client = All("up") /\ inq = All(<<>>) /\ sent = All(0)
    /\ padlike = All({})
    /\ got = All(0) /\ told = All(FALSE)
    /\ backend = All("up") /\ made = All(0) /\ taken = All(0) /\ rcv = All(<<>>)

Set(f, x, v) == [f EXCEPT ![x] = v]

\* Where a goroutine is, while the process runs.
AtH(x, p) == proc = "up" /\ hpc[x] = p
AtT(x, p) == proc = "up" /\ tpc[x] = p
AtS(x, p) == proc = "up" /\ spc[x] = p

-----------------------------------------------------------------------------
(* The handler before the relay. *)

\* Past the limiter and the token check: upgrade, count, arm the deadline.
Accept(x) ==
    /\ AtH(x, "idle")
    /\ hpc' = Set(hpc, x, "first")
    /\ active' = active + 1
    /\ rdl' = Set(rdl, x, FirstLimit)
    /\ UNCHANGED <<proc, tpc, spc, stopped, ctx, wsVars, tdl, wdl, lim, age, since,
                   clientV, backendV>>

\* Mutant: the count is taken back only where the handler returns normally.
FinishUncounted(x, how) ==
    /\ hpc' = Set(hpc, x, "done")
    /\ active' = IF how = "panic" THEN active ELSE active - 1
    /\ ctx' = Set(ctx, x, TRUE)
    /\ stopped' = Set(stopped, x, TRUE)

\* The deferred calls, on every way out of the handler, a panic ("how")
\* included: cancel, stop the scheduler, close the backend connection, count
\* down, close the WebSocket.  Both connections are closed iff hpc is "done".
Finish(x, how) ==
    /\ hpc' = Set(hpc, x, "done")
    /\ active' = active - 1
    /\ ctx' = Set(ctx, x, TRUE)
    /\ stopped' = Set(stopped, x, TRUE)

\* No first message in time, or one that is not a NEW_STREAM that parses.
FirstFails(x) ==
    /\ AtH(x, "first")
    /\ Finish(x, "return")
    /\ UNCHANGED <<proc, tpc, spc, wsVars, timers, clientV, backendV>>

FirstOk(x) ==
    /\ AtH(x, "first") /\ client[x] = "up"
    /\ hpc' = Set(hpc, x, "dial")
    /\ UNCHANGED <<procVars, tpc, spc, stopped, ctx, wsVars, timers, clientV,
                   backendV>>

\* The dial fails, or the status OK cannot be sent.
DialFails(x) ==
    /\ AtH(x, "dial")
    /\ Finish(x, "return")
    /\ UNCHANGED <<proc, tpc, spc, wsVars, timers, clientV, backendV>>

\* Connected and told so: the scheduler and tcpToWs start (which arms its own
\* deadline), the WebSocket's deadlines are cleared, and wsToTcp begins.
DialOk(x) ==
    /\ AtH(x, "dial") /\ client[x] = "up"
    /\ hpc' = Set(hpc, x, "top")
    /\ tpc' = Set(tpc, x, "read")
    /\ spc' = Set(spc, x, "wait")
    /\ tdl' = Set(tdl, x, Idle)
    /\ UNCHANGED <<procVars, stopped, ctx, wsVars, rdl, wdl, lim, age, since, clientV,
                   backendV>>

-----------------------------------------------------------------------------
(* Writing to the WebSocket.  The library allows one writer at a time and  *)
(* detects a second one, by chance, either when it starts or when one of   *)
(* them ends: it panics.  Undetected, the second waits for the first, and  *)
(* a frame may be garbled.  A failed write is final for all later ones.    *)

\* A write begins, with the deadline d that is set at that moment.
Begin(x, w, d) ==
    /\ ~wsErr[x]
    /\ writing' = Set(writing, x, Append(writing[x], w))
    /\ torn' = Set(torn, x, torn[x] \/ writing[x] # <<>>)
    /\ lim' = Set(lim, x, Set(lim[x], w, d))

Holds(x, w) == writing[x] # <<>> /\ Head(writing[x]) = w

End(x, w) ==
    /\ writing' = Set(writing, x, SelectSeq(writing[x], LAMBDA v : v # w))
    /\ torn' = Set(torn, x, torn[x] /\ Len(writing[x]) > 1)
    /\ lim' = Set(lim, x, Set(lim[x], w, 0))

\* An earlier failure, the client gone, its own deadline passed, or the
\* WebSocket closed by the handler.
MayFail(x, w) ==
    Holds(x, w) /\ (wsErr[x] \/ client[x] = "gone" \/ lim[x][w] = 0 \/ hpc[x] = "done")

Fails(x, w) ==
    /\ MayFail(x, w)
    /\ wsErr' = Set(wsErr, x, TRUE)
    /\ End(x, w)

Succeeds(x, w) ==
    /\ Holds(x, w)
    /\ ~wsErr[x] /\ client[x] = "up" /\ lim[x][w] > 0 /\ hpc[x] # "done"
    /\ End(x, w)
    /\ UNCHANGED wsErr

\* w wants to write, or is writing; a write that has failed before fails
\* again before the check for a second writer.
MayPanic(x, w) ==
    IF \E i \in DOMAIN writing[x] : writing[x][i] = w THEN torn[x]
    ELSE writing[x] # <<>> /\ ~wsErr[x]

\* In a goroutine other than a handler's, a panic ends the process.
SendCrashes(x) ==
    /\ AtT(x, "send") \/ AtT(x, "sending")
    /\ MayPanic(x, "t")
    /\ proc' = "crashed"
    /\ UNCHANGED <<active, pcs, wsVars, timers, clientV, backendV>>

\* In the handler it is recovered by the HTTP server, after the defers.
HandlerPanics(x) ==
    /\ AtH(x, "fin") \/ AtH(x, "finw")
    /\ MayPanic(x, "h")
    /\ Finish(x, "panic")
    /\ End(x, "h")
    /\ UNCHANGED <<proc, tpc, spc, wsErr, rdl, tdl, wdl, age, since,
                   clientV, backendV>>

-----------------------------------------------------------------------------
(* wsToTcp and what follows it. *)

\* Mutant: the top of the loop does not look at the context.
LoopTopBlind(x) ==
    /\ AtH(x, "top")
    /\ hpc' = Set(hpc, x, "arm")
    /\ UNCHANGED <<procVars, tpc, spc, stopped, ctx, wsVars, timers, clientV, backendV>>

\* The top of the loop: return if cancelled.
LoopTop(x) ==
    /\ AtH(x, "top")
    /\ hpc' = Set(hpc, x, IF ctx[x] THEN "fin" ELSE "arm")
    /\ UNCHANGED <<procVars, tpc, spc, stopped, ctx, wsVars, timers, clientV, backendV>>

\* Then, whatever tcpToWs has done to the context since, arm the deadline and read.
Arm(x) ==
    /\ AtH(x, "arm")
    /\ hpc' = Set(hpc, x, "read")
    /\ rdl' = Set(rdl, x, Idle)
    /\ UNCHANGED <<procVars, tpc, spc, stopped, ctx, wsVars, tdl, wdl, lim, age, since,
                   clientV, backendV>>

\* Mutant: data whose delivery would miss the deadline is dropped.
DropLate(x) ==
    /\ AtH(x, "read") /\ inq[x] # <<>>
    /\ Head(inq[x]).kind \in {"noise", "padlike"} \/ (Head(inq[x]).kind = "data" /\ rdl[x] = 0)
    /\ inq' = Set(inq, x, Tail(inq[x]))
    /\ hpc' = Set(hpc, x, "top")
    /\ UNCHANGED <<procVars, tpc, spc, stopped, ctx, wsVars, timers, client, sent,
                   padlike, got, told, backendV>>

\* Text, and what does not parse as a frame once StripPadding has cut off what
\* looks like padding ("padlike" data never does): back to the top.
ReadNoise(x) ==
    /\ AtH(x, "read") /\ inq[x] # <<>>
    /\ Head(inq[x]).kind \in {"noise", "padlike"}
    /\ inq' = Set(inq, x, Tail(inq[x]))
    /\ hpc' = Set(hpc, x, "top")
    /\ UNCHANGED <<procVars, tpc, spc, stopped, ctx, wsVars, timers, client, sent,
                   padlike, got, told, backendV>>

ReadData(x) ==
    /\ AtH(x, "read") /\ inq[x] # <<>>
    /\ Head(inq[x]).kind = "data"
    /\ hpc' = Set(hpc, x, "deliver")
    /\ UNCHANGED <<procVars, tpc, spc, stopped, ctx, wsVars, rdl, tdl, wdl, lim, age, since,
                   clientV, backendV>>

ReadEnd(x) ==
    /\ AtH(x, "read") /\ inq[x] # <<>>
    /\ Head(inq[x]).kind = "end"
    /\ hpc' = Set(hpc, x, "fin")
    /\ inq' = Set(inq, x, Tail(inq[x]))
    /\ UNCHANGED <<procVars, tpc, spc, stopped, ctx, wsVars, timers, client, sent,
                   padlike, got, told, backendV>>

\* Mutant: the read has no deadline.
ReadNeverTimesOut(x) ==
    /\ AtH(x, "read") /\ inq[x] = <<>> /\ client[x] = "gone"
    /\ hpc' = Set(hpc, x, "fin")
    /\ UNCHANGED <<procVars, tpc, spc, stopped, ctx, wsVars, timers, clientV, backendV>>

\* The read deadline has passed, even if a message has come just since, or
\* the client has closed the WebSocket.
ReadFails(x) ==
    /\ AtH(x, "read")
    /\ rdl[x] = 0 \/ (inq[x] = <<>> /\ client[x] = "gone")
    /\ hpc' = Set(hpc, x, "fin")
    /\ UNCHANGED <<procVars, tpc, spc, stopped, ctx, wsVars, timers, clientV,
                   backendV>>

\* BimodalDelay and tcp.Write, which has no deadline; then rotation, or the top
\* of the loop again.
Deliver(x) ==
    /\ AtH(x, "deliver") /\ backend[x] # "reset"
    /\ rcv' = Set(rcv, x, Append(rcv[x], Head(inq[x]).n))
    /\ inq' = Set(inq, x, Tail(inq[x]))
    /\ hpc' = Set(hpc, x, IF age[x] > Rotation THEN "fin" ELSE "top")
    /\ UNCHANGED <<procVars, tpc, spc, stopped, ctx, wsVars, timers, client, sent,
                   padlike, got, told, backend, made, taken>>

\* The backend has reset the connection, or does now that it had ended it.
DeliverFails(x) ==
    /\ AtH(x, "deliver") /\ backend[x] # "up"
    /\ hpc' = Set(hpc, x, "fin")
    /\ inq' = Set(inq, x, Tail(inq[x]))
    /\ UNCHANGED <<procVars, tpc, spc, stopped, ctx, wsVars, timers, client, sent,
                   padlike, got, told, backendV>>

\* The final FIN, whose error is ignored.
FinRefused(x) ==
    /\ AtH(x, "fin") /\ wsErr[x]
    /\ Finish(x, "return")
    /\ UNCHANGED <<proc, tpc, spc, wsVars, timers, clientV, backendV>>

FinBegins(x) ==
    /\ AtH(x, "fin")
    /\ hpc' = Set(hpc, x, "finw")
    /\ Begin(x, "h", wdl[x])
    /\ UNCHANGED <<procVars, tpc, spc, stopped, ctx, wsErr, rdl, tdl, wdl, age, since,
                   clientV, backendV>>

FinEnds(x) ==
    /\ AtH(x, "finw")
    /\ Finish(x, "return")
    /\ \/ Fails(x, "h") /\ UNCHANGED told
       \/ Succeeds(x, "h") /\ told' = Set(told, x, TRUE)
    /\ UNCHANGED <<proc, tpc, spc, rdl, tdl, wdl, age, since, client, inq, sent,
                   padlike, got, backendV>>

-----------------------------------------------------------------------------
(* tcpToWs. *)

\* The goroutine returns, and its wrapper cancels the context.
TcpEnd(x) ==
    /\ tpc' = Set(tpc, x, "done")
    /\ ctx' = Set(ctx, x, TRUE)

CanReadBackend(x) ==
    \/ hpc[x] = "done" \/ backend[x] # "up" \/ tdl[x] = 0 \/ taken[x] < made[x]

\* Mutant: bytes that come with the end of the stream are not sent.
TcpReadLast(x) ==
    /\ AtT(x, "read") /\ hpc[x] # "done"
    /\ backend[x] # "reset" /\ taken[x] < made[x]
    /\ IF backend[x] = "eof" THEN TcpEnd(x)
       ELSE tpc' = Set(tpc, x, "send") /\ UNCHANGED ctx
    /\ taken' = Set(taken, x, taken[x] + 1)
    /\ UNCHANGED <<procVars, hpc, spc, stopped, wsVars, rdl, tdl, wdl, lim, age, since,
                   clientV, backend, made, rcv>>

TcpRead(x) ==
    /\ AtT(x, "read") /\ hpc[x] # "done"
    /\ backend[x] # "reset" /\ taken[x] < made[x]
    /\ tpc' = Set(tpc, x, "send")
    /\ taken' = Set(taken, x, taken[x] + 1)
    /\ UNCHANGED <<procVars, hpc, spc, stopped, ctx, wsVars, rdl, tdl, wdl, lim, age, since,
                   clientV, backend, made, rcv>>

\* End of stream, reset, deadline, or closed by the handler's defers.
TcpReadFails(x) ==
    /\ AtT(x, "read")
    /\ \/ hpc[x] = "done" \/ backend[x] = "reset"
       \/ tdl[x] = 0 \/ (taken[x] = made[x] /\ backend[x] = "eof")
    /\ TcpEnd(x)
    /\ UNCHANGED <<procVars, hpc, spc, stopped, wsVars, timers, clientV, backendV>>

\* tcpToWs renews the write deadline before each write.
SendRefused(x) ==
    /\ AtT(x, "send") /\ wsErr[x]
    /\ wdl' = Set(wdl, x, WriteLimit)
    /\ TcpEnd(x)
    /\ UNCHANGED <<procVars, hpc, spc, stopped, wsVars, rdl, tdl, lim, age, since,
                   clientV, backendV>>

SendBegins(x) ==
    /\ AtT(x, "send")
    /\ wdl' = Set(wdl, x, WriteLimit)
    /\ tpc' = Set(tpc, x, "sending")
    /\ Begin(x, "t", WriteLimit)
    /\ UNCHANGED <<procVars, hpc, spc, stopped, ctx, wsErr, rdl, tdl, age, since,
                   clientV, backendV>>

SendFails(x) ==
    /\ AtT(x, "sending")
    /\ Fails(x, "t")
    /\ TcpEnd(x)
    /\ UNCHANGED <<procVars, hpc, spc, stopped, rdl, tdl, wdl, age, since, clientV,
                   backendV>>

\* Sent: back to the top of the loop.  The check of the context and the arming of
\* the deadline are one step here: only the handler can cancel in between, and
\* its defers close the connection that is then read.
SendEnds(x) ==
    /\ AtT(x, "sending")
    /\ Succeeds(x, "t")
    /\ got' = Set(got, x, got[x] + 1)
    /\ IF ctx[x] THEN tpc' = Set(tpc, x, "done") /\ UNCHANGED tdl
       ELSE tpc' = Set(tpc, x, "read") /\ tdl' = Set(tdl, x, Idle)
    /\ UNCHANGED <<procVars, hpc, spc, stopped, ctx, rdl, wdl, age, since, client,
                   inq, sent, padlike, told, backendV>>

-----------------------------------------------------------------------------
(* The scheduler of fake frames, which sets no deadline of its own: its    *)
(* write runs under the deadline the last send of tcpToWs left behind.     *)

FakeBegins(x) ==
    /\ AtS(x, "wait") /\ ~stopped[x]
    /\ spc' = Set(spc, x, "sending")
    /\ Begin(x, "s", wdl[x])
    /\ UNCHANGED <<procVars, hpc, tpc, stopped, ctx, wsErr, rdl, tdl, wdl, age, since,
                   clientV, backendV>>

FakeEnds(x) ==
    /\ AtS(x, "sending")
    /\ \/ Fails(x, "s") /\ spc' = Set(spc, x, "done")
       \/ Succeeds(x, "s") /\ spc' = Set(spc, x, "wait")
    /\ UNCHANGED <<procVars, hpc, tpc, stopped, ctx, rdl, tdl, wdl, age, since,
                   clientV, backendV>>

\* Mutant: Stop ends the ticks, but not the loop that waits for them.
FakeStopsOnError(x) ==
    /\ AtS(x, "wait") /\ wsErr[x]
    /\ spc' = Set(spc, x, "done")
    /\ UNCHANGED <<procVars, hpc, tpc, stopped, ctx, wsVars, timers, clientV,
                   backendV>>

\* Told to stop, or a write refused after one that failed.
FakeStops(x) ==
    /\ AtS(x, "wait") /\ (stopped[x] \/ wsErr[x])
    /\ spc' = Set(spc, x, "done")
    /\ UNCHANGED <<procVars, hpc, tpc, stopped, ctx, wsVars, timers, clientV,
                   backendV>>

FakeCrashes(x) ==
    /\ AtS(x, "sending") \/ (AtS(x, "wait") /\ ~stopped[x])
    /\ MayPanic(x, "s")
    /\ proc' = "crashed"
    /\ UNCHANGED <<active, pcs, wsVars, timers, clientV, backendV>>

-----------------------------------------------------------------------------
(* The client, the backend, the operator and time (external). *)

\* The handler has accepted and not returned; the relay has started too.
Running(x) == hpc[x] \notin {"idle", "done"}
Relaying(x) == proc = "up" /\ Running(x) /\ tpc[x] # "none"

ClientSends(x, k) ==
    /\ Relaying(x) /\ client[x] = "up" /\ Len(inq[x]) < MaxQueue
    /\ IF k \in {"data", "padlike"}
       THEN /\ sent[x] < MaxData
            /\ sent' = Set(sent, x, sent[x] + 1)
            /\ padlike' = Set(padlike, x, padlike[x] \cup IF k = "padlike" THEN {sent[x] + 1} ELSE {})
            /\ inq' = Set(inq, x, Append(inq[x], [kind |-> k, n |-> sent[x] + 1]))
       ELSE /\ inq' = Set(inq, x, Append(inq[x], [kind |-> k, n |-> 0]))
            /\ UNCHANGED <<sent, padlike>>
    /\ UNCHANGED <<procVars, pcs, wsVars, timers, client, got, told, backendV>>

ClientLeaves(x) ==
    /\ proc = "up" /\ Running(x) /\ client[x] = "up"
    /\ client' = Set(client, x, "gone")
    /\ UNCHANGED <<procVars, pcs, wsVars, timers, inq, sent, padlike, got, told, backendV>>

BackendSends(x) ==
    /\ Relaying(x) /\ backend[x] = "up" /\ made[x] < MaxChunks
    /\ made' = Set(made, x, made[x] + 1)
    /\ UNCHANGED <<procVars, pcs, wsVars, timers, clientV, backend, taken, rcv>>

BackendEnds(x, how) ==
    /\ Relaying(x) /\ backend[x] = "up"
    /\ backend' = Set(backend, x, how)
    /\ UNCHANGED <<procVars, pcs, wsVars, timers, clientV, made, taken, rcv>>

\* SIGINT or SIGTERM: server.Shutdown makes ListenAndServeTLS return at once,
\* and log.Fatal around it ends the process, without waiting for Shutdown.
Signal ==
    /\ proc = "up"
    /\ proc' = "stopped"
    /\ UNCHANGED <<active, pcs, wsVars, timers, clientV, backendV>>

\* What does not wait for time: anything that is not a blocked read, a sleep,
\* or a write to a peer that may not be reading.
Prompt(x) ==
    \/ hpc[x] \in {"dial", "top", "arm", "fin"}
    \/ hpc[x] = "first" /\ (rdl[x] = 0 \/ client[x] = "gone")
    \/ hpc[x] = "read" /\ (inq[x] # <<>> \/ rdl[x] = 0 \/ client[x] = "gone")
    \/ hpc[x] = "deliver" /\ (BackendReads \/ backend[x] = "reset")
    \/ tpc[x] = "send"
    \/ tpc[x] = "read" /\ CanReadBackend(x)
    \/ writing[x] # <<>> /\ (ClientReads \/ MayFail(x, Head(writing[x])))

Less(n) == IF n > 0 THEN n - 1 ELSE 0

Tick ==
    /\ proc = "up"
    /\ \A x \in Sessions : ~Prompt(x)
    /\ rdl' = [x \in Sessions |-> Less(rdl[x])]
    /\ tdl' = [x \in Sessions |-> Less(tdl[x])]
    /\ wdl' = [x \in Sessions |-> IF wdl[x] = NoLimit THEN NoLimit ELSE Less(wdl[x])]
    /\ lim' = [x \in Sessions |-> [w \in Writers |->
                  IF lim[x][w] = NoLimit THEN NoLimit ELSE Less(lim[x][w])]]
    /\ age' = [x \in Sessions |-> IF tpc[x] = "none" \/ hpc[x] = "done" \/ age[x] = AgeCap
                                  THEN age[x] ELSE age[x] + 1]
    /\ since' = [x \in Sessions |-> IF ~ctx[x] \/ hpc[x] = "done" \/ since[x] > Idle
                                    THEN since[x] ELSE since[x] + 1]
    /\ UNCHANGED <<procVars, pcs, wsVars, clientV, backendV>>

-----------------------------------------------------------------------------
Handler(x) ==
    \/ Accept(x) \/ FirstFails(x) \/ FirstOk(x) \/ DialFails(x) \/ DialOk(x)
    \/ LoopTop(x) \/ Arm(x)
    \/ ReadNoise(x) \/ ReadData(x) \/ ReadEnd(x) \/ ReadFails(x)
    \/ Deliver(x) \/ DeliverFails(x)
    \/ FinRefused(x) \/ FinBegins(x) \/ FinEnds(x) \/ HandlerPanics(x)

TcpToWs(x) ==
    \/ TcpRead(x) \/ TcpReadFails(x)
    \/ SendRefused(x) \/ SendBegins(x) \/ SendFails(x) \/ SendEnds(x) \/ SendCrashes(x)

Scheduler(x) ==
    FakeBegins(x) \/ FakeEnds(x) \/ FakeStops(x) \/ FakeCrashes(x)

Peers(x) ==
    \/ \E k \in Kinds : ClientSends(x, k)
    \/ ClientLeaves(x) \/ BackendSends(x)
    \/ \E how \in {"eof", "reset"} : BackendEnds(x, how)

Next ==
    \/ Signal \/ Tick
    \/ \E x \in Sessions : Handler(x) \/ TcpToWs(x) \/ Scheduler(x) \/ Peers(x)

Spec == Init /\ [][Next]_vars

\* Every goroutine that can run runs, and time passes.  A write to a peer that
\* does not read need not end before its deadline; tcp.Write has none.
Fairness ==
    /\ WF_vars(Tick)
    /\ \A x \in Sessions :
          /\ WF_vars(FirstFails(x) \/ DialFails(x))
          /\ WF_vars(LoopTop(x) \/ Arm(x))
          /\ WF_vars(ReadNoise(x) \/ ReadData(x) \/ ReadEnd(x) \/ ReadFails(x))
          /\ WF_vars(DeliverFails(x) /\ backend[x] = "reset")
          /\ WF_vars(FinRefused(x) \/ FinBegins(x))
          /\ WF_vars(FinEnds(x) /\ (ClientReads \/ MayFail(x, "h")))
          /\ WF_vars(TcpRead(x) \/ TcpReadFails(x))
          /\ WF_vars(SendRefused(x) \/ SendBegins(x))
          /\ WF_vars(SendFails(x) \/ (ClientReads /\ SendEnds(x)))
          /\ WF_vars(FakeEnds(x) /\ (ClientReads \/ MayFail(x, "s")))
          /\ WF_vars(FakeStops(x)) /\ WF_vars(FakeBegins(x))

FairSpec == Spec /\ Fairness

-----------------------------------------------------------------------------
(* Safety. *)

\* A goroutine is among the WebSocket's writers exactly while it is inside
\* its write, so that no write is taken for another one's.
WritersKnown ==
    \A x \in Sessions :
        {writing[x][i] : i \in DOMAIN writing[x]} =
            {w \in Writers : \/ w = "h" /\ hpc[x] = "finw"
                             \/ w = "t" /\ tpc[x] = "sending"
                             \/ w = "s" /\ spc[x] = "sending"}

\* The type invariant, with the table of writers every failure mode rests on.
TypeInv == TypeOK /\ WritersKnown

\* What the process reports as active is the sessions whose handler runs,
\* over every way a handler can end, a recovered panic included.
ActiveIsExact == active = Cardinality({x \in Sessions : Running(x)})

\* A handler that reads from the client of a cancelled session does so for what
\* is left of one idle period since the cancellation, never more: its deadline is
\* armed once more at most, at once (when tcpToWs cancels between the check of the
\* context and the arming), and messages of the client do not renew it.  So the
\* client is told within one idle period of the backend's end.
CancelledWaitIsBounded ==
    \A x \in Sessions : ctx[x] /\ hpc[x] = "read" => since[x] + rdl[x] <= Idle

\* The data a backend received is what the client sent, in order, from the
\* first on, and the only messages left out are those that look padded.
UpstreamInOrder ==
    \A x \in Sessions :
        /\ \A i, j \in DOMAIN rcv[x] : i < j => rcv[x][i] < rcv[x][j]
        /\ \A i \in DOMAIN rcv[x] : \A n \in 1..rcv[x][i] :
              n \in padlike[x] \/ \E j \in 1..i : rcv[x][j] = n

\* When the backend's direction ended first, FIN follows the data: a client
\* that is told FIN has received every chunk that was read for it.
FinIsLast ==
    [][\A x \in Sessions :
          told'[x] /\ ~told[x] /\ ctx[x] => got[x] = taken[x]]_vars

(* Liveness. *)

\* When either direction has ended the session ends, unless the handler is in
\* the middle of a write without a deadline: to its backend, or of a frame
\* begun before tcpToWs had sent anything to a client that does not read.
Unlimited(x) ==
    \/ hpc[x] = "deliver"
    \/ hpc[x] = "finw" /\ lim[x][Head(writing[x])] = NoLimit

EndedSessionCloses ==
    \A x \in Sessions : ctx[x] ~> hpc[x] = "done" \/ Unlimited(x) \/ proc # "up"

\* No goroutine outlives its session for ever.
NoGoroutineLeaks ==
    \A x \in Sessions :
        hpc[x] = "done" ~> proc # "up" \/ (tpc[x] \in {"none", "done"} /\ spc[x] \in {"none", "done"})

=============================================================================
