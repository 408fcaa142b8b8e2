----------------------------- MODULE MuxServer -----------------------------
(***************************************************************************)
(* One multiplexed tunnel session of the server: MuxServerSession in       *)
(* "working server/main.py", with the part of websocket_handler that       *)
(* starts it.  A client sends frames over one WebSocket; the read loop     *)
(* hands NEW_STREAM and DATA to tasks of their own, treats CLOSE and FIN   *)
(* itself, and one relay task per backend connection copies the backend's  *)
(* bytes back.                                                             *)
(*                                                                         *)
(* asyncio runs one task at a time and switches only where a task          *)
(* suspends, so a step here is the code between two suspensions.  The      *)
(* session lock is never held across a suspension and so never contended.  *)
(* A new task starts after every task created before it (the event loop's  *)
(* ready queue is a FIFO), and the read loop may take several frames that  *)
(* are already queued before any of those tasks starts.                    *)
(***************************************************************************)
EXTENDS Naturals, Sequences, FiniteSets

CONSTANTS
    Sids,        \* stream ids a client may use
    Conns,       \* names for the backend connections the session opens
    None,        \* "no writer under this stream id"
    MaxFrames,   \* bound: frames one client sends
    MaxChunks,   \* bound: chunks of one backend that are numbered
    Disciplined, \* TRUE: a client sends only on streams it opened, has not
                 \* ended, and (DATA) whose status OK it has seen
    ReuseIds,    \* TRUE: a client may open a stream id it has used before
    SendRaises,  \* TRUE: a send on a dead WebSocket may raise, not just be lost
    SendsOn,     \* TRUE: a backend may send on after the numbered chunks
    Tails        \* which tails a DATA payload may have: "plain", "padlike"

ASSUME NoneIsNoName == None \notin Conns /\ None \notin Sids
ASSUME BoundsAreNat == MaxFrames \in Nat /\ MaxChunks \in Nat
ASSUME FlagsAreBool == {Disciplined, ReuseIds, SendRaises, SendsOn} \subseteq BOOLEAN
ASSUME TailsKnown == Tails \subseteq {"plain", "padlike"}

VARIABLES
    inbox,     \* frames the client sent that the read loop has not received
    ws,        \* "up", or "gone" once the client has left or the handler ended
    phase,     \* the handler: "first" frame, read "loop", or "done"
    ready,     \* frames whose task is created and has not run yet
    streams,   \* self.streams: stream id -> connection (its writer)
    st,        \* our side of each connection
    csid,      \* the stream id the connection was opened for
    peer,      \* the backend's side of each connection
    made,      \* chunks the backend has sent
    more,      \* the backend has sent beyond those, and it is not read yet
    taken,     \* chunks the relay has read
    relay,     \* the relay task of each connection
    rx,        \* DATA numbers written to the connection, in order
    draining,  \* <<stream, connection>> of the DATA tasks suspended in drain()
    out,       \* frames sent to the client, per stream
    opened,    \* stream ids the client has sent NEW_STREAM for
    ended,     \* stream ids the client has sent CLOSE or FIN for
    nsent,     \* DATA frames the client has sent on each stream
    frames,    \* frames the client has sent
    late       \* connections that completed after the session had ended

net    == <<inbox, ws>>
server == <<phase, ready, streams, draining>>
conn   == <<st, csid, peer, made, more, taken, relay, rx, late>>
client == <<opened, ended, nsent, frames>>
vars   == <<net, server, conn, client, out>>

ConnStates  == {"none", "connecting", "open", "closed", "failed"}
PeerStates  == {"up", "eof", "reset", "oserr"}
RelayStates == {"none", "run", "closing", "done"}
FrameTypes  == {"NEW_STREAM", "DATA", "CLOSE", "FIN", "TEXT", "DISC"}

\* n is the payload: for NEW_STREAM, 1 if it parses as host and port and 0 if
\* not; for DATA, the position of the chunk among those sent on the stream.
Frame == [type : FrameTypes, sid : Sids, n : Nat, tail : {"plain", "padlike"}]
Msg   == [type : {"OK", "ERR", "DATA", "FIN"}, n : Nat]

MkFrame(t, s, k, tl) == [type |-> t, sid |-> s, n |-> k, tail |-> tl]
MkMsg(t, k) == [type |-> t, n |-> k]

TypeOK ==
    /\ inbox \in Seq(Frame)
    /\ ws \in {"up", "gone"}
    /\ phase \in {"first", "loop", "done"}
    /\ ready \in Seq(Frame)
    /\ streams \in [Sids -> Conns \cup {None}]
    /\ st \in [Conns -> ConnStates]
    /\ csid \in [Conns -> Sids \cup {None}]
    /\ peer \in [Conns -> PeerStates]
    /\ made \in [Conns -> Nat]
    /\ more \in [Conns -> BOOLEAN]
    /\ taken \in [Conns -> Nat]
    /\ relay \in [Conns -> RelayStates]
    /\ rx \in [Conns -> Seq(Nat)]
    /\ draining \subseteq Sids \X Conns
    /\ out \in [Sids -> Seq(Msg)]
    /\ opened \subseteq Sids
    /\ ended \subseteq Sids
    /\ nsent \in [Sids -> Nat]
    /\ frames \in Nat
    /\ late \subseteq Conns

Init ==
    /\ inbox = <<>> /\ ws = "up" /\ phase = "first" /\ ready = <<>>
    /\ streams = [s \in Sids |-> None]
    /\ st = [c \in Conns |-> "none"]
    /\ csid = [c \in Conns |-> None]
    /\ peer = [c \in Conns |-> "up"]
    /\ made = [c \in Conns |-> 0] /\ taken = [c \in Conns |-> 0]
    /\ more = [c \in Conns |-> FALSE]
    /\ relay = [c \in Conns |-> "none"]
    /\ rx = [c \in Conns |-> <<>>]
    /\ draining = {}
    /\ out = [s \in Sids |-> <<>>]
    /\ opened = {} /\ ended = {} /\ nsent = [s \in Sids |-> 0] /\ frames = 0
    /\ late = {}

-----------------------------------------------------------------------------
(* The client and the WebSocket (external). *)

ClientSends(f) ==
    /\ ws = "up" /\ frames < MaxFrames
    /\ inbox' = Append(inbox, f)
    /\ frames' = frames + 1
    /\ UNCHANGED <<ws, server, conn, out>>

StatusSeen(s) == \E i \in DOMAIN out[s] : out[s][i].type = "OK"

ClientOpen(s, k) ==
    /\ s \notin opened \/ ReuseIds
    /\ ClientSends(MkFrame("NEW_STREAM", s, k, "plain"))
    /\ opened' = opened \cup {s}
    /\ ended' = ended \ {s}
    /\ UNCHANGED nsent

ClientData(s, tl) ==
    /\ Disciplined => s \in opened \ ended /\ StatusSeen(s)
    /\ ClientSends(MkFrame("DATA", s, nsent[s] + 1, tl))
    /\ nsent' = [nsent EXCEPT ![s] = @ + 1]
    /\ UNCHANGED <<opened, ended>>

ClientEnds(s, t) ==
    /\ Disciplined => s \in opened \ ended
    /\ ClientSends(MkFrame(t, s, 0, "plain"))
    /\ ended' = ended \cup {s}
    /\ UNCHANGED <<opened, nsent>>

\* A text message where the session expects bytes.
ClientText(s) ==
    /\ ~Disciplined
    /\ ClientSends(MkFrame("TEXT", s, 0, "plain"))
    /\ UNCHANGED <<opened, ended, nsent>>

\* The client leaves.  The frames already sent stay queued ahead of the
\* disconnect; sends towards the client are lost from here on.
ClientLeaves(s) ==
    /\ ws = "up"
    /\ ws' = "gone"
    /\ inbox' = Append(inbox, MkFrame("DISC", s, 0, "plain"))
    /\ UNCHANGED <<server, conn, client, out>>

\* WebSocket.send_bytes as _send_frame sees it: on a dead WebSocket the frame
\* is lost, and the library raises WebSocketDisconnect (swallowed, so that the
\* caller goes on) or, on a later call, RuntimeError (not swallowed).
Raises == IF ws = "gone" /\ SendRaises THEN BOOLEAN ELSE {FALSE}

Sent(s, m) == IF ws = "up" THEN [out EXCEPT ![s] = Append(@, m)] ELSE out

-----------------------------------------------------------------------------
(* The stream table. *)

\* Mutant: the pop without the close.
PopOnly(s) ==
    /\ streams' = [streams EXCEPT ![s] = None]
    /\ UNCHANGED st

\* _handle_close: pop the stream id, close the writer found under it.
HandleClose(s) ==
    /\ streams' = [streams EXCEPT ![s] = None]
    /\ st' = [c \in Conns |-> IF c = streams[s] THEN "closed" ELSE st[c]]

\* _cleanup_all.
CleanupAll ==
    /\ st' = [c \in Conns |-> IF \E s \in Sids : streams[s] = c
                              THEN "closed" ELSE st[c]]
    /\ streams' = [s \in Sids |-> None]

\* _cleanup_all runs in the finally of the read loop; the handler then returns
\* and the WebSocket is closed.
EndSession ==
    /\ CleanupAll
    /\ phase' = "done"
    /\ ws' = "gone"

(* The handler: the first message, then the read loop. *)

\* The first message selects the multiplexed protocol by its first byte, and
\* is then taken for a NEW_STREAM whatever its type.  What the payload of a
\* DATA frame parses as is arbitrary; CLOSE and FIN have none.
FirstFrame ==
    /\ phase = "first" /\ inbox # <<>>
    /\ Head(inbox).type \in {"NEW_STREAM", "DATA", "CLOSE", "FIN"}
    /\ inbox' = Tail(inbox)
    /\ phase' = "loop"
    /\ LET f == Head(inbox)
           parses == IF f.type = "NEW_STREAM" THEN {f.n}
                     ELSE IF f.type = "DATA" THEN {0, 1} ELSE {0}
       IN  \/ \E k \in parses :
                ready' = Append(ready, MkFrame("NEW_STREAM", f.sid, k, "plain"))
           \/ f.tail = "padlike" /\ UNCHANGED ready
    /\ UNCHANGED <<ws, streams, draining, conn, client, out>>

\* No first message in 30 s, a disconnect, or text: this handler never starts
\* a multiplexed session.
NoSession ==
    /\ phase = "first"
    /\ inbox # <<>> => Head(inbox).type \in {"DISC", "TEXT"}
    /\ phase' = "done" /\ ws' = "gone"
    /\ UNCHANGED <<inbox, ready, streams, draining, conn, client, out>>

\* NEW_STREAM and DATA only create a task.
ReadSpawn ==
    /\ phase = "loop" /\ inbox # <<>>
    /\ Head(inbox).type \in {"NEW_STREAM", "DATA"}
    /\ inbox' = Tail(inbox)
    /\ ready' = Append(ready, Head(inbox))
    /\ UNCHANGED <<ws, phase, streams, draining, conn, client, out>>

\* A payload whose last four bytes read as a padding size: _strip_padding
\* cuts into the frame, and if the header goes too the frame is skipped.
ReadSkip ==
    /\ phase = "loop" /\ inbox # <<>>
    /\ Head(inbox).tail = "padlike"
    /\ inbox' = Tail(inbox)
    /\ UNCHANGED <<ws, server, conn, client, out>>

ReadClose ==
    /\ phase = "loop" /\ inbox # <<>>
    /\ Head(inbox).type = "CLOSE"
    /\ inbox' = Tail(inbox)
    /\ HandleClose(Head(inbox).sid)
    /\ UNCHANGED <<ws, phase, ready, draining, csid, peer, made, more, taken, relay,
                   rx, late, client, out>>

\* _handle_fin: close and pop the writer if there is one, answer FIN always.
\* The lookup, the close and the pop are one step: nothing suspends between.
ReadFin ==
    /\ phase = "loop" /\ inbox # <<>>
    /\ Head(inbox).type = "FIN"
    /\ HandleClose(Head(inbox).sid)
    /\ FALSE \in Raises
    /\ inbox' = Tail(inbox)
    /\ out' = Sent(Head(inbox).sid, MkMsg("FIN", 0))
    /\ UNCHANGED <<ws, phase, ready, draining, csid, peer, made, more, taken, relay,
                   rx, late, client>>

\* The disconnect, a text message (receive_bytes fails on it), or the answer
\* to a FIN that raises: the loop's finally cleans up.
ReadEnds ==
    /\ phase = "loop" /\ inbox # <<>>
    /\ \/ Head(inbox).type \in {"DISC", "TEXT"}
       \/ Head(inbox).type = "FIN" /\ TRUE \in Raises
    /\ inbox' = Tail(inbox)
    /\ EndSession
    /\ UNCHANGED <<ready, draining, csid, peer, made, more, taken, relay, rx, late,
                   client, out>>

-----------------------------------------------------------------------------
(* The tasks.  Only the oldest task that has not run yet may start. *)

Connecting(sid, c) ==
    /\ st' = [st EXCEPT ![c] = "connecting"]
    /\ csid' = [csid EXCEPT ![c] = sid]

\* Mutant: the status is sent before the connection is up.
StartNewEarlyOk ==
    /\ ready # <<>> /\ Head(ready).type = "NEW_STREAM" /\ Head(ready).n # 0
    /\ ready' = Tail(ready)
    /\ out' = Sent(Head(ready).sid, MkMsg("OK", 0))
    /\ \E c \in Conns : st[c] = "none" /\ Connecting(Head(ready).sid, c)
    /\ UNCHANGED <<net, phase, streams, draining, peer, made, more, taken, relay, rx,
                   late, client>>

\* _handle_new_stream up to open_connection, or to the ERR status.
StartNew ==
    /\ ready # <<>> /\ Head(ready).type = "NEW_STREAM"
    /\ ready' = Tail(ready)
    /\ LET f == Head(ready)
       IN  \/ /\ f.n = 0
              /\ out' = Sent(f.sid, MkMsg("ERR", 0))
              /\ UNCHANGED <<st, csid>>
           \/ /\ f.n # 0
              /\ \E c \in Conns : st[c] = "none" /\ Connecting(f.sid, c)
              /\ UNCHANGED out
    /\ UNCHANGED <<net, phase, streams, draining, peer, made, more, taken, relay, rx,
                   late, client>>

Register(c) == streams' = [streams EXCEPT ![csid[c]] = c]

\* If the status raises, the relay is never created.
StartRelay(c) ==
    \E r \in Raises : relay' = [relay EXCEPT ![c] = IF r THEN "none" ELSE "run"]

\* The connection is up: the writer goes into the table, whatever has become
\* of the stream or of the session meanwhile; then the status, then the relay.
ConnectOk(c) ==
    /\ st[c] = "connecting"
    /\ st' = [st EXCEPT ![c] = "open"]
    /\ Register(c)
    /\ out' = Sent(csid[c], MkMsg("OK", 0))
    /\ StartRelay(c)
    /\ late' = IF phase = "done" THEN late \cup {c} ELSE late
    /\ UNCHANGED <<net, phase, ready, draining, csid, peer, made, more, taken, rx,
                   client>>

\* Mutant: a refused connection is only logged.
ConnectFailsSilently(c) ==
    /\ st[c] = "connecting"
    /\ st' = [st EXCEPT ![c] = "failed"]
    /\ UNCHANGED <<net, server, csid, peer, made, more, taken, relay, rx, late, client, out>>

\* Mutant: the writer is filed although there is none.
ConnectFailsFiled(c) ==
    /\ st[c] = "connecting"
    /\ st' = [st EXCEPT ![c] = "failed"]
    /\ Register(c)
    /\ out' = Sent(csid[c], MkMsg("ERR", 0))
    /\ UNCHANGED <<net, phase, ready, draining, csid, peer, made, more, taken, relay, rx, late, client>>

ConnectFails(c) ==
    /\ st[c] = "connecting"
    /\ st' = [st EXCEPT ![c] = "failed"]
    /\ out' = Sent(csid[c], MkMsg("ERR", 0))
    /\ UNCHANGED <<net, server, csid, peer, made, more, taken, relay, rx, late, client>>

Lost(c) == peer[c] \in {"reset", "oserr"}

\* _handle_data: a frame for a stream without a writer is dropped.  The write
\* is done at once; the task may then be suspended in drain().
StartData ==
    /\ ready # <<>> /\ Head(ready).type = "DATA"
    /\ ready' = Tail(ready)
    /\ LET f == Head(ready)
           c == streams[f.sid]
       IN  \/ c = None /\ UNCHANGED <<rx, draining>>
           \/ /\ c # None
              /\ rx' = IF Lost(c) THEN rx ELSE [rx EXCEPT ![c] = Append(@, f.n)]
              /\ \/ ~Lost(c) /\ UNCHANGED draining
                 \/ draining' = draining \cup {<<f.sid, c>>}
    /\ UNCHANGED <<net, phase, streams, st, csid, peer, made, more, taken, relay,
                   late, client, out>>

DrainOk(s, c) ==
    /\ <<s, c>> \in draining /\ ~Lost(c)
    /\ draining' = draining \ {<<s, c>>}
    /\ UNCHANGED <<net, phase, ready, streams, conn, client, out>>

\* drain() raises: the stream id is closed, whatever writer it now names.
DrainFails(s, c) ==
    /\ <<s, c>> \in draining /\ (Lost(c) \/ st[c] = "closed")
    /\ draining' = draining \ {<<s, c>>}
    /\ HandleClose(s)
    /\ UNCHANGED <<net, phase, ready, csid, peer, made, more, taken, relay, rx, late,
                   client, out>>

-----------------------------------------------------------------------------
(* The backend (external) and the relay task. *)

BackendSends(c) ==
    /\ st[c] = "open" /\ peer[c] = "up" /\ made[c] < MaxChunks
    /\ made' = [made EXCEPT ![c] = @ + 1]
    /\ UNCHANGED <<net, server, st, csid, peer, more, taken, relay, rx, late, client, out>>

\* It sends on after the numbered chunks, as often as it likes.
BackendSendsOn(c) ==
    /\ SendsOn /\ st[c] = "open" /\ peer[c] = "up" /\ made[c] = MaxChunks /\ ~more[c]
    /\ more' = [more EXCEPT ![c] = TRUE]
    /\ UNCHANGED <<net, server, st, csid, peer, made, taken, relay, rx, late, client, out>>

\* The backend ends its side, resets, or the network fails in another way.
BackendEnds(c, how) ==
    /\ st[c] = "open" /\ peer[c] = "up"
    /\ peer' = [peer EXCEPT ![c] = how]
    /\ UNCHANGED <<net, server, st, csid, made, more, taken, relay, rx, late, client, out>>

RelayData(c) ==
    /\ relay[c] = "run" /\ ~Lost(c) /\ taken[c] < made[c]
    /\ taken' = [taken EXCEPT ![c] = @ + 1]
    /\ out' = Sent(csid[c], MkMsg("DATA", taken[c] + 1))
    /\ \E r \in Raises : relay' = [relay EXCEPT ![c] = IF r THEN "closing" ELSE "run"]
    /\ UNCHANGED <<net, server, st, csid, peer, made, more, rx, late, client>>

\* The same for what comes after the numbered chunks, which out does not record.
RelaySendsOn(c) ==
    /\ relay[c] = "run" /\ ~Lost(c) /\ taken[c] = made[c] /\ more[c]
    /\ more' = [more EXCEPT ![c] = FALSE]
    /\ \E r \in Raises : relay' = [relay EXCEPT ![c] = IF r THEN "closing" ELSE "run"]
    /\ UNCHANGED <<net, server, st, csid, peer, made, taken, rx, late, client, out>>

AllRead(c) == taken[c] = made[c] /\ ~more[c]

\* Mutant: the read has no idle timeout.
RelayFinNoTimeout(c) ==
    /\ relay[c] = "run"
    /\ peer[c] = "reset" \/ (AllRead(c) /\ (peer[c] = "eof" \/ st[c] = "closed"))
    /\ relay' = [relay EXCEPT ![c] = "closing"]
    /\ out' = Sent(csid[c], MkMsg("FIN", 0))
    /\ UNCHANGED <<net, server, st, csid, peer, made, more, taken, rx, late, client>>

\* Mutant: no FIN after a reset.
RelayFinUnlessReset(c) ==
    /\ relay[c] = "run"
    /\ peer[c] = "reset" \/ (peer[c] # "oserr" /\ AllRead(c))
    /\ relay' = [relay EXCEPT ![c] = "closing"]
    /\ out' = IF peer[c] = "reset" THEN out ELSE Sent(csid[c], MkMsg("FIN", 0))
    /\ UNCHANGED <<net, server, st, csid, peer, made, more, taken, rx, late, client>>

\* End of the backend's bytes, or nothing for idle_timeout_seconds, or a
\* reset (which discards what was buffered): FIN, then the finally.
RelayFin(c) ==
    /\ relay[c] = "run"
    /\ peer[c] = "reset" \/ (peer[c] # "oserr" /\ AllRead(c))
    /\ relay' = [relay EXCEPT ![c] = "closing"]
    /\ out' = Sent(csid[c], MkMsg("FIN", 0))
    /\ UNCHANGED <<net, server, st, csid, peer, made, more, taken, rx, late, client>>

\* Any other OSError is not caught: no FIN.
RelayDies(c) ==
    /\ relay[c] = "run" /\ peer[c] = "oserr"
    /\ relay' = [relay EXCEPT ![c] = "closing"]
    /\ UNCHANGED <<net, server, st, csid, peer, made, more, taken, rx, late, client, out>>

RelayCloses(c) ==
    /\ relay[c] = "closing"
    /\ relay' = [relay EXCEPT ![c] = "done"]
    /\ HandleClose(csid[c])
    /\ UNCHANGED <<net, phase, ready, draining, csid, peer, made, more, taken, rx,
                   late, client, out>>

-----------------------------------------------------------------------------
Client ==
    \/ \E s \in Sids :
          \/ \E k \in {0, 1} : ClientOpen(s, k)
          \/ \E tl \in Tails : ClientData(s, tl)
          \/ \E t \in {"CLOSE", "FIN"} : ClientEnds(s, t)
          \/ ClientText(s)
          \/ ClientLeaves(s)

ReadLoop == ReadSpawn \/ ReadSkip \/ ReadClose \/ ReadFin \/ ReadEnds
Handler  == FirstFrame \/ NoSession \/ ReadLoop
Tasks    == StartNew \/ StartData
Connect(c) == ConnectOk(c) \/ ConnectFails(c)
Drain(s, c) == DrainOk(s, c) \/ DrainFails(s, c)
Backend(c) ==
    \/ BackendSends(c) \/ BackendSendsOn(c)
    \/ \E how \in {"eof", "reset", "oserr"} : BackendEnds(c, how)
Relay(c) == RelayData(c) \/ RelaySendsOn(c) \/ RelayFin(c) \/ RelayDies(c) \/ RelayCloses(c)

Next ==
    \/ Client
    \/ Handler
    \/ Tasks
    \/ \E c \in Conns : Connect(c) \/ Backend(c) \/ Relay(c)
    \/ \E s \in Sids, c \in Conns : Drain(s, c)

Spec == Init /\ [][Next]_vars

\* The event loop runs every task that can run; a connect ends, with success
\* or not; the relay's idle timer fires; the handler's 30 s timer fires.
\* Neither the client nor a backend has to do anything: a backend that does
\* not read may keep a task suspended in drain() for ever.
Fairness ==
    /\ WF_vars(Handler)
    /\ WF_vars(Tasks)
    /\ \A c \in Conns : WF_vars(Connect(c)) /\ WF_vars(Relay(c))

FairSpec == Spec /\ Fairness

-----------------------------------------------------------------------------
(* Safety. *)

\* A connection has a stream id from its creation on, and a relay and a place
\* in the table only once it has been up.
ConnNamed ==
    /\ \A c \in Conns :
          /\ csid[c] = None <=> st[c] = "none"
          /\ relay[c] # "none" => st[c] \in {"open", "closed"}
    /\ \A s \in Sids : streams[s] # None => st[streams[s]] \in {"open", "closed"}

\* The type invariant, with what it takes to be inductive.
TypeInv == TypeOK /\ ConnNamed

\* With fresh stream ids the table holds exactly the connections this side has
\* not closed: none is open and unreachable (leaked), none is closed and still
\* written to.  It spans every place that opens, pops or clears.
TableIsExact ==
    \A c \in Conns : st[c] = "open" <=> \E s \in Sids : streams[s] = c

\* Why fresh ids suffice: a NEW_STREAM for an id is in one queue once, or has
\* become the one connection named by it, never both.  (The inductive
\* invariant behind TableIsExact, for disciplined clients and fresh ids.)
IsNew(f) == f.type = "NEW_STREAM"

NewOnce(q) == \A i, j \in DOMAIN q :
    IsNew(q[i]) /\ IsNew(q[j]) /\ q[i].sid = q[j].sid => i = j

NewUnused(q) == \A i \in DOMAIN q :
    IsNew(q[i]) => q[i].sid \in opened /\ \A c \in Conns : csid[c] # q[i].sid

OneOpenPerId ==
    /\ NewOnce(inbox) /\ NewUnused(inbox)
    /\ NewOnce(ready) /\ NewUnused(ready)
    /\ \A i \in DOMAIN inbox, j \in DOMAIN ready :
          IsNew(inbox[i]) /\ IsNew(ready[j]) => inbox[i].sid # ready[j].sid
    /\ \A c \in Conns : csid[c] \in opened \cup {None}
    /\ \A c, d \in Conns : csid[c] = csid[d] /\ csid[c] # None => c = d

FirstIsNew ==
    phase = "first" =>
        /\ ready = <<>>
        /\ \A c \in Conns : csid[c] = None
        /\ \A s \in Sids : out[s] = <<>>
        /\ IF inbox = <<>> THEN opened = {}
           ELSE Head(inbox).type \in {"NEW_STREAM", "DISC"}

TableMatches ==
    /\ \A s \in Sids : streams[s] # None =>
          st[streams[s]] = "open" /\ csid[streams[s]] = s
    /\ \A c \in Conns : st[c] = "open" => streams[csid[c]] = c

FreshInv == OneOpenPerId /\ FirstIsNew /\ TableMatches

\* The chunks among the first k messages of q.
Numbers(q, k) == {q[i].n : i \in {j \in 1..k : q[j].type = "DATA"}}

WellFormed(q) ==
    /\ \A i, j \in DOMAIN q :
          {q[i].type, q[j].type} \subseteq {"OK", "ERR"} => i = j
    /\ \A i \in DOMAIN q : q[i].type = "DATA" =>
          /\ \E j \in 1..(i - 1) : q[j].type = "OK"
          /\ q[i].n # 0 /\ Numbers(q, i - 1) = 1..(q[i].n - 1)

\* What a client sees of a stream it opened once: at most one status, DATA
\* only after OK and after no ERR, and the chunks of the backend in order
\* without a gap.
StreamWellFormed == \A s \in Sids : WellFormed(out[s])

(* Action properties. *)

\* A DATA frame that a disciplined client sends after the OK is dropped, by the
\* read loop or by the frame's own task, only because the stream is over (the
\* client ended it, its relay has ended or is ending, its backend connection was
\* lost, or the session is over) or, by the read loop, because the payload looks
\* padded and the cut takes the header.  (If the header survives the cut, the
\* frame goes on without the end of its payload: this is about whole frames.)
Over(s) ==
    \/ s \in ended \/ phase = "done"
    \/ \E c \in Conns : csid[c] = s /\ (relay[c] \in {"closing", "done"} \/ Lost(c))

DroppedByTask ==
    ready # <<>> /\ ready' = Tail(ready) /\ Head(ready).type = "DATA" /\ rx' = rx

DroppedByLoop ==
    inbox # <<>> /\ inbox' = Tail(inbox) /\ Head(inbox).type = "DATA" /\ ready' = ready

DataLossIsExplained ==
    [][/\ DroppedByTask => Over(Head(ready).sid)
       /\ DroppedByLoop => Over(Head(inbox).sid) \/ Head(inbox).tail = "padlike"]_vars

(* Liveness. *)

Answered(s) == \E i \in DOMAIN out[s] : out[s][i].type \in {"OK", "ERR"}

\* Every NEW_STREAM is answered, unless the WebSocket goes first.
OpenIsAnswered == \A s \in Sids : s \in opened ~> Answered(s) \/ ws = "gone"

\* What nobody will ever close: a connection that completes after the cleanup,
\* whose status then raises, so that it has neither a relay nor a session.
Leaked(c) == c \in late /\ relay[c] = "none"

\* A backend that never falls silent.
TalksOn(c) == []<><<BackendSendsOn(c)>>_vars

EndQueued(c) ==
    \E i \in DOMAIN inbox : inbox[i].type \in {"CLOSE", "FIN"} /\ inbox[i].sid = csid[c]

\* A stream the client ends gives its backend connection up.  If the connection
\* is in the table while the client's CLOSE or FIN is under way, it does so
\* whatever the backend sends.  If the connection completes only after the CLOSE
\* was handled, it is filed all the same and closed by its relay's end or idle
\* timeout; so a backend that talks on keeps it, as does one that leaks.
EndedStreamCloses ==
    \A c \in Conns :
       /\ (/\ phase = "loop" /\ st[c] = "open"
           /\ streams[csid[c]] = c /\ EndQueued(c)) ~> st[c] = "closed"
       /\ \/ TalksOn(c)
          \/ (st[c] = "open" /\ csid[c] \in ended) ~> (st[c] = "closed" \/ Leaked(c))

\* After the session every backend connection is closed in the end, late ones
\* by their own relay's failing send, end or idle timeout.  Those that leak are
\* not, nor is a late one whose backend talks on to a WebSocket that loses every
\* send without an error.
SessionFreesAll ==
    \A c \in Conns :
       \/ TalksOn(c)
       \/ phase = "done" ~> (st[c] # "open" \/ Leaked(c))

\* The end of a backend's stream, an EOF or a reset, is told to the client, also
\* over a failed drain or a CLOSE in between.  (An error of another kind, which
\* the relay does not catch, is not told.)
Told(c) == \E s \in Sids : s = csid[c] /\ \E i \in DOMAIN out[s] : out[s][i].type = "FIN"

BackendEndIsTold ==
    \A c \in Conns : peer[c] \in {"eof", "reset"} ~> Told(c) \/ ws = "gone"

=============================================================================
