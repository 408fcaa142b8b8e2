------------------------------ MODULE DnsFront ------------------------------
(***************************************************************************)
(* The DNS front ends of working server/main.py: one DNS-over-TLS           *)
(* connection (handle_dot_connection) or one DNS-over-HTTPS request         *)
(* (doh_handler), with process_dns_query, which both call and which raises  *)
(* for some messages.                                                       *)
(*                                                                          *)
(* A question is what matters of a message: "good"; "response", a message   *)
(* that parses but cannot be responded to; "noquestion"; "malformed"; and   *)
(* "zero", a length of zero (of a DoH request: a parameter that is missing  *)
(* or does not decode).  Whether a name is in the configuration, which may  *)
(* be reloaded at any time, is a choice.                                    *)
(***************************************************************************)
EXTENDS Naturals, Sequences

CONSTANTS
    MaxAsked,  \* bound: questions of a connection
    Cap        \* answers the buffers hold for a client that does not read

ASSUME BoundsArePos == {MaxAsked, Cap} \subseteq Nat \ {0}

Questions == {"good", "response", "noquestion", "malformed", "zero"}

VARIABLES
    front,    \* "dot" or "doh"
    pc,       \* "length", "body", "upstream", "drain", "done"
    inbox,    \* questions that have arrived whole
    half,     \* after them a length has arrived
    asked,    \* every question the client has sent
    replies,  \* every reply: "local", "upstream", "servfail", "badreq", "error"
    unread,   \* replies the client has not read
    gone,     \* the client has closed the connection
    broken    \* why the connection may end with a question open: a set of
              \* "idle" (closed for silence), "huge" (an answer over 65535 bytes)

vars == <<front, pc, inbox, half, asked, replies, unread, gone, broken>>

TypeOK ==
    /\ front \in {"dot", "doh"} /\ pc \in {"length", "body", "upstream", "drain", "done"}
    /\ inbox \in Seq(Questions) /\ asked \in Seq(Questions)
    /\ replies \in Seq({"local", "upstream", "servfail", "badreq", "error"})
    /\ unread \in Nat /\ half \in BOOLEAN /\ gone \in BOOLEAN
    /\ broken \subseteq {"idle", "huge"}

Init ==
    /\ front \in {"dot", "doh"}
    /\ pc = "length" /\ inbox = <<>> /\ half = FALSE
    /\ asked = <<>> /\ replies = <<>> /\ unread = 0 /\ gone = FALSE /\ broken = {}

Rest == <<front, asked, gone>>

Goes(p) == pc' = p /\ UNCHANGED <<replies, unread, Rest>>

\* A reply is written, and drain() waits for the client to make room.
Replies(r) ==
    /\ pc' = "drain" /\ replies' = Append(replies, r) /\ unread' = unread + 1
    /\ UNCHANGED Rest

\* What an exception does: it ends the connection, or is a status 500.
Raises == IF front = "dot" THEN Goes("done") ELSE Replies("error")

\* The handler of process_dns_query parses the message once more to respond to
\* it, and raises if it did not parse or is a response itself.
Servfail(q) == IF q \in {"malformed", "response"} THEN Raises ELSE Replies("servfail")

LengthArrives ==
    /\ pc = "length" /\ (inbox # <<>> \/ half)
    /\ Goes("body") /\ UNCHANGED <<inbox, half, broken>>

\* Only the wait for a length is limited.
IdleTooLong ==
    /\ pc = "length" /\ front = "dot" /\ inbox = <<>> /\ ~half
    /\ Goes("done") /\ broken' = broken \cup {"idle"} /\ UNCHANGED <<inbox, half>>

ClientEnded ==
    /\ pc \in {"length", "body"} /\ gone /\ inbox = <<>>
    /\ Goes("done") /\ UNCHANGED <<inbox, half, broken>>

\* What process_dns_query does of a question up to its await.
Takes(q) == pc = "body" /\ inbox # <<>> /\ Head(inbox) = q /\ inbox' = Tail(inbox)

\* It raises for a message that does not parse or asks nothing, and for a name
\* whose address in the configuration is none.
TakesRaising ==
    /\ \E q \in Questions \ {"zero"} : Takes(q) /\ Servfail(q)
    /\ UNCHANGED <<half, broken>>
TakesEmpty ==
    /\ Takes("zero") /\ (IF front = "dot" THEN Goes("done") ELSE Replies("badreq"))
    /\ UNCHANGED <<half, broken>>
TakesLocal ==
    /\ \E q \in {"good", "response"} : Takes(q) /\ Replies("local")
    /\ UNCHANGED <<half, broken>>
\* The question stays at the head until upstream has answered it.
TakesForward ==
    /\ pc = "body" /\ inbox # <<>> /\ Head(inbox) \in {"good", "response"}
    /\ Goes("upstream") /\ UNCHANGED <<inbox, half, broken>>

UpstreamAnswers ==
    /\ pc = "upstream" /\ inbox' = Tail(inbox)
    /\ Replies("upstream") /\ UNCHANGED <<half, broken>>
\* The length of the answer does not fit in two bytes.
UpstreamAnswersAtLength ==
    /\ pc = "upstream" /\ front = "dot" /\ inbox' = Tail(inbox)
    /\ Goes("done") /\ broken' = broken \cup {"huge"} /\ UNCHANGED half

\* Mutant (for QuestionIsAnswered): an error that is not caught.
UpstreamFailsUncaught ==
    /\ pc = "upstream" /\ inbox' = Tail(inbox)
    /\ Raises /\ UNCHANGED <<half, broken>>

\* An error, a status that is not a success, or no answer within 10 s.
UpstreamFails ==
    /\ pc = "upstream" /\ inbox' = Tail(inbox)
    /\ Servfail(Head(inbox)) /\ UNCHANGED <<half, broken>>

Drains ==
    /\ pc = "drain" /\ unread < Cap /\ ~gone
    /\ Goes(IF front = "dot" THEN "length" ELSE "done") /\ UNCHANGED <<inbox, half, broken>>

\* Mutant (for LeavingEndsIt): a client that has gone does not wake the task.
DrainFailsNever == FALSE /\ UNCHANGED vars

DrainFails == pc = "drain" /\ gone /\ Goes("done") /\ UNCHANGED <<inbox, half, broken>>

clientRest == <<front, pc, replies, broken>>

ClientAsks(q) ==
    /\ ~gone /\ Len(asked) < (IF front = "dot" THEN MaxAsked ELSE 1)
    /\ inbox' = Append(inbox, q) /\ asked' = Append(asked, q) /\ half' = FALSE
    /\ UNCHANGED <<unread, gone, clientRest>>

\* The client sends a length and, for now, no more.
ClientPauses ==
    /\ ~gone /\ ~half /\ Len(asked) < MaxAsked /\ front = "dot" /\ half' = TRUE
    /\ UNCHANGED <<inbox, asked, unread, gone, clientRest>>

ClientReads == unread > 0 /\ unread' = unread - 1 /\ UNCHANGED <<inbox, half, asked, gone, clientRest>>

ClientLeaves == ~gone /\ gone' = TRUE /\ UNCHANGED <<inbox, half, asked, unread, clientRest>>

Handler ==
    \/ LengthArrives \/ IdleTooLong \/ ClientEnded
    \/ TakesRaising \/ TakesEmpty \/ TakesLocal \/ TakesForward
    \/ UpstreamAnswers \/ UpstreamAnswersAtLength \/ UpstreamFails
    \/ Drains \/ DrainFails
Client == (\E q \in Questions : ClientAsks(q)) \/ ClientPauses \/ ClientReads \/ ClientLeaves
Next == Handler \/ Client

\* The event loop, its timers and the limit of the HTTP client.
Spec == Init /\ [][Next]_vars /\ WF_vars(Handler)

-----------------------------------------------------------------------------
(* Properties. *)

\* A question that ends a DNS-over-TLS connection, with all that follow it.
Ends(q) == q \in {"malformed", "response", "zero"}

ClientStopsReading == [](unread >= Cap)

\* Every question is replied to, in its turn, unless its client has gone, does
\* not read, or asked when the connection was about to be closed for silence;
\* or one before it ended the connection.  One bad question so costs a client
\* that pipelines all the good ones behind it, over DNS-over-HTTPS never.
QuestionIsAnswered ==
    \A n \in 1..MaxAsked :
        Len(asked) >= n ~>
            \/ Len(replies) >= n
            \/ gone \/ ClientStopsReading
            \/ front = "dot" /\ (broken # {} \/ \E m \in DOMAIN asked : m <= n /\ Ends(asked[m]))

\* A client that leaves frees its handler, also in the middle of a question or
\* while upstream is being asked.
LeavingEndsIt == gone ~> pc = "done"
=============================================================================
