------------------------------ MODULE DpiProbe ------------------------------
(***************************************************************************)
(* dpi-lab (dpi_probe.py): a run of its modes against one network, from the *)
(* probes to the diagnosis.  A raw probe, which brings its own TCP, goes    *)
(* step by step between the network, the server and the kernel of its own   *)
(* host; a kernel probe is one step, and what it finds follows from what    *)
(* the network filters.  No mode catches what a probe raises: the run ends   *)
(* with it, unreported.  At stake is whether a diagnosis says what the       *)
(* network does, and what may keep a run from it.                           *)
(***************************************************************************)
EXTENDS Integers, Sequences, FiniteSets, SequencesExt

CONSTANTS
    Situations, \* records [modes, ctrl, net]: what a run may be given and meet
    Repeats,    \* --repeats
    MaxLost     \* bound: answers lost or late, and errors that a probe reports

ASSUME BoundsOk == Repeats \in Nat \ {0} /\ MaxLost \in Nat

VARIABLES
    modes,    \* the modes asked for
    ctrl,     \* --control names a host (it may be empty)
    net,      \* what the network, the server and this host do
    todo,     \* the modes still to run
    progress, \* "running", or how the run ended: "over", "raised" in a probe,
              \* "crashed" in the diagnosis; or "spins", for ever
    lost,     \* answers lost so far
    results,  \* probe |-> the kind or label found
    trusted,  \* raw_trusted
    named,    \* the vectors that the diagnosis names
    asks,     \* DNS queries made
    ref,      \* the reference answer, once there is one
    seen,     \* DNS server and transport |-> answer
    tries,    \* labels of the raw probes of one plan
    rp,       \* a raw probe: "idle", "syn", "send" or "listen"
    left,     \* segments it has still to send
    packets,  \* those on their way to it
    out,      \* what it has heard: a subset of {"data", "rst", "injected"}
    conn,     \* the server's side: "open", "gone", or "cut" by the network
    spilled   \* the server got bytes that are not of the hello

runV == <<modes, ctrl, net>>
dnsV == <<asks, ref, seen>>
rawV == <<tries, rp, left, packets, out, conn, spilled>>
DPvars == <<runV, todo, progress, lost, results, trusted, named, dnsV, rawV>>

-----------------------------------------------------------------------------
(* Hellos, and what becomes of them. *)

Hello(sni, shape) == [sni |-> sni, shape |-> shape]

\* The variants that the diagnosis reads, in their order.
Variants == <<"target", "control", "nosni", "echcover", "echtarget", "tls12">>

\* The hello of a variant, or of a plan of the raw probes.
HelloOf(name) ==
    CASE name \in {"target", "single", "split"} -> Hello("target", "plain")
      [] name \in {"control", "rawcontrol"}     -> Hello("control", "plain")
      [] name \in {"nosni", "rawnosni"}         -> Hello("none", "plain")
      [] name = "echcover"                      -> Hello("control", "ech")
      [] name = "echtarget"                     -> Hello("target", "ech")
      [] name = "tls12"                         -> Hello("target", "old")

Caught(h) ==
    CASE net.policy = "none"     -> FALSE
      [] net.policy = "value"    -> h.sni = "target"
      [] net.policy = "presence" -> h.sni # "none"
      [] net.policy = "hello"    -> h.shape = "plain"
      [] net.policy = "all"      -> TRUE

\* kernel_tls_probe.  It reads on after an alert: if the server then keeps the
\* connection open, the alert is forgotten.
Kernel(name) ==
    IF net.server = "refuses" THEN "rst"
    ELSE IF Caught(HelloOf(name)) THEN (IF net.resets THEN "rst" ELSE "timeout")
    ELSE CASE net.server = "hello"   -> "serverhello"
           [] net.server = "alert"   -> "alert"
           [] net.server = "lingers" -> "timeout"
           [] OTHER                  -> "close"

\* kernel_http_probe, to which silence is the same as a close.
Http(host) ==
    IF net.http \notin {host, "all"} THEN "http" ELSE IF net.resets THEN "rst" ELSE "close"

Verdict(name) ==
    LET kind == IF name \in DOMAIN results THEN results[name] ELSE "none"
    IN  CASE kind \in {"serverhello", "alert"} -> "ok"
          [] kind \in {"rst", "timeout"}       -> "blocked"
          [] OTHER                             -> "unknown"

-----------------------------------------------------------------------------
Order == <<"baseline", "dns", "tls", "http", "frag", "diagnose">>

Networks ==
    [policy : {"none", "value", "presence", "hello", "all"}, resets : BOOLEAN,
     server : {"hello", "alert", "lingers", "closes", "refuses"},
     http : {"none", "host", "other", "ip", "all"},
     options : {"fine", "cut", "zero"}, \* those of a SYN-ACK; one has length zero
     assembles : BOOLEAN, mangles : BOOLEAN, own : BOOLEAN, alias : BOOLEAN,
     early : BOOLEAN] \* a DNS server closes before all of its answer is sent

ASSUME SituationsOk ==
    Situations \subseteq [modes : SUBSET ToSet(Order), ctrl : BOOLEAN, net : Networks]

Labels == SUBSET {"data", "rst", "injected", "timeout"}

DPTypeOK ==
    /\ todo \subseteq modes /\ progress \in {"running", "spins", "raised", "crashed", "over"}
    /\ lost \in 0..MaxLost /\ trusted \in BOOLEAN
    /\ named \subseteq {"value", "presence", "broad", "fingerprint", "http-host", "http-ip",
                        "dns", "camouflage"}
    /\ asks \in 0..4 /\ ref \in {"unset", "a", "b", "empty"}
    /\ tries \in Seq(Labels) /\ Len(tries) <= Repeats
    /\ rp \in {"idle", "syn", "send", "listen"} /\ left \in 0..2
    /\ packets \in Seq({"synack", "data", "rst", "injected"}) /\ out \in Labels
    /\ conn \in {"open", "gone", "cut"} /\ spilled \in BOOLEAN

DPInit ==
    /\ \E s \in Situations : modes = s.modes /\ ctrl = s.ctrl /\ net = s.net
    /\ todo = modes /\ progress = "running" /\ lost = 0 /\ results = <<>> /\ trusted = TRUE /\ named = {}
    /\ asks = 0 /\ ref = "unset" /\ seen = <<>>
    /\ tries = <<>> /\ rp = "idle" /\ left = 0 /\ packets = <<>> /\ out = {}
    /\ conn = "gone" /\ spilled = FALSE

\* main runs the modes asked for in the order of its list.
Precedes(m, n) == \E i, j \in DOMAIN Order : i < j /\ Order[i] = m /\ Order[j] = n
Current(mode) == mode \in todo /\ \A m \in todo : ~Precedes(m, mode)
Rest == {m \in todo : ~Current(m)}

In(mode) == progress = "running" /\ Current(mode)
Done(name) == name \in DOMAIN results
With(f, k, v) == [x \in DOMAIN f \cup {k} |-> IF x = k THEN v ELSE f[x]]
Puts(name, found) == results' = With(results, name, found)

\* A probe finds what there is to find, or its answer is lost, or it reports
\* the error that connect or send has raised.
Finds(name, found, silence) ==
    \/ Puts(name, found) /\ UNCHANGED lost
    \/ /\ lost < MaxLost /\ lost' = lost + 1
       /\ \E other \in {silence, "error"} : Puts(name, other)

ModeEnds ==
    /\ \/ In("tls") /\ \A n \in ToSet(Variants) : Done(n)
       \/ In("http") /\ Done("ip")
       \/ In("dns") /\ asks = 4
       \/ In("frag") /\ Done("rawnosni")
    /\ todo' = Rest
    /\ UNCHANGED <<runV, progress, lost, results, trusted, named, dnsV, rawV>>

\* Probes through the kernel; in the baseline, its control.
KernelProbe ==
    /\ \/ In("baseline") /\ ~Done("kernel") /\ Finds("kernel", Kernel("control"), "timeout")
       \/ \E i \in DOMAIN Variants :
              /\ In("tls") /\ ~Done(Variants[i]) /\ \A j \in 1..i - 1 : Done(Variants[j])
              /\ Finds(Variants[i], Kernel(Variants[i]), "timeout")
       \/ \E i \in 1..3 :
              LET host == <<"host", "other", "ip">>
              IN  /\ In("http") /\ ~Done(host[i]) /\ \A j \in 1..i - 1 : Done(host[j])
                  /\ Finds(host[i], Http(host[i]), "close")
    /\ UNCHANGED <<runV, todo, progress, trusted, named, dnsV, rawV>>

-----------------------------------------------------------------------------
(* run_dns: this host's resolver and a public one, over UDP and TCP.  Should *)
(* the two be one, later answers replace earlier ones.                      *)

DnsTag == IF asks >= 2 /\ ~net.alias THEN <<"public", asks % 2>> ELSE <<"sys", asks % 2>>

Ref(answer) == IF ref = "unset" /\ answer # "none" THEN answer ELSE ref

DnsAnswers ==
    /\ In("dns") /\ asks < 4 /\ asks' = asks + 1
    /\ \E a \in {"a", "b", "empty", "none"} :
           seen' = With(seen, DnsTag, a) /\ ref' = Ref(a)
    /\ UNCHANGED <<runV, todo, progress, lost, results, trusted, named, rawV>>

\* Over TCP, a server that closes before it has sent all of its answer is read
\* for ever: recv gives nothing, and no time passes in it.
DnsReadsOn ==
    /\ In("dns") /\ asks < 4 /\ asks % 2 = 1 /\ net.early /\ progress' = "spins"
    /\ UNCHANGED <<runV, todo, lost, results, trusted, named, dnsV, rawV>>

Poisoned == \E t \in DOMAIN seen : seen[t] \notin {"none", "empty", ref}

-----------------------------------------------------------------------------
(* raw_connect_probe. *)

\* Mutant (for PassMeansArrived): padding where the list of options ends.
SynOptionsPadded == <<"mss", "sackok", "wscale", "nop", "timestamps">>

SynOptions == <<"mss", "sackok", "wscale", "end", "timestamps">>

\* The server reads the options up to the end of the list, and answers with
\* timestamps if it has been offered them.
Offered == {SynOptions[i] : i \in {j \in DOMAIN SynOptions : \A k \in 1..j : SynOptions[k] # "end"}}
DataOptions == IF "timestamps" \in Offered THEN 10 ELSE 0

\* The header's length is told in words; what is left over goes to the payload.
Spills == (20 + DataOptions) % 4 # 0

\* What is under way: the plan of the raw probe that is next, or now.
RawPlans == {"rawcontrol", "single", "split", "rawnosni"}
Plan ==
    IF In("baseline") THEN "rawcontrol"
    ELSE IF ~Done("split") THEN "split"
    ELSE IF ~Done("single") THEN "single" ELSE "rawnosni"
Raw ==
    \/ In("baseline") /\ Done("kernel") /\ ~Done("rawcontrol")
    \/ In("frag") /\ ~Done("rawnosni")

rawRest == <<runV, todo, progress, results, trusted, named, dnsV>>

\* The probe's socket and all that belongs to it is gone.
RawForgets ==
    rp' = "idle" /\ packets' = <<>> /\ left' = 0 /\ out' = {} /\ conn' = "gone" /\ spilled' = FALSE

RawEndsWith(label) == tries' = Append(tries, label) /\ RawForgets /\ UNCHANGED rawRest

RawConnects ==
    /\ Raw /\ rp = "idle" /\ Len(tries) < Repeats
    /\ rp' = "syn" /\ left' = (IF Plan = "split" THEN 2 ELSE 1)
    /\ IF net.server = "refuses" THEN packets' = <<"rst">> /\ conn' = "gone"
                                 ELSE packets' = <<"synack">> /\ conn' = "open"
    /\ UNCHANGED <<tries, out, spilled, lost, rawRest>>

RawRefused == rp = "syn" /\ packets = <<"rst">> /\ RawEndsWith({"rst"}) /\ UNCHANGED lost

RawUnanswered ==
    /\ rp = "syn" /\ lost < MaxLost /\ lost' = lost + 1 /\ RawEndsWith({"timeout"})

RawConnected ==
    /\ rp = "syn" /\ packets = <<"synack">> /\ net.options = "fine"
    /\ rp' = "send" /\ packets' = <<>>
    /\ UNCHANGED <<tries, left, out, conn, spilled, lost, rawRest>>

\* parse_tcp_opts finds no byte where it takes one, or steps by nothing.
RawMisreads ==
    /\ rp = "syn" /\ packets = <<"synack">> /\ net.options # "fine"
    /\ progress' = (IF net.options = "cut" THEN "raised" ELSE "spins")
    /\ tries' = <<>> /\ RawForgets
    /\ UNCHANGED <<runV, todo, lost, results, trusted, named, dnsV>>

\* The kernel of this host knows of no connection and resets it, unless that
\* is kept from it: a race with the segments of the probe.
KernelResets ==
    /\ net.own /\ rp \in {"send", "listen"} /\ conn = "open" /\ conn' = "gone"
    /\ UNCHANGED <<tries, rp, left, packets, out, spilled, lost, rawRest>>

\* The network looks at every segment, or puts the segments together.
CaughtNow ==
    \/ net.mangles
    \/ Caught(HelloOf(Plan)) /\ (IF net.assembles THEN left = 1 ELSE Plan # "split")

RawSends ==
    /\ rp = "send" /\ left > 0 /\ left' = left - 1
    /\ rp' = IF left = 1 THEN "listen" ELSE "send"
    /\ CASE conn = "cut" -> UNCHANGED <<conn, packets, spilled>>
         [] conn = "gone" -> packets' = Append(packets, "rst") /\ UNCHANGED <<conn, spilled>>
         [] conn = "open" /\ CaughtNow ->
                /\ IF net.resets \/ net.mangles
                   THEN conn' = "gone" /\ packets' = Append(packets, "injected")
                   ELSE conn' = "cut" /\ packets' = packets
                /\ UNCHANGED spilled
         [] conn = "open" /\ ~CaughtNow ->
                /\ spilled' = (spilled \/ Spills) /\ UNCHANGED conn
                /\ packets' = IF left = 1 /\ net.server \in {"hello", "alert", "lingers"}
                          THEN Append(packets, "data") ELSE packets
    /\ UNCHANGED <<tries, out, lost, rawRest>>

\* Mutant (for MistrustIsExplained): any reset counts as injected.
HeardAnyReset(p) == IF p = "data" THEN {p} ELSE {"rst", "injected"}

\* An injected reset is told from the server's by its sender or its TTL.
Heard(p) == IF p = "injected" THEN {"rst", "injected"} ELSE {p}

RawHears ==
    /\ rp = "listen" /\ packets # <<>> /\ packets' = Tail(packets) /\ out' = out \cup Heard(Head(packets))
    /\ UNCHANGED <<tries, rp, left, conn, spilled, lost, rawRest>>

\* Mutant (for RunEnds): listening without a deadline.
RawStopsOnData == rp = "listen" /\ out # {} /\ packets = <<>> /\ RawEndsWith(out) /\ UNCHANGED lost

\* The time is up, which the wait for the SYN-ACK has counted against too.
RawStops ==
    /\ rp = "listen"
    /\ \/ packets = <<>> /\ UNCHANGED lost
       \/ packets # <<>> /\ lost < MaxLost /\ lost' = lost + 1
    /\ RawEndsWith(out)

\* consensus: the most frequent label, of several the first to come up.
Votes(label) == Cardinality({i \in DOMAIN tries : tries[i] = label})
Consensus ==
    LET best == {i \in DOMAIN tries : \A j \in DOMAIN tries : Votes(tries[i]) >= Votes(tries[j])}
    IN  tries[CHOOSE i \in best : \A j \in best : i <= j]

Resets(label) == "rst" \in label
Passes(label) == label = {"data"}

\* Mutant (for MistrustIsExplained): the kernel's control is left out.
TrustsUnlessReset == ~Resets(Consensus)

\* raw_trusted: a raw control is reset where the kernel's gets through.
Trusts == ~(Verdict("kernel") = "ok" /\ Resets(Consensus))

PlanEnds ==
    /\ Raw /\ rp = "idle" /\ Len(tries) = Repeats
    /\ Puts(Plan, Consensus) /\ tries' = <<>>
    /\ IF Plan = "rawcontrol" THEN trusted' = Trusts /\ todo' = Rest
                              ELSE UNCHANGED <<trusted, todo>>
    /\ UNCHANGED <<runV, progress, lost, named, dnsV, rp, left, packets, out, conn, spilled>>

-----------------------------------------------------------------------------
\* What a probe raises ends the run: an error of this host's network that it
\* does not catch, or bytes that it cannot parse, be they meant for it or not.
UnderWay ==
    \/ In("baseline") /\ ~Done("kernel")
    \/ In("tls") /\ \E n \in ToSet(Variants) : ~Done(n)
    \/ In("http") /\ ~Done("ip")
    \/ In("dns") /\ asks < 4
    \/ Raw /\ (rp # "idle" \/ Len(tries) < Repeats)
ProbeRaises ==
    /\ UnderWay /\ progress' = "raised" /\ tries' = <<>> /\ RawForgets
    /\ UNCHANGED <<runV, todo, lost, results, trusted, named, dnsV>>

-----------------------------------------------------------------------------
(* run_diagnose. *)

Good == IF ctrl THEN Verdict("control") ELSE "unknown"

\* Mutant (for DiagnosisIsSound): the hello without SNI is looked at first.
TlsVectorsPresenceFirst ==
    IF Verdict("target") # "blocked" THEN {}
    ELSE IF Verdict("nosni") = "ok" THEN {"presence"}
    ELSE IF Good = "ok" THEN {"value"}
    ELSE IF Good = "blocked" THEN {"broad"}
    ELSE IF Verdict("nosni") = "blocked" THEN {"fingerprint"} ELSE {}

\* The vector named for the target's hello.  There may be none.
TlsVectors ==
    IF Verdict("target") # "blocked" THEN {}
    ELSE IF Good = "ok" THEN {"value"}
    ELSE IF Verdict("nosni") = "ok" THEN {"presence"}
    ELSE IF Good = "blocked" THEN {"broad"}
    ELSE IF Verdict("nosni") = "blocked" THEN {"fingerprint"} ELSE {}

\* Advice about TLS 1.2 and ECH is added to the last vector named.
Advises ==
    /\ Verdict("target") = "blocked"
    /\ \/ "ok" \in {Verdict("tls12"), Verdict("echcover")}
       \/ Verdict("echtarget") = "ok" /\ Verdict("echcover") = "blocked"

HttpVectors ==
    IF ~Done("ip") THEN {}
    ELSE (IF results["host"] = "rst" /\ results["other"] # "rst" THEN {"http-host"} ELSE {})
         \cup (IF results["ip"] = "rst" /\ results["host"] # "rst" THEN {"http-ip"} ELSE {})

DnsVectors == IF Poisoned THEN {"dns"} ELSE {}

\* Any plan that passes is put down to fragmentation.
RawVectors ==
    IF trusted /\ Done("rawnosni") /\ ~Passes(results["single"])
               /\ \E p \in {"split", "rawnosni"} : Passes(results[p])
    THEN {"camouflage"} ELSE {}

\* Mutant (for CrashIsExplained): a control that is reset is not looked at.
DiagnosisCrashesEarly == Advises /\ (TlsVectors = {} \/ Good = "blocked")

DiagnosisCrashes == Advises /\ TlsVectors = {}

Diagnose ==
    /\ In("diagnose") /\ todo' = {}
    /\ IF DiagnosisCrashes THEN progress' = "crashed" /\ UNCHANGED named
       ELSE named' = TlsVectors \cup HttpVectors \cup DnsVectors \cup RawVectors /\ UNCHANGED progress
    /\ UNCHANGED <<runV, lost, results, trusted, dnsV, rawV>>

Finish ==
    /\ progress = "running" /\ todo = {} /\ progress' = "over"
    /\ UNCHANGED <<runV, todo, lost, results, trusted, named, dnsV, rawV>>

-----------------------------------------------------------------------------
RawStep ==
    \/ RawConnects \/ RawRefused \/ RawUnanswered \/ RawConnected \/ RawMisreads
    \/ RawSends \/ RawHears \/ RawStops \/ PlanEnds
Tool ==
    \/ KernelProbe \/ DnsAnswers \/ DnsReadsOn \/ RawStep
    \/ ModeEnds \/ Diagnose \/ Finish
DPNext == Tool \/ ProbeRaises \/ KernelResets

\* Every wait of the tool has a limit, and the tool is one thread.  No probe has
\* to raise.
DPSpec == DPInit /\ [][DPNext]_DPvars /\ WF_DPvars(Tool)

-----------------------------------------------------------------------------
(* Properties. *)

\* A server that answers every hello it gets, and closes after an alert.
AnswersAll == net.server \in {"hello", "alert"} /\ lost = 0

\* The diagnosis names what the network filters, nothing else and nothing
\* less, if the server answers, nothing is lost, and the control is named: for
\* a hello by the SNI's value, by its presence or regardless of it, and for a
\* Host header that is reset.  Answers of two DNS servers that differ are
\* noticed unless the servers are one; camouflage is only said to work against
\* a network that does filter the hello.
DiagnosisIsSound ==
    progress = "over" /\ "diagnose" \in modes =>
        /\ "tls" \in modes /\ AnswersAll /\ ctrl =>
               named \cap {"value", "presence", "broad", "fingerprint"} =
                   CASE net.policy = "none" -> {}
                     [] net.policy \in {"value", "presence"} -> {net.policy}
                     [] OTHER -> {"broad"}
        /\ "http" \in modes /\ lost = 0 /\ net.resets =>
               named \cap {"http-host", "http-ip"} =
                   CASE net.http = "host" -> {"http-host"}
                     [] net.http = "ip" -> {"http-ip"}
                     [] OTHER -> {}
        /\ (\E s, t \in DOMAIN seen : seen[s] # seen[t] /\ {seen[s], seen[t]} \subseteq {"a", "b"})
               => "dns" \in named
        /\ "camouflage" \in named /\ AnswersAll /\ ~net.own /\ ~net.mangles =>
               Caught(HelloOf("single"))

\* The diagnosis itself fails (advice for a vector that it has not named) only
\* where the probes did not find what the network does: of the hello without
\* SNI, and, if a control is named, of the control's as well.  Without a control
\* one failing probe is enough; what the network filters never is.
CrashIsExplained ==
    progress = "crashed" =>
        \A n \in {"nosni"} \cup (IF ctrl THEN {"control"} ELSE {}) :
            Done(n) /\ results[n] # Kernel(n)

\* Raw probes are called unreliable only where something resets them that does
\* not reset the kernel's: the network, or this host's own kernel.  A reset
\* is called injected only if it is not the server's.
MistrustIsExplained ==
    /\ ~trusted => net.mangles \/ net.own
    /\ \A p \in DOMAIN results \cap RawPlans :
           "injected" \in results[p] => net.mangles \/ (net.resets /\ Caught(HelloOf(p)))

\* When the server answers a raw probe, it is the hello it answers: no part of
\* it is missing or mixed with bytes of the headers.
PassMeansArrived == "data" \in ToSet(packets) \cup out => ~spilled /\ left = 0

\* A run ends, by itself or with what a probe raises, whatever the network lets
\* through: but for two loops, over the answer of a DNS server that closes early
\* and over an option of length zero in a SYN-ACK.
LoopsForEver ==
    /\ progress = "spins"
    /\ \/ Current("dns") /\ net.early
       \/ (Current("baseline") \/ Current("frag")) /\ net.options = "zero"
RunEnds == <>(progress \in {"raised", "crashed", "over"} \/ LoopsForEver)

=============================================================================
