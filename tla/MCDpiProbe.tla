----------------------------- MODULE MCDpiProbe -----------------------------
(* The networks and the runs that TLC gives to DpiProbe. *)
EXTENDS DpiProbe

MCNet(policy, resets, server, http, more) ==
    [policy |-> policy, resets |-> resets, server |-> server, http |-> http,
     assembles |-> "assembles" \in more, mangles |-> "mangles" \in more,
     own |-> "own" \in more, alias |-> "alias" \in more, early |-> "early" \in more,
     options |-> IF "cut" \in more THEN "cut" ELSE IF "zero" \in more THEN "zero" ELSE "fine"]

MCPolicies == {"none", "value", "presence", "hello", "all"}
MCServers == {"hello", "alert", "lingers", "closes", "refuses"}

\* Hellos and raw probes: all policies and servers, with what may trouble a
\* raw probe; without a baseline, or without a control, nothing does.
MCTls ==
    [modes : {{"baseline", "tls", "frag", "diagnose"}}, ctrl : {TRUE},
     net : {MCNet(p, r, s, "none", m) :
                p \in MCPolicies, r \in BOOLEAN, s \in MCServers \ {"refuses"},
                m \in {{}, {"assembles"}, {"mangles"}, {"own"}}}]
MCNoBaseline ==
    [modes : {{"tls", "frag", "diagnose"}}, ctrl : BOOLEAN,
     net : {MCNet(p, TRUE, s, "none", {}) : p \in MCPolicies, s \in MCServers}]
\* Options of a SYN-ACK that cannot be read.
MCOptions ==
    [modes : {{"baseline", "frag"}, {"frag", "diagnose"}}, ctrl : {TRUE},
     net : {MCNet("value", TRUE, "hello", "none", {o}) : o \in {"cut", "zero"}}]
\* HTTP and DNS, which share nothing with them.
MCRest == [modes : {{"dns", "http", "diagnose"}}, ctrl : {TRUE},
           net : {MCNet("none", r, "hello", h, m) : r \in BOOLEAN,
                      h \in {"none", "host", "other", "ip", "all"}, m \in SUBSET {"alias", "early"}}]
MCSituations == MCTls \cup MCNoBaseline \cup MCOptions \cup MCRest
=============================================================================
