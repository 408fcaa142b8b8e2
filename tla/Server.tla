------------------------------- MODULE Server -------------------------------
(***************************************************************************)
(* What the tasks of working server/main.py share through AppState: the    *)
(* configuration with its cache, which a task reloads and another rotates; *)
(* the registry of mux sessions, filled and emptied by websocket_handler;  *)
(* and shutdown_handler, which cancels them all.  The session itself is    *)
(* module MuxServer, the limiter module RateLimiter.                       *)
(***************************************************************************)
EXTENDS Naturals

CONSTANTS
    Conns,       \* WebSocket connections
    Addrs,       \* client_ip values; behind the SNI proxy all are one
    Secrets,     \* values of bypass_secret
    MaxDomains,  \* bound: the length of trigger_domains
    MaxReloads,  \* bound: reloads that find a new configuration
    None         \* no settings, no key, no session, no address

ASSUME BoundsAreNat == MaxDomains \in Nat /\ MaxReloads \in Nat
ASSUME NoneIsNone == None \notin Conns \cup Secrets \cup Addrs

VARIABLES
    config,    \* state.config: bypass_settings and the number of trigger domains
    cache,     \* state.bypass_settings_cache
    index,     \* state.active_trigger_domain_index
    rotator,   \* the task rotate_domains: its "short" or "long" sleep, or "dead"
    hpc,       \* websocket_handler, for each connection
    gate,      \* the settings it captured
    addr,      \* its client_ip
    key,       \* the secret behind its session's mux key
    registry,  \* state.mux_sessions
    stopping,  \* state._shutting_down
    reloads,   \* number of reloads
    rotated,   \* a rotation has succeeded since the last reload
    shared     \* sessions whose address another has had at the same time

confV == <<config, cache, index, reloads, rotated>>
handV == <<hpc, gate, addr, key, registry, shared>>
vars  == <<confV, rotator, handV, stopping>>

Settings == [on : BOOLEAN, secret : Secrets, trigger : 0..MaxDomains]
Configs == [settings : Settings \cup {None}, domains : 0..MaxDomains]

ASSUME NoneIsNoSettings == None \notin Settings

\* What a file can hold: the trigger of a file is its first domain's.
Files == {f \in Configs : f.settings # None => f.settings.trigger = 0}

Live == {"hello", "mux", "legacy", "cancelled"}

TypeOK ==
    /\ config \in Configs
    /\ cache \in Settings \cup {None}
    /\ index \in 0..MaxDomains
    /\ rotator \in {"short", "long", "dead"}
    /\ hpc \in [Conns -> {"idle", "done"} \cup Live]
    /\ gate \in [Conns -> Settings \cup {None}]
    /\ addr \in [Conns -> Addrs \cup {None}]
    /\ key \in [Conns -> Secrets \cup {None}]
    /\ registry \in [Addrs -> Conns \cup {None}]
    /\ {stopping, rotated} \subseteq BOOLEAN
    /\ reloads \in 0..MaxReloads
    /\ shared \subseteq Conns

\* cache_bypass_settings, which a configuration without settings leaves as it is.
Cached(c, old) == IF c.settings = None THEN old ELSE c.settings

Init ==
    /\ config \in Files
    /\ cache = config.settings
    /\ index = 0 /\ rotator = "short"
    /\ hpc = [c \in Conns |-> "idle"]
    /\ gate = [c \in Conns |-> None] /\ addr = [c \in Conns |-> None]
    /\ key = [c \in Conns |-> None] /\ registry = [a \in Addrs |-> None]
    /\ stopping = FALSE /\ reloads = 0 /\ rotated = FALSE
    /\ shared = {}

-----------------------------------------------------------------------------
\* reload_config_periodically: a file that cannot be loaded changes nothing.
Reload ==
    /\ ~stopping /\ reloads < MaxReloads
    /\ reloads' = reloads + 1
    /\ config' \in Files
    /\ cache' = Cached(config', cache)
    /\ rotated' = FALSE
    /\ UNCHANGED <<index, rotator, handV, stopping>>

RotateLooks ==
    /\ ~stopping /\ rotator = "short"
    /\ config.domains > 1
    /\ rotator' = "long"
    /\ UNCHANGED <<confV, handV, stopping>>

NextIndex(n) == (index + 1) % n

\* Mutant (for SettingsInForce): the domain chosen before the index moves.
NewDomainEarly == index

\* The domain a rotation chooses is the one its index has come to.
NewDomain == index'

\* The domain is stored in the configuration, whose settings may be missing by
\* now; the KeyError ends the task, the index has moved all the same.
Rotate ==
    /\ ~stopping /\ rotator = "long"
    /\ config.domains > 0
    /\ index' = NextIndex(config.domains)
    /\ IF config.settings = None
       THEN rotator' = "dead" /\ UNCHANGED <<config, cache, rotated>>
       ELSE /\ config' = [config EXCEPT !.settings.trigger = NewDomain]
            /\ cache' = Cached(config', cache)
            /\ rotated' = TRUE /\ rotator' = "short"
    /\ UNCHANGED <<reloads, handV, stopping>>

RotateSkips ==
    /\ ~stopping /\ rotator = "long"
    /\ config.domains = 0
    /\ rotator' = "short"
    /\ UNCHANGED <<confV, handV, stopping>>

-----------------------------------------------------------------------------
\* A handler returns; what it held is gone.
Returns(c) ==
    /\ hpc' = [hpc EXCEPT ![c] = "done"]
    /\ gate' = [gate EXCEPT ![c] = None] /\ addr' = [addr EXCEPT ![c] = None]
    /\ key' = [key EXCEPT ![c] = None]
    /\ shared' = shared \ {c}
    /\ UNCHANGED <<confV, rotator, stopping>>

\* websocket_handler up to its greeting: the settings are captured first and
\* used for every check; path, fronting, limiter or token may refuse.  The code
\* does not look at _shutting_down here: what is admitted after the signal ends
\* with the process, whose serving tasks shutdown_handler has just cancelled.
Admit(c, a) ==
    /\ hpc[c] = "idle" /\ ~stopping
    /\ \/ /\ cache # None /\ cache.on
          /\ hpc' = [hpc EXCEPT ![c] = "hello"]
          /\ gate' = [gate EXCEPT ![c] = cache] /\ addr' = [addr EXCEPT ![c] = a]
       \/ /\ hpc' = [hpc EXCEPT ![c] = "done"]
          /\ UNCHANGED <<gate, addr>>
    /\ UNCHANGED <<confV, rotator, key, registry, shared, stopping>>

\* The first message is a mux frame.  The session's key comes from the settings
\* of this moment, not from those that admitted the client.
MuxKey(c) == cache.secret

StartMux(c) ==
    /\ hpc[c] = "hello"
    /\ hpc' = [hpc EXCEPT ![c] = "mux"]
    /\ key' = [key EXCEPT ![c] = MuxKey(c)]
    /\ registry' = [registry EXCEPT ![addr[c]] = c]
    /\ shared' = LET others == {d \in Conns \ {c} : hpc[d] = "mux" /\ addr[d] = addr[c]}
                 IN  shared \cup others \cup {d \in {c} : others # {}}
    /\ UNCHANGED <<confV, rotator, gate, addr, stopping>>

\* The first message is anything else: the legacy SOCKS5 tunnel.
StartLegacy(c) ==
    /\ hpc[c] = "hello"
    /\ hpc' = [hpc EXCEPT ![c] = "legacy"]
    /\ UNCHANGED <<confV, rotator, gate, addr, key, registry, shared, stopping>>

\* No first message in time, or the client leaves; or the legacy tunnel ends.
EndsEarly(c) ==
    /\ hpc[c] \in {"hello", "legacy"}
    /\ Returns(c) /\ UNCHANGED registry

\* Mutant (for RegistryIsExact): an entry outlives its session.
UnregisterNobody(c) == UNCHANGED registry

\* The registry's entry for the address goes, whatever session it names.
Unregister(c) == registry' = [registry EXCEPT ![addr[c]] = None]

MuxEnds(c) == hpc[c] = "mux" /\ Unregister(c) /\ Returns(c)

-----------------------------------------------------------------------------
\* Mutant (for ShutdownEndsAll): only registered sessions are cancelled.
ShutdownRegistered ==
    /\ ~stopping /\ stopping' = TRUE
    /\ hpc' = [c \in Conns |-> IF \E a \in Addrs : registry[a] = c THEN "cancelled" ELSE hpc[c]]
    /\ registry' = [a \in Addrs |-> None]
    /\ UNCHANGED <<confV, rotator, gate, addr, key, shared>>

\* shutdown_handler cancels every task and empties the registry before any of
\* them runs again.
Shutdown ==
    /\ ~stopping /\ stopping' = TRUE
    /\ hpc' = [c \in Conns |-> IF hpc[c] \in Live THEN "cancelled" ELSE hpc[c]]
    /\ registry' = [a \in Addrs |-> None]
    /\ UNCHANGED <<confV, rotator, gate, addr, key, shared>>

\* A cancelled handler runs its finally clauses.
Cancelled(c) ==
    /\ hpc[c] = "cancelled"
    /\ IF key[c] # None THEN Unregister(c) ELSE UNCHANGED registry
    /\ Returns(c)

Handler(c) ==
    \/ \E a \in Addrs : Admit(c, a)
    \/ StartMux(c) \/ StartLegacy(c) \/ EndsEarly(c) \/ MuxEnds(c) \/ Cancelled(c)

Next ==
    \/ Reload \/ RotateLooks \/ Rotate \/ RotateSkips \/ Shutdown
    \/ \E c \in Conns : Handler(c)

\* The event loop wakes a sleeping task and runs a cancelled one.
Fairness ==
    /\ WF_vars(RotateLooks) /\ WF_vars(Rotate \/ RotateSkips)
    /\ \A c \in Conns : WF_vars(Cancelled(c))

Spec == Init /\ [][Next]_vars /\ Fairness

-----------------------------------------------------------------------------
\* Over every order of reloads and rotations the cached settings are those of
\* the configuration in force, unless it has none: then older ones stay in
\* force.  Once a rotation has succeeded, and until the next reload, the trigger
\* every handler sees is the domain at the index, which the list has.
\* (main.py:158-170, 306-311, 326-334)
SettingsInForce ==
    /\ config.settings # None => cache = config.settings
    /\ rotated => cache.trigger = index /\ index < config.domains

\* An entry of the registry names a session that still runs and has its address.
\* A running session is in the registry, unless its address has been another
\* session's at the same time: then the end of either removes the entry.
\* (main.py:1482-1497)
RegistryIsExact ==
    /\ \A a \in Addrs :
        registry[a] # None => hpc[registry[a]] = "mux" /\ addr[registry[a]] = a
    /\ \A c \in Conns : hpc[c] = "mux" /\ registry[addr[c]] # c => c \in shared

\* A shutdown ends every handler, those the registry has lost included, and
\* leaves the registry empty.  (main.py:1552-1564)
ShutdownEndsAll ==
    stopping ~> [](\A c \in Conns : hpc[c] \notin Live
                   /\ \A a \in Addrs : registry[a] = None)
=============================================================================
