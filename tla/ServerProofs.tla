---------------------------- MODULE ServerProofs ----------------------------
(***************************************************************************)
(* What holds of the Python server's shared state (Server) and of its       *)
(* legacy tunnel (LegacyTunnel), whatever the numbers of connections,       *)
(* addresses and domains, the buffers and the amounts of data.  The two     *)
(* modules share no state, and nothing of one proof is used in the other.   *)
(***************************************************************************)
EXTENDS Server, LegacyTunnel, TLAPS

-----------------------------------------------------------------------------
(* The types. *)

\* The types of what the tasks share about the configuration, and of the rest.
ConfOK ==
    /\ config \in Configs
    /\ cache \in Settings \cup {None}
    /\ index \in 0..MaxDomains
    /\ rotator \in {"short", "long", "dead"}
    /\ rotated \in BOOLEAN
    /\ reloads \in 0..MaxReloads

HandOK ==
    /\ hpc \in [Conns -> {"idle", "done"} \cup Live]
    /\ gate \in [Conns -> Settings \cup {None}]
    /\ addr \in [Conns -> Addrs \cup {None}]
    /\ key \in [Conns -> Secrets \cup {None}]
    /\ registry \in [Addrs -> Conns \cup {None}]
    /\ stopping \in BOOLEAN
    /\ shared \subseteq Conns

LEMMA TwoTypes == TypeOK <=> ConfOK /\ HandOK
  BY DEF TypeOK, ConfOK, HandOK

\* What a file holds is a configuration; what is cached is settings or nothing.
LEMMA FilesAreConfigs == \A f \in Files : f \in Configs /\ f.settings \in Settings \cup {None}
  BY DEF Files, Configs

LEMMA InitTyped == Init => ConfOK /\ HandOK
  <1>1. Init => ConfOK
    <2>1. Init => config \in Configs /\ cache \in Settings \cup {None}
      BY FilesAreConfigs DEF Init
    <2>2. Init => index \in 0..MaxDomains /\ reloads \in 0..MaxReloads
      BY BoundsAreNat DEF Init
    <2> QED
      BY <2>1, <2>2 DEF Init, ConfOK
  <1>2. Init => HandOK
    BY DEF Init, HandOK
  <1> QED
    BY <1>1, <1>2

\* The index a rotation moves to is one of the list's.
LEMMA IndexInList ==
    ASSUME NEW n \in 1..MaxDomains, index \in 0..MaxDomains
    PROVE  NextIndex(n) \in 0..(n - 1) /\ NextIndex(n) \in 0..MaxDomains
  BY BoundsAreNat DEF NextIndex

\* A rotation stores its domain into the settings in force and caches them.
LEMMA RotateStores ==
    ASSUME ConfOK, Rotate, config.settings # None
    PROVE  /\ config' \in Configs /\ config'.settings \in Settings
           /\ config'.settings # None /\ config'.domains = config.domains
           /\ cache' = config'.settings /\ cache'.trigger = index'
           /\ index' \in 0..(config.domains - 1) /\ index' \in 0..MaxDomains
           /\ rotated' = TRUE /\ rotator' = "short" /\ reloads' = reloads
  <1>1. /\ config \in Configs /\ config.settings \in Settings
        /\ config.domains \in 1..MaxDomains /\ index \in 0..MaxDomains
    BY BoundsAreNat DEF ConfOK, Configs, Rotate
  <1>2. index' \in 0..(config.domains - 1) /\ index' \in 0..MaxDomains
    BY <1>1, IndexInList DEF Rotate
  <1>3. config' = [config EXCEPT !.settings.trigger = index']
    BY DEF Rotate, NewDomain
  <1>4. [config.settings EXCEPT !.trigger = index'] \in Settings
    BY <1>1, <1>2 DEF Settings
  <1>5. config'.settings = [config.settings EXCEPT !.trigger = index']
    BY <1>1, <1>3 DEF Configs
  <1>6. config' \in Configs /\ config'.domains = config.domains
    BY <1>1, <1>3, <1>4, <1>5 DEF Configs
  <1>7. config'.settings # None
    BY <1>4, <1>5, NoneIsNoSettings
  <1>8. cache' = config'.settings
    BY <1>7 DEF Rotate, Cached
  <1>9. config'.settings.trigger = index'
    BY <1>1, <1>5 DEF Settings
  <1> QED
    BY <1>2, <1>4, <1>5, <1>6, <1>7, <1>8, <1>9 DEF Rotate

\* A rotation that has succeeded has found settings, which only a reload takes
\* away: what makes SettingsInForce inductive.
ConfInv == SettingsInForce /\ (rotated => config.settings # None)

\* Reloads and rotations keep the types, and the settings in force.
LEMMA ConfKeeps ==
    ASSUME ConfOK, ConfInv, Reload \/ RotateLooks \/ Rotate \/ RotateSkips
    PROVE  ConfOK' /\ ConfInv'
  <1>1. CASE Reload
    <2>1. config' \in Configs /\ config'.settings \in Settings \cup {None}
      BY <1>1, FilesAreConfigs DEF Reload
    <2>2. cache' \in Settings \cup {None}
      BY <1>1, <2>1 DEF Reload, Cached, ConfOK
    <2>3. reloads' \in 0..MaxReloads
      BY <1>1, BoundsAreNat DEF Reload, ConfOK
    <2>4. ConfOK'
      BY <1>1, <2>1, <2>2, <2>3 DEF Reload, ConfOK
    <2>5. ConfInv'
      BY <1>1 DEF Reload, Cached, SettingsInForce, ConfInv
    <2> QED
      BY <2>4, <2>5
  <1>2. CASE RotateLooks
    BY <1>2 DEF RotateLooks, confV, ConfOK, SettingsInForce, ConfInv
  <1>3. CASE Rotate /\ config.settings # None
    <2>1. ConfOK'
      BY <1>3, RotateStores DEF ConfOK
    <2>2. index' < config'.domains
      <3>1. config.domains \in Nat /\ index' \in 0..(config.domains - 1)
        <4>1. config.domains \in Nat
          BY BoundsAreNat DEF ConfOK, Configs
        <4> QED
          BY <1>3, <4>1, RotateStores
      <3> QED
        BY <1>3, <3>1, RotateStores
    <2>3. ConfInv'
      BY <1>3, <2>2, RotateStores DEF SettingsInForce, ConfInv
    <2> QED
      BY <2>1, <2>3
  <1>4. CASE Rotate /\ config.settings = None
    <2>1. config.domains \in 1..MaxDomains /\ index \in 0..MaxDomains
      BY <1>4, BoundsAreNat DEF ConfOK, Configs, Rotate
    <2>2. index' \in 0..MaxDomains
      BY <1>4, <2>1, IndexInList DEF Rotate
    <2> QED
      BY <1>4, <2>2 DEF Rotate, ConfOK, SettingsInForce, ConfInv
  <1>5. CASE RotateSkips
    BY <1>5 DEF RotateSkips, confV, ConfOK, SettingsInForce, ConfInv
  <1> QED
    BY <1>1, <1>2, <1>3, <1>4, <1>5

\* The handlers of the WebSockets and a shutdown touch none of this.
LEMMA ConfLeft ==
    ASSUME ConfOK, ConfInv, UNCHANGED <<confV, rotator>>
    PROVE  ConfOK' /\ ConfInv'
  BY DEF confV, ConfOK, ConfInv, SettingsInForce

\* Once there are settings there always are.
LEMMA SettingsStay ==
    ASSUME ConfOK, Reload \/ RotateLooks \/ Rotate \/ RotateSkips, cache # None
    PROVE  cache' # None
  <1>1. CASE Reload
    BY <1>1 DEF Reload, Cached
  <1>2. CASE Rotate /\ config.settings # None
    BY <1>2, RotateStores
  <1>3. CASE RotateLooks \/ RotateSkips \/ (Rotate /\ config.settings = None)
    BY <1>3 DEF RotateLooks, RotateSkips, Rotate, confV
  <1> QED
    BY <1>1, <1>2, <1>3

-----------------------------------------------------------------------------
(* The registry. *)

\* Handlers that run have an address, and run only before a shutdown, which
\* alone cancels them; where one waits for its first message there are settings
\* in force; and two mux sessions that run on one address are both marked.
RunningInv ==
    /\ \A c \in Conns : hpc[c] = "hello" => cache # None
    /\ \A c \in Conns : hpc[c] = "cancelled" => stopping
    /\ \A c \in Conns : hpc[c] \in {"hello", "mux", "legacy"} => addr[c] \in Addrs /\ ~stopping
    /\ \A c, d \in Conns :
          c # d /\ hpc[c] = "mux" /\ hpc[d] = "mux" /\ addr[c] = addr[d] => {c, d} \subseteq shared

HandInv == RunningInv /\ RegistryIsExact

LEMMA AdmitKeeps ==
    ASSUME ConfOK, HandOK, HandInv, NEW c \in Conns, NEW a \in Addrs, Admit(c, a)
    PROVE  HandOK' /\ HandInv' /\ UNCHANGED <<confV, rotator>>
  <1>1. HandOK'
    BY DEF Admit, HandOK, ConfOK, Live
  <1>2. /\ \A d \in Conns : d # c => hpc'[d] = hpc[d] /\ addr'[d] = addr[d]
        /\ hpc[c] = "idle"
        /\ \/ hpc'[c] = "hello" /\ addr'[c] = a /\ cache # None
           \/ hpc'[c] = "done"
        /\ ~stopping' /\ ~stopping /\ registry' = registry /\ shared' = shared /\ cache' = cache
    BY DEF Admit, HandOK, confV
  <1>3. RunningInv'
    BY <1>2 DEF HandInv, RunningInv
  <1>4. RegistryIsExact'
    BY <1>2, NoneIsNone DEF HandInv, RegistryIsExact, HandOK
  <1> QED
    BY <1>1, <1>3, <1>4 DEF HandInv, Admit

LEMMA StartMuxKeeps ==
    ASSUME ConfOK, HandOK, HandInv, NEW c \in Conns, StartMux(c)
    PROVE  HandOK' /\ HandInv' /\ UNCHANGED <<confV, rotator>>
  <1> DEFINE others == {d \in Conns \ {c} : hpc[d] = "mux" /\ addr[d] = addr[c]}
  <1>1. addr[c] \in Addrs /\ ~stopping
    BY DEF HandInv, RunningInv, StartMux
  <1>2. /\ hpc'[c] = "mux" /\ hpc[c] = "hello"
        /\ \A d \in Conns : d # c => hpc'[d] = hpc[d]
        /\ addr' = addr /\ stopping' = stopping /\ cache' = cache
        /\ registry'[addr[c]] = c
        /\ \A a \in Addrs : a # addr[c] => registry'[a] = registry[a]
    BY <1>1 DEF StartMux, HandOK, confV
  <1>3. /\ shared \subseteq shared' /\ others \subseteq shared'
        /\ others # {} => c \in shared'
        /\ shared' \subseteq Conns
    BY DEF StartMux, HandOK
  <1>4. HandOK'
    <2>1. cache \in Settings
      BY DEF StartMux, HandInv, RunningInv, ConfOK
    <2>2. MuxKey(c) \in Secrets
      BY <2>1 DEF MuxKey, Settings
    <2>3. key' \in [Conns -> Secrets \cup {None}]
      BY <2>2 DEF StartMux, HandOK
    <2> QED
      BY <1>3, <2>3 DEF StartMux, HandOK, Live
  <1>5. RunningInv'
    <2>1. ASSUME NEW d \in Conns, NEW e \in Conns, d # e,
                 hpc'[d] = "mux", hpc'[e] = "mux", addr'[d] = addr'[e]
          PROVE  {d, e} \subseteq shared'
      <3>1. CASE d = c
        <4>1. e \in others
          BY <1>2, <2>1, <3>1
        <4> QED
          BY <1>3, <3>1, <4>1
      <3>2. CASE e = c
        <4>1. d \in others
          BY <1>2, <2>1, <3>2
        <4> QED
          BY <1>3, <3>2, <4>1
      <3>3. CASE d # c /\ e # c
        BY <1>2, <1>3, <2>1, <3>3 DEF HandInv, RunningInv
      <3> QED
        BY <3>1, <3>2, <3>3
    <2> QED
      BY <1>1, <1>2, <2>1 DEF HandInv, RunningInv
  <1>6. RegistryIsExact'
    <2>1. ASSUME NEW a \in Addrs, registry'[a] # None
          PROVE  hpc'[registry'[a]] = "mux" /\ addr'[registry'[a]] = a
      BY <1>1, <1>2, <2>1 DEF HandInv, RegistryIsExact, HandOK
    <2>2. ASSUME NEW d \in Conns, hpc'[d] = "mux", registry'[addr'[d]] # d
          PROVE  d \in shared'
      <3>1. d # c /\ hpc[d] = "mux"
        BY <1>2, <2>2
      <3>2. addr[d] \in Addrs
        BY <3>1 DEF HandInv, RunningInv
      <3>3. CASE addr[d] = addr[c]
        <4>1. d \in others
          BY <3>1, <3>3
        <4> QED
          BY <1>3, <4>1
      <3>4. CASE addr[d] # addr[c]
        BY <1>2, <1>3, <2>2, <3>1, <3>2, <3>4 DEF HandInv, RegistryIsExact
      <3> QED
        BY <3>3, <3>4
    <2> QED
      BY <2>1, <2>2 DEF RegistryIsExact
  <1> QED
    BY <1>4, <1>5, <1>6 DEF HandInv, StartMux

\* What a return leaves of the others.
LEMMA ReturnsAlone ==
    ASSUME HandOK, NEW c \in Conns, Returns(c)
    PROVE  /\ hpc'[c] = "done"
           /\ \A d \in Conns : d # c => hpc'[d] = hpc[d] /\ addr'[d] = addr[d]
           /\ \A d \in Conns : d # c /\ d \in shared => d \in shared'
           /\ stopping' = stopping
           /\ hpc' \in [Conns -> {"idle", "done"} \cup Live]
           /\ gate' \in [Conns -> Settings \cup {None}]
           /\ addr' \in [Conns -> Addrs \cup {None}]
           /\ key' \in [Conns -> Secrets \cup {None}]
           /\ shared' \subseteq Conns
           /\ UNCHANGED <<confV, rotator>> /\ cache' = cache
  BY DEF HandOK, Returns, Live, confV

\* A handler that ends without a session of its own in the registry, or removes
\* the entry of its address, leaves a registry that is exact.
LEMMA ReturnKeeps ==
    ASSUME HandOK, HandInv, NEW c \in Conns, Returns(c),
           \/ registry' = registry /\ hpc[c] # "mux"
           \/ registry' = [registry EXCEPT ![addr[c]] = None] /\ (hpc[c] = "mux" \/ stopping)
    PROVE  HandOK' /\ HandInv'
  <1>1. HandOK'
    BY ReturnsAlone DEF HandOK
  <1>2. RunningInv'
    BY ReturnsAlone DEF HandInv, RunningInv
  <1>3. \A a \in Addrs : registry'[a] # None => registry'[a] = registry[a] /\ registry[a] # c
    <2>1. ASSUME NEW a \in Addrs, registry'[a] # None
          PROVE  registry'[a] = registry[a] /\ registry[a] # c
      BY <2>1 DEF HandOK, HandInv, RegistryIsExact, RunningInv
    <2> QED
      BY <2>1
  <1>4. ASSUME NEW a \in Addrs, registry'[a] # None
        PROVE  hpc'[registry'[a]] = "mux" /\ addr'[registry'[a]] = a
    <2>1. registry'[a] = registry[a] /\ registry[a] # c /\ registry[a] # None
      BY <1>3, <1>4
    <2>2. registry[a] \in Conns
      BY <2>1 DEF HandOK
    <2> QED
      BY <2>1, <2>2, ReturnsAlone DEF HandInv, RegistryIsExact
  <1>5. ASSUME NEW d \in Conns, hpc'[d] = "mux", registry'[addr'[d]] # d
        PROVE  d \in shared'
    <2>1. d # c /\ hpc[d] = "mux" /\ addr'[d] = addr[d]
      BY <1>5, ReturnsAlone
    <2>2. addr[d] \in Addrs /\ ~stopping
      BY <2>1 DEF HandInv, RunningInv
    <2>3. CASE registry[addr[d]] # d
      BY <2>1, <2>3, ReturnsAlone DEF HandInv, RegistryIsExact
    <2>4. CASE registry[addr[d]] = d
      <3>1. registry' # registry
        BY <1>5, <2>1, <2>4
      <3>2. registry' = [registry EXCEPT ![addr[c]] = None] /\ hpc[c] = "mux"
        BY <2>2, <3>1
      <3>3. addr[c] = addr[d]
        BY <1>5, <2>1, <2>2, <2>4, <3>2 DEF HandOK
      <3> QED
        BY <2>1, <3>2, <3>3, ReturnsAlone DEF HandInv, RunningInv
    <2> QED
      BY <2>3, <2>4
  <1>6. RegistryIsExact'
    BY <1>4, <1>5 DEF RegistryIsExact
  <1> QED
    BY <1>1, <1>2, <1>6 DEF HandInv

LEMMA HandlerKeeps ==
    ASSUME ConfOK, HandOK, HandInv, NEW c \in Conns, Handler(c)
    PROVE  HandOK' /\ HandInv' /\ UNCHANGED <<confV, rotator>>
  <1>1. CASE \E a \in Addrs : Admit(c, a)
    BY <1>1, AdmitKeeps
  <1>2. CASE StartMux(c)
    BY <1>2, StartMuxKeeps
  <1>3. CASE StartLegacy(c)
    <2>1. /\ hpc[c] = "hello" /\ hpc' = [hpc EXCEPT ![c] = "legacy"]
          /\ UNCHANGED <<gate, addr, key, registry, shared, stopping, confV, rotator>>
          /\ cache' = cache
      BY <1>3 DEF StartLegacy, confV
    <2>2. HandOK'
      BY <2>1 DEF HandOK, Live
    <2>3. RunningInv'
      BY <2>1 DEF HandOK, HandInv, RunningInv
    <2>4. RegistryIsExact'
      BY <2>1 DEF HandOK, HandInv, RegistryIsExact
    <2> QED
      BY <2>1, <2>2, <2>3, <2>4 DEF HandInv
  <1>4. CASE EndsEarly(c)
    BY <1>4, ReturnKeeps, ReturnsAlone DEF EndsEarly
  <1>5. CASE MuxEnds(c)
    BY <1>5, ReturnKeeps, ReturnsAlone DEF MuxEnds, Unregister
  <1>6. CASE Cancelled(c)
    <2>1. stopping /\ hpc[c] # "mux"
      BY <1>6 DEF Cancelled, HandInv, RunningInv
    <2> QED
      BY <1>6, <2>1, ReturnKeeps, ReturnsAlone DEF Cancelled, Unregister
  <1> QED
    BY <1>1, <1>2, <1>3, <1>4, <1>5, <1>6 DEF Handler

LEMMA ShutdownKeeps ==
    ASSUME HandOK, HandInv, Shutdown
    PROVE  HandOK' /\ HandInv' /\ UNCHANGED <<confV, rotator>>
  <1>1. /\ \A c \in Conns : hpc'[c] \notin {"hello", "mux", "legacy"}
        /\ \A a \in Addrs : registry'[a] = None
        /\ stopping'
    BY DEF Shutdown, HandOK, Live
  <1>2. HandOK'
    BY DEF Shutdown, HandOK, Live
  <1>3. HandInv'
    BY <1>1 DEF HandInv, RunningInv, RegistryIsExact
  <1> QED
    BY <1>2, <1>3 DEF Shutdown

-----------------------------------------------------------------------------

ServerInv == ConfOK /\ HandOK /\ ConfInv /\ HandInv

LEMMA ServerStep == ServerInv /\ [Next]_vars => ServerInv'
  <1> SUFFICES ASSUME ServerInv, [Next]_vars PROVE ServerInv'
    OBVIOUS
  <1> USE DEF ServerInv
  <1>1. CASE Reload \/ RotateLooks \/ Rotate \/ RotateSkips
    <2>1. UNCHANGED <<handV, stopping>>
      BY <1>1 DEF Reload, RotateLooks, Rotate, RotateSkips
    <2>2. HandOK' /\ HandInv'
      BY <1>1, <2>1, SettingsStay DEF handV, HandOK, HandInv, RunningInv, RegistryIsExact
    <2> QED
      BY <1>1, <2>2, ConfKeeps
  <1>2. CASE Shutdown
    BY <1>2, ShutdownKeeps, ConfLeft
  <1>3. CASE \E c \in Conns : Handler(c)
    BY <1>3, HandlerKeeps, ConfLeft
  <1>4. CASE UNCHANGED vars
    <2>1. HandOK' /\ HandInv'
      BY <1>4 DEF vars, confV, handV, HandOK, HandInv, RunningInv, RegistryIsExact
    <2> QED
      BY <1>4, <2>1, ConfLeft DEF vars
  <1> QED
    BY <1>1, <1>2, <1>3, <1>4 DEF Next

LEMMA ServerStart == Init => ServerInv
  <1>1. Init => ConfInv
    BY DEF Init, ConfInv, SettingsInForce
  <1>2. Init => HandInv
    BY DEF Init, HandInv, RunningInv, RegistryIsExact
  <1> QED
    BY <1>1, <1>2, InitTyped DEF ServerInv

\* The types of all that the tasks share, in every reachable state.
THEOREM SharedTypes == Spec => [](TypeOK /\ RunningInv)
  <1>1. ServerInv => TypeOK /\ RunningInv
    BY TwoTypes DEF ServerInv, HandInv
  <1> QED
    BY <1>1, ServerStart, ServerStep, PTL DEF Spec

\* Over every order of reloads and rotations, of any number of domains, the
\* cached settings are those of the configuration in force, unless it has none,
\* and after a rotation their trigger is the domain at the index.
THEOREM CacheInForce == Spec => []SettingsInForce
  <1>1. ServerInv => SettingsInForce
    BY DEF ServerInv, ConfInv
  <1> QED
    BY <1>1, ServerStart, ServerStep, PTL DEF Spec

\* Whatever the numbers of sessions and addresses, an entry of the registry is
\* a running session of its address, and a running session without an entry has
\* shared its address.
THEOREM RegistryExact == Spec => []RegistryIsExact
  <1>1. ServerInv => RegistryIsExact
    BY DEF ServerInv, HandInv
  <1> QED
    BY <1>1, ServerStart, ServerStep, PTL DEF Spec

-----------------------------------------------------------------------------
(* The legacy tunnel: what is on its way. *)

\* The replies of a helper that has come to h, of n in all, and the units of the
\* negotiation it has parsed.
Replies(h, n) ==
    CASE h = "greeting" -> 0
      [] h = "auth" -> 1
      [] h \in {"request", "dial"} -> n - 1
      [] OTHER -> n
Answered == Replies(helper, Stages)
Parsed == IF helper = "dial" THEN Stages ELSE Answered

\* What a task that is at t holds, if it holds something at w.
Held(t, w) == IF t = w THEN 1 ELSE 0

TunnelOK ==
    /\ auth \in BOOLEAN /\ ws \in {"open", "left", "shut"}
    /\ inbox \in Seq({"ok", "bad"}) /\ q1u \in Seq({"ok", "bad"})
    /\ sent \in Nat /\ wsq \in Nat /\ back \in Nat /\ q1d \in Nat
    /\ q2u \in Nat /\ q2d \in Nat /\ made \in Nat /\ got \in Nat
    /\ c2s \in {"read"} \cup Over /\ s2c \in {"read", "send"} \cup Over
    /\ helper \in {"greeting", "auth", "request", "dial", "relay", "done"}
    /\ hu \in {"off", "read", "write", "done"} /\ hd \in {"off", "read", "write", "done"}
    /\ target \in {"none", "open", "fin", "rst"}

\* Who has ended and what has been closed.
Ends ==
    /\ c2s \in Over <=> tclosed
    /\ helper = "done" <=> hclosed
    /\ c2s = "done" => inbox = <<>> /\ ws # "open"
    /\ c2s = "raised" => hclosed

\* How far the helper has come.
Stands ==
    /\ helper = "auth" => auth
    /\ helper \in {"greeting", "auth", "request", "dial"} =>
          hu = "off" /\ hd = "off" /\ target = "none"
    /\ helper = "relay" => hu # "off" /\ hd # "off"
    /\ helper = "done" =>
          \/ hu = "off" /\ hd = "off" /\ target = "none"
          \/ hu = "done" /\ hd = "done"

\* When the relay that goes up has ended for a target that stays, all that the
\* client sent has come this far; when the one that goes down has, the client
\* has gone or all that the target sent has been read.
Stopped ==
    /\ hu = "done" /\ target # "rst" => c2s = "done" /\ q1u = <<>>
    /\ hd = "done" => ws # "open" \/ target = "rst" \/ (target = "fin" /\ q2d = 0)

Places == TunnelOK /\ Ends /\ Stands /\ Stopped

\* There is no target to reach: the helper ended without one, or it has gone.
Nowhere == (helper = "done" /\ hu = "off") \/ target = "rst"

\* The client has gone, with something still to come.
LeftEarly == ws # "open" /\ back < made + Stages

\* Where the units are that the client has sent; where the chunks are that it
\* has been sent or will be, and how many of those there are to be.
UpTotal == Len(inbox) + Len(q1u) + Parsed + Held(hu, "write") + q2u + got
DownTotal == back + Held(s2c, "send") + q1d + Held(hd, "write") + q2d
DownDue == made + Answered

\* Each ledger balances unless there is a reason.
UpLedger == Nowhere \/ LeftEarly \/ sent = UpTotal
DownLedger == DownTotal <= DownDue /\ (Nowhere \/ ws # "open" \/ DownTotal = DownDue)
Ledgers == UpLedger /\ DownLedger

\* What a step does to a ledger: the two sides change by as much, or it takes
\* something off where there is a reason.
UpEven == sent' + UpTotal = sent + UpTotal' \/ Nowhere' \/ LeftEarly'
DownEven ==
    \/ DownTotal' + DownDue = DownTotal + DownDue'
    \/ DownTotal' + DownDue <= DownTotal + DownDue' /\ (Nowhere' \/ ws' # "open")

\* Every tally is a natural number, and there are no more replies than stages.
TalliesOK ==
    /\ Stages \in {2, 3} /\ Answered \in 0..Stages /\ Parsed \in 0..Stages
    /\ Held(hu, "write") \in {0, 1} /\ Held(hd, "write") \in {0, 1}
    /\ Held(s2c, "send") \in {0, 1}
    /\ sent \in Nat /\ UpTotal \in Nat /\ DownTotal \in Nat /\ DownDue \in Nat

LEMMA UnitsInSeq ==
    ASSUME NEW q \in Seq({"ok", "bad"})
    PROVE  /\ Len(q) \in Nat
           /\ q # <<>> => /\ Head(q) \in {"ok", "bad"} /\ Tail(q) \in Seq({"ok", "bad"})
                          /\ Len(Tail(q)) = Len(q) - 1
           /\ \A u \in {"ok", "bad"} :
                Append(q, u) \in Seq({"ok", "bad"}) /\ Len(Append(q, u)) = Len(q) + 1
           /\ <<>> \in Seq({"ok", "bad"})
  OBVIOUS

LEMMA Tallies == TunnelOK => TalliesOK
  <1> SUFFICES ASSUME TunnelOK PROVE TalliesOK
    OBVIOUS
  <1>1. Stages \in {2, 3}
    BY DEF Stages
  <1>2. Answered \in 0..Stages /\ Parsed \in 0..Stages
    BY <1>1 DEF TunnelOK, Answered, Parsed, Replies
  <1>3. /\ Held(hu, "write") \in {0, 1} /\ Held(hd, "write") \in {0, 1}
        /\ Held(s2c, "send") \in {0, 1}
    BY DEF Held
  <1>4. /\ Len(inbox) \in Nat /\ Len(q1u) \in Nat /\ sent \in Nat
        /\ back \in Nat /\ q1d \in Nat /\ q2u \in Nat /\ q2d \in Nat /\ made \in Nat /\ got \in Nat
    BY UnitsInSeq DEF TunnelOK
  <1>5. UpTotal \in Nat /\ DownTotal \in Nat /\ DownDue \in Nat
    BY <1>1, <1>2, <1>3, <1>4 DEF UpTotal, DownTotal, DownDue
  <1> QED
    BY <1>1, <1>2, <1>3, <1>4, <1>5 DEF TalliesOK

LEMMA TalliesAfter == TunnelOK' => TalliesOK'
  BY Tallies, PTL

LEMMA Balances ==
    \A a, b, c, d \in Nat :
        /\ a = b /\ c + b = a + d => c = d
        /\ a <= b /\ (c + b = a + d \/ c + b <= a + d) => c <= d
  OBVIOUS

\* Ledgers that balance do so after a step that is even, since no excuse is
\* ever taken back.
LEMMA LedgersKept ==
    ASSUME TunnelOK, TunnelOK', Ledgers, UpEven, DownEven,
           Nowhere => Nowhere', ws # "open" => ws' # "open", LeftEarly => LeftEarly'
    PROVE  Ledgers'
  <1>1. /\ UpTotal \in Nat /\ DownTotal \in Nat /\ DownDue \in Nat /\ sent \in Nat
        /\ UpTotal' \in Nat /\ DownTotal' \in Nat /\ DownDue' \in Nat /\ sent' \in Nat
    BY Tallies, TalliesAfter DEF TalliesOK
  <1>2. UpLedger'
    BY <1>1 DEF Ledgers, UpLedger, UpEven
  <1>3. DownTotal' <= DownDue'
    BY <1>1, Balances DEF Ledgers, DownLedger, DownEven
  <1>4. (Nowhere \/ ws # "open" \/ DownTotal = DownDue)'
    BY <1>1, Balances DEF Ledgers, DownLedger, DownEven
  <1> QED
    BY <1>2, <1>3, <1>4 DEF Ledgers, DownLedger

-----------------------------------------------------------------------------
(* Where the tasks are. *)

\* A step of ws_to_socks; its end notes that everything was taken or that the
\* helper has gone.
LEMMA C2SPlaces == ASSUME Places, C2S PROVE Places'
  <1> USE UnitsInSeq DEF Places, TunnelOK, Ends, Stands, Stopped, Over, C2SEnds, Aborts,
          clientV, tunnelV, helperV, targetV
  <1>1. CASE C2SWrites
    BY <1>1 DEF C2SWrites
  <1>2. CASE C2SWritesInVain
    BY <1>2 DEF C2SWritesInVain
  <1>3. CASE C2SRaises
    BY <1>3 DEF C2SRaises
  <1>4. CASE C2SStops
    BY <1>4 DEF C2SStops
  <1> QED
    BY <1>1, <1>2, <1>3, <1>4 DEF C2S

LEMMA S2CPlaces == ASSUME Places, S2C PROVE Places'
  <1> USE DEF Places, TunnelOK, Ends, Stands, Stopped, Over, S2CMoves,
          clientV, tunnelV, helperV, targetV
  <1>1. CASE S2CReads
    BY <1>1 DEF S2CReads
  <1>2. CASE S2CSends
    BY <1>2 DEF S2CSends
  <1>3. CASE S2CSendFails
    BY <1>3 DEF S2CSendFails
  <1>4. CASE S2CStops
    BY <1>4 DEF S2CStops
  <1> QED
    BY <1>1, <1>2, <1>3, <1>4 DEF S2C

LEMMA HelperPlaces == ASSUME Places, Helper PROVE Places'
  <1> USE UnitsInSeq DEF Places, TunnelOK, Ends, Stands, Stopped, Over, Accepts, HelperCloses,
          Aborts, helperRest, clientV, tunnelV
  <1>1. CASE HelperGreets
    BY <1>1 DEF HelperGreets
  <1>2. CASE HelperAuths
    BY <1>2 DEF HelperAuths
  <1>3. CASE HelperParses
    BY <1>3 DEF HelperParses
  <1>4. CASE HelperRejects
    BY <1>4 DEF HelperRejects
  <1>5. CASE HelperGivesUp
    BY <1>5 DEF HelperGivesUp
  <1>6. CASE DialOk
    BY <1>6 DEF DialOk
  <1>7. CASE DialFails
    BY <1>7 DEF DialFails
  <1>8. CASE HelperEnds
    BY <1>8 DEF HelperEnds
  <1> QED
    BY <1>1, <1>2, <1>3, <1>4, <1>5, <1>6, <1>7, <1>8 DEF Helper, Negotiates

LEMMA HuPlaces == ASSUME Places, Hu PROVE Places'
  <1> USE UnitsInSeq DEF Places, TunnelOK, Ends, Stands, Stopped, Over, HuMoves,
          clientV, tunnelV, targetV
  <1>1. CASE HuReads
    BY <1>1 DEF HuReads
  <1>2. CASE HuWrites
    BY <1>2 DEF HuWrites
  <1>3. CASE HuStops
    BY <1>3 DEF HuStops
  <1> QED
    BY <1>1, <1>2, <1>3 DEF Hu

LEMMA HdPlaces == ASSUME Places, Hd PROVE Places'
  <1> USE DEF Places, TunnelOK, Ends, Stands, Stopped, Over, HdMoves,
          clientV, tunnelV, targetV
  <1>1. CASE HdReads
    BY <1>1 DEF HdReads
  <1>2. CASE HdWrites
    BY <1>2 DEF HdWrites
  <1>3. CASE HdWritesInVain
    BY <1>3 DEF HdWritesInVain
  <1>4. CASE HdStops
    BY <1>4 DEF HdStops
  <1> QED
    BY <1>1, <1>2, <1>3, <1>4 DEF Hd

LEMMA PeersPlaces == ASSUME Places, Peers \/ Gathered PROVE Places'
  <1> USE UnitsInSeq DEF Places, TunnelOK, Ends, Stands, Stopped, Over, targetRest,
          clientV, tunnelV, helperV, targetV
  <1>1. CASE \E u \in {"ok", "bad"} : ClientSends(u)
    BY <1>1 DEF ClientSends
  <1>2. CASE ClientReads
    BY <1>2 DEF ClientReads
  <1>3. CASE ClientLeaves
    BY <1>3 DEF ClientLeaves
  <1>4. CASE TargetSends
    BY <1>4 DEF TargetSends
  <1>5. CASE TargetReads
    BY <1>5 DEF TargetReads
  <1>6. CASE TargetEnds
    BY <1>6 DEF TargetEnds
  <1>7. CASE TargetGoes
    BY <1>7 DEF TargetGoes
  <1>8. CASE Gathered
    BY <1>8 DEF Gathered
  <1> QED
    BY <1>1, <1>2, <1>3, <1>4, <1>5, <1>6, <1>7, <1>8 DEF Peers

-----------------------------------------------------------------------------
(* What each step does to the ledgers. *)

LEMMA UpUntouched ==
    ASSUME TunnelOK, UNCHANGED <<auth, sent, inbox, q1u, helper, hu, q2u, got>>
    PROVE  UpEven
  BY Tallies DEF TalliesOK, UpEven, UpTotal, Parsed, Answered, Stages

LEMMA DownUntouched ==
    ASSUME TunnelOK, UNCHANGED <<auth, back, s2c, q1d, helper, hd, q2d, made>>
    PROVE  DownEven
  BY Tallies DEF TalliesOK, DownEven, DownTotal, DownDue, Answered, Stages

\* A tunnel that has closed towards a helper that has not ended has no client.
LEMMA ClosedMeansLeft ==
    ASSUME Places, tclosed, helper # "done"
    PROVE  ws # "open"
  BY DEF Places, TunnelOK, Ends, Over

LEMMA C2SEven == ASSUME Places, Places', Ledgers, C2S PROVE UpEven /\ DownEven
  <1> USE DEF Places
  <1>1. DownEven
    BY DownUntouched DEF C2S, C2SWrites, C2SWritesInVain, C2SRaises, C2SStops, C2SEnds,
                         clientV, helperV, targetV, tunnelV
  <1>2. CASE C2SWrites
    <2>1. /\ Len(inbox') = Len(inbox) - 1 /\ Len(q1u') = Len(q1u) + 1
          /\ UNCHANGED <<auth, sent, helper, hu, q2u, got>>
      BY <1>2, UnitsInSeq DEF C2SWrites, TunnelOK, helperV, targetV
    <2>2. Parsed' = Parsed
      BY <2>1 DEF Parsed, Answered, Stages
    <2>3. Len(inbox) \in Nat /\ Len(q1u) \in Nat /\ q2u \in Nat /\ got \in Nat
      BY UnitsInSeq DEF TunnelOK
    <2> QED
      BY <1>1, <2>1, <2>2, <2>3, Tallies DEF TalliesOK, UpEven, UpTotal
  <1>3. CASE C2SWritesInVain \/ C2SRaises
    <2>1. hclosed /\ c2s = "read" /\ UNCHANGED <<helper, hu, target>>
      BY <1>3 DEF C2SWritesInVain, C2SRaises, C2SEnds, helperV, targetV
    <2>2. Nowhere'
      BY <2>1 DEF Nowhere, Ends, Stands, Stopped
    <2> QED
      BY <1>1, <2>2 DEF UpEven
  <1>4. CASE C2SStops
    <2>1. CASE q1u' = q1u
      BY <1>1, <1>4, <2>1, UpUntouched DEF C2SStops, C2SEnds, clientV, helperV, targetV
    <2>2. CASE q1u' # q1u
      <3>1. q1d > 0 /\ ws' # "open" /\ back' = back /\ made' = made /\ Stages' = Stages
        BY <1>4, <2>2 DEF C2SStops, C2SEnds, Aborts, clientV, targetV, Stages
      <3>2. /\ TalliesOK /\ q1d \in Nat /\ q2d \in Nat /\ back \in Nat /\ made \in Nat
            /\ DownTotal <= DownDue
        BY Tallies DEF TunnelOK, Ledgers, DownLedger
      <3>3. back < DownTotal /\ DownDue <= made + Stages
        BY <3>1, <3>2 DEF TalliesOK, DownTotal, DownDue
      <3>4. back < made + Stages
        BY <3>2, <3>3 DEF TalliesOK
      <3> QED
        BY <1>1, <3>1, <3>4 DEF UpEven, LeftEarly
    <2> QED
      BY <2>1, <2>2
  <1> QED
    BY <1>2, <1>3, <1>4 DEF C2S

LEMMA S2CEven == ASSUME Places, Places', S2C PROVE UpEven /\ DownEven
  <1> USE DEF Places
  <1>1. UpEven
    BY UpUntouched DEF S2C, S2CReads, S2CSends, S2CSendFails, S2CStops, S2CMoves, helperV, targetV
  <1>2. /\ UNCHANGED <<hd, q2d, made, helper, auth, ws>> /\ Answered' = Answered
        /\ Held(hd', "write") = Held(hd, "write")
    BY DEF S2C, S2CReads, S2CSends, S2CSendFails, S2CStops, S2CMoves, helperV, targetV,
           Answered, Stages
  <1>3. \/ /\ Held(s2c', "send") = Held(s2c, "send") + 1 /\ q1d' = q1d - 1 /\ back' = back
        \/ /\ Held(s2c, "send") = Held(s2c', "send") + 1 /\ q1d' = q1d /\ back' = back + 1
        \/ /\ Held(s2c, "send") = Held(s2c', "send") + 1 /\ q1d' = q1d /\ back' = back
           /\ ws # "open"
        \/ /\ Held(s2c', "send") = Held(s2c, "send") /\ q1d' = q1d /\ back' = back
    BY DEF S2C, S2CReads, S2CSends, S2CSendFails, S2CStops, S2CMoves, Held, Over
  <1>4. back \in Nat /\ q1d \in Nat /\ q2d \in Nat /\ made \in Nat
    BY DEF TunnelOK
  <1> HIDE DEF Places
  <1>5. TalliesOK /\ Held(s2c', "send") \in {0, 1}
    BY Tallies DEF Places, Held
  <1>6. DownEven
    BY <1>2, <1>3, <1>4, <1>5 DEF TalliesOK, DownEven, DownTotal, DownDue
  <1> QED
    BY <1>1, <1>6

\* The helper's steps before it relays add a unit parsed to one taken from the
\* tunnel, and a reply given to one on its way.
LEMMA NegotiatesEven ==
    ASSUME Places, Places', HelperGreets \/ HelperAuths \/ HelperParses
    PROVE  UpEven /\ DownEven
  <1>1. /\ q1u # <<>> /\ q1u' = Tail(q1u)
        /\ UNCHANGED <<auth, inbox, sent, back, ws, s2c, q2u, q2d, got, made, hu, hd, target>>
    BY DEF HelperGreets, HelperAuths, HelperParses, Accepts, helperRest, clientV, tunnelV
  <1>2. Len(q1u') = Len(q1u) - 1 /\ Len(q1u) \in Nat /\ Len(inbox) \in Nat
    BY <1>1, UnitsInSeq DEF Places, TunnelOK
  <1>3. Parsed' = Parsed + 1
    BY DEF HelperGreets, HelperAuths, HelperParses, Accepts, helperRest, Parsed, Answered, Replies,
           Stages, Places, Stands
  <1>4. \/ q1d' = q1d /\ Answered' = Answered
        \/ q1d' = q1d + 1 /\ Answered' = Answered + 1
        \/ q1d' = q1d /\ Answered' = Answered + 1 /\ ws' # "open"
    <2>1. CASE HelperGreets \/ HelperAuths
      <3>1. Answered' = Answered + 1
        BY <2>1 DEF HelperGreets, HelperAuths, Accepts, helperRest, Answered, Replies,
                    Stages, Places, Stands
      <3>2. (q1d' = q1d + 1 \/ (q1d' = q1d /\ tclosed)) /\ helper # "done"
        BY <2>1 DEF HelperGreets, HelperAuths, Accepts
      <3> QED
        BY <1>1, <3>1, <3>2, ClosedMeansLeft
    <2>2. CASE HelperParses
      BY <2>2 DEF HelperParses, Accepts, helperRest, Answered, Replies, Stages
    <2> QED
      BY <2>1, <2>2
  <1>5. TalliesOK /\ TalliesOK'
    BY Tallies, TalliesAfter DEF Places
  <1>6. /\ back \in Nat /\ q1d \in Nat /\ q2d \in Nat /\ made \in Nat /\ q2u \in Nat
        /\ got \in Nat
    BY DEF Places, TunnelOK
  <1>7. UpEven
    BY <1>1, <1>2, <1>3, <1>5, <1>6 DEF UpEven, UpTotal, TalliesOK
  <1>8. /\ Held(s2c', "send") = Held(s2c, "send") /\ Held(hd', "write") = Held(hd, "write")
        /\ UNCHANGED <<back, made, q2d>>
    BY <1>1
  <1>9. DownEven
    <2>1. CASE q1d' = q1d /\ Answered' = Answered
      BY <1>5, <1>6, <1>8, <2>1 DEF DownEven, DownTotal, DownDue, TalliesOK
    <2>2. CASE q1d' = q1d + 1 /\ Answered' = Answered + 1
      BY <1>5, <1>6, <1>8, <2>2 DEF DownEven, DownTotal, DownDue, TalliesOK
    <2>3. CASE q1d' = q1d /\ Answered' = Answered + 1 /\ ws' # "open"
      <3>1. DownTotal' = DownTotal /\ DownDue' = DownDue + 1
        BY <1>5, <1>6, <1>8, <2>3 DEF DownTotal, DownDue, TalliesOK
      <3> QED
        BY <1>5, <2>3, <3>1 DEF DownEven, TalliesOK
    <2> QED
      BY <1>4, <2>1, <2>2, <2>3
  <1> QED
    BY <1>7, <1>9

\* A helper that ends before it relays leaves nowhere to go, and gives one more
\* reply at most.
LEMMA FailsEven ==
    ASSUME Places, Places', HelperRejects \/ HelperGivesUp \/ DialFails
    PROVE  UpEven /\ DownEven
  <1>1. /\ helper \in {"greeting", "auth", "request", "dial"} /\ helper' = "done"
        /\ q1d' = q1d \/ q1d' = q1d + 1
        /\ UNCHANGED <<auth, back, s2c, q2d, made, hu, hd>>
    BY DEF HelperRejects, HelperGivesUp, DialFails, HelperCloses, helperRest, clientV, tunnelV
  <1>2. Nowhere'
    BY <1>1 DEF Places, Stands, Nowhere
  <1>3. Answered + 1 <= Answered'
    BY <1>1 DEF Answered, Replies, Stages
  <1>4. TalliesOK /\ TalliesOK'
    BY Tallies, TalliesAfter DEF Places
  <1>5. back \in Nat /\ q1d \in Nat /\ q2d \in Nat /\ made \in Nat
    BY DEF Places, TunnelOK
  <1>6. DownTotal' + DownDue <= DownTotal + DownDue'
    BY <1>1, <1>3, <1>4, <1>5 DEF DownTotal, DownDue, TalliesOK
  <1> QED
    BY <1>2, <1>6 DEF UpEven, DownEven

\* The dial brings a reply, and the helper's end none; what its close may cost
\* the client is only lost if the target has gone.
LEMMA RelayEven == ASSUME Places, Places', DialOk \/ HelperEnds PROVE UpEven /\ DownEven
  <1>1. UNCHANGED <<auth, inbox, sent, back, ws, s2c, q1u, q2u, q2d, got, made>>
    BY DEF DialOk, HelperEnds, HelperCloses, helperRest, clientV, tunnelV
  <1>2. /\ Held(hu', "write") = Held(hu, "write") /\ Held(hd', "write") = Held(hd, "write")
        /\ Parsed' = Parsed
    BY DEF DialOk, HelperEnds, HelperCloses, helperRest, Parsed, Answered, Replies, Stages, Held,
           Places, Stands
  <1>3. \/ q1d' = q1d /\ Answered' = Answered
        \/ q1d' = q1d + 1 /\ Answered' = Answered + 1
        \/ q1d' = q1d /\ Answered' = Answered + 1 /\ ws' # "open"
        \/ q1d' = 0 /\ Answered' = Answered /\ Nowhere'
    <2>1. CASE DialOk
      <3>1. Answered' = Answered + 1
        BY <2>1 DEF DialOk, helperRest, Answered, Replies, Stages
      <3>2. (q1d' = q1d + 1 \/ (q1d' = q1d /\ tclosed)) /\ helper # "done"
        BY <2>1 DEF DialOk
      <3> QED
        BY <1>1, <3>1, <3>2, ClosedMeansLeft
    <2>2. CASE HelperEnds
      <3>1. Answered' = Answered
        BY <2>2 DEF HelperEnds, HelperCloses, helperRest, Answered, Replies, Stages
      <3>2. q1d' = q1d \/ (q1d' = 0 /\ q1u # <<>>)
        BY <2>2 DEF HelperEnds, Aborts
      <3>3. q1u # <<>> => Nowhere'
        BY <2>2 DEF HelperEnds, HelperCloses, Places, Stopped, Nowhere
      <3> QED
        BY <3>1, <3>2, <3>3
    <2> QED
      BY <2>1, <2>2
  <1>4. TalliesOK /\ TalliesOK'
    BY Tallies, TalliesAfter DEF Places
  <1>5. /\ back \in Nat /\ q1d \in Nat /\ q2d \in Nat /\ made \in Nat /\ q2u \in Nat
        /\ got \in Nat /\ Len(inbox) \in Nat /\ Len(q1u) \in Nat
    BY UnitsInSeq DEF Places, TunnelOK
  <1>6. UpEven
    BY <1>1, <1>2, <1>4, <1>5 DEF UpEven, UpTotal, TalliesOK
  <1>7. Held(s2c', "send") = Held(s2c, "send") /\ UNCHANGED <<back, made, q2d>>
    BY <1>1
  <1>8. DownEven
    <2>1. CASE q1d' = q1d /\ Answered' = Answered
      BY <1>2, <1>4, <1>5, <1>7, <2>1 DEF DownEven, DownTotal, DownDue, TalliesOK
    <2>2. CASE q1d' = q1d + 1 /\ Answered' = Answered + 1
      <3>1. /\ DownTotal' = back + Held(s2c, "send") + (q1d + 1) + Held(hd, "write") + q2d
            /\ DownDue' = made + (Answered + 1)
        BY <1>2, <1>7, <2>2 DEF DownTotal, DownDue
      <3>2. /\ \A a, b, c, d, e \in Nat : a + b + (c + 1) + d + e = (a + b + c + d + e) + 1
            /\ \A a, b \in Nat : a + (b + 1) = (a + b) + 1
        OBVIOUS
      <3>3. Held(s2c, "send") \in Nat /\ Held(hd, "write") \in Nat /\ Answered \in Nat
        BY <1>4 DEF TalliesOK
      <3>4. DownTotal' = DownTotal + 1 /\ DownDue' = DownDue + 1
        BY <1>5, <3>1, <3>2, <3>3 DEF DownTotal, DownDue
      <3> QED
        BY <1>4, <3>4 DEF DownEven, TalliesOK
    <2>3. CASE q1d' = q1d /\ Answered' = Answered + 1 /\ ws' # "open"
      <3>1. DownTotal' = DownTotal /\ DownDue' = DownDue + 1
        BY <1>2, <1>4, <1>5, <1>7, <2>3 DEF DownTotal, DownDue, TalliesOK
      <3> QED
        BY <1>4, <2>3, <3>1 DEF DownEven, TalliesOK
    <2>4. CASE q1d' = 0 /\ Answered' = Answered /\ Nowhere'
      <3>1. DownTotal' <= DownTotal /\ DownDue' = DownDue
        BY <1>2, <1>4, <1>5, <1>7, <2>4 DEF DownTotal, DownDue, TalliesOK
      <3>2. \A m, n, k \in Nat : m <= n => m + k <= n + k
        OBVIOUS
      <3>3. DownTotal' \in Nat /\ DownTotal \in Nat /\ DownDue \in Nat
        BY <1>4 DEF TalliesOK
      <3>4. DownTotal' + DownDue <= DownTotal + DownDue'
        BY <3>1, <3>2, <3>3
      <3> QED
        BY <2>4, <3>4 DEF DownEven
    <2> QED
      BY <1>3, <2>1, <2>2, <2>3, <2>4
  <1> QED
    BY <1>6, <1>8

LEMMA HuEven == ASSUME Places, Places', Hu PROVE UpEven /\ DownEven
  <1>1. DownEven
    BY DownUntouched DEF Hu, HuReads, HuWrites, HuStops, HuMoves, Places, clientV, tunnelV, targetV
  <1>2. UNCHANGED <<auth, inbox, sent, helper, target, got>> /\ Parsed' = Parsed
    BY DEF Hu, HuReads, HuWrites, HuStops, HuMoves, clientV, targetV, Parsed, Answered, Stages
  <1>3. \/ /\ Held(hu', "write") = Held(hu, "write") + 1 /\ Len(q1u') = Len(q1u) - 1 /\ q2u' = q2u
        \/ /\ Held(hu, "write") = Held(hu', "write") + 1 /\ q1u' = q1u /\ q2u' = q2u + 1
        \/ /\ Held(hu', "write") = Held(hu, "write") /\ q1u' = q1u /\ q2u' = q2u
        \/ Nowhere'
    BY UnitsInSeq DEF Hu, HuReads, HuWrites, HuStops, HuMoves, targetV, Held, Places, TunnelOK,
                      Nowhere
  <1>4. TalliesOK /\ TalliesOK'
    BY Tallies, TalliesAfter DEF Places
  <1>5. q2u \in Nat /\ got \in Nat /\ Len(inbox) \in Nat /\ Len(q1u) \in Nat
    BY UnitsInSeq DEF Places, TunnelOK
  <1>6. UpTotal' = UpTotal \/ Nowhere'
    <2>1. CASE /\ Held(hu', "write") = Held(hu, "write") + 1
               /\ Len(q1u') = Len(q1u) - 1 /\ q2u' = q2u
      BY <1>2, <1>4, <1>5, <2>1 DEF UpTotal, TalliesOK
    <2>2. CASE /\ Held(hu, "write") = Held(hu', "write") + 1
               /\ q1u' = q1u /\ q2u' = q2u + 1
      <3>1. UpTotal' = Len(inbox) + Len(q1u) + Parsed + Held(hu', "write") + (q2u + 1) + got
        BY <1>2, <2>2 DEF UpTotal
      <3>2. Held(hu', "write") = 0 /\ Held(hu, "write") = 1 /\ Parsed \in Nat
        BY <1>4, <2>2 DEF Held, TalliesOK
      <3>3. \A a, b, c, d, e \in Nat : a + b + c + 0 + (d + 1) + e = a + b + c + 1 + d + e
        OBVIOUS
      <3> QED
        BY <1>5, <3>1, <3>2, <3>3 DEF UpTotal
    <2>3. CASE /\ Held(hu', "write") = Held(hu, "write")
               /\ q1u' = q1u /\ q2u' = q2u
      BY <1>2, <1>4, <1>5, <2>3 DEF UpTotal, TalliesOK
    <2> QED
      BY <1>3, <2>1, <2>2, <2>3
  <1>7. UpEven
    BY <1>2, <1>4, <1>6 DEF UpEven, TalliesOK
  <1> QED
    BY <1>1, <1>7

LEMMA HdEven == ASSUME Places, Places', Hd PROVE UpEven /\ DownEven
  <1>1. UpEven
    BY UpUntouched DEF Hd, HdReads, HdWrites, HdWritesInVain, HdStops, HdMoves, Places,
                       clientV, tunnelV, targetV
  <1>2. UNCHANGED <<auth, helper, back, s2c, made, ws>> /\ Answered' = Answered
    BY DEF Hd, HdReads, HdWrites, HdWritesInVain, HdStops, HdMoves, clientV, tunnelV, targetV,
           Answered, Stages
  <1>3. hd \in {"read", "write"}
    BY DEF Hd, HdReads, HdWrites, HdWritesInVain, HdStops
  <1>4. tclosed => ws # "open"
    BY <1>3, ClosedMeansLeft DEF Places, Stands
  <1>5. \/ /\ Held(hd', "write") = Held(hd, "write") + 1 /\ q2d' = q2d - 1 /\ q1d' = q1d
        \/ /\ Held(hd, "write") = Held(hd', "write") + 1 /\ q2d' = q2d /\ q1d' = q1d + 1
        \/ /\ Held(hd, "write") = Held(hd', "write") + 1 /\ q2d' = q2d /\ q1d' = q1d /\ tclosed
        \/ /\ Held(hd', "write") = Held(hd, "write") /\ q2d' = q2d /\ q1d' = q1d
    BY DEF Hd, HdReads, HdWrites, HdWritesInVain, HdStops, HdMoves, Held
  <1>6. TalliesOK /\ TalliesOK'
    BY Tallies, TalliesAfter DEF Places
  <1>7. back \in Nat /\ q1d \in Nat /\ q2d \in Nat /\ made \in Nat
    BY DEF Places, TunnelOK
  <1>8. DownEven
    BY <1>2, <1>4, <1>5, <1>6, <1>7 DEF DownEven, DownTotal, DownDue, TalliesOK
  <1> QED
    BY <1>1, <1>8

LEMMA PeersEven == ASSUME Places, Places', Peers \/ Gathered PROVE UpEven /\ DownEven
  <1> USE DEF targetRest, clientV, tunnelV, helperV, targetV
  <1>1. TunnelOK /\ TalliesOK /\ TalliesOK'
    BY Tallies, TalliesAfter DEF Places
  <1>2. CASE \E u \in {"ok", "bad"} : ClientSends(u)
    <2>1. /\ Len(inbox') = Len(inbox) + 1 /\ sent' = sent + 1
          /\ UNCHANGED <<auth, q1u, helper, hu, q2u, got>> /\ Parsed' = Parsed
      BY <1>1, <1>2, UnitsInSeq DEF ClientSends, TunnelOK, Parsed, Answered, Stages
    <2>2. q2u \in Nat /\ got \in Nat /\ Len(inbox) \in Nat /\ Len(q1u) \in Nat
      BY <1>1, UnitsInSeq DEF TunnelOK
    <2>3. UpTotal' = UpTotal + 1
      <3>1. /\ Len(q1u') = Len(q1u) /\ Held(hu', "write") = Held(hu, "write")
            /\ q2u' = q2u /\ got' = got
        BY <2>1
      <3>2. Parsed \in Nat /\ Held(hu, "write") \in Nat
        BY <1>1 DEF TalliesOK
      <3> HIDE DEF targetRest, clientV, tunnelV, helperV, targetV
      <3> QED
        BY <2>1, <2>2, <3>1, <3>2 DEF UpTotal
    <2>4. UpEven
      BY <1>1, <2>1, <2>3 DEF UpEven, TalliesOK
    <2>5. DownEven
      BY <1>1, <1>2, DownUntouched DEF ClientSends
    <2> QED
      BY <2>4, <2>5
  <1>3. CASE ClientReads \/ ClientLeaves \/ TargetEnds \/ Gathered
    <2>1. UNCHANGED <<auth, sent, inbox, q1u, helper, hu, q2u, got>>
      BY <1>3 DEF ClientReads, ClientLeaves, TargetEnds, Gathered
    <2>2. UNCHANGED <<auth, back, s2c, q1d, helper, hd, q2d, made>>
      BY <1>3 DEF ClientReads, ClientLeaves, TargetEnds, Gathered
    <2> QED
      BY <1>1, <2>1, <2>2, UpUntouched, DownUntouched
  <1>4. CASE TargetSends
    <2>1. UpEven
      BY <1>1, <1>4, UpUntouched DEF TargetSends
    <2>2. /\ q2d' = q2d + 1 /\ made' = made + 1
          /\ UNCHANGED <<auth, back, s2c, q1d, helper, hd>> /\ Answered' = Answered
      BY <1>4 DEF TargetSends, Answered, Stages
    <2>3. back \in Nat /\ q1d \in Nat /\ q2d \in Nat /\ made \in Nat
      BY <1>1 DEF TunnelOK
    <2>4. DownEven
      BY <1>1, <2>2, <2>3 DEF DownEven, DownTotal, DownDue, TalliesOK
    <2> QED
      BY <2>1, <2>4
  <1>5. CASE TargetReads
    <2>1. DownEven
      BY <1>1, <1>5, DownUntouched DEF TargetReads
    <2>2. /\ q2u' = q2u - 1 /\ got' = got + 1
          /\ UNCHANGED <<auth, sent, inbox, q1u, helper, hu>> /\ Parsed' = Parsed
      BY <1>5 DEF TargetReads, Parsed, Answered, Stages
    <2>3. q2u \in Nat /\ got \in Nat /\ Len(inbox) \in Nat /\ Len(q1u) \in Nat
      BY <1>1, UnitsInSeq DEF TunnelOK
    <2>4. UpTotal' = UpTotal
      <3>1. /\ Len(inbox') = Len(inbox) /\ Len(q1u') = Len(q1u)
            /\ Held(hu', "write") = Held(hu, "write")
        BY <2>2
      <3>2. q2u' + got' = q2u + got /\ q2u' \in Nat /\ got' \in Nat
        BY <1>5, <2>2, <2>3 DEF TargetReads
      <3>3. Parsed \in Nat /\ Held(hu, "write") \in Nat
        BY <1>1 DEF TalliesOK
      <3> HIDE DEF targetRest, clientV, tunnelV, helperV, targetV
      <3> QED
        BY <2>2, <2>3, <3>1, <3>2, <3>3 DEF UpTotal
    <2>5. UpEven
      BY <1>1, <2>2, <2>4 DEF UpEven, TalliesOK
    <2> QED
      BY <2>1, <2>5
  <1>6. CASE TargetGoes
    <2>1. /\ q2d' \in {0, q2d} /\ Nowhere'
          /\ UNCHANGED <<auth, back, s2c, q1d, helper, hd, made>> /\ Answered' = Answered
      BY <1>6 DEF TargetGoes, Answered, Stages, Nowhere
    <2>2. back \in Nat /\ q1d \in Nat /\ q2d \in Nat /\ made \in Nat
      BY <1>1 DEF TunnelOK
    <2>3. DownTotal' + DownDue <= DownTotal + DownDue'
      BY <1>1, <2>1, <2>2 DEF DownTotal, DownDue, TalliesOK
    <2> QED
      BY <2>1, <2>3 DEF UpEven, DownEven
  <1> QED
    BY <1>2, <1>3, <1>4, <1>5, <1>6 DEF Peers

-----------------------------------------------------------------------------

TunnelInv == Places /\ Ledgers

\* No excuse is taken back: where nothing can arrive nothing ever will, and a
\* client that has gone stays away.
LEMMA ExcusesStay ==
    ASSUME Places, LTNext
    PROVE  /\ Nowhere => Nowhere'
           /\ ws # "open" => ws' # "open"
           /\ LeftEarly => LeftEarly'
  <1>1. Nowhere => Nowhere'
    <2> USE DEF Nowhere
    <2>1. CASE C2S \/ S2C \/ Gathered
      BY <2>1 DEF C2S, C2SWrites, C2SWritesInVain, C2SRaises, C2SStops, C2SEnds,
                  S2C, S2CReads, S2CSends, S2CSendFails, S2CStops, S2CMoves, Gathered,
                  helperV, targetV
    <2>2. CASE Helper
      BY <2>2 DEF Helper, Negotiates, HelperGreets, HelperAuths, HelperParses, Accepts,
                  HelperRejects, HelperGivesUp, DialOk, DialFails, HelperEnds, HelperCloses,
                  Places, Stands
    <2>3. CASE Hu \/ Hd
      BY <2>3 DEF Hu, HuReads, HuWrites, HuStops, HuMoves,
                  Hd, HdReads, HdWrites, HdWritesInVain, HdStops, HdMoves, targetV
    <2>4. CASE Peers
      BY <2>4 DEF Peers, ClientSends, ClientReads, ClientLeaves, TargetSends, TargetReads,
                  TargetEnds, TargetGoes, targetRest, helperV, targetV
    <2> QED
      BY <2>1, <2>2, <2>3, <2>4 DEF LTNext
  <1>2. /\ ws # "open" => ws' # "open" /\ back' = back
        /\ Stages' = Stages
    <2> USE DEF Stages
    <2>1. CASE C2S \/ S2C \/ Gathered
      BY <2>1 DEF C2S, C2SWrites, C2SWritesInVain, C2SRaises, C2SStops, C2SEnds,
                  S2C, S2CReads, S2CSends, S2CSendFails, S2CStops, S2CMoves, Gathered, clientV
    <2>2. CASE Helper
      BY <2>2 DEF Helper, Negotiates, HelperGreets, HelperAuths, HelperParses, Accepts,
                  HelperRejects, HelperGivesUp, DialOk, DialFails, HelperEnds, HelperCloses,
                  helperRest, clientV
    <2>3. CASE Hu \/ Hd
      BY <2>3 DEF Hu, HuReads, HuWrites, HuStops, HuMoves,
                  Hd, HdReads, HdWrites, HdWritesInVain, HdStops, HdMoves, clientV
    <2>4. CASE Peers
      BY <2>4 DEF Peers, ClientSends, ClientReads, ClientLeaves, TargetSends, TargetReads,
                  TargetEnds, TargetGoes, targetRest, clientV
    <2> QED
      BY <2>1, <2>2, <2>3, <2>4 DEF LTNext
  <1>3. made \in Nat /\ made' \in Nat /\ made <= made' /\ back \in Nat /\ Stages \in {2, 3}
    <2>1. made' = made \/ made' = made + 1
      <3>1. CASE C2S \/ S2C \/ Gathered
        BY <3>1 DEF C2S, C2SWrites, C2SWritesInVain, C2SRaises, C2SStops, C2SEnds,
                    S2C, S2CReads, S2CSends, S2CSendFails, S2CStops, S2CMoves, Gathered, targetV
      <3>2. CASE Helper
        BY <3>2 DEF Helper, Negotiates, HelperGreets, HelperAuths, HelperParses, Accepts,
                    HelperRejects, HelperGivesUp, DialOk, DialFails, HelperEnds, HelperCloses,
                    helperRest
      <3>3. CASE Hu \/ Hd
        BY <3>3 DEF Hu, HuReads, HuWrites, HuStops, HuMoves,
                    Hd, HdReads, HdWrites, HdWritesInVain, HdStops, HdMoves, targetV
      <3>4. CASE Peers
        BY <3>4 DEF Peers, ClientSends, ClientReads, ClientLeaves, TargetSends, TargetReads,
                    TargetEnds, TargetGoes, targetV
      <3> QED
        BY <3>1, <3>2, <3>3, <3>4 DEF LTNext
    <2> QED
      BY <2>1 DEF Places, TunnelOK, Stages
  <1>4. LeftEarly => LeftEarly'
    <2>1. \A b, m, n, k \in Nat : m <= n /\ b < m + k => b < n + k
      OBVIOUS
    <2>2. ASSUME LeftEarly PROVE back' < made' + Stages'
      BY <1>2, <1>3, <2>1, <2>2 DEF LeftEarly
    <2> QED
      BY <1>2, <2>2 DEF LeftEarly
  <1> QED
    BY <1>1, <1>2, <1>4

LEMMA TunnelStart == LTInit => TunnelInv
  <1>1. LTInit => Places
    BY UnitsInSeq DEF LTInit, Places, TunnelOK, Ends, Stands, Stopped, Over
  <1>2. LTInit => Ledgers
    BY DEF LTInit, Ledgers, UpLedger, DownLedger, UpTotal, DownTotal, DownDue, Parsed, Answered,
           Replies, Held, Nowhere, LeftEarly, Stages
  <1> QED
    BY <1>1, <1>2 DEF TunnelInv

LEMMA TunnelStep == TunnelInv /\ [LTNext]_LTvars => TunnelInv'
  <1>1. ASSUME TunnelInv, LTNext PROVE TunnelInv'
    <2> USE <1>1 DEF TunnelInv
    <2>1. Places'
      BY C2SPlaces, S2CPlaces, HelperPlaces, HuPlaces, HdPlaces, PeersPlaces DEF LTNext
    <2>2. UpEven /\ DownEven
      BY <2>1, C2SEven, S2CEven, NegotiatesEven, FailsEven, RelayEven, HuEven, HdEven, PeersEven
         DEF LTNext, Helper, Negotiates
    <2> QED
      BY <2>1, <2>2, ExcusesStay, LedgersKept DEF Places
  <1>2. ASSUME TunnelInv, UNCHANGED LTvars PROVE TunnelInv'
    <2> USE DEF LTvars, clientV, tunnelV, helperV, targetV
    <2>1. Places'
      BY <1>2 DEF TunnelInv, Places, TunnelOK, Ends, Stands, Stopped
    <2>2. UpEven /\ DownEven
      BY <1>2, UpUntouched, DownUntouched DEF TunnelInv, Places
    <2>3. /\ Nowhere => Nowhere'
          /\ ws # "open" => ws' # "open"
          /\ LeftEarly => LeftEarly'
      BY <1>2 DEF Nowhere, LeftEarly, Stages
    <2> QED
      BY <1>2, <2>1, <2>2, <2>3, LedgersKept DEF TunnelInv, Places
  <1> QED
    BY <1>1, <1>2

\* The ledgers of both directions balance in every reachable state, whatever
\* the buffers and however much is sent.
THEOREM TunnelLedgers == LTSpec => []TunnelInv
  BY TunnelStart, TunnelStep, PTL DEF LTSpec

\* A client that has been sent all there was to send and leaves has lost none
\* of its upload: a target that goes on reading gets it, for every size of the
\* buffers and every amount of data.
THEOREM UploadComplete == LTSpec => []UploadArrives
  <1>1. TunnelInv => UploadArrives
    <2> SUFFICES ASSUME TunnelInv, hu = "done", q2u = 0, target # "rst"
                 PROVE  got = sent - Stages \/ back < made + Stages
      BY DEF UploadArrives
    <2>1. inbox = <<>> /\ q1u = <<>> /\ helper \in {"relay", "done"}
      BY DEF TunnelInv, Places, TunnelOK, Ends, Stands, Stopped
    <2>2. Parsed = Stages /\ Held(hu, "write") = 0
      BY <2>1 DEF Parsed, Answered, Replies, Held
    <2>3. LeftEarly \/ sent = UpTotal
      BY DEF TunnelInv, Ledgers, UpLedger, Nowhere
    <2>4. sent = UpTotal => got = sent - Stages
      BY <2>1, <2>2 DEF UpTotal, TunnelInv, Places, TunnelOK, Stages
    <2> QED
      BY <2>3, <2>4 DEF LeftEarly
  <1> QED
    BY <1>1, TunnelLedgers, PTL

\* All that a target sends before it ends reaches a client that stays, whatever
\* it uploads meanwhile, for every size of the buffers and every amount of data.
THEOREM TunnelDownloads == LTSpec => []DownloadArrives
  <1>1. TunnelInv => DownloadArrives
    <2> SUFFICES ASSUME TunnelInv, hd = "done", q1d = 0, s2c \in {"read", "done"},
                        target = "fin", ws = "open"
                 PROVE  back = made + Stages
      BY DEF DownloadArrives
    <2>1. q2d = 0 /\ helper \in {"relay", "done"} /\ ~Nowhere
      BY DEF TunnelInv, Places, TunnelOK, Stands, Stopped, Nowhere
    <2>2. Answered = Stages /\ Held(s2c, "send") = 0 /\ Held(hd, "write") = 0
      BY <2>1 DEF Answered, Replies, Held
    <2>3. DownTotal = DownDue
      BY <2>1 DEF TunnelInv, Ledgers, DownLedger
    <2> QED
      BY <2>1, <2>2, <2>3 DEF DownTotal, DownDue, TunnelInv, Places, TunnelOK
  <1> QED
    BY <1>1, TunnelLedgers, PTL

=============================================================================
