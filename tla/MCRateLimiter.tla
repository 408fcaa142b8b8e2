--------------------------- MODULE MCRateLimiter ---------------------------
(* RateLimiter with one host reached over IPv4 and as a mapped address, one *)
(* native IPv6 host and one peer without an address ("unknown").            *)
EXTENDS RateLimiter

CONSTANTS v4, mapped, v6, name, host, other, anon

MCAddrs == {v4, mapped, v6, name}
MCKeys  == {host, other, anon}
MCForm  == [a \in MCAddrs |-> CASE a = v4 -> "v4" [] a = mapped -> "mapped"
                                [] a = v6 -> "v6" [] a = name -> "name"]
MCKeyOf == [a \in MCAddrs |-> CASE a = v6 -> other [] a = name -> anon
                                [] OTHER -> host]
=============================================================================
