------------------------- MODULE MCSubstitution -------------------------
(* Finite instances of Substitution for TLC.                                *)
EXTENDS Substitution, TLC

CONSTANTS s1, s2

IPv4(key, size) == [key |-> key, type |-> "ipv4Address", unique |-> TRUE, size |-> size]
IPv6(key, size) == [key |-> key, type |-> "ipv6Address", unique |-> TRUE, size |-> size]

\* Two keys over prefixes that hold two addresses and four.
TwoKeys == <<IPv4("$v4", 3), IPv6("$v6", 4)>>
OneKey == <<IPv4("$v4", 4)>>

Symmetry == Permutations(Sets)
=============================================================================
