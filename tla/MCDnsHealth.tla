----------------------------- MODULE MCDnsHealth -----------------------------
(* Small instances of DnsHealth for TLC. *)
EXTENDS DnsHealth, TLC

\* Names and callers are interchangeable; servers and lookups are ordered.
Symmetry == Permutations(Callers) \cup Permutations(Hosts)

=============================================================================
