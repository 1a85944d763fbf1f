--------------------------- MODULE MCRateLimiter ----------------------------
EXTENDS AdmissionWindow, TLC

\* Addresses and Lease objects are interchangeable.
Sym == Permutations(IPs) \cup Permutations(Leases)
=============================================================================
