--------------------------- MODULE MCAuthManager ----------------------------
EXTENDS AuthManager, TLC

\* Addresses and connections are interchangeable.
Sym == Permutations(IPs) \cup Permutations(Conns)
=============================================================================
