----------------------------- MODULE MCWebPeers -----------------------------
EXTENDS WebPeers

\* A browser that is silent or says hello late, and a native peer.
Kinds == [a |-> "compat", b |-> "quic"]
=============================================================================
