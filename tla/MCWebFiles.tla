----------------------------- MODULE MCWebFiles -----------------------------
EXTENDS WebFiles

\* Two threads of one mount.
Mount == {<<"m", 1>>, <<"m", 2>>}
Ids == [c \in {"m"} |-> 100]
=============================================================================
