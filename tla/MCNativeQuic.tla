---------------------------- MODULE MCNativeQuic ----------------------------
EXTENDS NativeQuic

\* The client writes two bytes to a stream, the server none.
Amounts == [client |-> 2, server |-> 0]
=============================================================================
