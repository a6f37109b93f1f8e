----------------------------- MODULE RemoteCall -----------------------------
(***************************************************************************)
(* What RemoteFs::request promises: a call ends exactly once, with the     *)
(* host's answer to this very call or with EIO.  The host runs a call at   *)
(* most once.  An answered call has run; one that ended in EIO may have    *)
(* run, may not have, and may even run later, when its caller has given it *)
(* up: a timeout does not take a request back.                             *)
(***************************************************************************)
CONSTANT Call       \* the calls that may be made

VARIABLES
    outcome,        \* how each call stands
    ran             \* the calls the host has run

None == "none"      \* not made
Open == "open"      \* made, not ended
Ok   == "ok"        \* ended with the host's answer
Eio  == "eio"       \* ended with EIO

vars == <<outcome, ran>>

Init == outcome = [k \in Call |-> None] /\ ran = {}

Begin(k) ==
    /\ outcome[k] = None
    /\ outcome' = [outcome EXCEPT ![k] = Open]
    /\ UNCHANGED ran

Run(k) ==
    /\ outcome[k] # None /\ k \notin ran
    /\ ran' = ran \cup {k}
    /\ UNCHANGED outcome

Answer(k) ==
    /\ outcome[k] = Open /\ k \in ran
    /\ outcome' = [outcome EXCEPT ![k] = Ok]
    /\ UNCHANGED ran

GiveUp(k) ==
    /\ outcome[k] = Open
    /\ outcome' = [outcome EXCEPT ![k] = Eio]
    /\ UNCHANGED ran

Next == \E k \in Call : Begin(k) \/ Run(k) \/ Answer(k) \/ GiveUp(k)

Spec == Init /\ [][Next]_vars
=============================================================================
