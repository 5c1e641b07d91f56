---------------------------- MODULE RequestReply ----------------------------
(***************************************************************************)
(* What OmniConnection.request promises its caller, whatever the transport *)
(* does: an answer that is returned was computed by the panel for that very*)
(* request; a request that was never made is never executed; a request that*)
(* failed MAY have been executed, or may still be.  No more than that.     *)
(***************************************************************************)
CONSTANT Calls

VARIABLES
    status,     \* what each caller sees
    executed    \* the requests the panel has executed, at least once

rrVars == <<status, executed>>

Statuses == {"idle", "waiting", "answered", "failed"}

RRInit ==
    /\ status = [r \in Calls |-> "idle"]
    /\ executed = {}

Invoke(r) ==
    /\ status[r] = "idle"
    /\ status' = [status EXCEPT ![r] = "waiting"]
    /\ UNCHANGED executed

\* The request is turned down before anything is sent.
Refuse(r) ==
    /\ status[r] = "idle"
    /\ status' = [status EXCEPT ![r] = "failed"]
    /\ UNCHANGED executed

Execute(r) ==
    /\ status[r] # "idle"
    /\ executed' = executed \cup {r}
    /\ UNCHANGED status

Answer(r) ==
    /\ status[r] = "waiting"
    /\ r \in executed
    /\ status' = [status EXCEPT ![r] = "answered"]
    /\ UNCHANGED executed

Fail(r) ==
    /\ status[r] = "waiting"
    /\ status' = [status EXCEPT ![r] = "failed"]
    /\ UNCHANGED executed

\* Closing the connection, or a crash of its reader, fails any number of
\* waiting requests; they return one by one, each by its own Fail.
RRNext == \E r \in Calls : Invoke(r) \/ Refuse(r) \/ Execute(r) \/ Answer(r) \/ Fail(r)

RRSpec == RRInit /\ [][RRNext]_rrVars
=============================================================================
