----------------------------- MODULE Connecting -----------------------------
(***************************************************************************)
(* The ingest selection and the control connection together: with the host *)
(* name "auto" ftl_ingest_connect connects to the ingest that the          *)
(* selection finds, with any other name to that host.                      *)
(***************************************************************************)
EXTENDS ControlConnection, IngestSelection

vars == <<ctlVars, selVars>>

Init == CtlInit /\ SelInit

\* _set_ingest_hostname: the name is "auto".
ConnectAuto == Connect /\ FetchHosts

\* The name is a host's.
ConnectNamed == step = "idle" /\ Connect /\ UNCHANGED selVars
ResolveNamed == step = "idle" /\ (\E found \in BOOLEAN : Resolve(found)) /\ UNCHANGED selVars

Choose == Choosing /\ UNCHANGED ctlVars

\* The chosen name is looked up, like any other.  Without a list the name is NULL, which
\* getaddrinfo takes for this machine.
ResolveChosen ==
    /\ phase = "resolve" /\ step \in {"none", "done"}
    /\ Resolve(step = "done" => answer[best] # Unresolvable)
    /\ Return

\* The application may ask for the closest of its own hosts while it has no connection.
FindClosest       == phase = "closed" /\ GivenHosts /\ UNCHANGED ctlVars
FindClosestReturn == phase = "closed" /\ Return /\ UNCHANGED ctlVars

Control == (Handshake \/ Threads \/ Disconnect \/ Environment) /\ UNCHANGED selVars

Next ==
    \/ ConnectAuto \/ ConnectNamed \/ ResolveNamed \/ Choose \/ ResolveChosen
    \/ FindClosest \/ FindClosestReturn
    \/ Control

Spec == Init /\ [][Next]_vars

\* A call that was made goes on: its threads run, and so do the client's steps; a read of the
\* socket ends by its timeout if nothing arrives.
FairSpec ==
    /\ Spec
    /\ WF_vars(Choose)
    /\ WF_vars(ResolveNamed \/ ResolveChosen)
    /\ WF_vars(Handshake /\ UNCHANGED selVars)

-----------------------------------------------------------------------------
TypeOK == CtlTypeOK /\ SelTypeOK

\* An ingest whose name cannot be resolved is chosen only if no other ingest answered:
\* FTL_DNS_FAILURE means "DNS probe failed" (ftl.h:64), and the log names the chosen ingest as
\* the one that "had the shortest RTT" (ingest.c:416).
ResolvableChosen ==
    (step = "done" /\ answer[best] = Unresolvable) =>
        \A i \in 1..hosts : ping[i] = "exited" => answer[i] \notin Rtts
=============================================================================
