-------------------------- MODULE IngestSelection --------------------------
(***************************************************************************)
(* The choice of an ingest: a thread for each host of the list pings it    *)
(* and records its round trip time, the caller joins them one after the    *)
(* other and keeps the first host with the least time.  ingest_find_best   *)
(* does this for the ingests it fetched, ftl_find_closest_available_ingest *)
(* for those the application names; they differ in the time that stands in *)
(* the list before a ping.                                                 *)
(***************************************************************************)
EXTENDS Integers

CONSTANTS
    MaxHosts,       \* bound of the model: length of a list
    Rtts            \* the round trip times a ping can measure, in ms

ASSUME SelectionAssumption == MaxHosts \in Nat /\ Rtts \subseteq Nat

VARIABLES
    step,           \* where the caller is
    hosts,          \* length of the list
    answer,         \* what a ping of each host comes to
    rtt,            \* ingest->rtt of each host
    ping,           \* the thread of each host
    cursor,         \* the caller's loop variable i
    best            \* the best host so far, 0: NULL

selVars == <<step, hosts, answer, rtt, ping, cursor, best>>

\* FTL_DNS_FAILURE, a member of the enumeration ftl_status_t.
DnsFailure == 4

\* What a ping comes to: a time, no answer, or a name that getaddrinfo does not know.
Silent       == -1
Unresolvable == -2
Answers == Rtts \cup {Silent, Unresolvable}
Empty   == <<>>

SelInit ==
    /\ step = "idle" /\ hosts = 0 /\ cursor = 0 /\ best = 0
    /\ answer = Empty /\ rtt = Empty /\ ping = Empty

Begin(n, default) ==
    /\ step = "idle"
    /\ step' = IF n = 0 THEN "none" ELSE "ping"
    /\ hosts' = n
    /\ answer' \in [1..n -> Answers]
    /\ rtt' = [i \in 1..n |-> default]
    /\ ping' = [i \in 1..n |-> "none"]
    /\ cursor' = 1
    /\ best' = 0

\* _ingest_get_hosts: the list is fetched anew for every choice; the fetch may bring nothing.
FetchHosts == \E n \in 0..MaxHosts : Begin(n, 500)

\* ftl_find_closest_available_ingest refuses an empty list.
GivenHosts == \E n \in 1..MaxHosts : Begin(n, 1000)

\* A thread that cannot be created leaves its handle 0 and the host's time as it stands.
StartPing ==
    /\ step = "ping"
    /\ \E t \in {"created", "none"} : ping' = [ping EXCEPT ![cursor] = t]
    /\ IF cursor < hosts
         THEN cursor' = cursor + 1 /\ UNCHANGED step
         ELSE cursor' = 1 /\ step' = "join"
    /\ UNCHANGED <<hosts, answer, rtt, best>>

\* _ping_server: the measured time, a negative number without an answer, and the status
\* FTL_DNS_FAILURE, which is not negative, if the name has no address.
PingServer(i) == IF answer[i] = Unresolvable THEN DnsFailure ELSE answer[i]

\* _ingest_get_rtt
PingBegins(i) ==
    /\ ping[i] = "created"
    /\ ping' = [ping EXCEPT ![i] = "pinging"]
    /\ rtt' = [rtt EXCEPT ![i] = 1000]
    /\ UNCHANGED <<step, hosts, answer, cursor, best>>

PingEnds(i) ==
    /\ ping[i] = "pinging"
    /\ ping' = [ping EXCEPT ![i] = "exited"]
    /\ rtt' = [rtt EXCEPT ![i] = IF PingServer(i) >= 0 THEN PingServer(i) ELSE @]
    /\ UNCHANGED <<step, hosts, answer, cursor, best>>

Better(i) == best = 0 \/ rtt[i] < rtt[best]

\* Mutant: the caller does not wait for the ping of the host it looks at.
JoinPing_NoWait ==
    /\ step = "join"
    /\ best' = IF Better(cursor) THEN cursor ELSE best
    /\ cursor' = cursor + 1
    /\ step' = IF cursor = hosts THEN "done" ELSE "join"
    /\ UNCHANGED <<hosts, answer, rtt, ping>>

JoinPing ==
    /\ step = "join"
    /\ ping[cursor] \in {"none", "exited"}
    /\ best' = IF Better(cursor) THEN cursor ELSE best
    /\ cursor' = cursor + 1
    /\ step' = IF cursor = hosts THEN "done" ELSE "join"
    /\ UNCHANGED <<hosts, answer, rtt, ping>>

\* The arrays of the threads' handles and data are freed; the list is not read again before
\* the next choice drops it.
Return ==
    /\ step \in {"none", "done"}
    /\ step' = "idle" /\ hosts' = 0 /\ cursor' = 0 /\ best' = 0
    /\ answer' = Empty /\ rtt' = Empty /\ ping' = Empty

Pings   == \E i \in 1..hosts : PingBegins(i) \/ PingEnds(i)
Choosing == StartPing \/ Pings \/ JoinPing

-----------------------------------------------------------------------------
SelTypeOK ==
    /\ step \in {"idle", "none", "ping", "join", "done"}
    /\ hosts \in 0..MaxHosts /\ best \in 0..hosts /\ cursor \in 0..(hosts + 1)
    /\ answer \in [1..hosts -> Answers]
    /\ rtt \in [1..hosts -> Rtts \cup {DnsFailure, 500, 1000}]
    /\ ping \in [1..hosts -> {"none", "created", "pinging", "exited"}]

\* When the caller has chosen and is about to free the threads' data, no ping still runs (it
\* would write a time into freed memory), no host has a shorter recorded time than the chosen
\* one, and of equals the first in the list is chosen.
Settled ==
    step = "done" => \A i \in 1..hosts :
        /\ ping[i] \in {"none", "exited"}
        /\ rtt[best] <= rtt[i]
        /\ i < best => rtt[best] < rtt[i]
=============================================================================
