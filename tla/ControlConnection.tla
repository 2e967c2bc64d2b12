------------------------- MODULE ControlConnection -------------------------
(***************************************************************************)
(* The control connection with the ingest: the handshake of                *)
(* ftl_ingest_connect, the keepalive thread that sends a PING at a fixed   *)
(* period, and the connection status thread that reads what the ingest     *)
(* says and gives the connection up when it is told an error or has not    *)
(* read the answer to a PING for too long.                                 *)
(*                                                                         *)
(* Each direction of the TCP connection is a queue of lines.  A read takes *)
(* all that has arrived, one line or several, and only the first is looked *)
(* at.  Time passes in rounds of the status thread, and only while the     *)
(* connection is up: a tick is STATUS_THREAD_SLEEP_TIME_MS.  How the       *)
(* teardown interleaves with the application's calls is module Session's   *)
(* subject; here the connection is given up in one step.                   *)
(***************************************************************************)
EXTENDS Integers, Sequences

CONSTANTS
    PingEvery,      \* KEEPALIVE_FREQUENCY_MS, in ticks
    MaxDelay,       \* ticks in which a living ingest's answer to a PING arrives
    MaxAttempts     \* bound of the model: calls of ftl_ingest_connect

ASSUME ControlAssumption ==
    PingEvery \in Nat \ {0} /\ MaxDelay \in Nat /\ MaxAttempts \in Nat

VARIABLES
    phase,          \* how far ftl_ingest_connect is; "up": the threads run
    result,         \* what it returned
    port,           \* media.assigned_port, -1: the ingest named none
    toIngest,       \* commands on their way
    toClient,       \* lines on their way, or received and not yet read
    sincePong,      \* ticks since last_ping
    sincePing,      \* ticks since the keepalive thread sent a PING
    polled,         \* the status thread had its round in this tick
    attempt,        \* calls so far
    \* the ingest
    stage,          \* answers of the handshake it has accepted: 0, 1, 2; 3: it is live
    gone,           \* it has closed the connection or cannot be reached
    said,           \* errors it has sent on this connection
    sinceGone,      \* ticks since it is gone
    verdict         \* the last connection given up: why, and what was the case

clientVars == <<phase, result, port, attempt>>
timeVars   == <<sincePong, sincePing, polled, sinceGone>>
streamVars == <<toIngest, toClient>>
ingestVars == <<stage, gone, said>>
ctlVars == <<clientVars, timeVars, streamVars, ingestVars, verdict>>

Codes  == {"200", "200_port", "201", "408", "410", "junk"}
Errors == {"408", "410", "junk"}
Line(c, a) == [code |-> c, age |-> a]

\* keepalive_is_late
LateAfter == 6 * PingEvery

\* Stands for the port the ingest names.
AnyPort == 1
NoVerdict == [status |-> "none", gone |-> FALSE, said |-> {}]

CtlInit ==
    /\ phase = "closed" /\ result = "none" /\ port = 0 /\ attempt = 0
    /\ sincePong = 0 /\ sincePing = 0 /\ polled = FALSE /\ sinceGone = 0
    /\ toIngest = <<>> /\ toClient = <<>>
    /\ stage = 0 /\ gone = FALSE /\ said = {}
    /\ verdict = NoVerdict

\* _log_response
LogResponse(code) ==
    CASE code \in {"200", "200_port", "201"} -> "SUCCESS"
      [] code = "408" -> "NO_MEDIA_TIMEOUT"
      [] code = "410" -> "INGEST_SERVER_TERMINATE"
      [] code = "closed" -> "INGEST_SOCKET_CLOSED"
      [] code = "timeout" -> "INGEST_SOCKET_TIMEOUT"
      [] OTHER -> "UNKNOWN_ERROR_CODE"

\* The socket is closed: nothing on its way arrives any more.
CloseSocket ==
    /\ phase' = "closed"
    /\ toIngest' = <<>> /\ toClient' = <<>>
    /\ stage' = 0 /\ gone' = FALSE /\ said' = {}
    /\ sincePong' = 0 /\ sincePing' = 0 /\ polled' = FALSE /\ sinceGone' = 0

\* What the commands cs come to: an ingest that is gone receives nothing.
Send(cs) ==
    toIngest' = IF gone THEN toIngest
                ELSE toIngest \o [i \in 1..Len(cs) |-> Line(cs[i], 0)]

\* recv_all: a read returns when the last byte it got ends a line; it takes the first k lines
\* of the stream, those that have arrived.
RecvAll(k) == toClient' = SubSeq(toClient, k + 1, Len(toClient))

-----------------------------------------------------------------------------
(* ftl_ingest_connect: _init_control_connection and _ingest_connect *)

Connect ==
    /\ phase = "closed" /\ attempt < MaxAttempts
    /\ phase' = "resolve"
    /\ attempt' = attempt + 1
    /\ result' = "pending"
    /\ UNCHANGED <<port, timeVars, streamVars, ingestVars, verdict>>

Resolve(found) ==
    /\ phase = "resolve"
    /\ IF found THEN phase' = "open" /\ UNCHANGED result
                ELSE phase' = "closed" /\ result' = "DNS_FAILURE"
    /\ UNCHANGED <<port, attempt, timeVars, streamVars, ingestVars, verdict>>

\* The addresses of the host are tried one after the other; none may answer.
OpenSocket ==
    /\ phase = "open"
    /\ \/ /\ phase' = "hmac"
          /\ Send(<<"HMAC">>)
          /\ UNCHANGED result
       \/ /\ phase' = "closed"
          /\ result' = "CONNECT_ERROR"
          /\ UNCHANGED toIngest
    /\ UNCHANGED <<port, attempt, timeVars, toClient, ingestVars, verdict>>

Refuse(status) ==
    /\ CloseSocket
    /\ result' = status
    /\ UNCHANGED <<port, attempt, verdict>>

Accepted(code) == code \in {"200", "200_port"}

\* ftl_get_hmac reports anything but an acceptance as no response; if more was read than one
\* line, what it takes for the message may be of odd length.
AnswerHmac(k) ==
    /\ phase = "hmac"
    /\ \/ /\ Accepted(toClient[1].code)
          /\ phase' = "connect"
          /\ RecvAll(k)
          /\ Send(<<"CONNECT">>)
          /\ UNCHANGED <<result, port, attempt, timeVars, ingestVars, verdict>>
       \/ (~Accepted(toClient[1].code) \/ k > 1) /\ Refuse("INGEST_NO_RESPONSE")

\* Mutant: CONNECT is sent like the fields, without reading an answer.
AnswerConnect_NotRead(k) ==
    /\ phase = "connect"
    /\ phase' = "finish"
    /\ Send(<<"FIELD", ".">>)
    /\ UNCHANGED <<result, port, attempt, timeVars, toClient, ingestVars, verdict>>

\* Once CONNECT is accepted the description of the stream goes out: the fields, which are not
\* answered, and the dot.
AnswerConnect(k) ==
    /\ phase = "connect"
    /\ \/ /\ Accepted(toClient[1].code)
          /\ phase' = "finish"
          /\ RecvAll(k)
          /\ Send(<<"FIELD", ".">>)
          /\ UNCHANGED <<result, port, attempt, timeVars, ingestVars, verdict>>
       \/ ~Accepted(toClient[1].code) /\ Refuse(LogResponse(toClient[1].code))

AnswerDot(k) ==
    /\ phase = "finish"
    /\ \/ /\ Accepted(toClient[1].code)
          /\ phase' = "start"
          /\ port' = IF toClient[1].code = "200_port" THEN AnyPort ELSE -1
          /\ RecvAll(k)
          /\ UNCHANGED <<result, attempt, timeVars, toIngest, ingestVars, verdict>>
       \/ ~Accepted(toClient[1].code) /\ Refuse(LogResponse(toClient[1].code))

\* Mutant: without SOCKET_RECV_TIMEOUT_MS.
NoAnswer_NoTimeout ==
    /\ phase \in {"hmac", "connect", "finish"} /\ toClient = <<>> /\ gone
    /\ Refuse(IF phase = "hmac" THEN "INGEST_NO_RESPONSE" ELSE LogResponse("closed"))

\* Without an answer recv fails after SOCKET_RECV_TIMEOUT_MS, or at once if the ingest has
\* closed the connection.
NoAnswer ==
    /\ phase \in {"hmac", "connect", "finish"} /\ toClient = <<>>
    /\ \E code \in {"timeout"} \cup (IF gone THEN {"closed"} ELSE {}) :
         Refuse(IF phase = "hmac" THEN "INGEST_NO_RESPONSE" ELSE LogResponse(code))

\* FTL_MALLOC_FAILURE, of a thread that cannot be created, is no response code.
StartThreads ==
    /\ phase = "start"
    /\ \/ /\ phase' = "up"
          /\ result' = "SUCCESS"
          /\ UNCHANGED <<port, attempt, timeVars, streamVars, ingestVars, verdict>>
       \/ Refuse("UNKNOWN_ERROR_CODE")

Handshake ==
    \/ OpenSocket \/ NoAnswer \/ StartThreads
    \/ \E k \in 1..Len(toClient) : AnswerHmac(k) \/ AnswerConnect(k) \/ AnswerDot(k)

-----------------------------------------------------------------------------
(* control_keepalive_thread *)

KeepAlive ==
    /\ phase = "up" /\ sincePing = PingEvery
    /\ sincePing' = 0
    /\ Send(<<"PING">>)
    /\ UNCHANGED <<clientVars, sincePong, polled, sinceGone, toClient, ingestVars, verdict>>

-----------------------------------------------------------------------------
(* connection_status_thread *)

\* Lines that have waited for their time must have arrived; later ones may have.
Due == LET late == {i \in 1..Len(toClient) : toClient[i].age >= MaxDelay}
       IN  IF late = {} THEN 0 ELSE CHOOSE i \in late : \A j \in late : j <= i

\* The connection is torn down and the application told.
GiveUp(status) ==
    /\ CloseSocket
    /\ verdict' = [status |-> status, gone |-> gone, said |-> said]
    /\ UNCHANGED <<result, port, attempt>>

\* Mutant: a round without an error counts as a sign of life.
CheckPing_Refreshes(k) ==
    \/ /\ sincePong >= LateAfter
       /\ GiveUp("NO_PING_RESPONSE")
    \/ /\ sincePong < LateAfter
       /\ polled' = TRUE
       /\ sincePong' = 0
       /\ RecvAll(k)
       /\ UNCHANGED <<clientVars, sincePing, sinceGone, toIngest, ingestVars, verdict>>

\* Mutant: the time is up one round later.
CheckPing_OffByOne(k) ==
    \/ /\ sincePong > LateAfter
       /\ GiveUp("NO_PING_RESPONSE")
    \/ /\ sincePong <= LateAfter
       /\ polled' = TRUE
       /\ RecvAll(k)
       /\ UNCHANGED <<clientVars, sincePong, sincePing, sinceGone, toIngest, ingestVars,
                      verdict>>

\* The rest of a round that read k lines and no error: has the ingest been heard in time?
CheckPing(k) ==
    \/ /\ sincePong >= LateAfter
       /\ GiveUp("NO_PING_RESPONSE")
    \/ /\ sincePong < LateAfter
       /\ polled' = TRUE
       /\ RecvAll(k)
       /\ UNCHANGED <<clientVars, sincePong, sincePing, sinceGone, toIngest, ingestVars,
                      verdict>>

\* Mutant: the answer to a PING does not reset last_ping.
Hear_NotMarked(k) ==
    \/ /\ toClient[1].code = "201"
       /\ polled' = TRUE
       /\ RecvAll(k)
       /\ UNCHANGED <<clientVars, sincePong, sincePing, sinceGone, toIngest, ingestVars,
                      verdict>>
    \/ /\ toClient[1].code \in Errors
       /\ GiveUp(LogResponse(toClient[1].code))

\* Data is available: the code of the first line read decides.  A line that never ends, its
\* rest lost with the ingest, fails the read.
Hear(k) ==
    \/ /\ toClient[1].code = "201"
       /\ polled' = TRUE
       /\ sincePong' = 0
       /\ RecvAll(k)
       /\ UNCHANGED <<clientVars, sincePing, sinceGone, toIngest, ingestVars, verdict>>
    \/ /\ Accepted(toClient[1].code)
       /\ CheckPing(k)
    \/ /\ toClient[1].code \in Errors
       /\ GiveUp(LogResponse(toClient[1].code))
    \/ /\ gone
       /\ \E code \in {"closed", "timeout"} : GiveUp(LogResponse(code))

\* A closed socket has no bytes available, so that nothing is heard of it here.
StatusRound ==
    /\ phase = "up" /\ ~polled
    /\ \E k \in Due..Len(toClient) :
         \/ k = 0 /\ CheckPing(0)
         \/ k > 0 /\ Hear(k)

\* ftl_ingest_disconnect
Disconnect ==
    /\ phase = "up"
    /\ CloseSocket
    /\ result' = "USER_DISCONNECT"
    /\ UNCHANGED <<port, attempt, verdict>>

-----------------------------------------------------------------------------
(* The ingest and the network *)

Reply(c) == toClient' = Append(toClient, Line(c, toIngest[1].age))

\* The ingest answers a command of the handshake, or a PING; other commands it only reads.
Serve ==
    /\ ~gone /\ toIngest # <<>>
    /\ toIngest' = Tail(toIngest)
    /\ LET c == toIngest[1].code IN
       \/ c = "HMAC" /\ Reply("200") /\ stage' = 1
       \/ c = "CONNECT" /\ Reply("200") /\ stage' = 2
       \/ c = "." /\ (\E a \in {"200", "200_port"} : Reply(a)) /\ stage' = 3
       \/ c = "PING" /\ Reply("201") /\ UNCHANGED stage
       \/ c = "FIELD" /\ UNCHANGED <<toClient, stage>>
    /\ UNCHANGED <<clientVars, timeVars, gone, said, verdict>>

\* It may end the connection at any time, with an error or without a word.
End ==
    /\ ~gone /\ phase \notin {"closed", "resolve", "open"}
    /\ gone' = TRUE
    /\ toIngest' = <<>>
    /\ \/ \E e \in Errors : /\ toClient' = Append(toClient, Line(e, 0))
                            /\ said' = said \cup {e}
       \/ UNCHANGED <<toClient, said>>
    /\ UNCHANGED <<clientVars, timeVars, stage, verdict>>

\* What an ingest that cannot be reached has sent may be lost.
Lose ==
    /\ gone /\ toClient # <<>>
    /\ \E n \in 0..(Len(toClient) - 1) : toClient' = SubSeq(toClient, 1, n)
    /\ UNCHANGED <<clientVars, timeVars, toIngest, ingestVars, verdict>>

Older(q) == [i \in DOMAIN q |-> [q[i] EXCEPT !.age = @ + 1]]

\* Both threads run when their wait ends, and a living ingest answers in time.
Tick ==
    /\ phase = "up" /\ polled /\ sincePing < PingEvery
    /\ \A i \in DOMAIN toIngest : toIngest[i].age < MaxDelay
    /\ polled' = FALSE
    /\ sincePing' = sincePing + 1
    /\ sincePong' = sincePong + 1
    /\ sinceGone' = IF gone THEN sinceGone + 1 ELSE 0
    /\ toIngest' = Older(toIngest) /\ toClient' = Older(toClient)
    /\ UNCHANGED <<clientVars, ingestVars, verdict>>

Environment == Serve \/ End \/ Lose \/ Tick

Threads == KeepAlive \/ StatusRound

-----------------------------------------------------------------------------
(* Properties *)

CtlTypeOK ==
    /\ phase \in {"closed", "resolve", "open", "hmac", "connect", "finish", "start", "up"}
    /\ result \in {"none", "pending", "SUCCESS", "DNS_FAILURE", "CONNECT_ERROR",
                   "INGEST_NO_RESPONSE", "USER_DISCONNECT"}
                  \cup {LogResponse(c) : c \in Errors \cup {"closed", "timeout"}}
    /\ port \in {-1, 0, AnyPort} /\ attempt \in 0..MaxAttempts
    /\ toIngest \in Seq([code : {"HMAC", "CONNECT", "FIELD", ".", "PING"}, age : 0..MaxDelay])
    /\ toClient \in Seq([code : Codes, age : 0..(MaxDelay + 1)])
    /\ sincePong \in 0..LateAfter /\ sincePing \in 0..PingEvery /\ polled \in BOOLEAN
    /\ sinceGone \in Nat
    /\ stage \in 0..3 /\ gone \in BOOLEAN /\ said \subseteq Errors
    /\ verdict.gone \in BOOLEAN /\ verdict.said \subseteq Errors

\* Each answer of the handshake is taken for the command it answers: the client is never
\* further than the ingest, so that a connection that is up was accepted by an ingest that has
\* read the whole description of the stream.
AnswersMatch ==
    /\ phase = "connect" => stage >= 1
    /\ phase = "finish"  => stage >= 2
    /\ phase \in {"start", "up"} => stage = 3

\* An ingest that is gone is noticed, by the error it sent or by the missing answers, within
\* the time it may take for its last answer to arrive and the time the client waits for the
\* next one, although an error that is read behind an answer is never looked at and a closed
\* socket is not noticed at all.
NoticedInTime == sinceGone <= LateAfter + MaxDelay

\* The reason the application is given is true.  PINGs are not answered only if the ingest is
\* gone: the answers of a living one, however they are delayed within MaxDelay and however many
\* are read at once, keep the connection up.  An error code was sent by the ingest on this very
\* connection, and a broken connection is one whose ingest is gone.
ReasonIsTrue ==
    /\ verdict.status = "NO_PING_RESPONSE" => verdict.gone
    /\ verdict.status = "NO_MEDIA_TIMEOUT" => "408" \in verdict.said
    /\ verdict.status = "INGEST_SERVER_TERMINATE" => "410" \in verdict.said
    /\ verdict.status = "UNKNOWN_ERROR_CODE" => "junk" \in verdict.said
    /\ verdict.status \in {"INGEST_SOCKET_CLOSED", "INGEST_SOCKET_TIMEOUT"} => verdict.gone
    /\ verdict.status # "SUCCESS"

\* ftl_ingest_connect returns, whatever the ingest does.
ConnectEnds == (phase \notin {"closed", "up"}) ~> (phase \in {"closed", "up"})
=============================================================================
