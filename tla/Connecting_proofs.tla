-------------------------- MODULE Connecting_proofs --------------------------
(***************************************************************************)
(* The choice of an ingest and the control connection with it, proved for  *)
(* lists of every length, for all round trip times, for every period of    *)
(* the PINGs and every delay of the ingest's answers; the two theorems     *)
(* that depend on the delay say so.                                        *)
(***************************************************************************)
EXTENDS Connecting, SequenceTheorems, WellFoundedInduction, TLAPS

-----------------------------------------------------------------------------
(* The inductive invariant of the choice *)

\* The caller has joined the pings of the hosts before n and best is the best of them.
Joined(n) ==
    /\ best \in 0..(n - 1) /\ (best = 0 => n = 1)
    /\ \A i \in 1..(n - 1) :
          /\ ping[i] \in {"none", "exited"}
          /\ rtt[best] <= rtt[i]
          /\ i < best => rtt[best] < rtt[i]

SelInv ==
    /\ SelTypeOK
    /\ step \in {"idle", "none"} => hosts = 0
    /\ step = "ping" => /\ cursor \in 1..hosts /\ best = 0
                        /\ \A i \in cursor..hosts : ping[i] = "none"
    /\ step = "join" => cursor \in 1..hosts /\ Joined(cursor)
    /\ step = "done" => hosts >= 1 /\ Joined(hosts + 1)

SelNext == FetchHosts \/ GivenHosts \/ Choosing \/ Return

LEMMA SelInitInv == SelInit => SelInv
<1> SUFFICES ASSUME SelInit PROVE SelInv
  OBVIOUS
<1>1. \A S : Empty \in [1..0 -> S]
  BY DEF Empty
<1>2. SelTypeOK
  BY <1>1, SelectionAssumption DEF SelInit, SelTypeOK
<1> QED
  BY <1>2 DEF SelInit, SelInv

\* A new list: the caller has joined nothing, no thread runs.
LEMMA BeginInv ==
    ASSUME SelInv, NEW n \in 0..MaxHosts, NEW default \in {500, 1000}, Begin(n, default)
    PROVE  SelInv'
<1> USE SelectionAssumption
<1>1. SelTypeOK'
  <2>1. rtt' \in [1..n -> Rtts \cup {DnsFailure, 500, 1000}]
    BY DEF Begin
  <2>2. ping' \in [1..n -> {"none", "created", "pinging", "exited"}]
    BY DEF Begin
  <2> QED
    BY <2>1, <2>2 DEF Begin, SelTypeOK
<1>2. step' = "ping" => n >= 1 /\ \A i \in 1..n : ping'[i] = "none"
  BY DEF Begin
<1> QED
  BY <1>1, <1>2 DEF Begin, SelInv, Joined

\* The threads are started one after the other; none is joined yet.
LEMMA StartPingInv == ASSUME SelInv, StartPing PROVE SelInv'
<1>1. SelTypeOK /\ cursor \in 1..hosts /\ hosts \in Nat
  BY SelectionAssumption DEF SelInv, SelTypeOK, StartPing
<1>2. PICK t \in {"created", "none"} : ping' = [ping EXCEPT ![cursor] = t]
  BY DEF StartPing
<1>3. SelTypeOK'
  <2>1. ping' \in [1..hosts -> {"none", "created", "pinging", "exited"}]
    BY <1>1, <1>2 DEF SelTypeOK
  <2> QED
    BY <1>1, <2>1 DEF StartPing, SelTypeOK
<1>4. \A i \in (cursor + 1)..hosts : ping'[i] = "none"
  BY <1>1, <1>2 DEF StartPing, SelInv, SelTypeOK
<1>5. CASE cursor < hosts
  BY <1>1, <1>3, <1>4, <1>5 DEF StartPing, SelInv
<1>6. CASE ~(cursor < hosts)
  <2>1. cursor' = 1 /\ step' = "join" /\ hosts' = hosts /\ best' = best
    BY <1>6 DEF StartPing
  <2>2. best = 0
    BY DEF StartPing, SelInv
  <2> QED
    BY <1>1, <1>3, <1>6, <2>1, <2>2 DEF SelInv, Joined
<1> QED
  BY <1>5, <1>6

\* A thread that pings is one that was not joined, so that its time is not one of those
\* compared.
LEMMA PingInv ==
    ASSUME SelInv, NEW i \in 1..hosts, PingBegins(i) \/ PingEnds(i)
    PROVE  SelInv'
<1>1. SelTypeOK /\ hosts \in Nat
  BY DEF SelInv, SelTypeOK
<1>2. /\ UNCHANGED <<step, hosts, answer, cursor, best>>
      /\ ping[i] \in {"created", "pinging"}
  BY DEF PingBegins, PingEnds
<1>3. /\ ping' \in [1..hosts -> {"none", "created", "pinging", "exited"}]
      /\ rtt' \in [1..hosts -> Rtts \cup {DnsFailure, 500, 1000}]
      /\ \A j \in 1..hosts : j # i => ping'[j] = ping[j] /\ rtt'[j] = rtt[j]
  <2>1. CASE PingBegins(i)
    BY <1>1, <2>1 DEF PingBegins, SelTypeOK
  <2>2. CASE PingEnds(i)
    <3> DEFINE time == IF PingServer(i) >= 0 THEN PingServer(i) ELSE rtt[i]
    <3>1. rtt[i] \in Rtts \cup {DnsFailure, 500, 1000} /\ answer[i] \in Answers
      BY <1>1 DEF SelTypeOK
    <3>2. PingServer(i) >= 0 => PingServer(i) \in Rtts \cup {DnsFailure}
      BY <3>1 DEF PingServer, Answers, Silent, Unresolvable, DnsFailure
    <3>3. time \in Rtts \cup {DnsFailure, 500, 1000}
      BY <3>1, <3>2
    <3>4. ping' = [ping EXCEPT ![i] = "exited"] /\ rtt' = [rtt EXCEPT ![i] = time]
      BY <2>2 DEF PingEnds
    <3> HIDE DEF time
    <3> QED
      BY <1>1, <3>3, <3>4 DEF SelTypeOK
  <2> QED
    BY <2>1, <2>2
<1>4. SelTypeOK'
  BY <1>1, <1>2, <1>3 DEF SelTypeOK
<1>5. ASSUME NEW n \in 1..(hosts + 1), Joined(n)
      PROVE  Joined(n)'
  <2>1. best \in 0..(n - 1) /\ (best = 0 => n = 1)
    BY <1>5 DEF Joined
  <2>2. ASSUME NEW j \in 1..(n - 1)
        PROVE  /\ ping'[j] \in {"none", "exited"}
               /\ rtt'[best] <= rtt'[j]
               /\ j < best => rtt'[best] < rtt'[j]
    <3>1. j \in 1..hosts /\ best \in 1..(n - 1) /\ best \in 1..hosts
      BY <1>1, <2>1
    <3>2. j # i /\ best # i
      <4>1. ping[j] \in {"none", "exited"} /\ ping[best] \in {"none", "exited"}
        BY <1>5, <3>1 DEF Joined
      <4> QED
        BY <1>2, <4>1
    <3>3. ping'[j] = ping[j] /\ rtt'[j] = rtt[j] /\ rtt'[best] = rtt[best]
      BY <1>3, <3>1, <3>2
    <3> QED
      BY <1>5, <3>3 DEF Joined
  <2> QED
    BY <1>2, <2>1, <2>2 DEF Joined
<1>6. step = "ping" => \A j \in cursor..hosts : ping'[j] = "none"
  BY <1>1, <1>2, <1>3 DEF SelInv, SelTypeOK
<1>7. ASSUME NEW n \in 1..(hosts + 1), Joined(n)
      PROVE  /\ best' \in 0..(n - 1) /\ (best' = 0 => n = 1)
             /\ \A j \in 1..(n - 1) :
                   /\ ping'[j] \in {"none", "exited"}
                   /\ rtt'[best'] <= rtt'[j]
                   /\ j < best' => rtt'[best'] < rtt'[j]
  BY <1>5, <1>7 DEF Joined
<1>8. step' = "join" => cursor' \in 1..hosts' /\ Joined(cursor)'
  <2> SUFFICES ASSUME step' = "join" PROVE cursor' \in 1..hosts' /\ Joined(cursor)'
    OBVIOUS
  <2>1. cursor \in 1..hosts /\ Joined(cursor)
    BY <1>2 DEF SelInv
  <2>2. cursor \in 1..(hosts + 1)
    BY <1>1, <2>1
  <2> QED
    BY <1>2, <1>7, <2>1, <2>2 DEF Joined
<1>9. step' = "done" => hosts' >= 1 /\ Joined(hosts + 1)'
  <2> SUFFICES ASSUME step' = "done" PROVE hosts' >= 1 /\ Joined(hosts + 1)'
    OBVIOUS
  <2>1. hosts >= 1 /\ Joined(hosts + 1)
    BY <1>2 DEF SelInv
  <2>2. hosts + 1 \in 1..(hosts + 1)
    BY <1>1, <2>1
  <2> QED
    BY <1>2, <1>7, <2>1, <2>2 DEF Joined
<1>10. step' \in {"idle", "none"} => hosts' = 0
  BY <1>2 DEF SelInv
<1>11. step' = "ping" => cursor' \in 1..hosts' /\ best' = 0
                         /\ \A j \in cursor'..hosts' : ping'[j] = "none"
  BY <1>2, <1>6 DEF SelInv
<1> QED
  BY <1>4, <1>8, <1>9, <1>10, <1>11 DEF SelInv

\* The caller looks at a host whose thread has ended.
LEMMA JoinPingInv == ASSUME SelInv, JoinPing PROVE SelInv'
<1>1. /\ SelTypeOK /\ cursor \in 1..hosts /\ hosts \in Nat /\ Joined(cursor)
      /\ ping[cursor] \in {"none", "exited"}
  BY DEF SelInv, SelTypeOK, JoinPing
<1>2. \A i \in 1..hosts : rtt[i] \in Nat
  <2>1. Rtts \cup {DnsFailure, 500, 1000} \subseteq Nat
    BY SelectionAssumption DEF DnsFailure
  <2> QED
    BY <1>1, <2>1 DEF SelTypeOK
<1>3. best' \in 1..cursor /\ best' \in 0..hosts
  <2>1. best \in 0..(cursor - 1) /\ (best' = cursor \/ (best' = best /\ best # 0))
    BY <1>1 DEF JoinPing, Joined, Better
  <2> QED
    BY <1>1, <2>1
<1>4. ASSUME NEW i \in 1..cursor
      PROVE  /\ ping[i] \in {"none", "exited"}
             /\ rtt[best'] <= rtt[i]
             /\ i < best' => rtt[best'] < rtt[i]
  <2>1. i \in 1..hosts /\ (i = cursor \/ i \in 1..(cursor - 1))
    BY <1>1
  <2>2. ping[i] \in {"none", "exited"}
    BY <1>1, <2>1 DEF Joined
  <2>3. CASE best = 0
    <3>1. cursor = 1 /\ i = 1 /\ best' = 1
      BY <1>1, <2>1, <2>3 DEF Joined, JoinPing, Better
    <3> QED
      BY <1>2, <2>1, <2>2, <3>1
  <2>4. CASE best # 0 /\ rtt[cursor] < rtt[best]
    <3>1. best' = cursor /\ best \in 1..hosts
      BY <1>1, <2>4 DEF Joined, JoinPing, Better
    <3>2. i # cursor => rtt[best] <= rtt[i]
      BY <1>1, <2>1 DEF Joined
    <3> QED
      BY <1>1, <1>2, <2>1, <2>2, <2>4, <3>1, <3>2
  <2>5. CASE best # 0 /\ ~(rtt[cursor] < rtt[best])
    <3>1. best' = best /\ best \in 1..(cursor - 1) /\ best \in 1..hosts
      BY <1>1, <2>5 DEF Joined, JoinPing, Better
    <3>2. i # cursor => rtt[best] <= rtt[i] /\ (i < best => rtt[best] < rtt[i])
      BY <1>1, <2>1 DEF Joined
    <3> QED
      BY <1>1, <1>2, <2>1, <2>2, <2>5, <3>1, <3>2
  <2> QED
    BY <2>3, <2>4, <2>5
<1>5. UNCHANGED <<hosts, answer, rtt, ping>> /\ cursor' = cursor + 1
      /\ step' = IF cursor = hosts THEN "done" ELSE "join"
  BY DEF JoinPing
<1>6. SelTypeOK'
  BY <1>1, <1>3, <1>5 DEF SelTypeOK
<1>7. ASSUME NEW n \in Int, n = cursor + 1
      PROVE  Joined(n)'
  <2>1. n - 1 = cursor
    BY <1>1, <1>7
  <2>2. best' \in 0..(n - 1) /\ best' # 0
    BY <1>1, <1>3, <2>1
  <2> QED
    BY <1>4, <1>5, <2>1, <2>2 DEF Joined
<1>8. CASE cursor = hosts
  <2>1. step' = "done" /\ hosts' >= 1
    BY <1>1, <1>5, <1>8
  <2>2. \A n \in Int : n = cursor + 1 => Joined(n)'
    BY <1>7
  <2>3. hosts' + 1 \in Int /\ hosts' + 1 = cursor + 1
    BY <1>1, <1>5, <1>8
  <2>4. Joined(hosts + 1)'
    BY <2>2, <2>3 DEF Joined
  <2> QED
    BY <1>6, <2>1, <2>4 DEF SelInv
<1>9. CASE cursor # hosts
  <2>1. step' = "join" /\ cursor' \in 1..hosts' /\ cursor' \in Int /\ cursor' = cursor + 1
    BY <1>1, <1>5, <1>9
  <2>2. \A n \in Int : n = cursor + 1 => Joined(n)'
    BY <1>7
  <2>3. Joined(cursor)'
    BY <2>1, <2>2 DEF Joined
  <2> QED
    BY <1>6, <2>1, <2>3 DEF SelInv
<1> QED
  BY <1>8, <1>9

LEMMA ReturnInv == ASSUME SelInv, Return PROVE SelInv'
<1>1. \A S : Empty \in [1..0 -> S]
  BY DEF Empty
<1>2. SelTypeOK'
  BY <1>1, SelectionAssumption DEF Return, SelTypeOK
<1> QED
  BY <1>2 DEF Return, SelInv

LEMMA SelNextInv == SelInv /\ [SelNext]_selVars => SelInv'
<1> SUFFICES ASSUME SelInv, [SelNext]_selVars PROVE SelInv'
  OBVIOUS
<1>1. CASE UNCHANGED selVars
  BY <1>1 DEF SelInv, SelTypeOK, Joined, selVars
<1>2. ASSUME FetchHosts \/ GivenHosts
      PROVE  SelInv'
  BY <1>2, BeginInv, SelectionAssumption DEF FetchHosts, GivenHosts
<1>3. ASSUME Choosing
      PROVE  SelInv'
  BY <1>3, StartPingInv, PingInv, JoinPingInv, Zenon DEF Choosing, Pings
<1>4. CASE Return
  BY <1>4, ReturnInv
<1> QED
  BY <1>1, <1>2, <1>3, <1>4, Zenon DEF SelNext

-----------------------------------------------------------------------------
(* The two queues of lines *)

Commands == [code : {"HMAC", "CONNECT", "FIELD", ".", "PING"}, age : 0..MaxDelay]
Lines    == [code : Codes, age : 0..(MaxDelay + 1)]

LEMMA QueueTypes ==
    ASSUME CtlTypeOK
    PROVE  /\ toIngest \in Seq(Commands) /\ toClient \in Seq(Lines)
           /\ Len(toIngest) \in Nat /\ Len(toClient) \in Nat
           /\ toIngest # <<>> <=> Len(toIngest) >= 1
           /\ toClient # <<>> <=> Len(toClient) >= 1
           /\ \A i \in 1..Len(toIngest) : toIngest[i] \in Commands
           /\ \A i \in 1..Len(toClient) : toClient[i] \in Lines
<1>1. toIngest \in Seq(Commands) /\ toClient \in Seq(Lines)
  BY DEF CtlTypeOK, Commands, Lines
<1> QED
  BY <1>1, EmptySeq, LenProperties, ElementOfSeq

\* What is read is gone, the rest moves up.
LEMMA RecvIs ==
    ASSUME CtlTypeOK, NEW k \in 0..Len(toClient), RecvAll(k)
    PROVE  /\ toClient' \in Seq(Lines)
           /\ Len(toClient') = Len(toClient) - k
           /\ \A i \in 1..(Len(toClient) - k) : toClient'[i] = toClient[i + k]
<1> DEFINE n == Len(toClient)
<1>1. n \in Nat /\ \A i \in 1..n : toClient[i] \in Lines
  BY QueueTypes
<1>2. toClient' = SubSeq(toClient, k + 1, n)
  BY DEF RecvAll
<1> HIDE DEF n
<1>3. k + 1 \in Int /\ n \in Int /\ \A i \in (k + 1)..n : toClient[i] \in Lines
  BY <1>1 DEF n
<1>4. /\ toClient' \in Seq(Lines)
      /\ Len(toClient') = IF k + 1 <= n THEN n - (k + 1) + 1 ELSE 0
      /\ \A i \in 1..(n - (k + 1) + 1) : toClient'[i] = toClient[(k + 1) + i - 1]
  BY <1>2, <1>3, SubSeqProperties
<1>5. k \in Nat /\ k <= n
  BY <1>1 DEF n
<1>6. Len(toClient') = n - k
  BY <1>1, <1>4, <1>5
<1>7. ASSUME NEW i \in 1..(n - k)
      PROVE  toClient'[i] = toClient[i + k]
  <2>1. i \in 1..(n - (k + 1) + 1) /\ (k + 1) + i - 1 = i + k
    BY <1>1, <1>5
  <2>2. toClient'[i] = toClient[(k + 1) + i - 1]
    BY <1>4, <2>1
  <2> QED
    BY <2>1, <2>2
<1> QED
  BY <1>4, <1>6, <1>7 DEF n

\* A command is queued behind the others, unless nobody receives it.
LEMMA SendIs ==
    ASSUME CtlTypeOK, NEW c \in {"HMAC", "CONNECT", "FIELD", ".", "PING"}, Send(<<c>>)
    PROVE  /\ toIngest' \in Seq(Commands)
           /\ gone => toIngest' = toIngest
           /\ ~gone => /\ toIngest' = Append(toIngest, Line(c, 0))
                       /\ Len(toIngest') = Len(toIngest) + 1
                       /\ \A i \in 1..Len(toIngest) : toIngest'[i] = toIngest[i]
                       /\ toIngest'[Len(toIngest) + 1] = Line(c, 0)
<1>1. toIngest \in Seq(Commands)
  BY QueueTypes
<1>2. Line(c, 0) \in Commands
  BY ControlAssumption DEF Line, Commands
<1>3. CASE gone
  BY <1>1, <1>3 DEF Send
<1>4. CASE ~gone
  <2>1. [i \in 1..Len(<<c>>) |-> Line(<<c>>[i], 0)] = <<Line(c, 0)>>
    BY DEF Line
  <2>2. toIngest' = toIngest \o <<Line(c, 0)>>
    BY <1>4, <2>1 DEF Send
  <2>3. toIngest' = Append(toIngest, Line(c, 0))
    BY <1>1, <1>2, <2>2, AppendIsConcat
  <2> QED
    BY <1>1, <1>2, <1>4, <2>3, AppendProperties
<1> QED
  BY <1>3, <1>4

\* A tick makes every line a tick older.
LEMMA OlderIs ==
    ASSUME NEW S, NEW q \in Seq(S),
           \A i \in 1..Len(q) : [q[i] EXCEPT !.age = @ + 1] \in S
    PROVE  /\ Older(q) \in Seq(S)
           /\ Len(Older(q)) = Len(q)
           /\ \A i \in 1..Len(q) : Older(q)[i] = [q[i] EXCEPT !.age = @ + 1]
<1> DEFINE n == Len(q)
           older(i) == [q[i] EXCEPT !.age = @ + 1]
<1>1. n \in Nat /\ DOMAIN q = 1..n
  BY LenProperties
<1>2. Older(q) = [i \in 1..n |-> older(i)]
  BY <1>1 DEF Older
<1>3. \A i \in 1..n : older(i) \in S
  OBVIOUS
<1> HIDE DEF older
<1>4. Older(q) \in [1..n -> S] /\ \A i \in 1..n : Older(q)[i] = older(i)
  BY <1>2, <1>3
<1>5. Older(q) \in Seq(S)
  <2> HIDE DEF n
  <2>1. Seq(S) = UNION {[1..m -> S] : m \in Nat}
    BY SeqDef
  <2> QED
    BY <1>1, <1>4, <2>1, Zenon
<1>6. Len(Older(q)) = n
  BY <1>1, <1>4, <1>5, LenProperties
<1> QED
  BY <1>4, <1>5, <1>6 DEF older

-----------------------------------------------------------------------------
(* The inductive invariant of the connection *)

\* Before a connection is opened nothing is on its way; time passes while it is up.
QuietInv ==
    /\ phase \in {"closed", "resolve", "open"} =>
          toIngest = <<>> /\ toClient = <<>> /\ stage = 0 /\ ~gone
    /\ phase # "up" => sincePong = 0 /\ sincePing = 0 /\ ~polled /\ sinceGone = 0

\* A step of the handshake that waits for the answer n + 1: its commands are on their way,
\* or served, and at most the first line to be read accepts them.
Awaits(n, commands) ==
    /\ stage \in {n, n + 1}
    /\ toIngest # <<>> => toIngest \in commands /\ stage = n /\ toClient = <<>>
    /\ \A i \in 1..Len(toClient) : Accepted(toClient[i].code) => i = 1 /\ stage = n + 1
    /\ ~gone => Len(toClient) <= 1

HandshakeInv ==
    /\ phase = "hmac" => Awaits(0, {<<Line("HMAC", 0)>>})
    /\ phase = "connect" => Awaits(1, {<<Line("CONNECT", 0)>>})
    /\ phase = "finish" =>
          Awaits(2, {<<Line("FIELD", 0), Line(".", 0)>>, <<Line(".", 0)>>})
    /\ phase = "start" => stage = 3 /\ toIngest = <<>> /\ (~gone => toClient = <<>>)
    /\ phase = "up" => stage = 3 /\ \A i \in 1..Len(toIngest) : toIngest[i].code = "PING"
    /\ phase \in {"start", "up"} => \A i \in 1..Len(toClient) : ~Accepted(toClient[i].code)
    /\ phase # "up" => \A i \in 1..Len(toClient) : toClient[i].code # "201"

\* What an ingest that is gone may still be heard to say.
GoneInv ==
    /\ gone => toIngest = <<>>
    /\ ~gone => sinceGone = 0
    /\ \A i \in 1..Len(toClient) : toClient[i].code \in Errors => gone /\ toClient[i].code \in said

\* How old a line can get: a round reads all lines of MaxDelay ticks or more, so that older ones
\* arrived after the round.
AgeInv ==
    /\ polled => sincePong < LateAfter
    /\ phase # "up" => \A i \in 1..Len(toClient) : toClient[i].age = 0
    /\ \A i \in 1..Len(toClient) :
          /\ sinceGone <= toClient[i].age
          /\ polled => toClient[i].age <= MaxDelay
          /\ polled /\ toClient[i].age = MaxDelay => sinceGone = 0
          /\ toClient[i].age = MaxDelay + 1 => sinceGone <= 1

\* While the ingest lives, a PING or its answer is on its way that is at most a period younger
\* than the answer that was last read, or no PING was sent since.
PongInv ==
    phase = "up" /\ ~gone =>
        \/ \E i \in 1..Len(toIngest) : sincePong <= toIngest[i].age + PingEvery
        \/ \E i \in 1..Len(toClient) : sincePong <= toClient[i].age + PingEvery
        \/ toIngest = <<>> /\ toClient = <<>> /\ sincePong <= sincePing

CtlInv == CtlTypeOK /\ QuietInv /\ HandshakeInv /\ GoneInv /\ AgeInv /\ PongInv

LEMMA CtlInitInv == CtlInit => CtlInv
<1> SUFFICES ASSUME CtlInit PROVE CtlInv
  OBVIOUS
<1> USE ControlAssumption DEF CtlInit
<1>1. Len(<<>>) = 0 /\ \A S : <<>> \in Seq(S)
  BY EmptySeq
<1>2. CtlTypeOK
  <2>1. verdict.gone \in BOOLEAN /\ verdict.said \subseteq Errors /\ gone \in BOOLEAN
        /\ polled \in BOOLEAN /\ said \subseteq Errors
    BY Zenon DEF NoVerdict
  <2> QED
    BY <1>1, <2>1 DEF CtlTypeOK, LateAfter
<1>3. QuietInv /\ HandshakeInv
  BY DEF QuietInv, HandshakeInv
<1>4. GoneInv /\ AgeInv /\ PongInv
  BY <1>1 DEF GoneInv, AgeInv, PongInv
<1> QED
  BY <1>2, <1>3, <1>4 DEF CtlInv

\* While no connection is open there is nothing that the invariant speaks of.
LEMMA NotOpen ==
    ASSUME CtlTypeOK',
           phase' \in {"closed", "resolve", "open"}, toIngest' = <<>>, toClient' = <<>>,
           stage' = 0, gone' = FALSE,
           sincePong' = 0, sincePing' = 0, polled' = FALSE, sinceGone' = 0
    PROVE  CtlInv'
<1>1. Len(<<>>) = 0
  BY EmptySeq
<1>2. QuietInv' /\ HandshakeInv'
  BY DEF QuietInv, HandshakeInv
<1>3. GoneInv' /\ AgeInv' /\ PongInv'
  BY <1>1 DEF GoneInv, AgeInv, PongInv
<1> QED
  BY <1>2, <1>3 DEF CtlInv

\* The codes that the log of a response knows.
LEMMA LogTypes ==
    ASSUME NEW code \in Codes \cup {"closed", "timeout"}
    PROVE  /\ LogResponse(code) \in {"SUCCESS"} \cup {LogResponse(c) : c \in Errors \cup {"closed", "timeout"}}
           /\ code = "408" => LogResponse(code) = "NO_MEDIA_TIMEOUT"
           /\ code = "410" => LogResponse(code) = "INGEST_SERVER_TERMINATE"
           /\ code = "junk" => LogResponse(code) = "UNKNOWN_ERROR_CODE"
           /\ code = "closed" => LogResponse(code) = "INGEST_SOCKET_CLOSED"
           /\ code = "timeout" => LogResponse(code) = "INGEST_SOCKET_TIMEOUT"
  BY DEF LogResponse, Codes, Errors

\* The statuses that ftl_ingest_connect returns.
Results == {"none", "pending", "SUCCESS", "DNS_FAILURE", "CONNECT_ERROR",
            "INGEST_NO_RESPONSE", "USER_DISCONNECT"}
           \cup {LogResponse(c) : c \in Errors \cup {"closed", "timeout"}}

\* Closing the socket, whatever is returned.
LEMMA CloseInv ==
    ASSUME CtlInv, CloseSocket, result' \in Results, UNCHANGED <<port, attempt>>,
           verdict'.gone \in BOOLEAN, verdict'.said \subseteq Errors
    PROVE  CtlInv'
<1>1. \A S : <<>> \in Seq(S)
  BY EmptySeq
<1>2. CtlTypeOK
  BY DEF CtlInv
<1>3. CtlTypeOK'
  <2>1. gone' \in BOOLEAN /\ polled' \in BOOLEAN /\ said' \subseteq Errors
    BY Zenon DEF CloseSocket
  <2>2. /\ phase' = "closed" /\ toIngest' = <<>> /\ toClient' = <<>> /\ stage' = 0
        /\ sincePong' = 0 /\ sincePing' = 0 /\ sinceGone' = 0
    BY DEF CloseSocket
  <2>3. PingEvery \in Nat /\ LateAfter \in Nat
    BY ControlAssumption DEF LateAfter
  <2>4. port' \in {-1, 0, AnyPort} /\ attempt' \in 0..MaxAttempts
    BY <1>2 DEF CtlTypeOK
  <2> QED
    BY <1>1, <2>1, <2>2, <2>3, <2>4 DEF CtlTypeOK, Results
<1> QED
  BY <1>3, NotOpen DEF CloseSocket

LEMMA RefuseInv == ASSUME CtlInv, NEW status \in Results, Refuse(status) PROVE CtlInv'
<1>1. verdict'.gone \in BOOLEAN /\ verdict'.said \subseteq Errors
  BY DEF Refuse, CtlInv, CtlTypeOK
<1> QED
  BY <1>1, CloseInv DEF Refuse

LEMMA GiveUpInv == ASSUME CtlInv, NEW status, GiveUp(status) PROVE CtlInv'
<1>1. verdict'.gone \in BOOLEAN /\ verdict'.said \subseteq Errors
  BY DEF GiveUp, CtlInv, CtlTypeOK
<1>2. result' \in Results /\ UNCHANGED <<port, attempt>> /\ CloseSocket
  BY DEF GiveUp, CtlInv, CtlTypeOK, Results
<1> QED
  BY <1>1, <1>2, CloseInv

LEMMA DisconnectInv == ASSUME CtlInv, Disconnect PROVE CtlInv'
<1>1. verdict'.gone \in BOOLEAN /\ verdict'.said \subseteq Errors
  BY DEF Disconnect, CtlInv, CtlTypeOK
<1>2. result' \in Results
  BY DEF Disconnect, Results
<1> QED
  BY <1>1, <1>2, CloseInv DEF Disconnect

\* A call begins and looks the name up.
LEMMA LookUpInv == ASSUME CtlInv, Connect \/ (\E found \in BOOLEAN : Resolve(found)) PROVE CtlInv'
<1>1. CtlTypeOK /\ QuietInv
  BY DEF CtlInv
<1>2. /\ UNCHANGED <<port, timeVars, streamVars, ingestVars, verdict>>
      /\ phase \in {"closed", "resolve"} /\ phase' \in {"closed", "resolve", "open"}
      /\ result' \in {result, "pending", "DNS_FAILURE"}
      /\ attempt' \in 0..MaxAttempts
  BY <1>1, ControlAssumption DEF Connect, Resolve, CtlTypeOK
<1>3. CtlTypeOK'
  <2>1. gone' \in BOOLEAN /\ polled' \in BOOLEAN /\ said' \subseteq Errors
        /\ verdict'.gone \in BOOLEAN /\ verdict'.said \subseteq Errors
    BY <1>1, <1>2, Zenon DEF CtlTypeOK, ingestVars, timeVars
  <2> QED
    BY <1>1, <1>2, <2>1 DEF CtlTypeOK, timeVars, streamVars, ingestVars
<1>4. /\ toIngest' = <<>> /\ toClient' = <<>> /\ stage' = 0
      /\ sincePong' = 0 /\ sincePing' = 0 /\ sinceGone' = 0
  BY <1>1, <1>2 DEF QuietInv, timeVars, streamVars, ingestVars
<1>5. gone' = FALSE /\ polled' = FALSE
  BY <1>1, <1>2 DEF QuietInv, timeVars, ingestVars, CtlTypeOK
<1> QED
  BY <1>2, <1>3, <1>4, <1>5, NotOpen

\* The socket is open, the first command on its way.
LEMMA OpenSocketInv == ASSUME CtlInv, OpenSocket PROVE CtlInv'
<1>1. CtlTypeOK /\ QuietInv
  BY DEF CtlInv
<1>2. /\ UNCHANGED <<port, attempt, timeVars, toClient, ingestVars, verdict>>
      /\ toIngest = <<>> /\ toClient' = <<>> /\ stage' = 0 /\ ~gone'
      /\ sincePong' = 0 /\ sincePing' = 0 /\ ~polled' /\ sinceGone' = 0
  BY <1>1 DEF OpenSocket, QuietInv, timeVars, ingestVars
<1>3. gone' \in BOOLEAN /\ polled' \in BOOLEAN /\ said' \subseteq Errors
      /\ verdict'.gone \in BOOLEAN /\ verdict'.said \subseteq Errors
  BY <1>1, <1>2, Zenon DEF CtlTypeOK, ingestVars, timeVars
<1>4. CASE phase' = "closed"
  <2>1. toIngest' = <<>> /\ result' = "CONNECT_ERROR"
    BY <1>2, <1>4 DEF OpenSocket
  <2>2. CtlTypeOK'
    BY <1>1, <1>2, <1>3, <1>4, <2>1 DEF CtlTypeOK, timeVars, ingestVars
  <2>3. gone' = FALSE /\ polled' = FALSE
    BY <1>2, <1>3
  <2> QED
    BY <1>2, <1>4, <2>1, <2>2, <2>3, NotOpen
<1>5. CASE phase' = "hmac"
  <2>1. Send(<<"HMAC">>) /\ result' = result
    BY <1>5 DEF OpenSocket
  <2>2. /\ toIngest' \in Seq(Commands)
        /\ toIngest' = Append(<<>>, Line("HMAC", 0))
    BY <1>1, <1>2, <2>1, SendIs DEF ingestVars
  <2>3. toIngest' = <<Line("HMAC", 0)>>
    BY <2>2
  <2>4. CtlTypeOK'
    BY <1>1, <1>2, <1>3, <1>5, <2>1, <2>2 DEF CtlTypeOK, timeVars, ingestVars, Commands
  <2>5. Len(toClient') = 0
    BY <1>2, EmptySeq
  <2>6. QuietInv' /\ HandshakeInv'
    BY <1>2, <1>5, <2>3, <2>5 DEF QuietInv, HandshakeInv, Awaits
  <2>7. GoneInv' /\ AgeInv' /\ PongInv'
    BY <1>2, <1>5, <2>5 DEF GoneInv, AgeInv, PongInv
  <2> QED
    BY <2>4, <2>6, <2>7 DEF CtlInv
<1> QED
  BY <1>4, <1>5 DEF OpenSocket

\* The answer n + 1 of the handshake was read, and the commands that follow are on their way:
\* what all steps of the handshake have in common.
LEMMA Advance ==
    ASSUME CtlInv, NEW k \in 1..Len(toClient), Accepted(toClient[1].code), RecvAll(k),
           NEW n \in 0..2, NEW commands, Awaits(n, commands),
           phase \in {"hmac", "connect", "finish"},
           UNCHANGED <<attempt, result, timeVars, ingestVars, verdict>>
    PROVE  /\ stage' = n + 1 /\ toIngest = <<>>
           /\ toClient' \in Seq(Lines) /\ Len(toClient') \in Nat
           /\ \A i \in 1..Len(toClient') : ~Accepted(toClient'[i].code)
           /\ \A i \in 1..Len(toClient') : toClient'[i].code # "201"
           /\ \A i \in 1..Len(toClient') : toClient'[i].age = 0
           /\ \A i \in 1..Len(toClient') :
                 toClient'[i].code \in Errors => gone' /\ toClient'[i].code \in said'
           /\ ~gone' => toClient' = <<>>
           /\ gone' \in BOOLEAN /\ polled' \in BOOLEAN /\ said' \subseteq Errors
           /\ verdict'.gone \in BOOLEAN /\ verdict'.said \subseteq Errors
           /\ sincePong' = 0 /\ sincePing' = 0 /\ ~polled' /\ sinceGone' = 0
<1>1. CtlTypeOK /\ QuietInv /\ HandshakeInv /\ GoneInv /\ AgeInv
  BY DEF CtlInv
<1>2. Len(toClient) \in Nat /\ 1 \in 1..Len(toClient) /\ k \in 0..Len(toClient)
  BY <1>1, QueueTypes
<1>3. stage = n + 1 /\ (~gone => Len(toClient) <= 1)
  BY <1>2 DEF Awaits
<1>4. toIngest = <<>> /\ stage' = n + 1
  BY <1>3 DEF Awaits, ingestVars
<1>5. /\ toClient' \in Seq(Lines)
      /\ Len(toClient') = Len(toClient) - k
      /\ \A i \in 1..(Len(toClient) - k) : toClient'[i] = toClient[i + k]
  BY <1>1, <1>2, RecvIs
<1>6. ASSUME NEW i \in 1..Len(toClient')
      PROVE  /\ ~Accepted(toClient'[i].code)
             /\ toClient'[i].code # "201"
             /\ toClient'[i].age = 0
             /\ toClient'[i].code \in Errors => gone' /\ toClient'[i].code \in said'
  <2>1. i + k \in 1..Len(toClient) /\ i + k # 1 /\ toClient'[i] = toClient[i + k]
    BY <1>2, <1>5
  <2>2. ~Accepted(toClient[i + k].code)
    BY <2>1 DEF Awaits
  <2>3. toClient[i + k].code # "201" /\ toClient[i + k].age = 0
    BY <1>1, <2>1 DEF HandshakeInv, AgeInv
  <2>4. toClient[i + k].code \in Errors => gone /\ toClient[i + k].code \in said
    BY <1>1, <2>1 DEF GoneInv
  <2> QED
    BY <2>1, <2>2, <2>3, <2>4 DEF ingestVars
<1>7. ~gone' => toClient' = <<>>
  <2> SUFFICES ASSUME ~gone' PROVE toClient' = <<>>
    OBVIOUS
  <2>1. ~gone
    BY DEF ingestVars
  <2>2. Len(toClient') = 0
    BY <1>2, <1>3, <1>5, <2>1
  <2> QED
    BY <1>5, <2>2, EmptySeq
<1>8. gone' \in BOOLEAN /\ polled' \in BOOLEAN /\ said' \subseteq Errors
      /\ verdict'.gone \in BOOLEAN /\ verdict'.said \subseteq Errors
  BY <1>1, Zenon DEF CtlTypeOK, ingestVars, timeVars
<1>9. sincePong' = 0 /\ sincePing' = 0 /\ ~polled' /\ sinceGone' = 0
  BY <1>1 DEF QuietInv, timeVars
<1>10. Len(toClient') \in Nat
  BY <1>2, <1>5
<1> QED
  BY <1>4, <1>5, <1>6, <1>7, <1>8, <1>9, <1>10

\* The rest of a step of the handshake: the commands are those of the next one.
LEMMA AdvanceInv ==
    ASSUME CtlInv, NEW k \in 1..Len(toClient), Accepted(toClient[1].code), RecvAll(k),
           NEW n \in 0..2, NEW commands, Awaits(n, commands),
           phase \in {"hmac", "connect", "finish"},
           UNCHANGED <<attempt, result, timeVars, ingestVars, verdict>>,
           port' \in {-1, 0, AnyPort}, toIngest' \in Seq(Commands), gone' => toIngest' = <<>>,
           \/ n = 0 /\ phase' = "connect" /\ (~gone' => toIngest' = <<Line("CONNECT", 0)>>)
           \/ n = 1 /\ phase' = "finish"
                    /\ (~gone' => toIngest' = <<Line("FIELD", 0), Line(".", 0)>>)
           \/ n = 2 /\ phase' = "start" /\ toIngest' = <<>>
    PROVE  CtlInv'
<1>1. /\ stage' = n + 1
      /\ toClient' \in Seq(Lines) /\ Len(toClient') \in Nat
      /\ \A i \in 1..Len(toClient') : ~Accepted(toClient'[i].code)
      /\ \A i \in 1..Len(toClient') : toClient'[i].code # "201"
      /\ \A i \in 1..Len(toClient') : toClient'[i].age = 0
      /\ \A i \in 1..Len(toClient') :
            toClient'[i].code \in Errors => gone' /\ toClient'[i].code \in said'
      /\ ~gone' => toClient' = <<>>
      /\ gone' \in BOOLEAN /\ polled' \in BOOLEAN /\ said' \subseteq Errors
      /\ verdict'.gone \in BOOLEAN /\ verdict'.said \subseteq Errors
      /\ sincePong' = 0 /\ sincePing' = 0 /\ ~polled' /\ sinceGone' = 0
  BY Advance
<1>2. ~gone' => Len(toClient') = 0
  BY <1>1, EmptySeq
<1>3. CtlTypeOK'
  <2>1. /\ gone' \in BOOLEAN /\ polled' \in BOOLEAN /\ said' \subseteq Errors
        /\ verdict'.gone \in BOOLEAN /\ verdict'.said \subseteq Errors
    BY <1>1
  <2>2. /\ toIngest' \in Seq(Commands) /\ toClient' \in Seq(Lines) /\ stage' \in 0..3
        /\ sincePong' = 0 /\ sincePing' = 0 /\ sinceGone' = 0
    BY <1>1
  <2>3. CtlTypeOK /\ PingEvery \in Nat /\ LateAfter \in Nat
    BY ControlAssumption DEF CtlInv, LateAfter
  <2>4. phase' \in {"connect", "finish", "start"} /\ result' = result /\ attempt' = attempt
    OBVIOUS
  <2> QED
    BY <2>1, <2>2, <2>3, <2>4 DEF CtlTypeOK, Commands, Lines
<1>4. QuietInv'
  BY <1>1 DEF QuietInv
<1>5. HandshakeInv'
  <2>1. /\ \A i \in 1..Len(toClient') : ~Accepted(toClient'[i].code)
        /\ \A i \in 1..Len(toClient') : toClient'[i].code # "201"
        /\ ~gone' => Len(toClient') <= 1
        /\ ~gone' => toClient' = <<>>
        /\ toIngest' # <<>> => ~gone'
        /\ stage' = n + 1
    BY <1>1, <1>2
  <2>2. CASE n = 0 /\ phase' = "connect"
    <3>1. ~gone' => toIngest' = <<Line("CONNECT", 0)>>
      BY <2>2
    <3>2. Awaits(1, {<<Line("CONNECT", 0)>>})'
      BY <2>1, <2>2, <3>1 DEF Awaits
    <3> QED
      BY <2>1, <2>2, <3>2, Zenon DEF HandshakeInv
  <2>3. CASE n = 1 /\ phase' = "finish"
    <3> DEFINE commands2 == {<<Line("FIELD", 0), Line(".", 0)>>, <<Line(".", 0)>>}
    <3>1. ~gone' => toIngest' \in commands2
      BY <2>3
    <3> HIDE DEF commands2
    <3>2. Awaits(2, commands2)'
      BY <2>1, <2>3, <3>1 DEF Awaits, commands2
    <3> QED
      BY <2>1, <2>3, <3>2, Zenon DEF HandshakeInv, commands2
  <2>4. CASE n = 2 /\ phase' = "start"
    <3>1. stage' = 3 /\ toIngest' = <<>>
      BY <2>1, <2>4
    <3> QED
      BY <2>1, <2>4, <3>1, Zenon DEF HandshakeInv
  <2> QED
    BY <2>2, <2>3, <2>4
<1>6. phase' # "up"
  OBVIOUS
<1>7. GoneInv' /\ PongInv'
  BY <1>1, <1>6 DEF GoneInv, PongInv
<1>8. AgeInv'
  <2>1. \A i \in 1..Len(toClient') : toClient'[i].age = 0
    BY <1>1
  <2>2. MaxDelay + 1 > 0 /\ sinceGone' = 0 /\ ~polled'
    BY <1>1, ControlAssumption
  <2> QED
    BY <2>1, <2>2 DEF AgeInv
<1> QED
  BY <1>3, <1>4, <1>5, <1>7, <1>8 DEF CtlInv

LEMMA AnswerHmacInv ==
    ASSUME CtlInv, NEW k \in 1..Len(toClient), AnswerHmac(k) PROVE CtlInv'
<1>1. CASE Refuse("INGEST_NO_RESPONSE")
  BY <1>1, RefuseInv DEF Results
<1>2. CASE ~Refuse("INGEST_NO_RESPONSE")
  <2>1. /\ phase = "hmac" /\ Accepted(toClient[1].code) /\ RecvAll(k) /\ phase' = "connect"
        /\ UNCHANGED <<port, attempt, result, timeVars, ingestVars, verdict>>
        /\ Send(<<"CONNECT">>)
    BY <1>2 DEF AnswerHmac
  <2>2. Awaits(0, {<<Line("HMAC", 0)>>}) /\ CtlTypeOK
    BY <2>1 DEF CtlInv, HandshakeInv
  <2>3. toIngest = <<>> /\ gone' = gone
    BY <2>1, <2>2, Advance DEF ingestVars
  <2>4. /\ toIngest' \in Seq(Commands) /\ (gone' => toIngest' = <<>>)
        /\ ~gone' => toIngest' = <<Line("CONNECT", 0)>>
    BY <2>1, <2>2, <2>3, SendIs
  <2>5. port' \in {-1, 0, AnyPort}
    BY <2>1, <2>2 DEF CtlTypeOK
  <2> QED
    BY <2>1, <2>2, <2>4, <2>5, AdvanceInv
<1> QED
  BY <1>1, <1>2

LEMMA AnswerConnectInv ==
    ASSUME CtlInv, NEW k \in 1..Len(toClient), AnswerConnect(k) PROVE CtlInv'
<1>1. CASE ~Accepted(toClient[1].code) /\ Refuse(LogResponse(toClient[1].code))
  <2>1. toClient[1].code \in Codes
    BY QueueTypes DEF CtlInv, Lines
  <2>2. LogResponse(toClient[1].code) \in Results
    BY <2>1, LogTypes DEF Results
  <2> QED
    BY <1>1, <2>2, RefuseInv
<1>2. CASE Accepted(toClient[1].code)
  <2>1. /\ phase = "connect" /\ RecvAll(k) /\ phase' = "finish"
        /\ UNCHANGED <<port, attempt, result, timeVars, ingestVars, verdict>>
        /\ Send(<<"FIELD", ".">>)
    BY <1>2 DEF AnswerConnect
  <2>2. Awaits(1, {<<Line("CONNECT", 0)>>}) /\ CtlTypeOK
    BY <2>1 DEF CtlInv, HandshakeInv
  <2>3. toIngest = <<>> /\ gone' = gone
    BY <1>2, <2>1, <2>2, Advance DEF ingestVars
  <2>4. [i \in 1..Len(<<"FIELD", ".">>) |-> Line(<<"FIELD", ".">>[i], 0)]
          = <<Line("FIELD", 0), Line(".", 0)>>
    BY DEF Line
  <2>5. <<Line("FIELD", 0), Line(".", 0)>> \in Seq(Commands)
    BY ControlAssumption DEF Line, Commands
  <2>6. /\ gone' => toIngest' = <<>>
        /\ ~gone' => toIngest' = <<Line("FIELD", 0), Line(".", 0)>>
    BY <2>1, <2>3, <2>4, <2>5 DEF Send
  <2>7. toIngest' \in Seq(Commands)
    BY <2>5, <2>6, EmptySeq
  <2>8. port' \in {-1, 0, AnyPort}
    BY <2>1, <2>2 DEF CtlTypeOK
  <2> QED
    BY <1>2, <2>1, <2>2, <2>6, <2>7, <2>8, AdvanceInv
<1> QED
  BY <1>1, <1>2 DEF AnswerConnect

LEMMA AnswerDotInv ==
    ASSUME CtlInv, NEW k \in 1..Len(toClient), AnswerDot(k) PROVE CtlInv'
<1>1. CASE ~Accepted(toClient[1].code) /\ Refuse(LogResponse(toClient[1].code))
  <2>1. toClient[1].code \in Codes
    BY QueueTypes DEF CtlInv, Lines
  <2>2. LogResponse(toClient[1].code) \in Results
    BY <2>1, LogTypes DEF Results
  <2> QED
    BY <1>1, <2>2, RefuseInv
<1>2. CASE Accepted(toClient[1].code)
  <2>1. /\ phase = "finish" /\ RecvAll(k) /\ phase' = "start"
        /\ UNCHANGED <<attempt, result, timeVars, ingestVars, verdict>>
        /\ toIngest' = toIngest /\ port' \in {-1, 0, AnyPort}
    BY <1>2 DEF AnswerDot
  <2> DEFINE commands == {<<Line("FIELD", 0), Line(".", 0)>>, <<Line(".", 0)>>}
  <2>2. Awaits(2, commands) /\ CtlTypeOK
    BY <2>1 DEF CtlInv, HandshakeInv
  <2> HIDE DEF commands
  <2>3. toIngest' = <<>>
    BY <1>2, <2>1, <2>2, Advance
  <2>4. toIngest' \in Seq(Commands)
    BY <2>3, EmptySeq
  <2> QED
    BY <1>2, <2>1, <2>2, <2>3, <2>4, AdvanceInv
<1> QED
  BY <1>1, <1>2 DEF AnswerDot

LEMMA NoAnswerInv == ASSUME CtlInv, NoAnswer PROVE CtlInv'
<1>1. LogResponse("timeout") \in Results /\ LogResponse("closed") \in Results
      /\ "INGEST_NO_RESPONSE" \in Results
  BY LogTypes DEF Results
<1> QED
  BY <1>1, RefuseInv DEF NoAnswer

\* The connection is up: the ingest accepted the whole description of the stream.
LEMMA StartThreadsInv == ASSUME CtlInv, StartThreads PROVE CtlInv'
<1>1. CASE Refuse("UNKNOWN_ERROR_CODE")
  <2>1. "UNKNOWN_ERROR_CODE" \in Results
    BY DEF Results, LogResponse, Errors
  <2> QED
    BY <1>1, <2>1, RefuseInv
<1>2. CASE ~Refuse("UNKNOWN_ERROR_CODE")
  <2>1. /\ phase = "start" /\ phase' = "up" /\ result' = "SUCCESS"
        /\ UNCHANGED <<port, attempt, timeVars, streamVars, ingestVars, verdict>>
    BY <1>2 DEF StartThreads
  <2>2. /\ CtlTypeOK /\ stage = 3 /\ toIngest = <<>> /\ (~gone => toClient = <<>>)
        /\ sincePong = 0 /\ sincePing = 0 /\ ~polled /\ sinceGone = 0
    BY <2>1 DEF CtlInv, HandshakeInv, QuietInv
  <2>3. CtlTypeOK'
    <3>1. gone' \in BOOLEAN /\ polled' \in BOOLEAN /\ said' \subseteq Errors
          /\ verdict'.gone \in BOOLEAN /\ verdict'.said \subseteq Errors
      BY <2>1, <2>2, Zenon DEF CtlTypeOK, ingestVars, timeVars
    <3> QED
      BY <2>1, <2>2, <3>1 DEF CtlTypeOK, timeVars, streamVars, ingestVars
  <2>4. Len(<<>>) = 0
    BY EmptySeq
  <2>5. HandshakeInv' /\ QuietInv'
    BY <2>1, <2>2, <2>4 DEF CtlInv, HandshakeInv, QuietInv, timeVars, streamVars, ingestVars
  <2>6. GoneInv'
    BY <2>1 DEF CtlInv, GoneInv, timeVars, streamVars, ingestVars
  <2>7. AgeInv'
    BY <2>1, <2>2 DEF CtlInv, AgeInv, LateAfter, timeVars, streamVars
  <2>8. PongInv'
    BY <2>1, <2>2 DEF PongInv, timeVars, streamVars, ingestVars
  <2> QED
    BY <2>3, <2>5, <2>6, <2>7, <2>8 DEF CtlInv
<1> QED
  BY <1>1, <1>2

LEMMA HandshakeStepInv == ASSUME CtlInv, Handshake PROVE CtlInv'
  BY OpenSocketInv, NoAnswerInv, StartThreadsInv, AnswerHmacInv, AnswerConnectInv, AnswerDotInv
     DEF Handshake

-----------------------------------------------------------------------------
(* The threads *)

\* Of a set of indices one is the last.
LEMMA LastIndex ==
    ASSUME NEW n \in Nat, NEW T \in SUBSET (1..n), T # {}
    PROVE  \E i \in T : \A j \in T : j <= i
<1> DEFINE R == {ss \in Nat \X Nat : ss[1] < ss[2]}
           U == {n - i : i \in T}
<1>1. IsWellFoundedOn(R, Nat)
  BY NatLessThanWellFounded, Zenon DEF OpToRel
<1>2. U \subseteq Nat
  <2> SUFFICES ASSUME NEW i \in T PROVE n - i \in Nat
    OBVIOUS
  <2> QED
    OBVIOUS
<1>3. U # {}
  BY Zenon
<1>4. \E x \in U : \A y \in U : ~(<<y, x>> \in R)
  <2> HIDE DEF R, U
  <2> QED
    BY <1>1, <1>2, <1>3, WFMin, Zenon
<1>5. PICK x \in U : \A y \in U : ~(y < x)
  BY <1>2, <1>4
<1>6. PICK i \in T : x = n - i
  BY <1>5
<1>7. ASSUME NEW j \in T
      PROVE  j <= i
  BY <1>5, <1>6
<1> QED
  BY <1>7

\* A round reads every line that has waited for MaxDelay ticks.
LEMMA DueIs ==
    ASSUME CtlTypeOK
    PROVE  /\ Due \in 0..Len(toClient)
           /\ \A i \in 1..Len(toClient) : i > Due => toClient[i].age < MaxDelay
<1> DEFINE n == Len(toClient)
           late == {i \in 1..n : toClient[i].age >= MaxDelay}
<1>1. n \in Nat /\ \A i \in 1..n : toClient[i].age \in Nat
  BY QueueTypes, ControlAssumption DEF Lines
<1>2. Due = IF late = {} THEN 0 ELSE CHOOSE i \in late : \A j \in late : j <= i
  BY Zenon DEF Due
<1>3. CASE late = {}
  BY <1>1, <1>2, <1>3, ControlAssumption
<1>4. CASE late # {}
  <2>1. late \in SUBSET (1..n)
    OBVIOUS
  <2> HIDE DEF n
  <2>2. \E i \in late : \A j \in late : j <= i
    <3> HIDE DEF late
    <3> QED
      BY <1>1, <1>4, <2>1, LastIndex, Zenon
  <2>3. Due \in late /\ \A j \in late : j <= Due
    <3> HIDE DEF late
    <3> QED
      BY <1>2, <1>4, <2>2, Zenon
  <2>4. Due \in 0..n
    BY <1>1, <2>3
  <2>5. ASSUME NEW i \in 1..n, i > Due
        PROVE  toClient[i].age < MaxDelay
    BY <1>1, <2>3, <2>4, <2>5, ControlAssumption
  <2> QED
    BY <2>4, <2>5 DEF n
<1> QED
  BY <1>3, <1>4

\* The keepalive thread sends a PING.
LEMMA KeepAliveInv == ASSUME CtlInv, KeepAlive PROVE CtlInv'
<1>1. /\ CtlTypeOK /\ QuietInv /\ HandshakeInv /\ GoneInv /\ AgeInv /\ PongInv
  BY DEF CtlInv
<1>2. /\ phase = "up" /\ sincePing = PingEvery /\ sincePing' = 0 /\ Send(<<"PING">>)
      /\ UNCHANGED <<phase, result, port, attempt, sincePong, polled, sinceGone, toClient,
                     stage, gone, said, verdict>>
  BY DEF KeepAlive, clientVars, ingestVars
<1>3. /\ toIngest' \in Seq(Commands) /\ Len(toIngest) \in Nat
      /\ gone => toIngest' = toIngest
      /\ ~gone => /\ Len(toIngest') = Len(toIngest) + 1
                  /\ \A i \in 1..Len(toIngest) : toIngest'[i] = toIngest[i]
                  /\ toIngest'[Len(toIngest) + 1] = Line("PING", 0)
  BY <1>1, <1>2, SendIs, QueueTypes
<1>4. CtlTypeOK'
  <2>1. /\ gone' \in BOOLEAN /\ polled' \in BOOLEAN /\ said' \subseteq Errors
        /\ verdict'.gone \in BOOLEAN /\ verdict'.said \subseteq Errors
    BY <1>1, <1>2, Zenon DEF CtlTypeOK
  <2>2. 0 \in 0..PingEvery
    BY ControlAssumption
  <2> QED
    BY <1>1, <1>2, <1>3, <2>1, <2>2 DEF CtlTypeOK, Commands
<1>5. QuietInv'
  BY <1>2 DEF QuietInv
<1>6. HandshakeInv'
  <2>1. \A i \in 1..Len(toIngest) : toIngest[i].code = "PING"
    BY <1>1, <1>2 DEF HandshakeInv
  <2>2. Line("PING", 0).code = "PING"
    BY DEF Line
  <2>3. \A i \in 1..Len(toIngest') : toIngest'[i].code = "PING"
    <3>1. CASE gone
      BY <1>3, <2>1, <3>1
    <3>2. CASE ~gone
      <4> SUFFICES ASSUME NEW i \in 1..Len(toIngest') PROVE toIngest'[i].code = "PING"
        OBVIOUS
      <4>1. i \in 1..Len(toIngest) \/ i = Len(toIngest) + 1
        BY <1>3, <3>2
      <4> QED
        BY <1>3, <2>1, <2>2, <3>2, <4>1
    <3> QED
      BY <3>1, <3>2
  <2> QED
    BY <1>1, <1>2, <2>3 DEF HandshakeInv
<1>7. GoneInv'
  BY <1>1, <1>2, <1>3 DEF GoneInv
<1>8. AgeInv'
  BY <1>1, <1>2 DEF AgeInv
<1>9. PongInv'
  <2> SUFFICES ASSUME ~gone
               PROVE  \/ \E i \in 1..Len(toIngest') : sincePong <= toIngest'[i].age + PingEvery
                      \/ \E i \in 1..Len(toClient) : sincePong <= toClient[i].age + PingEvery
    BY <1>2 DEF PongInv
  <2>1. CASE \E i \in 1..Len(toIngest) : sincePong <= toIngest[i].age + PingEvery
    <3>1. PICK i \in 1..Len(toIngest) : sincePong <= toIngest[i].age + PingEvery
      BY <2>1
    <3>2. i \in 1..Len(toIngest') /\ toIngest'[i] = toIngest[i]
      BY <1>3, <3>1
    <3> QED
      BY <3>1, <3>2
  <2>2. CASE sincePong <= sincePing
    <3>1. Len(toIngest) + 1 \in 1..Len(toIngest')
      BY <1>3
    <3>2. toIngest'[Len(toIngest) + 1].age = 0
      BY <1>3 DEF Line
    <3>3. sincePong <= 0 + PingEvery
      BY <1>2, <2>2, ControlAssumption
    <3> QED
      BY <3>1, <3>2, <3>3
  <2> QED
    BY <1>1, <1>2, <2>1, <2>2 DEF PongInv
<1> QED
  BY <1>4, <1>5, <1>6, <1>7, <1>8, <1>9 DEF CtlInv

\* A round of the status thread that finds no error: what it read is gone, and either it heard
\* the ingest or the time is not up.
LEMMA RoundInv ==
    ASSUME CtlInv, phase = "up", ~polled, NEW k \in Due..Len(toClient), RecvAll(k),
           UNCHANGED <<clientVars, sincePing, sinceGone, toIngest, ingestVars, verdict>>,
           polled' = TRUE,
           sincePong' = 0 \/ (k = 0 /\ sincePong' = sincePong /\ sincePong < LateAfter)
    PROVE  CtlInv'
<1>1. /\ CtlTypeOK /\ QuietInv /\ HandshakeInv /\ GoneInv /\ AgeInv /\ PongInv
  BY DEF CtlInv
<1>2. /\ phase' = "up" /\ stage' = stage /\ gone' = gone /\ said' = said
      /\ UNCHANGED <<result, port, attempt, sincePing, sinceGone, toIngest, verdict>>
  BY DEF clientVars, ingestVars
<1>3. /\ Len(toClient) \in Nat /\ Due \in 0..Len(toClient) /\ k \in 0..Len(toClient)
      /\ k \in Nat
  BY <1>1, QueueTypes, DueIs
<1>4. /\ toClient' \in Seq(Lines)
      /\ Len(toClient') = Len(toClient) - k
      /\ \A i \in 1..(Len(toClient) - k) : toClient'[i] = toClient[i + k]
  BY <1>1, <1>3, RecvIs
<1>5. ASSUME NEW i \in 1..Len(toClient')
      PROVE  /\ toClient'[i] = toClient[i + k] /\ i + k \in 1..Len(toClient)
             /\ i + k > Due
  BY <1>3, <1>4
<1>6. LateAfter \in Nat /\ LateAfter > 0 /\ sincePong \in Nat /\ sincePing \in Nat
  BY <1>1, ControlAssumption DEF LateAfter, CtlTypeOK
<1>7. CtlTypeOK'
  <2>1. /\ gone' \in BOOLEAN /\ polled' \in BOOLEAN /\ said' \subseteq Errors
        /\ verdict'.gone \in BOOLEAN /\ verdict'.said \subseteq Errors
    BY <1>1, <1>2, Zenon DEF CtlTypeOK
  <2>2. sincePong' \in 0..LateAfter
    BY <1>6
  <2> QED
    BY <1>1, <1>2, <1>4, <2>1, <2>2 DEF CtlTypeOK, Lines
<1>8. QuietInv'
  BY <1>2 DEF QuietInv
<1>9. HandshakeInv'
  <2>1. stage = 3 /\ \A i \in 1..Len(toIngest) : toIngest[i].code = "PING"
    BY <1>1 DEF HandshakeInv
  <2>2. \A i \in 1..Len(toClient') : ~Accepted(toClient'[i].code)
    BY <1>1, <1>5 DEF HandshakeInv
  <2> QED
    BY <1>2, <2>1, <2>2 DEF HandshakeInv
<1>10. GoneInv'
  BY <1>1, <1>2, <1>5 DEF GoneInv
<1>11. AgeInv'
  <2>1. polled' => sincePong' < LateAfter
    BY <1>6
  <2>2. \A i \in 1..Len(toClient') : toClient'[i].age < MaxDelay /\ toClient'[i].age \in Nat
                                     /\ sinceGone <= toClient'[i].age
    <3> SUFFICES ASSUME NEW i \in 1..Len(toClient')
                 PROVE  toClient'[i].age < MaxDelay /\ toClient'[i].age \in Nat
                        /\ sinceGone <= toClient'[i].age
      OBVIOUS
    <3>1. toClient'[i] = toClient[i + k] /\ i + k \in 1..Len(toClient) /\ i + k > Due
      BY <1>5
    <3>2. toClient[i + k].age < MaxDelay
      BY <1>1, <3>1, DueIs
    <3>3. toClient[i + k].age \in Nat
      BY <1>1, <3>1, QueueTypes, ControlAssumption DEF Lines
    <3> QED
      BY <1>1, <3>1, <3>2, <3>3 DEF AgeInv
  <2>3. MaxDelay \in Nat
    BY ControlAssumption
  <2> QED
    BY <1>2, <2>1, <2>2, <2>3 DEF AgeInv
<1>12. PongInv'
  <2>1. CASE sincePong' = 0
    <3> SUFFICES ASSUME ~gone
                 PROVE  \/ \E i \in 1..Len(toIngest) : 0 <= toIngest[i].age + PingEvery
                        \/ \E i \in 1..Len(toClient') : 0 <= toClient'[i].age + PingEvery
                        \/ toIngest = <<>> /\ toClient' = <<>> /\ 0 <= sincePing
      BY <1>2, <2>1 DEF PongInv
    <3>1. CASE toIngest # <<>>
      <4>1. 1 \in 1..Len(toIngest) /\ toIngest[1].age \in Nat
        BY <1>1, <3>1, QueueTypes, ControlAssumption DEF Commands
      <4> QED
        BY <4>1, ControlAssumption
    <3>2. CASE toClient' # <<>>
      <4>1. Len(toClient') \in Nat /\ Len(toClient') # 0
        BY <1>4, <3>2, EmptySeq
      <4>2. 1 \in 1..Len(toClient') /\ toClient'[1] \in Lines
        BY <1>4, <4>1, ElementOfSeq
      <4>3. toClient'[1].age \in Nat
        BY <4>2, ControlAssumption DEF Lines
      <4> QED
        BY <4>2, <4>3, ControlAssumption
    <3>3. CASE toIngest = <<>> /\ toClient' = <<>>
      BY <1>6, <3>3
    <3> QED
      BY <3>1, <3>2, <3>3
  <2>2. CASE k = 0 /\ sincePong' = sincePong
    <3>1. toClient' = toClient
      <4>1. \A i \in 1..Len(toClient) : toClient'[i] = toClient[i]
        BY <1>3, <1>4, <2>2
      <4>2. toClient \in Seq(Lines) /\ Len(toClient') = Len(toClient)
        BY <1>1, <1>3, <1>4, <2>2, QueueTypes
      <4> QED
        BY <1>4, <4>1, <4>2, SeqEqual
    <3> QED
      BY <1>1, <1>2, <2>2, <3>1 DEF PongInv
  <2> QED
    BY <2>1, <2>2
<1> QED
  BY <1>7, <1>8, <1>9, <1>10, <1>11, <1>12 DEF CtlInv

\* What the status thread does in a round: it gives up or it goes on.
LEMMA RoundCases ==
    ASSUME CtlInv, StatusRound
    PROVE  \/ \E k \in Due..Len(toClient) :
                 /\ RecvAll(k) /\ polled' = TRUE
                 /\ UNCHANGED <<clientVars, sincePing, sinceGone, toIngest, ingestVars, verdict>>
                 /\ \/ sincePong' = 0 /\ k > 0 /\ toClient[1].code = "201"
                    \/ k = 0 /\ sincePong' = sincePong /\ sincePong < LateAfter
           \/ GiveUp("NO_PING_RESPONSE") /\ Due = 0 /\ sincePong >= LateAfter
           \/ \E code \in Errors \cup {"closed", "timeout"} :
                 /\ GiveUp(LogResponse(code))
                 /\ code \in {"closed", "timeout"} => gone
                 /\ code \in Errors => code \in said
<1>1. PICK k \in Due..Len(toClient) : (k = 0 /\ CheckPing(0)) \/ (k > 0 /\ Hear(k))
  BY DEF StatusRound
<1>2. phase = "up" /\ Due \in 0..Len(toClient) /\ Len(toClient) \in Nat
  BY QueueTypes, DueIs DEF StatusRound, CtlInv
<1>3. CASE k = 0 /\ CheckPing(0)
  <2>1. Due = 0
    BY <1>2, <1>3
  <2> QED
    BY <1>1, <1>3, <2>1 DEF CheckPing
<1>4. CASE k > 0 /\ Hear(k)
  <2>1. 1 \in 1..Len(toClient)
    BY <1>1, <1>2, <1>4
  <2>2. ~Accepted(toClient[1].code) /\ (toClient[1].code \in Errors => toClient[1].code \in said)
    BY <1>2, <2>1 DEF CtlInv, HandshakeInv, GoneInv
  <2>3. CASE toClient[1].code = "201"  /\ RecvAll(k) /\ polled' = TRUE /\ sincePong' = 0
             /\ UNCHANGED <<clientVars, sincePing, sinceGone, toIngest, ingestVars, verdict>>
    BY <1>1, <1>4, <2>3
  <2>4. CASE toClient[1].code \in Errors /\ GiveUp(LogResponse(toClient[1].code))
    BY <2>2, <2>4 DEF Errors
  <2>5. CASE gone /\ \E code \in {"closed", "timeout"} : GiveUp(LogResponse(code))
    BY <2>5 DEF Errors
  <2> QED
    BY <1>4, <2>2, <2>3, <2>4, <2>5, Zenon DEF Hear
<1> QED
  BY <1>1, <1>3, <1>4

LEMMA StatusRoundInv == ASSUME CtlInv, StatusRound PROVE CtlInv'
<1>1. phase = "up" /\ ~polled
  BY DEF StatusRound
<1> QED
  BY <1>1, RoundCases, RoundInv, GiveUpInv

-----------------------------------------------------------------------------
(* The ingest and the network *)

\* An answer is queued behind the other lines.
LEMMA ReplyIs ==
    ASSUME CtlTypeOK, toIngest # <<>>, NEW c \in Codes, Reply(c)
    PROVE  /\ toClient' \in Seq(Lines) /\ Len(toClient') = Len(toClient) + 1
           /\ \A i \in 1..Len(toClient) : toClient'[i] = toClient[i]
           /\ toClient'[Len(toClient) + 1].code = c
           /\ toClient'[Len(toClient) + 1].age = toIngest[1].age
<1>1. 1 \in 1..Len(toIngest) /\ toIngest[1] \in Commands /\ toClient \in Seq(Lines)
  BY QueueTypes
<1> DEFINE a == toIngest[1].age
<1>2. a \in 0..MaxDelay
  BY <1>1 DEF Commands
<1> HIDE DEF a
<1>3. Line(c, a) \in Lines /\ Line(c, a).code = c /\ Line(c, a).age = a
  BY <1>2, ControlAssumption DEF Line, Lines
<1>4. toClient' = Append(toClient, Line(c, a))
  BY DEF Reply, a
<1> QED
  BY <1>1, <1>3, <1>4, AppendProperties DEF a

\* The first command is taken.
LEMMA TakeIs ==
    ASSUME CtlTypeOK, toIngest # <<>>, toIngest' = Tail(toIngest)
    PROVE  /\ toIngest' \in Seq(Commands) /\ Len(toIngest') = Len(toIngest) - 1
           /\ \A i \in 1..(Len(toIngest) - 1) : toIngest'[i] = toIngest[i + 1]
  BY QueueTypes, HeadTailProperties

\* The ingest accepts the last command that is on its way in a step of the handshake.
LEMMA AnsweredInv ==
    ASSUME CtlInv, ~gone, toIngest # <<>>, toIngest[1].age = 0, toIngest' = <<>>, toClient = <<>>,
           NEW n \in 0..2, stage = n, stage' = n + 1,
           \/ n = 0 /\ phase = "hmac"
           \/ n = 1 /\ phase = "connect"
           \/ n = 2 /\ phase = "finish",
           NEW a \in {"200", "200_port"}, Reply(a),
           UNCHANGED <<phase, result, port, attempt, sincePong, sincePing, polled, sinceGone,
                       gone, said, verdict>>
    PROVE  CtlInv'
<1>1. CtlTypeOK /\ QuietInv /\ phase # "up"
  BY DEF CtlInv
<1>2. a \in Codes /\ a \notin Errors /\ a # "201" /\ Len(toClient) = 0
  BY EmptySeq DEF Codes, Errors
<1>3. /\ toClient' \in Seq(Lines) /\ Len(toClient') = 1
      /\ toClient'[1].code = a /\ toClient'[1].age = 0
  BY <1>1, <1>2, ReplyIs
<1>4. \A i \in 1..Len(toClient') : i = 1 /\ toClient'[i].code = a /\ toClient'[i].age = 0
  BY <1>3
<1>5. /\ ~gone' /\ sincePong' = 0 /\ sincePing' = 0 /\ ~polled' /\ sinceGone' = 0
  BY <1>1 DEF QuietInv
<1>6. CtlTypeOK'
  <2>1. /\ gone' \in BOOLEAN /\ polled' \in BOOLEAN /\ said' \subseteq Errors
        /\ verdict'.gone \in BOOLEAN /\ verdict'.said \subseteq Errors
    BY <1>1, Zenon DEF CtlTypeOK
  <2>2. stage' \in 0..3 /\ toIngest' \in Seq(Commands)
    BY EmptySeq
  <2> QED
    BY <1>1, <1>3, <2>1, <2>2 DEF CtlTypeOK, Commands, Lines
<1>7. HandshakeInv'
  <2>1. ASSUME NEW commands
        PROVE  Awaits(n, commands)'
    BY <1>3, <1>4 DEF Awaits
  <2>2. \A i \in 1..Len(toClient') : toClient'[i].code # "201"
    BY <1>2, <1>4
  <2>3. CASE n = 0 /\ phase = "hmac"
    BY <2>1, <2>2, <2>3 DEF HandshakeInv
  <2>4. CASE n = 1 /\ phase = "connect"
    BY <2>1, <2>2, <2>4 DEF HandshakeInv
  <2>5. CASE n = 2 /\ phase = "finish"
    BY <2>1, <2>2, <2>5 DEF HandshakeInv
  <2> QED
    BY <2>3, <2>4, <2>5
<1>8. QuietInv' /\ PongInv'
  <2>1. phase' \notin {"closed", "resolve", "open", "up"}
    OBVIOUS
  <2> QED
    BY <1>5, <2>1 DEF QuietInv, PongInv
<1>9. GoneInv'
  BY <1>2, <1>4, <1>5 DEF GoneInv
<1>10. AgeInv'
  BY <1>4, <1>5, ControlAssumption DEF AgeInv
<1> QED
  BY <1>6, <1>7, <1>8, <1>9, <1>10 DEF CtlInv

\* A command of the handshake is served.
LEMMA ServeCommandInv ==
    ASSUME CtlInv, Serve, phase \in {"hmac", "connect", "finish"}
    PROVE  CtlInv'
<1>1. CtlTypeOK /\ QuietInv /\ HandshakeInv /\ GoneInv /\ AgeInv
  BY DEF CtlInv
<1>2. /\ ~gone /\ toIngest # <<>> /\ toIngest' = Tail(toIngest)
      /\ UNCHANGED <<phase, result, port, attempt, sincePong, sincePing, polled, sinceGone,
                     gone, said, verdict>>
  BY DEF Serve, clientVars, timeVars
<1>3. /\ phase = "hmac" => toIngest = <<Line("HMAC", 0)>> /\ stage = 0
      /\ phase = "connect" => toIngest = <<Line("CONNECT", 0)>> /\ stage = 1
      /\ phase = "finish" => /\ \/ toIngest = <<Line("FIELD", 0), Line(".", 0)>>
                                \/ toIngest = <<Line(".", 0)>>
                             /\ stage = 2
      /\ toClient = <<>>
  BY <1>1, <1>2 DEF HandshakeInv, Awaits
<1>4. /\ gone' \in BOOLEAN /\ polled' \in BOOLEAN /\ said' \subseteq Errors
      /\ verdict'.gone \in BOOLEAN /\ verdict'.said \subseteq Errors
  BY <1>1, <1>2, Zenon DEF CtlTypeOK
<1>5. /\ ~gone' /\ sincePong' = 0 /\ sincePing' = 0 /\ ~polled' /\ sinceGone' = 0
  BY <1>1, <1>2 DEF QuietInv
<1>6. toIngest' \in Seq(Commands)
  BY <1>1, <1>2, TakeIs
<1>7. ASSUME toIngest = <<Line("FIELD", 0), Line(".", 0)>>, phase = "finish"
      PROVE  CtlInv'
  <2>1. toIngest[1].code = "FIELD" /\ toIngest' = <<Line(".", 0)>>
    BY <1>2, <1>7 DEF Line
  <2>2. UNCHANGED <<toClient, stage>>
    BY <2>1 DEF Serve
  <2>3. CtlTypeOK'
    BY <1>1, <1>2, <1>4, <1>6, <2>2 DEF CtlTypeOK, Commands
  <2>4. Len(toClient') = 0
    BY <1>3, <2>2, EmptySeq
  <2> DEFINE commands == {<<Line("FIELD", 0), Line(".", 0)>>, <<Line(".", 0)>>}
  <2>5. toIngest' \in commands
    BY <2>1
  <2> HIDE DEF commands
  <2>6. Awaits(2, commands)'
    BY <1>3, <1>7, <2>2, <2>4, <2>5 DEF Awaits, commands
  <2>7. HandshakeInv'
    BY <1>2, <1>7, <2>4, <2>6 DEF HandshakeInv, commands
  <2>8. QuietInv' /\ GoneInv' /\ AgeInv' /\ PongInv'
    BY <1>2, <1>5, <1>7, <2>4, ControlAssumption DEF QuietInv, GoneInv, AgeInv, PongInv
  <2> QED
    BY <2>3, <2>7, <2>8 DEF CtlInv
<1>8. ASSUME NEW c \in {"HMAC", "CONNECT", "."}, toIngest = <<Line(c, 0)>>
      PROVE  CtlInv'
  <2>1. /\ toIngest[1].code = c /\ toIngest[1].age = 0 /\ toIngest' = <<>>
    BY <1>2, <1>8 DEF Line
  <2>2. CASE c = "HMAC"
    <3>1. Reply("200") /\ stage' = 1
      BY <2>1, <2>2 DEF Serve
    <3>2. phase = "hmac" /\ stage = 0
      BY <1>3, <1>8, <2>2, Line(c, 0).code = c DEF Line
    <3> QED
      BY <1>2, <1>3, <2>1, <3>1, <3>2, AnsweredInv
  <2>3. CASE c = "CONNECT"
    <3>1. Reply("200") /\ stage' = 2
      BY <2>1, <2>3 DEF Serve
    <3>2. phase = "connect" /\ stage = 1
      BY <1>3, <1>8, <2>3 DEF Line
    <3> QED
      BY <1>2, <1>3, <2>1, <3>1, <3>2, AnsweredInv
  <2>4. CASE c = "."
    <3>1. (Reply("200") \/ Reply("200_port")) /\ stage' = 3
      BY <2>1, <2>4 DEF Serve
    <3>2. phase = "finish" /\ stage = 2
      BY <1>3, <1>8, <2>4 DEF Line
    <3> QED
      BY <1>2, <1>3, <2>1, <3>1, <3>2, AnsweredInv
  <2> QED
    BY <2>2, <2>3, <2>4
<1> QED
  BY <1>3, <1>7, <1>8

\* A PING is answered; the answer is as old as the PING.
LEMMA ServePingInv == ASSUME CtlInv, Serve, phase = "up" PROVE CtlInv'
<1>1. CtlTypeOK /\ HandshakeInv /\ GoneInv /\ AgeInv /\ PongInv
  BY DEF CtlInv
<1>2. /\ ~gone /\ toIngest # <<>> /\ toIngest' = Tail(toIngest)
      /\ UNCHANGED <<phase, result, port, attempt, sincePong, sincePing, polled, sinceGone,
                     gone, said, verdict>>
  BY DEF Serve, clientVars, timeVars
<1>3. /\ 1 \in 1..Len(toIngest) /\ toIngest[1].code = "PING" /\ Len(toIngest) \in Nat
      /\ Len(toClient) \in Nat /\ toIngest[1].age \in 0..MaxDelay
  <2>1. /\ 1 \in 1..Len(toIngest) /\ Len(toIngest) \in Nat /\ Len(toClient) \in Nat
        /\ toIngest[1] \in Commands
    BY <1>1, <1>2, QueueTypes
  <2>2. toIngest[1].code = "PING"
    BY <1>1, <2>1 DEF HandshakeInv
  <2>3. toIngest[1].age \in 0..MaxDelay
    BY <2>1 DEF Commands
  <2> QED
    BY <2>1, <2>2, <2>3
<1>4. Reply("201") /\ stage' = stage
  BY <1>3 DEF Serve
<1>5. /\ toClient' \in Seq(Lines) /\ Len(toClient') = Len(toClient) + 1
      /\ \A i \in 1..Len(toClient) : toClient'[i] = toClient[i]
      /\ toClient'[Len(toClient) + 1].code = "201"
      /\ toClient'[Len(toClient) + 1].age = toIngest[1].age
  BY <1>1, <1>2, <1>4, ReplyIs DEF Codes
<1>6. /\ toIngest' \in Seq(Commands) /\ Len(toIngest') = Len(toIngest) - 1
      /\ \A i \in 1..(Len(toIngest) - 1) : toIngest'[i] = toIngest[i + 1]
  BY <1>1, <1>2, TakeIs
<1>7. \A i \in 1..Len(toClient') : i \in 1..Len(toClient) \/ i = Len(toClient) + 1
  BY <1>3, <1>5
<1>8. CtlTypeOK'
  <2>1. /\ gone' \in BOOLEAN /\ polled' \in BOOLEAN /\ said' \subseteq Errors
        /\ verdict'.gone \in BOOLEAN /\ verdict'.said \subseteq Errors
    BY <1>1, <1>2, Zenon DEF CtlTypeOK
  <2> QED
    BY <1>1, <1>2, <1>4, <1>5, <1>6, <2>1 DEF CtlTypeOK, Commands, Lines
<1>9. QuietInv'
  BY <1>2 DEF QuietInv
<1>10. HandshakeInv'
  <2>1. \A i \in 1..Len(toIngest') : toIngest'[i].code = "PING"
    BY <1>1, <1>3, <1>6 DEF HandshakeInv
  <2>2. \A i \in 1..Len(toClient') : ~Accepted(toClient'[i].code)
    BY <1>1, <1>5, <1>7 DEF HandshakeInv, Accepted
  <2> QED
    BY <1>1, <1>2, <1>4, <2>1, <2>2 DEF HandshakeInv
<1>11. GoneInv'
  BY <1>1, <1>2, <1>5, <1>7 DEF GoneInv, Errors
<1>12. AgeInv'
  <2>1. sinceGone = 0
    BY <1>1, <1>2 DEF GoneInv
  <2>2. ASSUME NEW i \in 1..Len(toClient')
        PROVE  /\ sinceGone <= toClient'[i].age
               /\ polled => toClient'[i].age <= MaxDelay
    <3>1. CASE i \in 1..Len(toClient)
      BY <1>1, <1>5, <3>1 DEF AgeInv
    <3>2. CASE i = Len(toClient) + 1
      BY <1>3, <1>5, <2>1, <3>2, ControlAssumption
    <3> QED
      BY <1>7, <3>1, <3>2
  <2> QED
    BY <1>1, <1>2, <2>1, <2>2 DEF AgeInv
<1>13. PongInv'
  <2>1. CASE \E i \in 1..Len(toIngest) : sincePong <= toIngest[i].age + PingEvery
    <3>1. PICK i \in 1..Len(toIngest) : sincePong <= toIngest[i].age + PingEvery
      BY <2>1
    <3>2. CASE i = 1
      <4>1. Len(toClient) + 1 \in 1..Len(toClient')
        BY <1>3, <1>5
      <4> QED
        BY <1>2, <1>5, <3>1, <3>2, <4>1 DEF PongInv
    <3>3. CASE i # 1
      <4> DEFINE j == i - 1
      <4>1. j \in 1..(Len(toIngest) - 1) /\ j + 1 = i
        BY <1>3, <3>3
      <4>2. j \in 1..Len(toIngest') /\ toIngest'[j] = toIngest[i]
        BY <1>6, <4>1
      <4> HIDE DEF j
      <4> QED
        BY <1>2, <3>1, <4>2 DEF PongInv
    <3> QED
      BY <3>2, <3>3
  <2>2. CASE \E i \in 1..Len(toClient) : sincePong <= toClient[i].age + PingEvery
    <3>1. PICK i \in 1..Len(toClient) : sincePong <= toClient[i].age + PingEvery
      BY <2>2
    <3>2. i \in 1..Len(toClient') /\ toClient'[i] = toClient[i]
      BY <1>3, <1>5
    <3> QED
      BY <1>2, <3>1, <3>2 DEF PongInv
  <2> QED
    BY <1>1, <1>2, <2>1, <2>2 DEF PongInv
<1> QED
  BY <1>8, <1>9, <1>10, <1>11, <1>12, <1>13 DEF CtlInv

LEMMA ServeInv == ASSUME CtlInv, Serve PROVE CtlInv'
<1>1. toIngest # <<>>
  BY DEF Serve
<1>2. phase \in {"hmac", "connect", "finish", "up"}
  BY <1>1 DEF CtlInv, CtlTypeOK, QuietInv, HandshakeInv
<1> QED
  BY <1>2, ServeCommandInv, ServePingInv

\* The ingest ends the connection; the commands on their way are lost.
LEMMA EndInv == ASSUME CtlInv, End PROVE CtlInv'
<1>1. CtlTypeOK /\ QuietInv /\ HandshakeInv /\ GoneInv /\ AgeInv
  BY DEF CtlInv
<1>2. /\ ~gone /\ gone' = TRUE /\ toIngest' = <<>>
      /\ phase \notin {"closed", "resolve", "open"}
      /\ UNCHANGED <<phase, result, port, attempt, sincePong, sincePing, polled, sinceGone,
                     stage, verdict>>
  BY DEF End, clientVars, timeVars
<1>3. sinceGone = 0 /\ toClient \in Seq(Lines) /\ Len(toClient) \in Nat
  BY <1>1, <1>2, QueueTypes DEF GoneInv
<1>4. /\ toClient' \in Seq(Lines) /\ said' \subseteq Errors /\ Len(toClient') \in Nat
      /\ \A i \in 1..Len(toClient') :
            \/ i \in 1..Len(toClient) /\ toClient'[i] = toClient[i]
            \/ toClient'[i].code \in Errors /\ toClient'[i].age = 0
               /\ toClient'[i].code \in said'
      /\ said \subseteq said'
  <2>1. CASE UNCHANGED <<toClient, said>>
    BY <1>1, <1>3, <2>1 DEF CtlTypeOK
  <2>2. ASSUME NEW e \in Errors, toClient' = Append(toClient, Line(e, 0)),
               said' = said \cup {e}
        PROVE  /\ toClient' \in Seq(Lines) /\ said' \subseteq Errors /\ Len(toClient') \in Nat
               /\ \A i \in 1..Len(toClient') :
                     \/ i \in 1..Len(toClient) /\ toClient'[i] = toClient[i]
                     \/ toClient'[i].code \in Errors /\ toClient'[i].age = 0
                        /\ toClient'[i].code \in said'
               /\ said \subseteq said'
    <3>1. Line(e, 0) \in Lines /\ Line(e, 0).code = e /\ Line(e, 0).age = 0
      <4>1. e \in Codes
        BY DEF Codes, Errors
      <4>2. 0 \in 0..(MaxDelay + 1)
        BY ControlAssumption
      <4> QED
        BY <4>1, <4>2 DEF Line, Lines
    <3>2. /\ toClient' \in Seq(Lines) /\ Len(toClient') = Len(toClient) + 1
          /\ \A i \in 1..Len(toClient) : toClient'[i] = toClient[i]
          /\ toClient'[Len(toClient) + 1] = Line(e, 0)
      BY <1>3, <2>2, <3>1, AppendProperties
    <3>3. \A i \in 1..Len(toClient') : i \in 1..Len(toClient) \/ i = Len(toClient) + 1
      BY <1>3, <3>2
    <3>4. said' \subseteq Errors /\ said \subseteq said' /\ e \in said'
      BY <1>1, <2>2 DEF CtlTypeOK
    <3>5. Len(toClient') \in Nat
      BY <1>3, <3>2
    <3> QED
      BY <3>1, <3>2, <3>3, <3>4, <3>5
  <2> QED
    BY <2>1, <2>2 DEF End
<1>5. CtlTypeOK'
  <2>1. /\ gone' \in BOOLEAN /\ polled' \in BOOLEAN
        /\ verdict'.gone \in BOOLEAN /\ verdict'.said \subseteq Errors
    BY <1>1, <1>2, Zenon DEF CtlTypeOK
  <2>2. toIngest' \in Seq(Commands)
    BY <1>2, EmptySeq
  <2> QED
    BY <1>1, <1>2, <1>4, <2>1, <2>2 DEF CtlTypeOK, Commands, Lines
<1>6. QuietInv'
  BY <1>1, <1>2 DEF QuietInv
<1>7. \A i \in 1..Len(toClient') :
         Accepted(toClient'[i].code) => i \in 1..Len(toClient) /\ Accepted(toClient[i].code)
  BY <1>4 DEF Accepted, Errors
<1>8. HandshakeInv'
  <2>1. ASSUME NEW n \in 0..2, NEW commands, Awaits(n, commands)
        PROVE  Awaits(n, commands)'
    BY <1>2, <1>7, <2>1 DEF Awaits
  <2>2. phase # "up" => \A i \in 1..Len(toClient') : toClient'[i].code # "201"
    BY <1>1, <1>4 DEF HandshakeInv, Errors
  <2>3. Len(<<>>) = 0
    BY EmptySeq
  <2>4. phase = "hmac" => Awaits(0, {<<Line("HMAC", 0)>>})'
    BY <1>1, <2>1 DEF HandshakeInv
  <2>5. phase = "connect" => Awaits(1, {<<Line("CONNECT", 0)>>})'
    BY <1>1, <2>1 DEF HandshakeInv
  <2>6. phase = "finish" => Awaits(2, {<<Line("FIELD", 0), Line(".", 0)>>, <<Line(".", 0)>>})'
    <3> DEFINE commands == {<<Line("FIELD", 0), Line(".", 0)>>, <<Line(".", 0)>>}
    <3>1. phase = "finish" => Awaits(2, commands)
      BY <1>1 DEF HandshakeInv
    <3> HIDE DEF commands
    <3>2. phase = "finish" => Awaits(2, commands)'
      BY <2>1, <3>1
    <3> QED
      BY <3>2 DEF commands
  <2>7. /\ phase = "start" => stage = 3
        /\ phase = "up" => stage = 3
        /\ phase \in {"start", "up"} => \A i \in 1..Len(toClient') : ~Accepted(toClient'[i].code)
    BY <1>1, <1>7 DEF HandshakeInv
  <2> QED
    BY <1>2, <2>2, <2>3, <2>4, <2>5, <2>6, <2>7 DEF HandshakeInv
<1>9. GoneInv'
  BY <1>1, <1>2, <1>3, <1>4 DEF GoneInv
<1>10. AgeInv'
  <2>1. MaxDelay \in Nat
    BY ControlAssumption
  <2>2. ASSUME NEW i \in 1..Len(toClient')
        PROVE  /\ phase # "up" => toClient'[i].age = 0
               /\ sinceGone <= toClient'[i].age
               /\ polled => toClient'[i].age <= MaxDelay
    BY <1>1, <1>3, <1>4, <2>1 DEF AgeInv
  <2> QED
    BY <1>1, <1>2, <1>3, <2>2 DEF AgeInv
<1>11. PongInv'
  BY <1>2 DEF PongInv
<1> QED
  BY <1>5, <1>6, <1>8, <1>9, <1>10, <1>11 DEF CtlInv

\* Lines of an ingest that is gone are lost.
LEMMA LoseInv == ASSUME CtlInv, Lose PROVE CtlInv'
<1>1. CtlTypeOK /\ QuietInv /\ HandshakeInv /\ GoneInv /\ AgeInv
  BY DEF CtlInv
<1>2. /\ gone /\ toIngest = <<>>
      /\ UNCHANGED <<phase, result, port, attempt, sincePong, sincePing, polled, sinceGone,
                     toIngest, stage, gone, said, verdict>>
  BY <1>1 DEF Lose, clientVars, timeVars, ingestVars, GoneInv
<1>3. Len(toClient) \in Nat /\ toClient \in Seq(Lines)
      /\ \A i \in 1..Len(toClient) : toClient[i] \in Lines
  BY <1>1, QueueTypes
<1>4. PICK n \in 0..(Len(toClient) - 1) : toClient' = SubSeq(toClient, 1, n)
  BY DEF Lose
<1>5. /\ toClient' \in Seq(Lines) /\ Len(toClient') = n
      /\ \A i \in 1..n : toClient'[i] = toClient[i] /\ i \in 1..Len(toClient)
  <2>1. 1 \in Int /\ n \in Int /\ \A i \in 1..n : toClient[i] \in Lines
    BY <1>3
  <2>2. /\ toClient' \in Seq(Lines) /\ Len(toClient') = IF 1 <= n THEN n - 1 + 1 ELSE 0
        /\ \A i \in 1..(n - 1 + 1) : toClient'[i] = toClient[1 + i - 1]
    BY <1>4, <2>1, SubSeqProperties
  <2>3. Len(toClient') = n
    BY <1>3, <2>2
  <2>4. ASSUME NEW i \in 1..n
        PROVE  toClient'[i] = toClient[i] /\ i \in 1..Len(toClient)
    <3>1. i \in 1..(n - 1 + 1) /\ 1 + i - 1 = i /\ i \in 1..Len(toClient)
      BY <1>3
    <3> QED
      BY <2>2, <3>1
  <2> QED
    BY <2>2, <2>3, <2>4
<1>6. CtlTypeOK'
  <2>1. /\ gone' \in BOOLEAN /\ polled' \in BOOLEAN /\ said' \subseteq Errors
        /\ verdict'.gone \in BOOLEAN /\ verdict'.said \subseteq Errors
    BY <1>1, <1>2, Zenon DEF CtlTypeOK
  <2> QED
    BY <1>1, <1>2, <1>5, <2>1 DEF CtlTypeOK, Lines
<1>7. QuietInv'
  <2>1. phase \notin {"closed", "resolve", "open"}
    BY <1>1, <1>2 DEF QuietInv
  <2> QED
    BY <1>1, <1>2, <2>1 DEF QuietInv
<1>8. \A i \in 1..Len(toClient') : i \in 1..Len(toClient) /\ toClient'[i] = toClient[i]
  BY <1>5
<1>9. HandshakeInv'
  <2>1. ASSUME NEW n1 \in 0..2, NEW commands, Awaits(n1, commands)
        PROVE  Awaits(n1, commands)'
    BY <1>2, <1>8, <2>1 DEF Awaits
  <2>2. /\ phase # "up" => \A i \in 1..Len(toClient') : toClient'[i].code # "201"
        /\ phase \in {"start", "up"} => \A i \in 1..Len(toClient') : ~Accepted(toClient'[i].code)
    BY <1>1, <1>8 DEF HandshakeInv
  <2>3. phase = "hmac" => Awaits(0, {<<Line("HMAC", 0)>>})'
    BY <1>1, <2>1 DEF HandshakeInv
  <2>4. phase = "connect" => Awaits(1, {<<Line("CONNECT", 0)>>})'
    BY <1>1, <2>1 DEF HandshakeInv
  <2>5. phase = "finish" => Awaits(2, {<<Line("FIELD", 0), Line(".", 0)>>, <<Line(".", 0)>>})'
    <3> DEFINE commands == {<<Line("FIELD", 0), Line(".", 0)>>, <<Line(".", 0)>>}
    <3>1. phase = "finish" => Awaits(2, commands)
      BY <1>1 DEF HandshakeInv
    <3> HIDE DEF commands
    <3>2. phase = "finish" => Awaits(2, commands)'
      BY <2>1, <3>1
    <3> QED
      BY <3>2 DEF commands
  <2> QED
    BY <1>1, <1>2, <2>2, <2>3, <2>4, <2>5 DEF HandshakeInv
<1>10. GoneInv'
  BY <1>1, <1>2, <1>8 DEF GoneInv
<1>11. AgeInv'
  BY <1>1, <1>2, <1>8 DEF AgeInv
<1>12. PongInv'
  BY <1>2 DEF PongInv
<1> QED
  BY <1>6, <1>7, <1>9, <1>10, <1>11, <1>12 DEF CtlInv

\* A tick: no command is older than MaxDelay, and the status thread had its round.
LEMMA TickInv == ASSUME CtlInv, Tick PROVE CtlInv'
<1>1. CtlTypeOK /\ HandshakeInv /\ GoneInv /\ AgeInv /\ PongInv
  BY DEF CtlInv
<1>2. /\ phase = "up" /\ polled /\ polled' = FALSE /\ sincePing < PingEvery
      /\ sincePing' = sincePing + 1 /\ sincePong' = sincePong + 1
      /\ sinceGone' = IF gone THEN sinceGone + 1 ELSE 0
      /\ toIngest' = Older(toIngest) /\ toClient' = Older(toClient)
      /\ UNCHANGED <<phase, result, port, attempt, stage, gone, said, verdict>>
  BY DEF Tick, clientVars, ingestVars
<1>3. /\ toIngest \in Seq(Commands) /\ toClient \in Seq(Lines)
      /\ Len(toIngest) \in Nat /\ Len(toClient) \in Nat
      /\ \A i \in 1..Len(toIngest) : toIngest[i] \in Commands
      /\ \A i \in 1..Len(toClient) : toClient[i] \in Lines
      /\ DOMAIN toIngest = 1..Len(toIngest)
  BY <1>1, QueueTypes, LenProperties
<1>4. /\ MaxDelay \in Nat /\ PingEvery \in Nat /\ sincePing \in Nat /\ sincePong \in Nat
      /\ sincePong < LateAfter /\ LateAfter \in Nat /\ sinceGone \in Nat
  BY <1>1, <1>2, ControlAssumption DEF CtlTypeOK, AgeInv, LateAfter
<1>5. /\ Older(toIngest) \in Seq(Commands)
      /\ Len(toIngest') = Len(toIngest)
      /\ \A i \in 1..Len(toIngest) : toIngest'[i].code = toIngest[i].code
                                      /\ toIngest'[i].age = toIngest[i].age + 1
  <2>1. \A i \in 1..Len(toIngest) : toIngest[i].age + 1 \in 0..MaxDelay
    <3> SUFFICES ASSUME NEW i \in 1..Len(toIngest) PROVE toIngest[i].age + 1 \in 0..MaxDelay
      OBVIOUS
    <3>1. toIngest[i].age < MaxDelay
      BY <1>3 DEF Tick
    <3>2. toIngest[i].age \in 0..MaxDelay
      BY <1>3 DEF Commands
    <3> QED
      BY <1>4, <3>1, <3>2
  <2> QED
    <3>1. \A i \in 1..Len(toIngest) : [toIngest[i] EXCEPT !.age = @ + 1] \in Commands
                                     /\ [toIngest[i] EXCEPT !.age = @ + 1].code = toIngest[i].code
                                     /\ [toIngest[i] EXCEPT !.age = @ + 1].age = toIngest[i].age + 1
      BY <1>3, <2>1 DEF Commands
    <3>2. /\ Older(toIngest) \in Seq(Commands)
          /\ Len(Older(toIngest)) = Len(toIngest)
          /\ \A i \in 1..Len(toIngest) : Older(toIngest)[i] = [toIngest[i] EXCEPT !.age = @ + 1]
      BY <1>3, <3>1, OlderIs
    <3> QED
      BY <1>2, <3>1, <3>2
<1>6. /\ Older(toClient) \in Seq(Lines)
      /\ Len(toClient') = Len(toClient)
      /\ \A i \in 1..Len(toClient) : toClient'[i].code = toClient[i].code
                                      /\ toClient'[i].age = toClient[i].age + 1
  <2>1. \A i \in 1..Len(toClient) : toClient[i].age + 1 \in 0..(MaxDelay + 1)
    <3> SUFFICES ASSUME NEW i \in 1..Len(toClient)
                 PROVE  toClient[i].age + 1 \in 0..(MaxDelay + 1)
      OBVIOUS
    <3>1. toClient[i].age <= MaxDelay
      BY <1>1, <1>2 DEF AgeInv
    <3>2. toClient[i].age \in Nat
      BY <1>3, <1>4 DEF Lines
    <3> QED
      BY <1>4, <3>1, <3>2
  <2> QED
    <3>1. \A i \in 1..Len(toClient) : [toClient[i] EXCEPT !.age = @ + 1] \in Lines
                                     /\ [toClient[i] EXCEPT !.age = @ + 1].code = toClient[i].code
                                     /\ [toClient[i] EXCEPT !.age = @ + 1].age = toClient[i].age + 1
      BY <1>3, <2>1 DEF Lines
    <3>2. /\ Older(toClient) \in Seq(Lines)
          /\ Len(Older(toClient)) = Len(toClient)
          /\ \A i \in 1..Len(toClient) : Older(toClient)[i] = [toClient[i] EXCEPT !.age = @ + 1]
      BY <1>3, <3>1, OlderIs
    <3> QED
      BY <1>2, <3>1, <3>2
<1>7. sinceGone' \in Nat /\ sinceGone' <= sinceGone + 1 /\ (~gone => sinceGone' = 0)
  BY <1>2, <1>4
<1>8. CtlTypeOK'
  <2>1. /\ gone' \in BOOLEAN /\ polled' \in BOOLEAN /\ said' \subseteq Errors
        /\ verdict'.gone \in BOOLEAN /\ verdict'.said \subseteq Errors
    BY <1>1, <1>2, Zenon DEF CtlTypeOK
  <2>2. sincePong' \in 0..LateAfter /\ sincePing' \in 0..PingEvery
    BY <1>2, <1>4
  <2> QED
    BY <1>1, <1>2, <1>5, <1>6, <1>7, <2>1, <2>2 DEF CtlTypeOK, Commands, Lines
<1>9. QuietInv'
  BY <1>2 DEF QuietInv
<1>10. HandshakeInv'
  BY <1>1, <1>2, <1>5, <1>6 DEF HandshakeInv
<1>11. GoneInv'
  <2>1. gone => toIngest' = <<>>
    <3> SUFFICES ASSUME gone PROVE toIngest' = <<>>
      OBVIOUS
    <3>1. toIngest = <<>>
      BY <1>1 DEF GoneInv
    <3>2. Len(toIngest') = 0
      BY <1>5, <3>1, EmptySeq
    <3> QED
      BY <1>2, <1>5, <3>2, EmptySeq
  <2> QED
    BY <1>1, <1>2, <1>6, <1>7, <2>1 DEF GoneInv
<1>12. AgeInv'
  <2> SUFFICES ASSUME NEW i \in 1..Len(toClient')
               PROVE  /\ sinceGone' <= toClient'[i].age
                      /\ toClient'[i].age = MaxDelay + 1 => sinceGone' <= 1
    BY <1>2 DEF AgeInv
  <2>1. toClient'[i].age = toClient[i].age + 1 /\ toClient[i].age \in Nat
    BY <1>3, <1>4, <1>6 DEF Lines
  <2>2. sinceGone <= toClient[i].age /\ (toClient[i].age = MaxDelay => sinceGone = 0)
    BY <1>1, <1>2, <1>6 DEF AgeInv
  <2> QED
    BY <1>4, <1>7, <2>1, <2>2
<1>13. PongInv'
  <2> SUFFICES ASSUME ~gone PROVE PongInv'
    BY <1>2 DEF PongInv
  <2>1. CASE \E i \in 1..Len(toIngest) : sincePong <= toIngest[i].age + PingEvery
    <3>1. PICK i \in 1..Len(toIngest) : sincePong <= toIngest[i].age + PingEvery
      BY <2>1
    <3>2. toIngest[i].age \in Nat
      BY <1>3, <1>4 DEF Commands
    <3>3. sincePong' <= toIngest'[i].age + PingEvery
      BY <1>2, <1>4, <1>5, <3>1, <3>2
    <3> QED
      BY <1>5, <3>3 DEF PongInv
  <2>2. CASE \E i \in 1..Len(toClient) : sincePong <= toClient[i].age + PingEvery
    <3>1. PICK i \in 1..Len(toClient) : sincePong <= toClient[i].age + PingEvery
      BY <2>2
    <3>2. toClient[i].age \in Nat
      BY <1>3, <1>4 DEF Lines
    <3>3. sincePong' <= toClient'[i].age + PingEvery
      BY <1>2, <1>4, <1>6, <3>1, <3>2
    <3> QED
      BY <1>6, <3>3 DEF PongInv
  <2>3. CASE toIngest = <<>> /\ toClient = <<>> /\ sincePong <= sincePing
    <3>1. Len(toIngest') = 0 /\ Len(toClient') = 0
      BY <1>5, <1>6, <2>3, EmptySeq
    <3>2. toIngest' = <<>> /\ toClient' = <<>>
      BY <1>2, <1>5, <1>6, <3>1, EmptySeq
    <3>3. sincePong' <= sincePing'
      BY <1>2, <1>4, <2>3
    <3> QED
      BY <3>2, <3>3 DEF PongInv
  <2> QED
    BY <1>1, <1>2, <2>1, <2>2, <2>3 DEF PongInv
<1> QED
  BY <1>8, <1>9, <1>10, <1>11, <1>12, <1>13 DEF CtlInv

-----------------------------------------------------------------------------
(* Both together *)

\* The steps of Next as steps of the two components.
LEMMA NextIs ==
    ASSUME Next
    PROVE  /\ \/ UNCHANGED ctlVars
              \/ Connect \/ (\E found \in BOOLEAN : Resolve(found))
              \/ Handshake \/ Threads \/ Disconnect \/ Environment
           /\ [SelNext]_selVars
<1>1. CASE ConnectAuto
  BY <1>1, Zenon DEF ConnectAuto, SelNext
<1>2. CASE ConnectNamed
  BY <1>2, Zenon DEF ConnectNamed
<1>3. CASE ResolveNamed
  BY <1>3, Zenon DEF ResolveNamed
<1>4. CASE Choose
  BY <1>4, Zenon DEF Choose, SelNext
<1>5. CASE ResolveChosen
  <2>1. (step = "done" => answer[best] # Unresolvable) \in BOOLEAN
    OBVIOUS
  <2> QED
    BY <1>5, <2>1, Zenon DEF ResolveChosen, SelNext
<1>6. CASE FindClosest
  BY <1>6, Zenon DEF FindClosest, SelNext
<1>7. CASE FindClosestReturn
  BY <1>7, Zenon DEF FindClosestReturn, SelNext
<1>8. CASE Control
  BY <1>8, Zenon DEF Control
<1> QED
  BY <1>1, <1>2, <1>3, <1>4, <1>5, <1>6, <1>7, <1>8, Zenon DEF Next

LEMMA CtlStutterInv == ASSUME CtlInv, UNCHANGED ctlVars PROVE CtlInv'
<1>1. UNCHANGED <<phase, result, port, attempt, sincePong, sincePing, polled, sinceGone,
                  toIngest, toClient, stage, gone, said, verdict>>
  BY DEF ctlVars, clientVars, timeVars, streamVars, ingestVars
<1>2. CtlTypeOK'
  BY <1>1, Zenon DEF CtlInv, CtlTypeOK
<1>3. QuietInv' /\ HandshakeInv'
  BY <1>1, Zenon DEF CtlInv, QuietInv, HandshakeInv, Awaits
<1>4. GoneInv' /\ AgeInv' /\ PongInv'
  BY <1>1, Zenon DEF CtlInv, GoneInv, AgeInv, PongInv
<1> QED
  BY <1>2, <1>3, <1>4, Zenon DEF CtlInv

LEMMA CtlNextInv == CtlInv /\ [Next]_vars => CtlInv'
<1> SUFFICES ASSUME CtlInv, [Next]_vars PROVE CtlInv'
  OBVIOUS
<1>1. CASE UNCHANGED vars
  BY <1>1, CtlStutterInv, Zenon DEF vars
<1>2. CASE Next
  <2>1. CASE UNCHANGED ctlVars
    BY <2>1, CtlStutterInv
  <2>2. CASE Connect \/ (\E found \in BOOLEAN : Resolve(found))
    BY <2>2, LookUpInv
  <2>3. CASE Handshake
    BY <2>3, HandshakeStepInv
  <2>4. CASE Threads
    BY <2>4, KeepAliveInv, StatusRoundInv, Zenon DEF Threads
  <2>5. CASE Disconnect
    BY <2>5, DisconnectInv
  <2>6. CASE Environment
    BY <2>6, ServeInv, EndInv, LoseInv, TickInv, Zenon DEF Environment
  <2> QED
    BY <1>2, <2>1, <2>2, <2>3, <2>4, <2>5, <2>6, NextIs, Zenon
<1> QED
  BY <1>1, <1>2

LEMMA SelStepInv == SelInv /\ [Next]_vars => SelInv'
<1> SUFFICES ASSUME SelInv, [Next]_vars PROVE SelInv'
  OBVIOUS
<1>1. [SelNext]_selVars
  BY NextIs, Zenon DEF vars
<1> QED
  BY <1>1, SelNextInv

LEMMA InvAlways == Spec => [](SelInv /\ CtlInv)
<1>1. Init => SelInv /\ CtlInv
  BY SelInitInv, CtlInitInv DEF Init
<1>2. SelInv /\ CtlInv /\ [Next]_vars => (SelInv /\ CtlInv)'
  BY SelStepInv, CtlNextInv
<1> QED
  BY <1>1, <1>2, PTL DEF Spec

-----------------------------------------------------------------------------
(* An ingest that is gone is noticed in time *)

\* An ingest that is gone is not older than its last answer, and that came in time.
NoticeInv == sinceGone <= sincePong + MaxDelay

LEMMA CloseNotice == ASSUME CloseSocket PROVE NoticeInv'
  BY ControlAssumption DEF CloseSocket, NoticeInv

LEMMA NoticeStep ==
    ASSUME MaxDelay >= 1, CtlInv, NoticeInv, [Next]_vars
    PROVE  NoticeInv'
<1>1. CtlTypeOK /\ MaxDelay \in Nat /\ sincePong \in Nat /\ sinceGone \in Nat
  BY ControlAssumption DEF CtlInv, CtlTypeOK, LateAfter
<1>2. CASE UNCHANGED <<sincePong, sinceGone>>
  BY <1>2 DEF NoticeInv
<1>3. CASE CloseSocket
  BY <1>3, CloseNotice
<1>4. CASE Tick
  BY <1>1, <1>4 DEF Tick, NoticeInv
<1>5. CASE StatusRound
  <2>1. ASSUME UNCHANGED sinceGone, sincePong' = 0, Len(toClient) >= 1
        PROVE  NoticeInv'
    <3>1. 1 \in 1..Len(toClient) /\ toClient[1] \in Lines
      BY <1>1, <2>1, QueueTypes
    <3>2. /\ toClient[1].age \in 0..(MaxDelay + 1) /\ sinceGone <= toClient[1].age
          /\ toClient[1].age = MaxDelay + 1 => sinceGone <= 1
      BY <3>1 DEF CtlInv, AgeInv, Lines
    <3> QED
      BY <1>1, <2>1, <3>2 DEF NoticeInv
  <2>2. \/ CloseSocket
        \/ UNCHANGED <<sincePong, sinceGone>>
        \/ UNCHANGED sinceGone /\ sincePong' = 0 /\ Len(toClient) >= 1
    <3>1. CASE GiveUp("NO_PING_RESPONSE") \/ (\E code : GiveUp(LogResponse(code)))
      BY <3>1 DEF GiveUp
    <3>2. ASSUME NEW k \in Due..Len(toClient), UNCHANGED sinceGone,
                 \/ sincePong' = 0 /\ k > 0
                 \/ sincePong' = sincePong
          PROVE  \/ UNCHANGED <<sincePong, sinceGone>>
                 \/ UNCHANGED sinceGone /\ sincePong' = 0 /\ Len(toClient) >= 1
      BY <1>1, <3>2, DueIs, QueueTypes
    <3> QED
      BY <1>5, <3>1, <3>2, RoundCases, Zenon
  <2> QED
    BY <1>2, <1>3, <2>1, <2>2
<1>6. ASSUME Next
      PROVE  CloseSocket \/ Tick \/ StatusRound \/ UNCHANGED <<sincePong, sinceGone>>
  <2>1. CASE UNCHANGED ctlVars
    BY <2>1 DEF ctlVars, timeVars
  <2>2. CASE Connect \/ (\E found \in BOOLEAN : Resolve(found))
    BY <2>2 DEF Connect, Resolve, timeVars
  <2>3. CASE Handshake
    BY <2>3 DEF Handshake, OpenSocket, NoAnswer, StartThreads, AnswerHmac, AnswerConnect,
                AnswerDot, Refuse, timeVars
  <2>4. CASE Threads
    BY <2>4 DEF Threads, KeepAlive
  <2>5. CASE Disconnect
    BY <2>5 DEF Disconnect
  <2>6. CASE Environment
    BY <2>6 DEF Environment, Serve, End, Lose, timeVars
  <2> QED
    BY <1>6, <2>1, <2>2, <2>3, <2>4, <2>5, <2>6, NextIs, Zenon
<1>7. CASE UNCHANGED vars
  BY <1>2, <1>7 DEF vars, ctlVars, timeVars
<1> QED
  BY <1>2, <1>3, <1>4, <1>5, <1>6, <1>7

-----------------------------------------------------------------------------
(* The reason that the application is given *)

\* While the ingest lives the client cannot have waited for an answer as long as it would give
\* up after, once it has read all that is due.
LEMMA HeardInTime ==
    ASSUME MaxDelay < 5 * PingEvery, CtlInv, phase = "up", Due = 0, sincePong >= LateAfter
    PROVE  gone
<1> SUFFICES ASSUME ~gone PROVE FALSE
  BY DEF CtlInv, CtlTypeOK
<1>1. CtlTypeOK /\ PingEvery \in Nat \ {0} /\ MaxDelay \in Nat
      /\ sincePong \in Nat /\ sincePing \in 0..PingEvery
  BY ControlAssumption DEF CtlInv, CtlTypeOK, LateAfter
<1>2. \A i \in 1..Len(toIngest) : toIngest[i].age \in Nat /\ toIngest[i].age <= MaxDelay
  BY <1>1, QueueTypes DEF Commands
<1>3. \A i \in 1..Len(toClient) : toClient[i].age \in Nat /\ toClient[i].age < MaxDelay
  BY <1>1, QueueTypes, DueIs DEF Lines
<1>4. \/ \E i \in 1..Len(toIngest) : sincePong <= toIngest[i].age + PingEvery
      \/ \E i \in 1..Len(toClient) : sincePong <= toClient[i].age + PingEvery
      \/ sincePong <= sincePing
  BY DEF CtlInv, PongInv
<1>5. sincePong <= MaxDelay + PingEvery
  BY <1>1, <1>2, <1>3, <1>4
<1> QED
  BY <1>1, <1>5 DEF LateAfter

LEMMA ReasonStep ==
    ASSUME MaxDelay < 5 * PingEvery, CtlInv, ReasonIsTrue, [Next]_vars
    PROVE  ReasonIsTrue'
<1>1. CASE UNCHANGED verdict
  BY <1>1 DEF ReasonIsTrue
<1>2. CASE StatusRound
  <2>1. CASE GiveUp("NO_PING_RESPONSE") /\ Due = 0 /\ sincePong >= LateAfter
    <3>1. phase = "up"
      BY <1>2 DEF StatusRound
    <3>2. gone
      BY <2>1, <3>1, HeardInTime
    <3>3. verdict'.status = "NO_PING_RESPONSE" /\ verdict'.gone = gone
      BY <2>1 DEF GiveUp
    <3> QED
      BY <3>2, <3>3 DEF ReasonIsTrue
  <2>2. ASSUME NEW code \in Errors \cup {"closed", "timeout"}, GiveUp(LogResponse(code)),
               code \in {"closed", "timeout"} => gone, code \in Errors => code \in said
        PROVE  ReasonIsTrue'
    <3>1. /\ verdict'.status = LogResponse(code)
          /\ verdict'.gone = gone /\ verdict'.said = said
      BY <2>2 DEF GiveUp
    <3>2. /\ code = "408" => LogResponse(code) = "NO_MEDIA_TIMEOUT"
          /\ code = "410" => LogResponse(code) = "INGEST_SERVER_TERMINATE"
          /\ code = "junk" => LogResponse(code) = "UNKNOWN_ERROR_CODE"
          /\ code = "closed" => LogResponse(code) = "INGEST_SOCKET_CLOSED"
          /\ code = "timeout" => LogResponse(code) = "INGEST_SOCKET_TIMEOUT"
      BY DEF LogResponse
    <3>3. code \in {"408", "410", "junk", "closed", "timeout"}
      BY DEF Errors
    <3> QED
      BY <2>2, <3>1, <3>2, <3>3 DEF ReasonIsTrue, Errors
  <2> QED
    BY <1>1, <1>2, <2>1, <2>2, RoundCases, Zenon
<1>3. ASSUME Next
      PROVE  StatusRound \/ UNCHANGED verdict
  <2>1. CASE UNCHANGED ctlVars
    BY <2>1 DEF ctlVars
  <2>2. CASE Connect \/ (\E found \in BOOLEAN : Resolve(found))
    BY <2>2 DEF Connect, Resolve
  <2>3. CASE Handshake
    BY <2>3 DEF Handshake, OpenSocket, NoAnswer, StartThreads, AnswerHmac, AnswerConnect,
                AnswerDot, Refuse
  <2>4. CASE Threads
    BY <2>4 DEF Threads, KeepAlive
  <2>5. CASE Disconnect
    BY <2>5 DEF Disconnect
  <2>6. CASE Environment
    BY <2>6 DEF Environment, Serve, End, Lose, Tick
  <2> QED
    BY <1>3, <2>1, <2>2, <2>3, <2>4, <2>5, <2>6, NextIs, Zenon
<1> QED
  BY <1>1, <1>2, <1>3 DEF vars, ctlVars

-----------------------------------------------------------------------------
(* The theorems *)

\* The variables of the choice and of the connection keep their types: no line on its way gets
\* older than a round after its time, and the client does not wait longer for an answer than
\* LateAfter (ingest_find_best, ftl_ingest_connect and its threads).
THEOREM Typing == Spec => []TypeOK
<1>1. SelInv /\ CtlInv => TypeOK
  BY DEF SelInv, CtlInv, TypeOK
<1> QED
  BY <1>1, InvAlways, PTL

\* When ingest_find_best has chosen, no ping still runs and the first of the hosts with the
\* least recorded time is the chosen one, for lists of every length.
THEOREM SettledChoice == Spec => []Settled
<1>1. SelInv => Settled
  <2> SUFFICES ASSUME SelInv, step = "done", NEW i \in 1..hosts
               PROVE  /\ ping[i] \in {"none", "exited"}
                      /\ rtt[best] <= rtt[i]
                      /\ i < best => rtt[best] < rtt[i]
    BY DEF Settled
  <2>1. Joined(hosts + 1) /\ hosts \in Nat
    BY SelectionAssumption DEF SelInv, SelTypeOK
  <2>2. i \in 1..((hosts + 1) - 1)
    BY <2>1
  <2> QED
    BY <2>1, <2>2 DEF Joined
<1> QED
  BY <1>1, InvAlways, PTL

\* Every answer of the handshake is taken for the command it answers (_ingest_connect).
THEOREM Matching == Spec => []AnswersMatch
<1>1. CtlInv => AnswersMatch
  BY DEF CtlInv, HandshakeInv, Awaits, AnswersMatch
<1> QED
  BY <1>1, InvAlways, PTL

\* An ingest that is gone is noticed in time (connection_status_thread), if an answer may take
\* a tick at all.
THEOREM Noticed == ASSUME MaxDelay >= 1 PROVE Spec => []NoticedInTime
<1>1. Init => NoticeInv
  BY ControlAssumption DEF Init, CtlInit, NoticeInv
<1>2. CtlInv /\ NoticeInv /\ [Next]_vars => NoticeInv'
  BY NoticeStep
<1>3. CtlInv /\ NoticeInv => NoticedInTime
  BY ControlAssumption DEF CtlInv, CtlTypeOK, NoticeInv, NoticedInTime, LateAfter
<1> QED
  BY <1>1, <1>2, <1>3, InvAlways, PTL DEF Spec

\* The reason that the application is given for a lost connection is true, if the ingest's
\* answers take less than five periods of the PINGs (connection_status_thread).
THEOREM Reason == ASSUME MaxDelay < 5 * PingEvery PROVE Spec => []ReasonIsTrue
<1>1. Init => ReasonIsTrue
  BY DEF Init, CtlInit, NoVerdict, ReasonIsTrue
<1>2. CtlInv /\ ReasonIsTrue /\ [Next]_vars => ReasonIsTrue'
  BY ReasonStep
<1> QED
  BY <1>1, <1>2, InvAlways, PTL DEF Spec
=============================================================================
