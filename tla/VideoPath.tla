----------------------------- MODULE VideoPath -----------------------------
(***************************************************************************)
(* Video from the sample application to the ingest: media_send_video holds *)
(* units back until the stream can start or start again with a key frame,  *)
(* cuts each into RTP packets (a packet of its own, or FU-A fragments) and *)
(* queues them; the video send thread sends them; the ingest puts the      *)
(* fragments together by the bits of their headers.                        *)
(*                                                                         *)
(* The ring of packets is the queue that module NackRing shows it to be.   *)
(* The session may be dropped and connected again between two calls of     *)
(* media_send_video (module MediaGate).  Statistics are left out.          *)
(***************************************************************************)
EXTENDS FrameSource

CONSTANTS
    Mtu,            \* MAX_MTU
    HeaderLen,      \* RTP_HEADER_BASE_LEN
    FuaLen,         \* RTP_FUA_HEADER_LEN
    RingSize        \* NACK_RB_SIZE

ASSUME PacketAssumption ==
    /\ HeaderLen \in Nat /\ FuaLen \in Nat \ {0} /\ RingSize \in Nat \ {0, 1}
    /\ Mtu \in Nat /\ Mtu > HeaderLen + FuaLen

VARIABLES
    mediaReady,     \* FTL_MEDIA_READY
    audioReady,     \* audio.is_ready_to_send
    waitForIdr,     \* video.wait_for_idr_frame
    remaining,      \* bytes of the given unit still to be put into packets
    firstFu,        \* first_fu
    queue,          \* the packets in the ring that are not sent
    \* the ingest
    partial,        \* the fragments it has: of which unit and up to which byte
    skipping,       \* a packet was lost, it waits for the start of a unit
    received,       \* whether the last unit it put together is one that was given
    \* history
    last,           \* the last packet that was queued
    cut,            \* since then a unit, or a part of one, was dropped or left out
    gap             \* a unit others refer to was not queued whole, and no SPS since

holdVars   == <<mediaReady, audioReady, waitForIdr>>
callVars   == <<remaining, firstFu>>
ingestVars == <<partial, skipping, received>>
histVars   == <<last, cut, gap>>
vars == <<srcVars, holdVars, callVars, queue, ingestVars, histVars>>

NoPacket == [unit |-> 0]
Nothing  == [unit |-> 0, upto |-> 0]

Init ==
    /\ SrcInit
    /\ mediaReady = TRUE /\ audioReady = FALSE /\ waitForIdr = TRUE
    /\ remaining = 0 /\ firstFu = TRUE
    /\ queue = <<>>
    /\ partial = Nothing /\ skipping = FALSE /\ received = "nothing"
    /\ last = NoPacket /\ cut = TRUE /\ gap = TRUE

Unit == file[given]

-----------------------------------------------------------------------------
(* media_send_video *)

\* The unit is dropped, from where it stands.
Drop ==
    /\ app' = "audio"
    /\ cut' = TRUE
    /\ gap' = (gap \/ Unit.ref)

\* Until a key frame comes, which starts with an SPS, nothing is sent.
MaySend == waitForIdr => Unit.type = "SPS"

SendVideo ==
    /\ app = "send"
    /\ \/ /\ audioReady /\ mediaReady /\ MaySend
          /\ waitForIdr' = FALSE
          /\ remaining' = Unit.len
          /\ firstFu' = TRUE
          /\ app' = "queue"
          /\ UNCHANGED <<cut, gap>>
       \/ /\ ~(audioReady /\ mediaReady /\ MaySend)
          /\ Drop
          /\ UNCHANGED <<waitForIdr, callVars>>
    /\ UNCHANGED <<file, curr, eof, given, endOfFrame, timeMoved, mediaReady, audioReady,
                   queue, ingestVars, last>>

\* The packet with the bytes from..to of the unit and its FU-A bits; none in a packet of its own.
Packet(from, to, start, end, marker) ==
    [unit |-> given, from |-> from, to |-> to, start |-> start, end |-> end, marker |-> marker]

Min2(a, b) == IF a < b THEN a ELSE b

\* A unit that fits is a packet of its own, else a fragment has room for so many bytes.  The
\* first leaves out the unit's first byte, which its FU-A header stands for.
Fragment(room, isLast) ==
    IF firstFu /\ remaining <= Mtu - HeaderLen
      THEN [from |-> 1, to |-> Unit.len, start |-> TRUE, end |-> TRUE]
      ELSE LET from == Unit.len - remaining + (IF firstFu THEN 2 ELSE 1)
           IN  [from |-> from, to |-> Min2(from + room - 1, Unit.len),
                start |-> firstFu, end |-> isLast]

Room == Mtu - HeaderLen - FuaLen

\* Mutant: the room for the FU-A header is forgotten where the last fragment is recognised.
MakePacket_EndTooSoon == Fragment(Room, ~firstFu /\ remaining <= Mtu - HeaderLen)

\* Mutant: the room for the FU-A header is forgotten where the fragment is measured.
MakePacket_TooLong == Fragment(Mtu - HeaderLen, ~firstFu /\ remaining <= Room)

\* _media_make_video_rtp_packet.  Only a fragment that is not the first can be the last.
MakePacket == Fragment(Room, ~firstFu /\ remaining <= Room)

\* One turn of the loop; the marker goes on the packet that ends the frame.
QueuePacket ==
    /\ app = "queue" /\ Len(queue) < RingSize - 1
    /\ LET p    == MakePacket
           rest == Unit.len - p.to
       IN  /\ last' = Packet(p.from, p.to, p.start, p.end, rest = 0 /\ endOfFrame)
           /\ queue' = Append(queue, last')
           /\ remaining' = rest
           /\ app' = IF rest = 0 THEN "audio" ELSE "queue"
    /\ firstFu' = FALSE
    /\ timeMoved' = FALSE
    /\ cut' = FALSE
    /\ gap' = (gap /\ Unit.type # "SPS")
    /\ UNCHANGED <<file, curr, eof, given, endOfFrame, holdVars, ingestVars>>

\* Mutant: only a full ring at the start of a unit makes the stream wait for a key frame.
QueueFull_FirstOnly ==
    /\ app = "queue" /\ Len(queue) = RingSize - 1
    /\ Drop
    /\ waitForIdr' = (waitForIdr \/ (Unit.ref /\ firstFu))
    /\ remaining' = 0
    /\ UNCHANGED <<file, curr, eof, given, endOfFrame, timeMoved, mediaReady, audioReady,
                   firstFu, queue, ingestVars, last>>

\* No slot is empty: the rest of the unit is dropped.
QueueFull ==
    /\ app = "queue" /\ Len(queue) = RingSize - 1
    /\ Drop
    /\ waitForIdr' = (waitForIdr \/ Unit.ref)
    /\ remaining' = 0
    /\ UNCHANGED <<file, curr, eof, given, endOfFrame, timeMoved, mediaReady, audioReady,
                   firstFu, queue, ingestVars, last>>

-----------------------------------------------------------------------------
(* The rest of the application's loop *)

Read == GetVideoFrame /\ UNCHANGED <<holdVars, callVars, queue, ingestVars, histVars>>

\* Audio packets that are due are sent; the first makes the library take video.
Audio ==
    /\ app = "audio"
    /\ EndLoop
    /\ audioReady' \in {audioReady, TRUE}
    /\ UNCHANGED <<mediaReady, waitForIdr, callVars, queue, ingestVars, histVars>>

StartOver ==
    /\ Restart
    /\ cut' = TRUE
    /\ UNCHANGED <<holdVars, callVars, queue, ingestVars, last, gap>>

-----------------------------------------------------------------------------
(* The session around it *)

\* media_destroy takes the mutex a call of media_send_video holds.
MediaDestroy ==
    /\ mediaReady /\ app # "queue"
    /\ mediaReady' = FALSE
    /\ queue' = <<>>
    /\ UNCHANGED <<srcVars, audioReady, waitForIdr, callVars, ingestVars, histVars>>

\* The ingest knows a new stream.
MediaInit ==
    /\ ~mediaReady
    /\ mediaReady' = TRUE /\ audioReady' = FALSE /\ waitForIdr' = TRUE
    /\ partial' = Nothing /\ skipping' = FALSE /\ received' = "nothing"
    /\ UNCHANGED <<srcVars, callVars, queue, histVars>>

-----------------------------------------------------------------------------
(* video_send_thread and the ingest *)

\* The ingest receives p: what it puts together is a unit that was given if its fragments are
\* of one unit, leave nothing out and end with the unit.  It cannot see any of this.
Receive(p) ==
    LET fits == p.start \/ (partial.unit = p.unit /\ p.from = partial.upto + 1)
    IN  IF skipping /\ ~p.start THEN UNCHANGED ingestVars
        ELSE /\ skipping' = FALSE
             /\ partial' = IF p.end THEN Nothing ELSE [unit |-> p.unit, upto |-> p.to]
             /\ received' = IF ~fits \/ p.end # (p.to = file[p.unit].len) THEN "broken"
                            ELSE IF p.end THEN "whole" ELSE received

\* The packet may be lost: sendto fails, or the network drops it.
Transmit ==
    /\ queue # <<>>
    /\ queue' = Tail(queue)
    /\ \/ Receive(Head(queue))
       \/ /\ skipping' = TRUE /\ partial' = Nothing
          /\ UNCHANGED received
    /\ UNCHANGED <<srcVars, holdVars, callVars, histVars>>

Next ==
    \/ Read \/ SendVideo \/ QueuePacket \/ QueueFull \/ Audio \/ StartOver
    \/ MediaDestroy \/ MediaInit
    \/ Transmit

Spec == Init /\ [][Next]_vars

-----------------------------------------------------------------------------
(* Properties *)

SizeOf(p) == HeaderLen + (IF p.start /\ p.end THEN 0 ELSE FuaLen) + p.to - p.from + 1

TypeOK ==
    /\ SrcTypeOK
    /\ mediaReady \in BOOLEAN /\ audioReady \in BOOLEAN /\ waitForIdr \in BOOLEAN
    /\ remaining \in 0..Unit.len /\ firstFu \in BOOLEAN
    /\ Len(queue) < RingSize
    /\ \A i \in 1..Len(queue) :
           /\ queue[i].unit \in 1..Len(file)
           /\ 1 <= queue[i].from /\ queue[i].from <= queue[i].to
           /\ queue[i].to <= file[queue[i].unit].len
           /\ SizeOf(queue[i]) <= Mtu
    /\ partial.unit \in 0..Len(file) /\ skipping \in BOOLEAN
    /\ received \in {"nothing", "whole", "broken"}
    /\ last.unit \in 0..Len(file) /\ cut \in BOOLEAN /\ gap \in BOOLEAN

\* What the ingest puts together by the start and end bits is always a whole unit that the
\* application gave: never fragments of two units, never one with a part missing, and a unit
\* that arrives complete is seen to be, although the rest of a unit is dropped when the ring
\* is full, without a gap in the sequence numbers, and packets get lost.
ReassemblesUnits == received # "broken"

Queued == Len(queue') > Len(queue)

\* When a unit that others refer to was dropped, before the stream started, by a full ring or
\* during a reconnect, the next packet that is queued begins an SPS.
NothingAfterAGap == [][Queued /\ gap => file[given].type = "SPS"]_vars

\* The marker bit is on the last packet of a picture and on no other.  A picture goes
\* unmarked only where the next begins with a slice of the same frame_num (one that is not
\* referred to does not count frame_num up), so that get_video_frame takes the two for one.
MarkerEndsPicture ==
    [][Queued /\ ~cut =>
         IF last.marker THEN file[given].pic # file[last.unit].pic
         ELSE file[given].pic # file[last.unit].pic =>
                 IsSlice(given) /\ file[given].frameNum = file[last.unit].frameNum]_vars

\* Packets of a frame carry one time, those of the next another, and the marker is where it
\* changes.
MarkerMovesTime == [][Queued /\ ~cut => (last.marker <=> timeMoved)]_vars
=============================================================================
