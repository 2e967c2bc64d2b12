-------------------------- MODULE VideoPath_proofs --------------------------
(***************************************************************************)
(* The path of the video, proved for all files, packet sizes and rings:    *)
(* what the ingest puts together is what the application gave, and the     *)
(* marker and the time stamps say where a picture ends.                    *)
(***************************************************************************)
EXTENDS VideoPath, SequenceTheorems, TLAPS

-----------------------------------------------------------------------------
(* The inductive invariant *)

Packets == [unit : Nat, from : Nat, to : Nat, start : BOOLEAN, end : BOOLEAN, marker : BOOLEAN]

\* A packet holds a part of its unit, fits the MTU and has the end bit if it ends the unit.
PacketOK(p) ==
    /\ p.unit \in 1..Len(file)
    /\ 1 <= p.from /\ p.from <= p.to /\ p.to <= file[p.unit].len
    /\ SizeOf(p) <= Mtu
    /\ p.end <=> p.to = file[p.unit].len

Typed ==
    /\ SrcTypeOK
    /\ mediaReady \in BOOLEAN /\ audioReady \in BOOLEAN /\ waitForIdr \in BOOLEAN
    /\ remaining \in Nat /\ firstFu \in BOOLEAN
    /\ partial.unit \in 0..Len(file) /\ partial.upto \in Nat /\ skipping \in BOOLEAN
    /\ received \in {"nothing", "whole"}
    /\ last.unit \in 0..Len(file) /\ cut \in BOOLEAN /\ gap \in BOOLEAN

QueueInv ==
    /\ queue \in Seq(Packets) /\ Len(queue) < RingSize
    /\ \A i \in 1..Len(queue) : PacketOK(queue[i])

\* A unit that is being cut into packets was let through and is not done; nothing is queued
\* without a session.
CallInv ==
    /\ ~mediaReady => Len(queue) = 0
    /\ remaining <= Unit.len
    /\ app # "queue" => remaining = 0
    /\ app = "queue" => /\ remaining >= 1 /\ mediaReady /\ ~waitForIdr
                        /\ firstFu => remaining = Unit.len

\* The unit read ahead is the one behind the one that was given.
ReadInv ==
    /\ curr = Len(file) => eof
    /\ ~eof /\ app # "read" => (endOfFrame <=> EndsFrame(given)) /\ curr = given + 1

\* A packet goes on where another ended, or starts a unit.
Follows(p, unit, upto) == p.start \/ (p.unit = unit /\ p.from = upto + 1)

\* So it is from packet to packet, from what the ingest has to the first that is sent, and
\* from the last to the one that is made next.
ChainInv ==
    /\ \A i \in 1..(Len(queue) - 1) : Follows(queue[i + 1], queue[i].unit, queue[i].to)
    /\ Len(queue) # 0 /\ ~skipping => Follows(queue[1], partial.unit, partial.upto)
    /\ app = "queue" /\ ~firstFu =>
          /\ Len(queue) # 0 => /\ queue[Len(queue)].unit = given
                               /\ queue[Len(queue)].to = Unit.len - remaining
          /\ Len(queue) = 0 =>
                skipping \/ (partial.unit = given /\ partial.upto = Unit.len - remaining)

\* After a gap a key frame is awaited, or is being queued.
GapInv ==
    /\ mediaReady /\ ~audioReady => waitForIdr
    /\ mediaReady /\ gap => waitForIdr \/ (app = "queue" /\ Unit.type = "SPS")

\* While nothing was left out, the last packet was of the unit before or of this one, and its
\* marker tells what is known of the end of that unit.
MarkInv ==
    ~cut =>
      /\ last.unit \in 1..Len(file) /\ last.marker \in BOOLEAN
      /\ app = "audio" => ~timeMoved /\ (last.marker <=> endOfFrame)
      /\ app # "audio" => (last.marker <=> timeMoved)
      /\ app \in {"audio", "read"} /\ ~eof =>
            last.unit = given /\ curr = given + 1 /\ (last.marker <=> EndsFrame(given))
      /\ app = "send" \/ (app = "queue" /\ firstFu) =>
            given = last.unit + 1 /\ (last.marker <=> EndsFrame(last.unit))
      /\ app = "queue" /\ ~firstFu => last.unit = given /\ ~last.marker

Inv == Typed /\ QueueInv /\ CallInv /\ ReadInv /\ ChainInv /\ GapInv /\ MarkInv

-----------------------------------------------------------------------------
(* Files and packets *)

LEMMA FileIs ==
    ASSUME SrcTypeOK
    PROVE  /\ Len(file) \in Nat /\ Len(file) >= 3
           /\ \A i \in 1..Len(file) : file[i] \in Units
           /\ given \in 1..Len(file) /\ given + 1 \in 1..Len(file) /\ Unit \in Units
           /\ Unit.len \in Nat /\ Unit.len >= 1
<1>1. file \in Files /\ file \in Seq(Units)
  BY FilesAssumption DEF SrcTypeOK
<1>2. Len(file) \in Nat /\ Len(file) >= 3 /\ \A i \in 1..Len(file) : file[i] \in Units
  BY <1>1, FilesAssumption, LenProperties, ElementOfSeq
<1>3. given \in 1..Len(file) /\ given + 1 \in 1..Len(file)
  BY <1>2 DEF SrcTypeOK
<1> QED
  BY <1>2, <1>3 DEF Unit, Units

\* What is made of a unit: a part that begins where the last ended, fits the MTU and has the
\* bits of its place.
LEMMA PacketIs ==
    ASSUME Inv, app = "queue", NEW p, p = MakePacket
    PROVE  /\ p.from \in Nat /\ p.to \in Nat /\ p.start \in BOOLEAN /\ p.end \in BOOLEAN
           /\ 1 <= p.from /\ p.from <= p.to /\ p.to <= Unit.len
           /\ p.end <=> p.to = Unit.len
           /\ p.start <=> firstFu
           /\ ~firstFu => p.from = Unit.len - remaining + 1
           /\ SizeOf(p) <= Mtu
<1> DEFINE n == Unit.len
<1>1. /\ n \in Nat /\ n >= 1 /\ remaining \in Nat /\ remaining >= 1 /\ remaining <= n
      /\ firstFu => remaining = n
      /\ firstFu \in BOOLEAN
  BY FileIs DEF Inv, Typed, CallInv
<1>2. /\ Mtu \in Nat /\ HeaderLen \in Nat /\ FuaLen \in Nat /\ FuaLen >= 1
      /\ Room \in Nat /\ Room >= 1 /\ Room = Mtu - HeaderLen - FuaLen
  BY PacketAssumption DEF Room
<1> HIDE DEF n
<1>3. CASE firstFu /\ remaining <= Mtu - HeaderLen
  <2>1. p = [from |-> 1, to |-> n, start |-> TRUE, end |-> TRUE]
    BY <1>3 DEF MakePacket, Fragment, n
  <2> QED
    BY <1>1, <1>2, <1>3, <2>1 DEF SizeOf, n
<1>4. CASE firstFu /\ ~(remaining <= Mtu - HeaderLen)
  <2>1. p = [from |-> n - remaining + 2, to |-> Min2(n - remaining + 2 + Room - 1, n),
             start |-> firstFu, end |-> ~firstFu /\ remaining <= Room]
    BY <1>4 DEF MakePacket, Fragment, n
  <2>2. /\ p.from = 2 /\ p.to = Room + 1 /\ p.to < n /\ p.start = firstFu
        /\ p.end = (~firstFu /\ remaining <= Room)
    BY <1>1, <1>2, <1>4, <2>1 DEF Min2
  <2>3. p.start = TRUE /\ p.end = FALSE
    BY <1>1, <1>4, <2>2, Zenon
  <2> QED
    BY <1>1, <1>2, <1>4, <2>2, <2>3 DEF SizeOf, n
<1>5. CASE ~firstFu
  <2>1. p = [from |-> n - remaining + 1, to |-> Min2(n - remaining + 1 + Room - 1, n),
             start |-> firstFu, end |-> ~firstFu /\ remaining <= Room]
    BY <1>5 DEF MakePacket, Fragment, n
  <2>2. /\ p.from = n - remaining + 1 /\ p.start = firstFu
        /\ p.to = IF remaining <= Room THEN n ELSE n - remaining + Room
        /\ p.end = (~firstFu /\ remaining <= Room)
    BY <1>1, <1>2, <1>5, <2>1 DEF Min2
  <2>3. p.start = FALSE
    BY <1>1, <1>5, <2>2, Zenon
  <2>4. CASE remaining <= Room
    <3>1. p.end = TRUE
      BY <1>5, <2>2, <2>4, Zenon
    <3> QED
      BY <1>1, <1>2, <1>5, <2>2, <2>3, <2>4, <3>1 DEF SizeOf, n
  <2>5. CASE ~(remaining <= Room)
    <3>1. p.end = FALSE
      BY <1>5, <2>2, <2>5, Zenon
    <3> QED
      BY <1>1, <1>2, <1>5, <2>2, <2>3, <2>5, <3>1 DEF SizeOf, n
  <2> QED
    BY <2>4, <2>5
<1> QED
  BY <1>3, <1>4, <1>5

LEMMA InitInv == Init => Inv
<1> SUFFICES ASSUME Init PROVE Inv
  OBVIOUS
<1> USE DEF Init, SrcInit
<1>1. file \in Files /\ given = 1 /\ curr = 1 /\ Len(file) \in Nat /\ Len(file) >= 3
  BY FilesAssumption, LenProperties
<1>2. SrcTypeOK
  <2>1. eof \in BOOLEAN /\ endOfFrame \in BOOLEAN /\ timeMoved \in BOOLEAN
        /\ app \in {"read", "send", "queue", "audio"}
    BY Zenon
  <2>2. curr \in 1..Len(file) /\ given \in 1..(Len(file) - 1)
    BY <1>1
  <2> QED
    BY <1>1, <2>1, <2>2, Zenon DEF SrcTypeOK
<1>3. Typed
  <2>1. /\ partial.unit \in 0..Len(file) /\ partial.upto \in Nat
        /\ last.unit \in 0..Len(file) /\ remaining \in Nat
    BY <1>1 DEF Nothing, NoPacket
  <2> QED
    BY <1>2, <2>1, Zenon DEF Typed
<1>4. Len(queue) = 0 /\ queue \in Seq(Packets)
  BY EmptySeq
<1>5. QueueInv
  BY <1>4, PacketAssumption DEF QueueInv
<1>6. CallInv /\ ReadInv
  BY <1>1, <1>2, FileIs DEF CallInv, ReadInv
<1>7. ChainInv /\ GapInv /\ MarkInv
  BY <1>4 DEF ChainInv, GapInv, MarkInv
<1> QED
  BY <1>3, <1>5, <1>6, <1>7 DEF Inv

-----------------------------------------------------------------------------
(* The steps of the application *)

LEMMA InvTypes ==
    ASSUME Inv
    PROVE  /\ SrcTypeOK /\ QueueInv /\ queue \in Seq(Packets) /\ Len(queue) \in Nat
           /\ Len(file) \in Nat /\ given \in 1..Len(file) /\ curr \in 1..Len(file)
           /\ given \in Int /\ curr \in Int /\ remaining \in Nat /\ Unit.len \in Nat
  BY FileIs, LenProperties DEF Inv, Typed, QueueInv, SrcTypeOK

\* Conjuncts that depend on nothing but the queue and the file.
LEMMA QueueStays ==
    ASSUME Inv, UNCHANGED <<queue, file>> PROVE QueueInv'
  BY DEF Inv, QueueInv, PacketOK, SizeOf

\* The next unit is given; the one after it is read ahead.
LEMMA ReadStep == ASSUME Inv, Read PROVE Inv'
<1>1. /\ app = "read" /\ ~eof /\ app' = "send" /\ given' = curr /\ curr' = curr + 1
      /\ eof' = (curr + 1 = Len(file))
      /\ endOfFrame' \in IF ~eof' THEN {EndsFrame(curr)}
                         ELSE IF IsSlice(curr) THEN BOOLEAN ELSE {FALSE}
      /\ UNCHANGED <<file, timeMoved, mediaReady, audioReady, waitForIdr, remaining, firstFu,
                     queue, partial, skipping, received, last, cut, gap>>
  BY DEF Read, GetVideoFrame, holdVars, callVars, ingestVars, histVars
<1>2. curr \in 1..(Len(file) - 1) /\ Len(file) \in Nat /\ remaining = 0
  BY <1>1, InvTypes DEF Inv, ReadInv, CallInv
<1>3. endOfFrame' \in BOOLEAN /\ eof' \in BOOLEAN /\ app' \in {"read", "send", "queue", "audio"}
  <2>1. EndsFrame(curr) \in BOOLEAN
    BY DEF EndsFrame
  <2> QED
    BY <1>1, <2>1, Zenon
<1>4. SrcTypeOK'
  <2>1. curr' \in 1..Len(file) /\ given' \in 1..(Len(file) - 1)
    BY <1>1, <1>2
  <2> QED
    BY <1>1, <1>3, <2>1, Zenon DEF SrcTypeOK, Inv, Typed
<1>5. Typed'
  BY <1>1, <1>4, Zenon DEF Inv, Typed
<1>6. QueueInv'
  BY <1>1, QueueStays
<1>7. CallInv'
  <2>1. Unit'.len >= 0
    BY <1>1, <1>2, FileIs DEF Inv, Typed, Unit, Units
  <2> QED
    BY <1>1, <1>2, <2>1 DEF CallInv, Inv
<1>8. ReadInv'
  <2>1. curr' = Len(file) => eof'
    BY <1>1, <1>2
  <2>2. ~eof' => endOfFrame' = EndsFrame(curr)
    BY <1>1
  <2>3. EndsFrame(given)' <=> EndsFrame(curr)
    BY <1>1 DEF EndsFrame, IsSlice
  <2> QED
    BY <1>1, <2>1, <2>2, <2>3 DEF ReadInv
<1>9. ChainInv' /\ GapInv'
  BY <1>1 DEF Inv, ChainInv, GapInv, Follows
<1>10. MarkInv'
  <2> SUFFICES ASSUME ~cut PROVE MarkInv'
    BY <1>1 DEF MarkInv
  <2>1. /\ last.unit \in 1..Len(file) /\ last.marker \in BOOLEAN
        /\ last.marker <=> timeMoved
        /\ last.unit = given /\ curr = given + 1 /\ (last.marker <=> EndsFrame(given))
    BY <1>1 DEF Inv, MarkInv
  <2>2. EndsFrame(last.unit)' <=> EndsFrame(given)
    BY <1>1, <2>1 DEF EndsFrame, IsSlice
  <2> QED
    BY <1>1, <2>1, <2>2 DEF MarkInv
<1> QED
  BY <1>5, <1>6, <1>7, <1>8, <1>9, <1>10 DEF Inv

\* The unit is let through or dropped.
LEMMA SendVideoStep == ASSUME Inv, SendVideo PROVE Inv'
<1>1. /\ app = "send"
      /\ UNCHANGED <<file, curr, eof, given, endOfFrame, timeMoved, mediaReady, audioReady,
                     queue, partial, skipping, received, last>>
  BY DEF SendVideo, ingestVars
<1>2. Unit' = Unit /\ Unit.len \in Nat /\ Unit.len >= 1 /\ remaining = 0 /\ SrcTypeOK
  BY <1>1, FileIs DEF Inv, Typed, Unit, CallInv
<1>3. Unit.ref \in BOOLEAN
  BY <1>2, FileIs, Zenon DEF Units
<1>4. CASE audioReady /\ mediaReady /\ MaySend
  <2>1. /\ waitForIdr' = FALSE /\ remaining' = Unit.len /\ firstFu' = TRUE /\ app' = "queue"
        /\ UNCHANGED <<cut, gap>>
    BY <1>4 DEF SendVideo
  <2>2. waitForIdr' \in BOOLEAN /\ firstFu' \in BOOLEAN
        /\ app' \in {"read", "send", "queue", "audio"}
    BY <2>1, Zenon
  <2>3. SrcTypeOK'
    BY <1>1, <1>2, <2>2, Zenon DEF SrcTypeOK
  <2>4. Typed'
    BY <1>1, <1>2, <2>1, <2>2, <2>3, Zenon DEF Inv, Typed
  <2>5. QueueInv'
    BY <1>1, QueueStays
  <2>6. CallInv'
    BY <1>1, <1>2, <1>4, <2>1 DEF CallInv
  <2>7. ReadInv'
    BY <1>1, <2>1 DEF Inv, ReadInv, EndsFrame, IsSlice
  <2>8. ChainInv'
    BY <1>1, <2>1 DEF Inv, ChainInv, Follows
  <2>9. GapInv'
    BY <1>1, <1>2, <1>4, <2>1 DEF Inv, GapInv, MaySend
  <2>10. MarkInv'
    BY <1>1, <2>1 DEF Inv, MarkInv, EndsFrame, IsSlice
  <2> QED
    BY <2>4, <2>5, <2>6, <2>7, <2>8, <2>9, <2>10 DEF Inv
<1>5. CASE ~(audioReady /\ mediaReady /\ MaySend)
  <2>1. /\ app' = "audio" /\ cut' = TRUE /\ gap' = (gap \/ Unit.ref)
        /\ UNCHANGED <<waitForIdr, remaining, firstFu>>
    BY <1>5 DEF SendVideo, Drop, callVars
  <2>2. cut' \in BOOLEAN /\ gap' \in BOOLEAN /\ app' \in {"read", "send", "queue", "audio"}
    BY <2>1, Zenon
  <2>3. SrcTypeOK'
    BY <1>1, <1>2, <2>2, Zenon DEF SrcTypeOK
  <2>4. Typed'
    BY <1>1, <2>1, <2>2, <2>3, Zenon DEF Inv, Typed
  <2>5. QueueInv'
    BY <1>1, QueueStays
  <2>6. CallInv' /\ ReadInv' /\ ChainInv'
    BY <1>1, <1>2, <2>1
       DEF Inv, CallInv, ReadInv, EndsFrame, IsSlice, ChainInv, Follows
  <2>7. GapInv'
    BY <1>1, <1>5, <2>1 DEF Inv, GapInv, MaySend
  <2>8. MarkInv'
    BY <2>1 DEF MarkInv
  <2> QED
    BY <2>4, <2>5, <2>6, <2>7, <2>8 DEF Inv
<1> QED
  BY <1>4, <1>5

\* The ring is full: the rest of the unit is left out.
LEMMA QueueFullStep == ASSUME Inv, QueueFull PROVE Inv'
<1>1. /\ app = "queue" /\ app' = "audio" /\ cut' = TRUE /\ gap' = (gap \/ Unit.ref)
      /\ waitForIdr' = (waitForIdr \/ Unit.ref) /\ remaining' = 0
      /\ UNCHANGED <<file, curr, eof, given, endOfFrame, timeMoved, mediaReady, audioReady,
                     firstFu, queue, partial, skipping, received, last>>
  BY DEF QueueFull, Drop, ingestVars
<1>2. Unit' = Unit /\ Unit.len \in Nat /\ SrcTypeOK
  BY <1>1, FileIs DEF Inv, Typed, Unit
<1>3. /\ cut' \in BOOLEAN /\ gap' \in BOOLEAN /\ waitForIdr' \in BOOLEAN
      /\ app' \in {"read", "send", "queue", "audio"}
  BY <1>1, Zenon
<1>4. SrcTypeOK'
  BY <1>1, <1>2, <1>3, Zenon DEF SrcTypeOK
<1>5. Typed'
  <2>1. remaining' \in Nat
    BY <1>1
  <2> QED
    BY <1>1, <1>3, <1>4, <2>1, Zenon DEF Inv, Typed
<1>6. QueueInv'
  BY <1>1, QueueStays
<1>7. CallInv' /\ ReadInv' /\ ChainInv'
  BY <1>1, <1>2 DEF Inv, CallInv, ReadInv, EndsFrame, IsSlice, ChainInv, Follows
<1>8. GapInv'
  <2>1. Unit.type = "SPS" => Unit.ref
    BY <1>2, FileIs, FilesAssumption DEF SrcTypeOK, Unit
  <2> QED
    BY <1>1, <2>1 DEF Inv, GapInv
<1>9. MarkInv'
  BY <1>1 DEF MarkInv
<1> QED
  BY <1>5, <1>6, <1>7, <1>8, <1>9 DEF Inv

\* The frame's time moves on if the frame is over.
LEMMA AudioStep == ASSUME Inv, Audio PROVE Inv'
<1>1. /\ app = "audio" /\ app' = "read" /\ eof' \in {eof, TRUE}
      /\ timeMoved' = (timeMoved \/ endOfFrame) /\ audioReady' \in {audioReady, TRUE}
      /\ UNCHANGED <<file, curr, given, endOfFrame, mediaReady, waitForIdr, remaining, firstFu,
                     queue, partial, skipping, received, last, cut, gap>>
  BY DEF Audio, EndLoop, callVars, ingestVars, histVars
<1>2. Unit' = Unit /\ Unit.len \in Nat /\ SrcTypeOK
  BY <1>1, FileIs DEF Inv, Typed, Unit
<1>3. /\ eof' \in BOOLEAN /\ timeMoved' \in BOOLEAN /\ audioReady' \in BOOLEAN
      /\ app' \in {"read", "send", "queue", "audio"}
  BY <1>1, <1>2, Zenon DEF SrcTypeOK, Inv, Typed
<1>4. SrcTypeOK'
  BY <1>1, <1>2, <1>3, Zenon DEF SrcTypeOK
<1>5. Typed'
  BY <1>1, <1>3, <1>4, Zenon DEF Inv, Typed
<1>6. QueueInv'
  BY <1>1, QueueStays
<1>7. CallInv' /\ ReadInv' /\ ChainInv' /\ GapInv'
  <2>1. (eof => eof') /\ (audioReady => audioReady')
    <3>1. /\ eof \in BOOLEAN /\ eof' \in {eof, TRUE}
          /\ audioReady \in BOOLEAN /\ audioReady' \in {audioReady, TRUE}
      BY <1>1, <1>2 DEF SrcTypeOK, Inv, Typed
    <3>2. (eof = TRUE => eof' = TRUE) /\ (audioReady = TRUE => audioReady' = TRUE)
      BY <3>1
    <3> QED
      BY <3>1, <3>2
  <2>2. CallInv' /\ ReadInv'
    BY <1>1, <1>2, <2>1 DEF Inv, CallInv, ReadInv
  <2>3. ChainInv' /\ GapInv'
    BY <1>1, <1>2, <2>1 DEF Inv, ChainInv, Follows, GapInv
  <2> QED
    BY <2>2, <2>3
<1>8. MarkInv'
  <2> SUFFICES ASSUME ~cut PROVE MarkInv'
    BY <1>1 DEF MarkInv
  <2>1. ~eof' => ~eof
    BY <1>1, Zenon
  <2>2. EndsFrame(given)' <=> EndsFrame(given)
    BY <1>1 DEF EndsFrame, IsSlice
  <2>3. /\ last.unit \in 1..Len(file) /\ last.marker \in BOOLEAN
        /\ ~timeMoved /\ (last.marker <=> endOfFrame)
        /\ ~eof => last.unit = given /\ curr = given + 1 /\ (last.marker <=> EndsFrame(given))
    BY <1>1 DEF Inv, MarkInv
  <2> QED
    BY <1>1, <2>1, <2>2, <2>3 DEF MarkInv
<1> QED
  BY <1>5, <1>6, <1>7, <1>8 DEF Inv

\* The file is read again from its start.
LEMMA StartOverStep == ASSUME Inv, StartOver PROVE Inv'
<1>1. /\ app = "read" /\ curr' = 1 /\ eof' = FALSE /\ cut' = TRUE
      /\ UNCHANGED <<file, app, given, endOfFrame, timeMoved, mediaReady, audioReady, waitForIdr,
                     remaining, firstFu, queue, partial, skipping, received, last, gap>>
  BY DEF StartOver, Restart, holdVars, callVars, ingestVars
<1>2. Unit' = Unit /\ SrcTypeOK /\ Len(file) \in Nat /\ Len(file) >= 3
  BY <1>1, FileIs DEF Inv, Typed, Unit
<1>3. eof' \in BOOLEAN /\ cut' \in BOOLEAN
  BY <1>1, Zenon
<1>4. SrcTypeOK'
  <2>1. curr' \in 1..Len(file)
    BY <1>1, <1>2
  <2> QED
    BY <1>1, <1>2, <1>3, <2>1, Zenon DEF SrcTypeOK
<1>5. Typed'
  BY <1>1, <1>3, <1>4, Zenon DEF Inv, Typed
<1>6. QueueInv'
  BY <1>1, QueueStays
<1>7. CallInv' /\ ReadInv' /\ MarkInv'
  <2>1. CallInv'
    BY <1>1, <1>2 DEF Inv, CallInv
  <2>2. ReadInv'
    <3>1. curr' # Len(file') /\ app' = "read"
      <4>1. file' = file /\ app' = app /\ curr' = 1 /\ app = "read"
        BY <1>1, Zenon
      <4>2. Len(file') = Len(file)
        BY <4>1, Zenon
      <4>3. curr' # Len(file')
        BY <1>2, <4>1, <4>2
      <4> QED
        BY <4>1, <4>3
    <3> QED
      BY <3>1, Zenon DEF ReadInv
  <2>3. MarkInv'
    BY <1>1 DEF MarkInv
  <2> QED
    BY <2>1, <2>2, <2>3
<1>8. ChainInv' /\ GapInv'
  BY <1>1, <1>2 DEF Inv, ChainInv, Follows, GapInv
<1> QED
  BY <1>5, <1>6, <1>7, <1>8 DEF Inv

-----------------------------------------------------------------------------
(* The session *)

\* What was queued is gone.
LEMMA MediaDestroyStep == ASSUME Inv, MediaDestroy PROVE Inv'
<1>1. /\ app # "queue" /\ mediaReady' = FALSE /\ queue' = <<>>
      /\ UNCHANGED <<file, curr, eof, app, given, endOfFrame, timeMoved, audioReady, waitForIdr,
                     remaining, firstFu, partial, skipping, received, last, cut, gap>>
  BY DEF MediaDestroy, srcVars, callVars, ingestVars, histVars
<1>2. Unit' = Unit /\ SrcTypeOK /\ mediaReady' \in BOOLEAN
  BY <1>1, Zenon DEF Inv, Typed, Unit
<1>3. SrcTypeOK'
  BY <1>1, <1>2, Zenon DEF SrcTypeOK
<1>4. Typed'
  BY <1>1, <1>2, <1>3, Zenon DEF Inv, Typed
<1>5. Len(queue') = 0 /\ queue' \in Seq(Packets)
  BY <1>1, EmptySeq
<1>6. QueueInv'
  BY <1>5, PacketAssumption DEF QueueInv
<1>7. CallInv' /\ ReadInv' /\ ChainInv' /\ GapInv'
  BY <1>1, <1>2, <1>5
     DEF Inv, CallInv, ReadInv, EndsFrame, IsSlice, ChainInv, GapInv
<1>8. MarkInv'
  BY <1>1 DEF Inv, MarkInv, EndsFrame, IsSlice
<1> QED
  BY <1>4, <1>6, <1>7, <1>8 DEF Inv

\* A new stream waits for audio and a key frame.
LEMMA MediaInitStep == ASSUME Inv, MediaInit PROVE Inv'
<1>1. /\ ~mediaReady /\ mediaReady' = TRUE /\ audioReady' = FALSE /\ waitForIdr' = TRUE
      /\ partial' = Nothing /\ skipping' = FALSE /\ received' = "nothing"
      /\ UNCHANGED <<file, curr, eof, app, given, endOfFrame, timeMoved, remaining, firstFu,
                     queue, last, cut, gap>>
  BY DEF MediaInit, srcVars, callVars, histVars
<1>2. Unit' = Unit /\ SrcTypeOK /\ app # "queue" /\ Len(file) \in Nat
  BY <1>1, FileIs DEF Inv, Typed, Unit, CallInv
<1>3. /\ mediaReady' \in BOOLEAN /\ audioReady' \in BOOLEAN /\ waitForIdr' \in BOOLEAN
      /\ skipping' \in BOOLEAN /\ received' \in {"nothing", "whole"}
  BY <1>1, Zenon
<1>4. SrcTypeOK'
  BY <1>1, <1>2, Zenon DEF SrcTypeOK
<1>5. Typed'
  <2>1. partial'.unit \in 0..Len(file) /\ partial'.upto \in Nat
    BY <1>1, <1>2 DEF Nothing
  <2> QED
    BY <1>1, <1>3, <1>4, <2>1, Zenon DEF Inv, Typed
<1>6. QueueInv'
  BY <1>1, QueueStays
<1>7. CallInv' /\ ReadInv' /\ ChainInv' /\ GapInv'
  <2>1. Len(queue) = 0
    BY <1>1 DEF Inv, CallInv
  <2> QED
    BY <1>1, <1>2, <2>1
       DEF Inv, CallInv, ReadInv, EndsFrame, IsSlice, ChainInv, GapInv
<1>8. MarkInv'
  BY <1>1 DEF Inv, MarkInv, EndsFrame, IsSlice
<1> QED
  BY <1>5, <1>6, <1>7, <1>8 DEF Inv

-----------------------------------------------------------------------------
(* Packets are queued and sent *)

\* The packet that is queued, and what stays to be done.
LEMMA QueuePacketIs ==
    ASSUME Inv, QueuePacket
    PROVE  /\ app = "queue" /\ firstFu' = FALSE /\ timeMoved' = FALSE /\ cut' = FALSE
           /\ gap' = (gap /\ Unit.type # "SPS")
           /\ UNCHANGED <<file, curr, eof, given, endOfFrame, mediaReady, audioReady, waitForIdr,
                          partial, skipping, received>>
           /\ last' \in Packets /\ PacketOK(last')
           /\ last'.unit = given /\ last'.to = Unit.len - remaining'
           /\ last'.start \/ (~firstFu /\ last'.from = Unit.len - remaining + 1)
           /\ last'.marker <=> (remaining' = 0 /\ endOfFrame)
           /\ queue' = Append(queue, last') /\ Len(queue) < RingSize - 1
           /\ remaining' \in Nat /\ remaining' <= Unit.len
           /\ app' = IF remaining' = 0 THEN "audio" ELSE "queue"
<1> DEFINE p == MakePacket
<1>1. /\ app = "queue" /\ firstFu' = FALSE /\ timeMoved' = FALSE /\ cut' = FALSE
      /\ gap' = (gap /\ Unit.type # "SPS")
      /\ UNCHANGED <<file, curr, eof, given, endOfFrame, mediaReady, audioReady, waitForIdr,
                     partial, skipping, received>>
      /\ last' = Packet(p.from, p.to, p.start, p.end, remaining' = 0 /\ endOfFrame)
      /\ remaining' = Unit.len - p.to
      /\ queue' = Append(queue, last') /\ Len(queue) < RingSize - 1
      /\ app' = IF remaining' = 0 THEN "audio" ELSE "queue"
  BY DEF QueuePacket, holdVars, ingestVars
<1>2. /\ p.from \in Nat /\ p.to \in Nat /\ p.start \in BOOLEAN /\ p.end \in BOOLEAN
      /\ 1 <= p.from /\ p.from <= p.to /\ p.to <= Unit.len
      /\ p.end <=> p.to = Unit.len
      /\ p.start <=> firstFu
      /\ ~firstFu => p.from = Unit.len - remaining + 1
      /\ SizeOf(p) <= Mtu
  BY <1>1, PacketIs
<1>3. /\ given \in 1..Len(file) /\ Len(file) \in Nat /\ Unit.len \in Nat /\ given \in Nat
  BY InvTypes
<1> HIDE DEF p
<1>4. (remaining' = 0 /\ endOfFrame) \in BOOLEAN
  OBVIOUS
<1> DEFINE m == remaining' = 0 /\ endOfFrame
<1>5. last' = [unit |-> given, from |-> p.from, to |-> p.to, start |-> p.start, end |-> p.end,
               marker |-> m]
  BY <1>1 DEF Packet
<1>6. m \in BOOLEAN
  OBVIOUS
<1> HIDE DEF m
<1>7. /\ last' \in Packets /\ last'.unit = given /\ last'.from = p.from /\ last'.to = p.to
      /\ last'.start = p.start /\ last'.end = p.end /\ last'.marker = m
  BY <1>2, <1>3, <1>5, <1>6 DEF Packets
<1>8. PacketOK(last')
  <2>1. SizeOf(last') = SizeOf(p)
    BY <1>7 DEF SizeOf
  <2>2. last'.end <=> p.end
    BY <1>2, <1>7, Zenon
  <2> QED
    BY <1>2, <1>3, <1>7, <2>1, <2>2 DEF PacketOK, Unit
<1>9. last'.start \/ (~firstFu /\ last'.from = Unit.len - remaining + 1)
  BY <1>2, <1>7
<1>10. last'.marker <=> (remaining' = 0 /\ endOfFrame)
  BY <1>7, Zenon DEF m
<1>11. /\ remaining' \in Nat /\ remaining' <= Unit.len /\ last'.to = Unit.len - remaining'
  BY <1>1, <1>2, <1>3, <1>7
<1> QED
  BY <1>1, <1>7, <1>8, <1>9, <1>10, <1>11

LEMMA QueuePacketStep == ASSUME Inv, QueuePacket PROVE Inv'
<1> DEFINE n == Len(queue)
<1>1. /\ app = "queue" /\ firstFu' = FALSE /\ timeMoved' = FALSE /\ cut' = FALSE
      /\ gap' = (gap /\ Unit.type # "SPS")
      /\ UNCHANGED <<file, curr, eof, given, endOfFrame, mediaReady, audioReady, waitForIdr,
                     partial, skipping, received>>
  BY QueuePacketIs
<1>2. /\ last' \in Packets /\ PacketOK(last')
      /\ last'.unit = given /\ last'.to = Unit.len - remaining'
      /\ last'.start \/ (~firstFu /\ last'.from = Unit.len - remaining + 1)
      /\ last'.marker <=> (remaining' = 0 /\ endOfFrame)
  BY QueuePacketIs
<1>3. /\ queue' = Append(queue, last') /\ n < RingSize - 1
      /\ remaining' \in Nat /\ remaining' <= Unit.len
      /\ app' = IF remaining' = 0 THEN "audio" ELSE "queue"
  BY QueuePacketIs
<1>4. /\ SrcTypeOK /\ queue \in Seq(Packets) /\ n \in Nat /\ Unit' = Unit
      /\ Len(file) \in Nat /\ given \in 1..Len(file) /\ Unit.len \in Nat
      /\ mediaReady /\ ~waitForIdr
  BY <1>1, InvTypes DEF Unit, Inv, CallInv
<1>5. /\ queue' \in Seq(Packets) /\ Len(queue') = n + 1 /\ queue'[n + 1] = last'
      /\ \A i \in 1..n : queue'[i] = queue[i]
  BY <1>2, <1>3, <1>4, AppendProperties
<1>6. /\ firstFu' \in BOOLEAN /\ timeMoved' \in BOOLEAN /\ cut' \in BOOLEAN /\ gap' \in BOOLEAN
      /\ app' \in {"read", "send", "queue", "audio"}
  <2>1. firstFu' \in BOOLEAN /\ timeMoved' \in BOOLEAN /\ cut' \in BOOLEAN /\ gap' \in BOOLEAN
    BY <1>1, Zenon
  <2> QED
    BY <1>3, <2>1
<1>7. SrcTypeOK'
  BY <1>1, <1>4, <1>6, Zenon DEF SrcTypeOK
<1>8. Typed'
  <2>1. last'.unit \in 0..Len(file)
    BY <1>2, <1>4
  <2> QED
    BY <1>1, <1>3, <1>6, <1>7, <2>1, Zenon DEF Inv, Typed
<1> HIDE DEF n
<1>9. QueueInv'
  <2>1. ASSUME NEW i \in 1..(n + 1)
        PROVE  PacketOK(queue'[i])
    <3>1. CASE i = n + 1
      BY <1>2, <1>5, <3>1
    <3>2. CASE i # n + 1
      <4>1. i \in 1..n
        BY <1>4, <3>2
      <4> QED
        BY <1>5, <4>1 DEF Inv, QueueInv, n
    <3> QED
      BY <3>1, <3>2
  <2>2. n + 1 < RingSize
    BY <1>3, <1>4, PacketAssumption
  <2> QED
    BY <1>1, <1>5, <2>1, <2>2 DEF QueueInv, PacketOK, SizeOf
<1>10. CallInv'
  <2>1. mediaReady' /\ ~waitForIdr' /\ ~firstFu' /\ Unit'.len = Unit.len
    BY <1>1, <1>4
  <2> QED
    BY <1>3, <2>1 DEF CallInv
<1>11. ReadInv'
  BY <1>1 DEF Inv, ReadInv, EndsFrame, IsSlice
<1>12. ChainInv'
  <2>1. Follows(last', queue[n].unit, queue[n].to) \/ n = 0
    <3>1. app = "queue" /\ ~firstFu /\ n # 0 =>
             queue[n].unit = given /\ queue[n].to = Unit.len - remaining
      BY DEF Inv, ChainInv, n
    <3> QED
      BY <1>1, <1>2, <3>1 DEF Follows
  <2>2. n = 0 /\ ~skipping => Follows(last', partial.unit, partial.upto)
    <3>1. app = "queue" /\ ~firstFu /\ n = 0 =>
             skipping \/ (partial.unit = given /\ partial.upto = Unit.len - remaining)
      BY DEF Inv, ChainInv, n
    <3> QED
      BY <1>1, <1>2, <3>1 DEF Follows
  <2>3. ASSUME NEW i \in 1..(Len(queue') - 1)
        PROVE  Follows(queue'[i + 1], queue'[i].unit, queue'[i].to)
    <3>1. i \in 1..n /\ queue'[i] = queue[i]
      BY <1>4, <1>5
    <3>2. CASE i = n
      BY <1>4, <1>5, <2>1, <3>1, <3>2
    <3>3. CASE i # n
      <4>1. i \in 1..(n - 1) /\ i + 1 \in 1..n
        BY <1>4, <3>1, <3>3
      <4>2. Follows(queue[i + 1], queue[i].unit, queue[i].to)
        BY <4>1 DEF Inv, ChainInv, n
      <4> QED
        BY <1>5, <3>1, <4>1, <4>2
    <3> QED
      BY <3>2, <3>3
  <2>4. ~skipping => Follows(queue'[1], partial.unit, partial.upto)
    <3>1. CASE n = 0
      BY <1>5, <2>2, <3>1
    <3>2. CASE n # 0
      <4>1. 1 \in 1..n
        BY <1>4, <3>2
      <4>2. ~skipping => Follows(queue[1], partial.unit, partial.upto)
        BY <3>2 DEF Inv, ChainInv, n
      <4> QED
        BY <1>5, <4>1, <4>2
    <3> QED
      BY <3>1, <3>2
  <2>5. /\ Len(queue') # 0 /\ queue'[Len(queue')].unit = given
        /\ queue'[Len(queue')].to = Unit.len - remaining'
    BY <1>2, <1>4, <1>5
  <2>6. given' = given /\ Unit' = Unit /\ skipping' = skipping /\ partial' = partial
    BY <1>1, <1>4
  <2> HIDE DEF n
  <2> QED
    BY <2>3, <2>4, <2>5, <2>6 DEF ChainInv, Follows
<1>13. GapInv'
  <2>1. gap => Unit.type = "SPS"
    BY <1>4 DEF Inv, GapInv
  <2>2. ~gap'
    BY <1>1, <2>1
  <2> QED
    BY <1>1, <1>4, <2>2 DEF Inv, GapInv
<1>14. MarkInv'
  <2>1. last'.unit \in 1..Len(file') /\ last'.marker \in BOOLEAN
    BY <1>1, <1>2, <1>4 DEF Packets
  <2>2. CASE remaining' = 0
    <3>1. app' = "audio" /\ ~timeMoved' /\ (last'.marker <=> endOfFrame')
      BY <1>1, <1>2, <1>3, <2>2
    <3>2. ~eof' => last'.unit = given' /\ curr' = given' + 1
                   /\ (last'.marker <=> EndsFrame(given)')
      BY <1>1, <1>2, <3>1 DEF Inv, ReadInv, EndsFrame, IsSlice
    <3> QED
      BY <2>1, <3>1, <3>2, Zenon DEF MarkInv
  <2>3. CASE remaining' # 0
    <3>1. app' = "queue" /\ ~firstFu' /\ ~timeMoved' /\ ~last'.marker /\ last'.unit = given'
      BY <1>1, <1>2, <1>3, <2>3
    <3> QED
      BY <2>1, <3>1, Zenon DEF MarkInv
  <2> QED
    BY <2>2, <2>3
<1> QED
  BY <1>8, <1>9, <1>10, <1>11, <1>12, <1>13, <1>14 DEF Inv

\* A packet that the ingest takes goes on where the last ended or starts a unit, so that what
\* it puts together is whole.
LEMMA ReceiveIs ==
    ASSUME Inv, Len(queue) # 0, NEW p, p = queue[1], Receive(p)
    PROVE  \/ skipping /\ UNCHANGED <<partial, skipping, received>>
           \/ /\ skipping' = FALSE /\ received' \in {"nothing", "whole"}
              /\ partial' = IF p.end THEN Nothing ELSE [unit |-> p.unit, upto |-> p.to]
<1>1. CASE skipping /\ ~p.start
  BY <1>1 DEF Receive, ingestVars
<1>2. CASE ~(skipping /\ ~p.start)
  <2> DEFINE whole == p.to = file[p.unit].len
             fits == p.start \/ (partial.unit = p.unit /\ p.from = partial.upto + 1)
  <2>1. /\ skipping' = FALSE
        /\ partial' = IF p.end THEN Nothing ELSE [unit |-> p.unit, upto |-> p.to]
        /\ received' = IF ~fits \/ p.end # whole THEN "broken"
                       ELSE IF p.end THEN "whole" ELSE received
    BY <1>2 DEF Receive
  <2>2. fits
    BY <1>2 DEF Inv, ChainInv, Follows
  <2>3. p \in Packets /\ PacketOK(p)
    BY InvTypes, ElementOfSeq DEF QueueInv
  <2>4. p.end \in BOOLEAN /\ (p.end <=> whole)
    BY <2>3 DEF Packets, PacketOK
  <2>5. p.end = whole
    BY <2>4, Zenon
  <2> HIDE DEF whole, fits
  <2>6. received' \in {"whole", received}
    BY <2>1, <2>2, <2>5, Zenon
  <2> QED
    BY <2>1, <2>6 DEF Inv, Typed
<1> QED
  BY <1>1, <1>2

LEMMA TransmitStep == ASSUME Inv, Transmit PROVE Inv'
<1> DEFINE n == Len(queue)
           p == queue[1]
<1>1. /\ queue # <<>> /\ queue' = Tail(queue) /\ p = Head(queue)
      /\ UNCHANGED <<file, curr, eof, app, given, endOfFrame, timeMoved, mediaReady, audioReady,
                     waitForIdr, remaining, firstFu, last, cut, gap>>
  BY DEF Transmit, srcVars, holdVars, callVars, histVars
<1>2. /\ SrcTypeOK /\ queue \in Seq(Packets) /\ Unit' = Unit /\ Len(file) \in Nat
  BY <1>1, InvTypes DEF Unit
<1>3. n \in Nat /\ n >= 1
  BY <1>1, <1>2, EmptySeq, LenProperties
<1>4. \A i \in 1..n : queue[i] \in Packets /\ PacketOK(queue[i])
  BY <1>2, ElementOfSeq DEF Inv, QueueInv
<1>5. /\ queue' \in Seq(Packets) /\ Len(queue') = n - 1
      /\ \A i \in 1..(n - 1) : queue'[i] = queue[i + 1]
  BY <1>1, <1>2, HeadTailProperties
<1>6. /\ p \in Packets /\ PacketOK(p) /\ p.unit \in Nat /\ p.to \in Nat
      /\ p.end <=> p.to = file[p.unit].len
  <2>1. p \in Packets /\ PacketOK(p)
    BY <1>3, <1>4
  <2> QED
    BY <2>1 DEF Packets, PacketOK
<1>7. \/ skipping /\ UNCHANGED <<partial, skipping, received>>
      \/ /\ skipping' = FALSE /\ received' \in {"nothing", "whole"}
         /\ partial' = IF p.end THEN Nothing ELSE [unit |-> p.unit, upto |-> p.to]
      \/ skipping' = TRUE /\ partial' = Nothing /\ received' = received
  <2>1. n # 0
    BY <1>3
  <2>2. Receive(p) \/ (skipping' = TRUE /\ partial' = Nothing /\ UNCHANGED received)
    BY <1>1 DEF Transmit
  <2> QED
    BY <2>1, <2>2, ReceiveIs
<1> HIDE DEF n, p
<1>8. Typed'
  <2>1. SrcTypeOK'
    BY <1>1, <1>2, Zenon DEF SrcTypeOK
  <2>2. skipping' \in BOOLEAN
    BY <1>7, Zenon DEF Inv, Typed
  <2>3. received' \in {"nothing", "whole"}
    BY <1>7 DEF Inv, Typed
  <2>4. p.unit \in 0..Len(file)
    BY <1>2, <1>6 DEF PacketOK
  <2>5. partial'.unit \in 0..Len(file) /\ partial'.upto \in Nat
    BY <1>2, <1>6, <1>7, <2>4 DEF Inv, Typed, Nothing
  <2> QED
    BY <1>1, <2>1, <2>2, <2>3, <2>5, Zenon DEF Inv, Typed
<1>9. QueueInv'
  <2>1. \A i \in 1..(n - 1) : PacketOK(queue'[i])
    BY <1>3, <1>4, <1>5
  <2>2. n - 1 < RingSize
    BY <1>3, PacketAssumption DEF Inv, QueueInv, n
  <2> QED
    BY <1>1, <1>5, <2>1, <2>2 DEF QueueInv, PacketOK, SizeOf
<1>10. CallInv' /\ GapInv'
  <2>1. Len(queue') = 0 \/ Len(queue') >= 1
    BY <1>3, <1>5
  <2>2. ~mediaReady => FALSE
    BY <1>3 DEF Inv, CallInv, n
  <2> QED
    BY <1>1, <1>2, <2>1, <2>2 DEF Inv, CallInv, GapInv
<1>11. ReadInv' /\ MarkInv'
  BY <1>1 DEF Inv, ReadInv, MarkInv, EndsFrame, IsSlice
<1>12. ChainInv'
  <2>1. ASSUME NEW i \in 1..(Len(queue') - 1)
        PROVE  Follows(queue'[i + 1], queue'[i].unit, queue'[i].to)
    <3>1. i \in 1..(n - 1) /\ i + 1 \in 1..(n - 1)
      BY <1>3, <1>5
    <3>2. Follows(queue[(i + 1) + 1], queue[i + 1].unit, queue[i + 1].to)
      BY <3>1 DEF Inv, ChainInv, n
    <3> QED
      BY <1>5, <3>1, <3>2
  <2>2. Len(queue') # 0 /\ ~skipping' => Follows(queue'[1], partial'.unit, partial'.upto)
    <3> SUFFICES ASSUME Len(queue') # 0, ~skipping'
                 PROVE  Follows(queue'[1], partial'.unit, partial'.upto)
      OBVIOUS
    <3>1. partial' = IF p.end THEN Nothing ELSE [unit |-> p.unit, upto |-> p.to]
      BY <1>7
    <3>2. 1 \in 1..(n - 1) /\ queue'[1] = queue[2] /\ 2 \in 1..n
      BY <1>3, <1>5
    <3>3. Follows(queue[2], p.unit, p.to)
      BY <3>2 DEF Inv, ChainInv, n, p
    <3>4. p.end => queue[2].start
      <4>1. /\ queue[2].from \in Nat /\ queue[2].to \in Nat
            /\ queue[2].from <= queue[2].to /\ queue[2].to <= file[queue[2].unit].len
            /\ file[queue[2].unit].len \in Nat
        BY <1>2, <1>4, <3>2, FileIs DEF Packets, PacketOK, Units
      <4> QED
        BY <1>6, <3>3, <4>1 DEF Follows
    <3> QED
      BY <3>1, <3>2, <3>3, <3>4 DEF Follows
  <2>3. ASSUME app = "queue", ~firstFu
        PROVE  /\ Len(queue') # 0 => /\ queue'[Len(queue')].unit = given
                                     /\ queue'[Len(queue')].to = Unit.len - remaining
               /\ Len(queue') = 0 =>
                     \/ skipping'
                     \/ partial'.unit = given /\ partial'.upto = Unit.len - remaining
    <3>1. queue[n].unit = given /\ queue[n].to = Unit.len - remaining
      BY <1>3, <2>3 DEF Inv, ChainInv, n
    <3>2. CASE Len(queue') # 0
      BY <1>3, <1>5, <3>1, <3>2
    <3>3. CASE Len(queue') = 0
      <4>1. p.unit = given /\ p.to = Unit.len - remaining
        BY <1>3, <1>5, <3>1, <3>3 DEF p
      <4>2. Unit.len \in Nat /\ remaining \in Nat /\ remaining >= 1
        BY <2>3, InvTypes DEF Inv, CallInv
      <4>3. ~p.end
        BY <1>6, <4>1, <4>2 DEF Unit
      <4> QED
        BY <1>7, <3>3, <4>1, <4>3
    <3> QED
      BY <3>2, <3>3
  <2> QED
    BY <1>1, <1>2, <2>1, <2>2, <2>3 DEF ChainInv, Follows
<1> QED
  BY <1>8, <1>9, <1>10, <1>11, <1>12 DEF Inv

LEMMA StutterStep == ASSUME Inv, UNCHANGED vars PROVE Inv'
<1>1. UNCHANGED <<file, curr, eof, app, given, endOfFrame, timeMoved, mediaReady, audioReady,
                  waitForIdr, remaining, firstFu, queue, partial, skipping, received, last, cut,
                  gap>>
  BY DEF vars, srcVars, holdVars, callVars, ingestVars, histVars
<1>2. Typed'
  <2>1. SrcTypeOK'
    BY <1>1, Zenon DEF Inv, Typed, SrcTypeOK
  <2> QED
    BY <1>1, <2>1, Zenon DEF Inv, Typed
<1>3. QueueInv'
  BY <1>1, QueueStays
<1>4. CallInv' /\ ReadInv' /\ ChainInv' /\ GapInv' /\ MarkInv'
  BY <1>1 DEF Inv, CallInv, ReadInv, ChainInv, GapInv, MarkInv, Follows, Unit, EndsFrame,
              IsSlice
<1> QED
  BY <1>2, <1>3, <1>4 DEF Inv

LEMMA NextInv == Inv /\ [Next]_vars => Inv'
<1> SUFFICES ASSUME Inv, [Next]_vars PROVE Inv'
  OBVIOUS
<1> QED
  BY ReadStep, SendVideoStep, QueuePacketStep, QueueFullStep, AudioStep, StartOverStep,
     MediaDestroyStep, MediaInitStep, TransmitStep, StutterStep, Zenon DEF Next

LEMMA InvAlways == Spec => []Inv
  BY InitInv, NextInv, PTL DEF Spec

-----------------------------------------------------------------------------
(* The theorems *)

\* Every packet in the ring holds bytes of its unit and is no longer than the MTU
\* (_media_make_video_rtp_packet), and the ring keeps its free slot (media_send_video).
THEOREM Typing == Spec => []TypeOK
<1>1. Inv => TypeOK
  <2> SUFFICES ASSUME Inv PROVE TypeOK
    OBVIOUS
  <2>1. remaining \in 0..Unit.len
    BY InvTypes DEF Inv, CallInv
  <2>2. \A i \in 1..Len(queue) :
           /\ queue[i].unit \in 1..Len(file)
           /\ 1 <= queue[i].from /\ queue[i].from <= queue[i].to
           /\ queue[i].to <= file[queue[i].unit].len
           /\ SizeOf(queue[i]) <= Mtu
    BY DEF Inv, QueueInv, PacketOK
  <2>3. received \in {"nothing", "whole", "broken"} /\ Len(queue) < RingSize
    BY DEF Inv, Typed, QueueInv
  <2> QED
    BY <2>1, <2>2, <2>3, Zenon DEF Inv, Typed, TypeOK
<1> QED
  BY <1>1, InvAlways, PTL

\* What the ingest puts together by the FU-A bits is a whole unit that media_send_video was
\* given, for units and packets of every length, whatever the ring leaves out and the network
\* loses.
THEOREM Reassembly == Spec => []ReassemblesUnits
<1>1. Inv => ReassemblesUnits
  BY DEF Inv, Typed, ReassemblesUnits
<1> QED
  BY <1>1, InvAlways, PTL

\* Only one action queues a packet.
LEMMA QueuedIs == ASSUME Inv, [Next]_vars, Queued PROVE QueuePacket
<1>1. Len(queue) \in Nat
  BY InvTypes
<1>2. UNCHANGED queue => FALSE
  BY <1>1 DEF Queued
<1>3. ~MediaDestroy
  BY <1>1, EmptySeq DEF MediaDestroy, Queued
<1>4. ~Transmit
  <2> SUFFICES ASSUME Transmit PROVE FALSE
    OBVIOUS
  <2>1. queue # <<>> /\ queue \in Seq(Packets) /\ queue' = Tail(queue)
    BY InvTypes DEF Transmit
  <2>2. Len(queue') = Len(queue) - 1
    BY <2>1, HeadTailProperties
  <2> QED
    BY <1>1, <2>2 DEF Queued
<1>5. Read \/ SendVideo \/ QueueFull \/ Audio \/ StartOver \/ MediaInit \/ UNCHANGED vars
      => UNCHANGED queue
  BY DEF Read, SendVideo, QueueFull, Audio, StartOver, MediaInit, vars
<1> QED
  BY <1>2, <1>3, <1>4, <1>5 DEF Next

\* After a unit that others refer to was not queued whole, the next packet begins an SPS
\* (media_send_video, wait_for_idr_frame).
THEOREM KeyFrameFirst == Spec => NothingAfterAGap
<1>1. Inv /\ [Next]_vars => (Queued /\ gap => file[given].type = "SPS")
  BY QueuedIs, QueuePacketIs DEF Inv, CallInv, GapInv, Unit
<1> QED
  BY <1>1, InvAlways, PTL DEF Spec, NothingAfterAGap

\* Where the last packet's marker is set the next one is of another unit.
LEMMA MarkedIs ==
    ASSUME Inv, [Next]_vars, Queued, ~cut
    PROVE  /\ last.marker <=> timeMoved
           /\ \/ last.unit = given /\ ~last.marker
              \/ /\ last.unit \in 1..(Len(file) - 1) /\ given = last.unit + 1
                 /\ last.marker <=> EndsFrame(last.unit)
<1>1. app = "queue"
  BY QueuedIs, QueuePacketIs
<1>2. SrcTypeOK /\ Len(file) \in Nat /\ last.unit \in 1..Len(file) /\ given \in 1..Len(file)
  BY InvTypes DEF Inv, MarkInv
<1>3. CASE firstFu
  BY <1>1, <1>2, <1>3 DEF Inv, MarkInv
<1>4. CASE ~firstFu
  BY <1>1, <1>2, <1>4 DEF Inv, MarkInv
<1> QED
  BY <1>3, <1>4

\* The marker is on the last packet of a picture (get_video_frame, media_send_video), up to a
\* following picture that looks like the same.
THEOREM Markers == Spec => MarkerEndsPicture
<1>1. Inv /\ [Next]_vars =>
        (Queued /\ ~cut =>
           IF last.marker THEN file[given].pic # file[last.unit].pic
           ELSE file[given].pic # file[last.unit].pic =>
                   IsSlice(given) /\ file[given].frameNum = file[last.unit].frameNum)
  <2> SUFFICES ASSUME Inv, [Next]_vars, Queued, ~cut
               PROVE  IF last.marker THEN file[given].pic # file[last.unit].pic
                      ELSE file[given].pic # file[last.unit].pic =>
                         IsSlice(given) /\ file[given].frameNum = file[last.unit].frameNum
    OBVIOUS
  <2>1. CASE last.unit = given /\ ~last.marker
    BY <2>1
  <2>2. CASE /\ last.unit \in 1..(Len(file) - 1) /\ given = last.unit + 1
             /\ last.marker <=> EndsFrame(last.unit)
    <3>1. file \in Files /\ file \in Seq(Units) /\ Len(file) \in Nat
      BY InvTypes, FilesAssumption DEF SrcTypeOK
    <3>2. /\ last.unit \in 1..Len(file) /\ last.unit + 1 \in 1..Len(file)
          /\ file[last.unit].pic \in Nat /\ file[last.unit + 1].pic \in Nat
      <4>1. last.unit \in 1..Len(file) /\ last.unit + 1 \in 1..Len(file)
        BY <2>2, <3>1
      <4>2. file[last.unit] \in Units /\ file[last.unit + 1] \in Units
        BY <3>1, <4>1, ElementOfSeq
      <4> QED
        BY <4>1, <4>2 DEF Units
    <3>3. IF file[last.unit + 1].pic = file[last.unit].pic
            THEN IsSlice(last.unit) => /\ IsSlice(last.unit + 1)
                                       /\ file[last.unit + 1].frameNum = file[last.unit].frameNum
            ELSE IsSlice(last.unit)
      <4> DEFINE i == last.unit
      <4>1. file \in Files /\ i \in 1..(Len(file) - 1)
        BY <2>2, <3>1
      <4>2. IF file[i + 1].pic = file[i].pic
              THEN file[i].type \in {"IDR", "slice"} =>
                      /\ file[i + 1].type \in {"IDR", "slice"}
                      /\ file[i + 1].frameNum = file[i].frameNum
              ELSE file[i].type \in {"IDR", "slice"} /\ file[i + 1].pic = file[i].pic + 1
        <5> HIDE DEF i
        <5> QED
          BY <4>1, PicturesAssumption, Zenon
      <4> QED
        BY <4>2, Zenon DEF IsSlice
    <3> QED
      BY <2>2, <3>3 DEF EndsFrame
  <2> QED
    BY <2>1, <2>2, MarkedIs
<1> QED
  BY <1>1, InvAlways, PTL DEF Spec, MarkerEndsPicture

\* The time stamp changes exactly behind a packet with the marker (main, media_send_video).
THEOREM Times == Spec => MarkerMovesTime
<1>1. Inv /\ [Next]_vars => (Queued /\ ~cut => (last.marker <=> timeMoved))
  BY MarkedIs
<1> QED
  BY <1>1, InvAlways, PTL DEF Spec, MarkerMovesTime
=============================================================================
