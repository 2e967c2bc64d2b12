------------------------------ MODULE NackRing ------------------------------
(***************************************************************************)
(* The packet buffer of one media component (audio or video): the ring of  *)
(* NACK_RB_SIZE slots that the application's calls of media_send_audio or  *)
(* media_send_video fill, that the component's send thread empties, and    *)
(* from which the receive thread sends again what the ingest reports lost. *)
(*                                                                         *)
(* Packets are numbered 0, 1, 2, ... in the order they are written; that   *)
(* number stands for the packet's bytes.  The program only has its 16-bit  *)
(* sequence numbers: seqNum and xmitSeqNum wrap at SeqMod, and a slot is   *)
(* found from them modulo RingSize.                                        *)
(*                                                                         *)
(* A step is a critical section: nack_slots_lock in Claim, ClaimFull and   *)
(* Fetch, the slot's mutex in Fill, Transmit and Resend.  slot->sn is      *)
(* written under the one lock and read under the other, so that a slot is  *)
(* for a while labelled with a packet that is not in it yet.               *)
(***************************************************************************)
EXTENDS Integers

CONSTANTS
    Producers,      \* application threads that send media of this component
    NoThread,
    Kinds,          \* which components: a subset of {"audio", "video"}
    RingSize,       \* NACK_RB_SIZE
    SeqMod,         \* 2^16, the range of uint16_t
    MaxFrame,       \* bound of the model: packets of one call
    MaxPackets      \* bound of the model: packets ever written

ASSUME RingAssumption ==
    /\ RingSize \in Nat \ {0, 1}
    /\ SeqMod \in Nat
    /\ \E k \in 1..SeqMod : SeqMod = k * RingSize   \* ftl_private.h:68
    /\ Kinds \subseteq {"audio", "video"}
    /\ MaxFrame \in Nat
    /\ MaxPackets \in Nat
    /\ NoThread \notin Producers

VARIABLES
    kind,           \* the component
    seqNum,         \* mc->seq_num, uint16_t
    xmitSeqNum,     \* mc->xmit_seq_num, uint16_t
    pktReady,       \* value of the semaphore mc->pkt_ready
    slotSn,         \* slot->sn of every slot, -1 before its first use
    slotPkt,        \* the packet whose bytes are in the slot, -1 before
    nackEnabled,    \* mc->nack_enabled
    owner,          \* owner of audio.mutex or video.mutex
    leaked,         \* that (recursive) mutex was left locked by a return
    ppc,            \* where the thread that holds it is in its loop
    claimedSn,      \* sn, its local copy of the sequence number
    remaining,      \* packets of the call still to be written
    spc,            \* where the send thread is
    sendSlot,       \* the slot it is about to send
    written,        \* how many packets were ever written
    lastSent,       \* the packet the send thread sent last, -1 before
    resent          \* the last retransmission: packet asked for, packet sent

producerVars == <<owner, leaked, ppc, claimedSn, remaining>>
senderVars   == <<spc, sendSlot, lastSent>>
vars == <<kind, seqNum, xmitSeqNum, pktReady, slotSn, slotPkt, nackEnabled,
          producerVars, senderVars, written, resent>>

Slots    == 0..(RingSize - 1)
SeqNums  == 0..(SeqMod - 1)
NoResend == [asked |-> -1, got |-> -1]

Init ==
    /\ kind \in Kinds
    /\ seqNum = 0
    /\ xmitSeqNum = 0
    /\ pktReady = 0
    /\ slotSn = [i \in Slots |-> -1]
    /\ slotPkt = [i \in Slots |-> -1]
    /\ nackEnabled = TRUE
    /\ owner = NoThread
    /\ leaked = FALSE
    /\ ppc = "idle"
    /\ claimedSn = 0
    /\ remaining = 0
    /\ spc = "pend"
    /\ sendSlot = 0
    /\ written = 0
    /\ lastSent = -1
    /\ resent = NoResend

-----------------------------------------------------------------------------
(* media_send_audio and media_send_video *)

\* A call that passed its gates and is going to write n packets.  The mutex is
\* recursive: its owner gets it again, another thread's trylock fails and drops the call.
Begin(p, n) ==
    /\ ppc = "idle"
    /\ owner \in {NoThread, p}
    /\ owner' = p
    /\ remaining' = n
    /\ ppc' = "loop"
    /\ UNCHANGED <<kind, seqNum, xmitSeqNum, pktReady, slotSn, slotPkt, nackEnabled,
                   leaked, claimedSn, senderVars, written, resent>>

\* Mutant: the ring takes RingSize packets.
RingFull_OffByOne == seqNum # xmitSeqNum /\ seqNum % RingSize = xmitSeqNum % RingSize

\* _media_get_empty_slot: "if the next sequence number is equal to the current send
\* number the queue is full".
RingFull == ((seqNum + 1) % SeqMod) % RingSize = xmitSeqNum % RingSize

Claim ==
    /\ ppc = "loop" /\ remaining > 0
    /\ ~RingFull
    /\ slotSn' = [slotSn EXCEPT ![seqNum % RingSize] = seqNum]
    /\ claimedSn' = seqNum
    /\ ppc' = "claimed"
    /\ UNCHANGED <<kind, seqNum, xmitSeqNum, pktReady, slotPkt, nackEnabled, owner,
                   leaked, remaining, senderVars, written, resent>>

\* No slot: the rest of the call's data is dropped.  media_send_video releases its
\* mutex, media_send_audio returns with it.
ClaimFull ==
    /\ ppc = "loop" /\ remaining > 0
    /\ RingFull
    /\ ppc' = "idle"
    /\ remaining' = 0
    /\ leaked' = (leaked \/ kind = "audio")
    /\ owner' = IF leaked' THEN owner ELSE NoThread
    /\ UNCHANGED <<kind, seqNum, xmitSeqNum, pktReady, slotSn, slotPkt, nackEnabled,
                   claimedSn, senderVars, written, resent>>

\* Mutant: the sequence number is counted past the end of its range.
Fill_NoWrap ==
    /\ ppc = "claimed"
    /\ slotPkt' = [slotPkt EXCEPT ![claimedSn % RingSize] = written]
    /\ slotSn' = [slotSn EXCEPT ![claimedSn % RingSize] = claimedSn]
    /\ seqNum' = seqNum + 1
    /\ written' = written + 1
    /\ remaining' = remaining - 1
    /\ ppc' = "filled"
    /\ UNCHANGED <<kind, xmitSeqNum, pktReady, nackEnabled, owner, leaked, claimedSn,
                   senderVars, resent>>

\* Mutant: the packet goes where the sequence number points after it was counted.
Fill_NextSlot ==
    /\ ppc = "claimed"
    /\ seqNum' = (seqNum + 1) % SeqMod
    /\ slotPkt' = [slotPkt EXCEPT ![seqNum' % RingSize] = written]
    /\ slotSn' = [slotSn EXCEPT ![seqNum' % RingSize] = claimedSn]
    /\ written' = written + 1
    /\ remaining' = remaining - 1
    /\ ppc' = "filled"
    /\ UNCHANGED <<kind, xmitSeqNum, pktReady, nackEnabled, owner, leaked, claimedSn,
                   senderVars, resent>>

\* The RTP header and the payload go into the slot; making the header counts seq_num.
Fill ==
    /\ ppc = "claimed"
    /\ slotPkt' = [slotPkt EXCEPT ![claimedSn % RingSize] = written]
    /\ slotSn' = [slotSn EXCEPT ![claimedSn % RingSize] = claimedSn]
    /\ seqNum' = (seqNum + 1) % SeqMod
    /\ written' = written + 1
    /\ remaining' = remaining - 1
    /\ ppc' = "filled"
    /\ UNCHANGED <<kind, xmitSeqNum, pktReady, nackEnabled, owner, leaked, claimedSn,
                   senderVars, resent>>

\* Mutant: the semaphore is posted once per call, with its last packet.
Post_LastOnly ==
    /\ ppc = "filled"
    /\ pktReady' = IF remaining = 0 THEN pktReady + 1 ELSE pktReady
    /\ ppc' = "loop"
    /\ UNCHANGED <<kind, seqNum, xmitSeqNum, slotSn, slotPkt, nackEnabled, owner,
                   leaked, claimedSn, remaining, senderVars, written, resent>>

Post ==
    /\ ppc = "filled"
    /\ pktReady' = pktReady + 1
    /\ ppc' = "loop"
    /\ UNCHANGED <<kind, seqNum, xmitSeqNum, slotSn, slotPkt, nackEnabled, owner,
                   leaked, claimedSn, remaining, senderVars, written, resent>>

Finish ==
    /\ ppc = "loop" /\ remaining = 0
    /\ ppc' = "idle"
    /\ owner' = IF leaked THEN owner ELSE NoThread
    /\ UNCHANGED <<kind, seqNum, xmitSeqNum, pktReady, slotSn, slotPkt, nackEnabled,
                   leaked, claimedSn, remaining, senderVars, written, resent>>

-----------------------------------------------------------------------------
(* audio_send_thread and video_send_thread *)

Pend ==
    /\ spc = "pend"
    /\ pktReady > 0
    /\ pktReady' = pktReady - 1
    /\ spc' = "ready"
    /\ UNCHANGED <<kind, seqNum, xmitSeqNum, slotSn, slotPkt, nackEnabled, producerVars,
                   sendSlot, lastSent, written, resent>>

\* _media_send_packet counts xmit_seq_num before it has the slot's mutex.
Fetch ==
    /\ spc = "ready"
    /\ sendSlot' = xmitSeqNum % RingSize
    /\ xmitSeqNum' = (xmitSeqNum + 1) % SeqMod
    /\ spc' = "fetched"
    /\ UNCHANGED <<kind, seqNum, pktReady, slotSn, slotPkt, nackEnabled, producerVars,
                   lastSent, written, resent>>

Transmit ==
    /\ spc = "fetched"
    /\ lastSent' = slotPkt[sendSlot]
    /\ spc' = "pend"
    /\ UNCHANGED <<kind, seqNum, xmitSeqNum, pktReady, slotSn, slotPkt, nackEnabled,
                   producerVars, sendSlot, written, resent>>

-----------------------------------------------------------------------------
(* recv_thread and media_enable_nack *)

SeqOf(k) == k % SeqMod

\* Mutant: the slot is trusted to hold the packet its index stands for.
Resend_Unchecked(k) ==
    LET slot == SeqOf(k) % RingSize IN
    /\ written - k < SeqMod
    /\ nackEnabled
    /\ resent' = [asked |-> k, got |-> slotPkt[slot]]
    /\ UNCHANGED <<kind, seqNum, xmitSeqNum, pktReady, slotSn, slotPkt, nackEnabled,
                   producerVars, senderVars, written>>

\* _nack_resend_packet: the ingest reports packet k lost, a packet it knows was sent.
\* The network delivers the report less than SeqMod packets late.
Resend(k) ==
    LET slot == SeqOf(k) % RingSize IN
    /\ written - k < SeqMod
    /\ slotSn[slot] = SeqOf(k)
    /\ nackEnabled
    /\ resent' = [asked |-> k, got |-> slotPkt[slot]]
    /\ UNCHANGED <<kind, seqNum, xmitSeqNum, pktReady, slotSn, slotPkt, nackEnabled,
                   producerVars, senderVars, written>>

\* The speed test switches retransmission off while it runs.
EnableNack ==
    /\ nackEnabled' = ~nackEnabled
    /\ UNCHANGED <<kind, seqNum, xmitSeqNum, pktReady, slotSn, slotPkt, producerVars,
                   senderVars, written, resent>>

-----------------------------------------------------------------------------
Produce ==
    \/ \E p \in Producers, n \in 1..MaxFrame : written + n <= MaxPackets /\ Begin(p, n)
    \/ Claim \/ ClaimFull \/ Fill \/ Post \/ Finish

SendThread == Pend \/ Fetch \/ Transmit

Receive == \E k \in 0..lastSent : Resend(k)

Next == Produce \/ SendThread \/ Receive \/ EnableNack

Spec == Init /\ [][Next]_vars

\* The send thread runs; a call of the application that began goes on to its end.
FairSpec ==
    /\ Spec
    /\ WF_vars(SendThread)
    /\ WF_vars(Claim \/ ClaimFull \/ Fill \/ Post \/ Finish)

-----------------------------------------------------------------------------
(* Properties *)

TypeOK ==
    /\ kind \in Kinds
    /\ seqNum \in SeqNums /\ xmitSeqNum \in SeqNums
    /\ pktReady \in Nat
    /\ slotSn \in [Slots -> SeqNums \cup {-1}]
    /\ slotPkt \in [Slots -> Nat \cup {-1}]
    /\ nackEnabled \in BOOLEAN
    /\ owner \in Producers \cup {NoThread} /\ leaked \in BOOLEAN
    /\ ppc \in {"idle", "loop", "claimed", "filled"}
    /\ claimedSn \in SeqNums /\ remaining \in Nat
    /\ spc \in {"pend", "ready", "fetched"} /\ sendSlot \in Slots
    /\ written \in Nat /\ lastSent \in Nat \cup {-1}
    /\ resent \in [asked : Nat \cup {-1}, got : Nat \cup {-1}]

\* _media_get_queue_fullness: how many packets the sequence numbers say are queued.
Queued ==
    IF seqNum >= xmitSeqNum THEN seqNum - xmitSeqNum ELSE SeqMod - xmitSeqNum + seqNum

\* The semaphore and the two sequence numbers, which no lock ties together, agree,
\* wrapped or not: each queued packet has one token, in the semaphore, with the send
\* thread, or about to be posted; the ring never holds more than RingSize - 1.
PacketAccounting ==
    /\ pktReady + (IF spc = "ready" THEN 1 ELSE 0) + (IF ppc = "filled" THEN 1 ELSE 0) = Queued
    /\ Queued <= RingSize - 1

\* The RingSize - 1 newest packets are in their slots under their sequence numbers: none
\* is overwritten before it was sent, by a producer that claims the next slot while the
\* send thread is between counting xmit_seq_num and sending, or while it is still wanted
\* for a retransmission.
RecentIntact ==
    \A k \in 0..(written - 1) : written - k < RingSize =>
        /\ slotPkt[k % RingSize] = k
        /\ slotSn[k % RingSize] = SeqOf(k)

\* A retransmission carries the packet the ingest asked for, although the slot is
\* labelled with a new sequence number before the new packet is in it.
ResendIsExact == resent.got = resent.asked

\* The ring implements the packet stream.
Promise == INSTANCE PacketStream WITH
    Backlog <- RingSize - 1, Window <- RingSize,
    accepted <- written, sent <- lastSent, again <- resent.got
IsPacketStream == Promise!Spec

\* Every packet that was written is sent.
EverySent == \A k \in 0..(MaxPackets - 1) : (written > k) ~> (lastSent >= k)
=============================================================================
