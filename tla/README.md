# Verification of the FTL SDK

TLA+ models of the FTL SDK (`libftl`), the client library that streams H.264
video and audio to an ingest server: what its threads do to each other's state,
checked with TLC on small instances and, but for liveness, proved with TLAPS for
all instances.

Paths below are relative to the repository; `ftl_helpers.c`, `ftl-sdk.c`,
`handshake.c`, `ingest.c` and `media.c` are in `libftl/`. The POSIX build is the reference
(`libftl/posix/threads.c`).

## 1. Inventory of the system

A handle (`ftl_stream_configuration_private_t`) is created, connected,
disconnected and destroyed by the application; it is shared by all threads.
`ftl->state` is a word of flags (`ftl_private.h:146-160`), each set, cleared and
read under `state_mutex` (`ftl_helpers.c:158-179`).

| Part | State | Operations | Talks to |
| --- | --- | --- | --- |
| Status queue (`ftl_helpers.c:185-262`) | linked list, count, semaphore, mutex, `thread_waiting`, `FTL_STATUS_QUEUE` | enqueue (any SDK thread, logging), dequeue (application), create and destroy (`ftl-sdk.c:32-104, 275-342`) | everything reports through it |
| Session (`ftl-sdk.c:106-132, 231-273`, `handshake.c:37-310`) | `FTL_CONNECTED`, thread flags and handles, control socket, `disconnect_mutex` | connect, disconnect, two kinds of teardown | starts and joins all threads |
| Connection status thread (`handshake.c:433-537`) | its flag, time of the last ping | notices a drop, tears the session down, reports it | session, status queue |
| Keepalive thread (`handshake.c:396-431`) | its flag | sends `PING` every 5 s | control connection |
| Control connection (`handshake.c:312-394`, `ftl_helpers.c:35-156`) | socket, response buffer | HMAC exchange, commands, response codes | ingest |
| Media set-up and destruction (`media.c:95-320`) | `FTL_MEDIA_READY`, `FTL_SPEED_TEST`, the media mutexes, the rings, the media socket | `media_init`, `media_destroy` | session, senders |
| Senders (`media.c:581-767`) | `is_ready_to_send`, `has_sent_first_frame`, `wait_for_idr_frame` | `media_send_audio`, `media_send_video` on application threads | packet ring |
| Packet ring (`media.c:322-345, 787-939`) | 2048 slots, two 16-bit sequence numbers, `pkt_ready`, slot mutexes | claim, fill, send, resend | send threads, receive thread |
| Send threads and pacing (`media.c:1197-1330`) | transmit level | take packets off the ring at the peak rate | ring, socket |
| Receive thread (`media.c:1051-1195`) | round-trip samples | retransmission requests, ping answers | ring |
| Ping thread, sender reports, statistics (`media.c:1332-1513`) | statistics, NTP base | one packet per 25 ms, reports per second | socket, status queue |
| Speed test (`media.c:409-579`) | `FTL_SPEED_TEST` and all it borrows from audio | fills the audio ring for a while, measures, resets | senders, `media_destroy` |
| Packetizer (`media.c:941-1048`) | `fua_nalu_type` | FU-A fragments, RTP headers | senders |
| Adaptive bitrate (`media.c:1517-1987`) | window of samples, current bitrate, freeze, stability | lower, raise, revert, report | application's callback, status queue |
| Ingest selection (`ingest.c`) | list of ingests, round-trip times | fetch, ping each, choose | session |
| Sample application (`ftl_app/main.c`, `file_parser.c`) | two threads; files, the unit read ahead, the time of the frame | reads and sends media; starts over at the end of a file; reconnects when told of a drop | the API |

Vendored or mechanical parts (HMAC and SHA-512, sockets, the Windows layer, the
bit-level parsing of H.264, scripts) carry no logic of their own that a state
model would show.

What makes this code hard: the status thread tears down, on its own, what the
application built and may be using; flags are set for a thread before, or after,
it exists and are shared by successive sessions; the ring is used by three
threads under three locks; and error paths return with locks held.
`PROJECT.json` lists each such hazard at its line, with the properties that would
catch it.

Correctness of each part, in a sentence:

* status queue: a bounded FIFO that drops its oldest message; a consumer never
  wakes for nothing; destruction ends;
* packet ring: each packet is sent once, whole and in order; a retransmission is
  the packet that was asked for;
* control connection: each answer is taken for the command it answers; a dead
  ingest is noticed in bounded time, a living one is never given up; the reason
  reported is true; a connect returns;
* ingest selection: the choice is made when every ping has ended, and is the
  ingest with the shortest time;
* session: a teardown stops everything that was started, once, and nothing else;
  every drop is reported; every call returns;
* media gate: nobody uses the rings after they were freed; audio waits for video;
* video path: a unit arrives whole or not at all; after a gap the stream goes on
  with a key frame; marker and time change with the picture;
* pacing: no packet waits twice, no burst exceeds the limit, the thread ends;
* adaptive bitrate: a bitrate is judged by its own samples; a revert freezes
  upgrades; the bitrate converges when the network does.

## 2. Modules

| Module | Models | Checked by |
| --- | --- | --- |
| `DropOldestQueue` | the promise of the status queue | refinement, proved |
| `StatusQueue` | status queue, `ftl_ingest_get_status`, `ftl_ingest_destroy` | `StatusQueue.cfg`, `StatusQueueStranded.cfg` |
| `StatusQueue_proofs` | theorems about `StatusQueue` | TLAPS |
| `PacketStream` | the promise of the packet ring | refinement, proved |
| `NackRing` | the packet ring of one component with its threads | `NackRing.cfg` |
| `NackRing_proofs` | theorems about `NackRing` | TLAPS |
| `Session` | connect, disconnect, destroy, status thread, teardown | `Session.cfg`, `SessionReuse.cfg` |
| `Session_proofs` | theorems about `Session` | TLAPS |
| `MediaGate` | senders, speed test, `media_init`, `media_destroy` | `MediaGate.cfg`, `MediaGateLeak.cfg` |
| `MediaGate_proofs` | theorems about `MediaGate` | TLAPS |
| `BitrateControl` | `adaptive_bitrate_thread` | `BitrateControl.cfg` |
| `BitrateControl_proofs` | theorems about `BitrateControl` | TLAPS |
| `IngestSelection` | the pings of the hosts and the choice among them | in `Connecting` |
| `ControlConnection` | handshake, keepalive and connection status over two streams of lines | in `Connecting` |
| `Connecting` | the two together: a connect by name or to "auto" | `Connecting.cfg`, `IngestUnresolvable.cfg` |
| `Connecting_proofs` | theorems about `Connecting` and its two parts | TLAPS |
| `FrameSource` | the sample application's reading of a video file | in `VideoPath` |
| `VideoPath` | application, `media_send_video` with its packetizer, send thread, ingest | `VideoPath.cfg` |
| `VideoPath_proofs` | theorems about `VideoPath` and `FrameSource` | TLAPS |
| `Pacing` | the flow control of `video_send_thread` | `Pacing.cfg` |
| `Pacing_proofs` | theorems about `Pacing` | TLAPS |
| `*MC` | the instances TLC checks | |

Definitions whose comment begins with "Mutant" are altered copies of the
definition that follows: each breaks one property, which shows that the property
depends on that piece of code. No specification uses them.

### StatusQueue

A message is its serial number, the list a sequence (`head`). `count`, `value`
(the semaphore), `threadWaiting`, `stateFlag` and `priv` are the fields of the
same names. A critical section of `status_q.mutex` is one step (`AppendMsg`,
`PopHead`, `DestroyDrain`); before and after it, each access to shared state is a
step of its own: the check of the flag, the store to `thread_waiting`, the
semaphore, the destroyer's look at `thread_waiting`. `mutex` is a variable
because a failed `malloc` in `enqueue_status_msg` returns with it locked
(`EnqueueNoMemory`). The mutex is recursive, so its owner goes on. After
`DestroyFree` no step touches the queue: access to the freed handle is undefined
and is not given a meaning.

### NackRing

One component, audio or video (`kind`). Packets are numbered without bound; the
program's `seqNum` and `xmitSeqNum` wrap at `SeqMod`, and `slotSn` and `slotPkt`
say which sequence number a slot is labelled with and which packet's bytes it
really holds. The steps are the critical sections of `nack_slots_lock` and of the
slot mutexes, so that a claimed slot is labelled before it is filled and
`xmit_seq_num` is counted before the packet is sent. `leaked` remembers that
`media_send_audio` returned with its mutex locked. `Resend` is the receive thread
for a packet the ingest knows of and reports while its sequence number is still
unambiguous. The reset of the sequence numbers by the speed test is not in the
module, nor is the ring's destruction.

### Session

The n-th call of `ftl_ingest_connect` starts the n-th instance of each thread; a
flag and a thread handle exist once (`flag`, `handle`). The teardown is a
subroutine (`Teardown`) with a return label: both the application's calls and the
status threads run it, one access to shared state per step; `WaitFor` and `Join`
are `os_wait_thread`, which binds the thread the handle names when it is called.
The receive, send and ping threads are one worker, "media"; its partial failures
are those of `media_init` that `_internal_media_destroy` undoes. Whether the
ingest drops the session is a free choice (`IngestDrops`), and stands for
everything that makes `connection_status_thread` give up.

### MediaGate

Each thread makes the API calls `Calls` gives it. Every read or write of a flag,
of an unprotected field and every lock operation is a step. The recursive mutexes
have an owner and a depth, since the leak of `audio.mutex` and the unlock by
`media_destroy` on the same thread depend on both. `Session` guarantees that
`media_init` and `media_destroy` of a handle do not overlap (the application uses
one thread for its calls), which the module assumes (`NobodyManages`), as it
assumes that nobody is inside a send when the application connects again.

### BitrateControl

One decision of the thread's loop is one step; time passes in its sleeps. The
floating-point statistics are abstracted to the verdict of
`is_bitrate_reduction_required` and `is_bw_stable`; the callback's answer is a
choice. The ages stop at the limit after which they make no difference. The
comment at `media.c:1657-1659` and `BITRATE_UPGRADE_FREEZE_TIME_MS` speak of 10
minutes; the code uses 180000 ms (`media.c:1865`), and `Freeze` is that number.

### IngestSelection, ControlConnection, Connecting

`IngestSelection` has a step for every access of a ping thread to the list of
ingests (`PingBegins` stores the 1000 ms that stand for no answer, `PingEnds` the
measured time) and one for each turn of the caller's two loops. The list itself,
which an HTTP request brings, is a choice; so is what each ping comes to. The
same steps serve `ingest_find_best` and `ftl_find_closest_available_ingest`.

In `ControlConnection` each direction of the TCP connection is a sequence of
lines with their age. `recv_all` returns when the last byte read ends a line, so a
read takes any number of the lines that have arrived and the client looks at the
first only. The handshake is a phase per command that is answered; a read that
gets nothing ends by `SOCKET_RECV_TIMEOUT_MS` (`NoAnswer`). Once the connection is
up, time passes in ticks of `STATUS_THREAD_SLEEP_TIME_MS`: `StatusRound` is one
round of `connection_status_thread`, `KeepAlive` the send of
`control_keepalive_thread`. The network delivers everything a living ingest says
within `MaxDelay` ticks; an ingest may send an error, stop or become unreachable
at any moment, and what it sent may then be lost. The teardown is one step here,
since `Session` has its interleavings.

`Connecting` conjoins the two: a connect to "auto" fetches the list, waits for the
choice and resolves the chosen name; a connect by name goes straight on.

### FrameSource, VideoPath

`FrameSource` is the loop of the sample application's `main` around
`get_video_frame`: a file is a sequence of NAL units of which type, `frame_num`,
picture, length and whether others refer to it matter. The end of a frame is found
from the unit that was read ahead; at the end of the file the pointers to that
unit have no value, so `GetVideoFrame` leaves the answer open there. What is assumed
of a file is what H.264 says of one (`FilesAssumption`, `PicturesAssumption`): a
picture is some headers and then some slices, all slices with one `frame_num`;
parameter sets and key frames are referred to.

`VideoPath` continues with `media_send_video`: units held back until audio flows
and a key frame comes (`SendVideo`), the packets (`MakePacket`, the arithmetic of
`_media_make_video_rtp_packet` on byte positions; the FU-A header is its start and
end bits), a full ring (`QueueFull`), a reconnect between two calls (`MediaDestroy`,
`MediaInit`), the send thread with loss, and an ingest that puts fragments together
by nothing but the start and end bits and gaps in the sequence numbers. The ring is
the queue that `NackRing` is shown to implement. `last`, `cut` and `gap` are history.

### Pacing

The clock runs in ticks finer than a millisecond, because the thread counts whole
milliseconds and drops the rest at every call of `_update_xmit_level`. `level`,
`first` and the rates are the fields and locals of the same names. A packet is its
size. `debt` is history: it is the largest excess, over all intervals that end
now, of the bytes sent above those that `MaxRate` allows. That a thread between
its sleep and its packet does not look at `FTL_TX_THRD` is in `MaySend`.

## 3. Runs

Runs that pass:

| Run | Instance | Shows |
| --- | --- | --- |
| `status_queue` | 2 consumers (one times out), 1 SDK thread, queue of 2, 4 messages, allocations fail | accounting of tokens, the refinement of the queue that drops its oldest message, and that destruction ends |
| `nack_ring` | ring of 3, sequence numbers modulo 6, 8 packets in calls of 1 or 2, 2 producers | ring and sequence numbers wrap; order, exact retransmission, refinement, every packet is sent |
| `session` | 3 connects, any thread creation fails, the application reconnects when told of a drop | teardown joins the right threads, once; nothing is left behind; drops are reported; calls return |
| `media_gate` | 2 application threads and the status thread, 2 `media_init`, full rings | nothing freed is used; audio waits; calls end unless `audio.mutex` leaked |
| `bitrate` | 3..10 units, window of 2 samples | full windows, freeze, convergence, stability report |
| `connecting` | a PING every 2 ticks, answers within 3, 2 connects, up to 2 hosts with 30 or 700 ms | pings are joined before the choice; answers match commands although reads merge them; a gone ingest is noticed in time and for the true reason; a connect returns |
| `video_path` | 2 files, packets of 5 bytes (units make one to three), ring of 4 | whole units only; a key frame after a gap; marker and time change with the picture; no deadlock |
| `pacing` | packets of 1 to 5 bytes, bursts of 3 ms, rates of 0, 1 and 2 bytes per ms, 2 ticks per ms | one sleep per packet, bounded bursts, the thread ends |

Runs that end in a counterexample show where the code does not do what its own
comments or texts say (`findings` in `PROJECT.json` quotes them):

| Run | Property | What happens |
| --- | --- | --- |
| `status_stranded` | `NoStrandedWaiter` | a consumer between the flag check and `thread_waiting` gets no DESTROYED event |
| `session_reuse` | `ShutsDownItsOwn` | an unjoined status thread shuts down the next session |
| `media_gate_leak` | `DestroyEnds` | the leaked `audio.mutex` blocks `media_destroy` for ever |
| `ingest_unresolvable` | `ResolvableChosen` | an ingest without an address "has" a round trip of 4 ms and is chosen |

Further disagreements the models contain, for which no run is kept:

* `ftl_ingest_connect` on a connected handle fails with "already connected", and
  then disconnects it, as after any failure (`ftl-sdk.c:126`). `Session` shows it
  when `ConnectWhen` contains "connected"; `TeardownExclusive` fails there as well.
* A drop while the application is still in `media_init` tears the session down
  before `FTL_MEDIA_READY` is set, so the media threads stay (`media.c:297`); a drop
  while the bitrate thread is started leaves `FTL_BITRATE_THRD` set over a thread
  that was torn down before (`media.c:1647`), and the next teardown joins the new
  bitrate thread too early. Both need `EarlyDrop`.
* A connect clears `FTL_SPEED_TEST` (`media.c:207`), and so does the end of a speed
  test (`media.c:576`), whoever has set it. If one thread connects between the first
  two lines of another thread's `media_speed_test`, or ends a test of its own while
  the other's goes on, a teardown does not see the test and frees the ring it fills.
  The theorem about `MediaGate` therefore has the hypothesis `OneTester`.
* A speed test during a stream closes the gate that audio had opened
  (`media.c:572`), in `MediaGate`.
* An upgrade the application refused is "reverted" if the network becomes
  constrained soon after another (`media.c:1870`), in `BitrateControl`.
* Two pictures of which the first is not referred to and the second has the same
  `frame_num` are taken for one frame (`file_parser.c:107`). `MarkerEndsPicture`
  in `VideoPath` names this case as its exception.

Bounds. The queue of two overflows twice with four messages, and a third consumer
would repeat one of the two kinds. The ring of three is the smallest in which a
slot can be claimed while another is being sent and a third waits; eight packets
wrap the sequence numbers (six) once and the ring twice. Three connects let a
thread of the first session meet the third. In `media_gate`, two inits and one
packet per speed test are enough for a test that spans a destruction and a sender
that spans two; deeper nesting of the leaked mutex only counts its depth.
The bitrate range holds two halvings and four upgrades. In `connecting`, answers
take longer than the interval of the PINGs, so that several are on their way and
are read at once; the second connect begins with whatever the first left; the two
times lie on both sides of the 500 ms that stand for an unpinged ingest. In
`video_path`, units of 1 to 7 bytes meet every boundary of the packet arithmetic
(a packet that just fits, one byte more, a last fragment of one byte), a ring that
holds three packets is full in the middle of a unit, and the files are repeated
without bound. In `pacing` a packet costs up to five milliseconds of the slower
rate and the idle time exceeds the longest burst; the theorems lift these bounds.

What the passing `session` run excludes, and why: a drop while the application is
still inside `ftl_ingest_connect` or starting the bitrate thread (`EarlyDrop`), a
reconnect right after a disconnect, and a connect on a connected handle, all of
which are disagreements listed above.

Fairness. `StatusQueue`, `Session`, `NackRing` and `BitrateControl` assume weak
fairness of a thread inside a call or a loop: the operating system schedules it.
Nobody is obliged to make a call, drop a session or answer. In `NackRing` the
application also finishes a call it began. `Converges` in `BitrateControl` assumes
in its own premise that the network settles and the application agrees.
`Connecting` assumes that a call that was made goes on: its ping threads run, names
are looked up in finite time, and a read of the socket ends, if by nothing else
then by its timeout; the ingest owes nothing. `Pacing` assumes that the thread runs,
that time passes, and that the semaphore a stopped thread waits for was posted, as
`media_destroy` does. `VideoPath` has safety properties only. `MediaGate` assumes
strong fairness of
a thread's steps, since `os_lock_mutex` waits for a mutex that other threads take
and release again and again; a POSIX mutex that starves a waiter for ever would
break it. Deadlock is checked in `media_gate` and `video_path`; the other systems
can stop (the handle is freed, a thread ends, the bound on messages or connects is
reached).

## 4. Proofs

### Status queue

`StatusQueue_proofs` proves, for every number of consumers and producers, every
queue length and bound:

* `Typing`: `Spec => []TypeOK`;
* `QueueAccounting`: `Spec => [](TokenAccounting /\ NewestWindow /\ NoEmptyAnswer)`,
  and from it `HoldsNewest` and `NeverEmpty`;
* `Refinement`: `Spec => IsDropOldestQueue`.

They assume `QueueAssumption` only. The inductive invariant is `TypeOK` with
`Accounting`, the conjunction of the three: the count is the length of the list,
which never exceeds the limit; the semaphore plus the consumers that hold a token
is that length until the destruction empties the list; so a consumer with a token
finds a message, and does not answer "empty"; and the list holds the newest
messages in order. No one of them is inductive without `TokenAccounting`: that a
pop finds a message needs it. The sequence
and cardinality facts (appending, removing the head, one consumer joining or
leaving the holders) are lemmas, cited where an action needs them. Each theorem
goes through the initial state, one step per action, and PTL.

### Pacing

`Pacing_proofs` proves, for every packet size, burst length, granularity of the
clock and set of rates:

* `Typing`: `Spec => []TypeOK`, with the bound on how far a packet overdraws the level;
* `SleepsOnce`: `Spec => []OneSleepIsEnough`;
* `BurstIsBounded`: `Spec => []RateBound`.

They assume `PacingAssumption`: a rate is 0, which bypasses the bucket, or at least
one byte per millisecond (from 1 to 7 kbps the program divides by zero), and the
clock is monotonic, which is in the model. `OneSleepIsEnough` is not inductive: that
the level is positive after the sleep needs how long the thread slept
(`SleepInv`: at least `SleepMs`, and it has been asleep as long when it updates the
level) and that the level was above `-Mtu` before (`TypeOK`). `RateBound` needs
`DebtInv`, which relates the debt to the level: the debt is at most what the level
lacks to its limit, less what the ticks since its last computation will add; only the
packet sent right after a long pause is not covered so.
The products and quotients are lemmas over arbitrary integers (`Div`,
`GainFacts`, `UpdateCovers`, `SendCovers`), so that the steps of the proof are linear.

### Adaptive bitrate

`BitrateControl_proofs` proves, for every range of bitrates, step, window, cooldown
and freeze:

* `Typing`: `Spec => []TypeOK`: in particular the bitrate stays in its range;
* `JudgedByItsOwn`: `Spec => FullWindow`;
* `FreezeHolds`: `Spec => FrozenAfterRevert`.

They assume `BitrateAssumption`. The invariant adds to `TypeOK` that a decision is
made on a full window, that outside a cooldown the window holds exactly the samples
since the last change (`WindowInv`; in a cooldown the buffer still holds the old
ones), and that the time the thread measures its freeze by is the time since the
latest revert (`FreezeInv`).

### Packet ring

`NackRing_proofs` proves, for every size of the ring, modulus of the sequence numbers
and number of producers and packets, under `RingAssumption` (the modulus is a
multiple of the ring's size, as 65536 is of 2048):

* `Typing`, `Accounting`, `Window`, `Retransmission`: `TypeOK`, `PacketAccounting`,
  `RecentIntact` and `ResendIsExact` are invariants;
* `Implements`: `Spec => IsPacketStream`, the refinement of `PacketStream`.

None of the last three invariants is inductive. `CountersInv` says which unbounded
numbers the wrapped `seqNum` and `xmitSeqNum` stand for and that one token exists
for each packet that waits; `CarriedInv` what the producer and the send thread keep
between two critical sections; `WindowInv` what is in the slots, one slot more than
`RecentIntact` promises while no slot is claimed. Remainders are the difficulty: the
lemmas `DivMod` to `ModPick` reduce them to two facts, that numbers closer than the
modulus have different remainders, and that the slot of a sequence number is the slot
of the packet. `Implements` needs that the packet the send thread takes out of the slot is
the one `xmitSeqNum` named, which is `WindowInv` at that packet.

### Session

`Session_proofs` proves `Typing` for all constants and, for any number of connects,
under the hypothesis `Told`:

* `OneTeardown`: `Spec => []TeardownExclusive`;
* `Joins`: `Spec => []NoBadJoin`;
* `AllOrNothing`: `Spec => []NothingLeftBehind`.

`Told` is the application that `ftl_app` is: it connects when it was told of a drop
or its connect failed (`ConnectWhen \subseteq {"told"}`), and the ingest drops no
session that is being set up (`~EarlyDrop`). The hypothesis cannot be weakened: with
`EarlyDrop`, or a reconnect after a disconnect, TLC finds each of the three violated,
and with a connect on a connected handle `TeardownExclusive` and `NothingLeftBehind`
(section 3). What makes the three inductive is a description of each point of the
program: who holds `disconnect_mutex` (`LockInv`; a failed connect tears down without
it), what a call leaves (`ResultInv`), which status thread can still act
(`StatusInv`), which flags and threads a teardown has already taken down and which are
still up (`TeardownInv`), how far a connect has built (`ConnectInv`), and what holds
between the calls (`RestInv`). The mutex alone excludes nothing in a failed
connect; that no status thread acts then is `StatusInv` with the order in which
`_ingest_connect` creates the threads.

### Media gate

`MediaGate_proofs` proves, for any number of threads, packets and calls, under
`GateAssumption`:

* `Typing`: `Spec => []TypeOK`;
* `AudioWaits`: `Spec => []AudioWaitsForVideo`;
* `NoUseAfterFree`: `Spec => []UsedWhileAllocated`, if `OneTester`.

The senders need which thread holds which mutex at which line (`MutexInv`) and that
nothing is freed while `FTL_MEDIA_READY` is set, nor that flag cleared while a ring is
written (`ReadyInv`). The speed test takes no mutex: `TestInv` says that while a test
that found `FTL_MEDIA_READY` set goes on, either it still is, or whoever cleared it
waits for `FTL_SPEED_TEST`. This is false as soon as another thread clears that flag,
so `OneTester` demands that one thread runs the speed test and, if a thread connects at
all, that it is the same (any thread may destroy). TLC violates `UsedWhileAllocated`
with a second thread that connects.

### Connecting

`Connecting_proofs` proves, for all lists of hosts, times, intervals and delays, under
`SelectionAssumption` and `ControlAssumption`:

* `Typing`: `Spec => []TypeOK`;
* `SettledChoice`: `Spec => []Settled`;
* `Matching`: `Spec => []AnswersMatch`;
* `Noticed`: `Spec => []NoticedInTime`, if `MaxDelay >= 1`;
* `Reason`: `Spec => []ReasonIsTrue`, if `MaxDelay < 5 * PingEvery`.

The choice needs that the pings up to the cursor were joined and `best` is the best
of them (`Joined`). `HandshakeInv` is why answers match: in each phase the ingest has
read either the commands answered before or one more, and in the first case no
accepting answer is on its way. `ReasonIsTrue` needs `PongInv` (while the ingest lives
a PING or its answer is on its way that is younger, by at most an interval, than the
last answer read), `GoneInv` (only an ingest that is gone has said an error) and `AgeInv`
(no line is older than `MaxDelay` and a round). Both hypotheses are
tight: an answer that takes no time is still read by the next round only, a tick
after an ingest that ended meanwhile; and with answers as late as five intervals (10 ticks with
`PingEvery` of 2, where 9 is still right) a living ingest is given up.

### Video path

`VideoPath_proofs` proves, for all files, packet sizes and lengths of the ring, under
`FilesAssumption`, `PicturesAssumption` and `PacketAssumption`:

* `Typing`: `Spec => []TypeOK`, with the size of every packet;
* `Reassembly`: `Spec => []ReassemblesUnits`;
* `KeyFrameFirst`: `Spec => NothingAfterAGap`;
* `Markers`: `Spec => MarkerEndsPicture`;
* `Times`: `Spec => MarkerMovesTime`.

`Reassembly` follows from `ChainInv`: each packet in the ring goes on where the one
before it ended or starts a unit, and the first goes on where the ingest is, unless the
ingest is skipping after a gap; so the end bit is seen with all bytes before it. The
arithmetic of fragments (a packet ends its unit exactly when the rest fits) is the
lemma `PacketIs`. `KeyFrameFirst` needs `GapInv`: a gap sets
`wait_for_idr_frame`, and only an SPS that is being queued has cleared it. The marker
properties relate the packet queued last to what `get_video_frame` saw (`ReadInv`,
`MarkInv`); `PicturesAssumption` is needed by `Markers` only, to turn what the program
looks at into pictures.

### What is only model-checked

Liveness: `DestroyEnds`, `EverySent`, `DropReported`, `CallsReturn`, `CallsEnd`,
`Converges`, `StableIsReported`, `ConnectEnds` and `ThreadExits` rest on fairness, and
the prover does not reason about ENABLED. The refinements that are proved are those of
the safety parts; `DropOldestQueue` and `PacketStream` have no fairness. Every other
property of a passing run is a theorem. The runs that end in a counterexample need no
proof.

## 5. Plan

1. Extend the model: `MediaThreads` (the start and stop of each media thread, with
   the `FTL_TX_THRD` that the two send threads share); the reset by the speed test in
   `NackRing`; the timers of pings, sender reports and statistics with the
   conversions to NTP time; the two threads of the sample application over `Session`.
2. Prove: the theorems about whatever these modules add, beginning with the reset of
   the sequence numbers, which `CountersInv` and `WindowInv` do not survive while packets wait;
   and, with a hypothesis weaker than `Told`, which parts of `NothingLeftBehind` an
   application keeps that reconnects after a disconnect.

## 6. Not modelled

* The contents of messages and packets, logging, formatting, HTTP and DNS, sockets
  and the network beyond loss, delay and retransmission. Timeouts are choices except
  where a property is about time (`ControlConnection`, `Pacing`, `BitrateControl`).
* The order in which `media_init` starts and `_internal_media_destroy` stops the
  media threads: one worker in `Session`.
* The audio packetizer (it cuts a packet to size), RTP timestamps, pings, sender
  reports and statistics.
* HMAC and SHA-512, the Windows layer, bit-level H.264 parsing and the build
  scripts: no behaviour that a state model would show.
* Undefined behaviour after the handle or a ring was freed: the models stop there,
  and properties say whether the code can reach it.
* A rate of 1 to 7 kbps, by which the send thread and the speed test divide.
