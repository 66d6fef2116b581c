# Specifications of pvlib

pvlib reads SMA inverters over bluetooth. This directory holds TLA+ models of
its communication stack and of what it makes of the answers, the configurations
TLC checks them with, and proofs about every layer that TLAPS checks.

## The system

    application
        | pvlib_open, _connect, _get_*, _disconnect, _close      src/src/pvlib.cpp
    Smadata2plus   session: discovery, login, time, requests     src/src/smadata2plus.cpp
        | read, write: one message
    Smanet         framing: HDLC bytes, escapes, checksum        src/src/smanet.cpp
        | read, write: fragments of a byte stream
    Smabluetooth   link: handshake, receive thread, frame queue  src/src/smabluetooth.cpp
        | read, write: bytes
    Rfcomm         socket                                        src/src/rfcomm.cpp

| Component | State | Operations | What is hard | What makes it correct |
|---|---|---|---|---|
| Smabluetooth | `state`, `mac`, `num_devices`, `events`, `packets`, `quit`, `thread` | connect, disconnect, destructor, read, write, getSignalStrength; the receive thread with cmd_02, 04, 05, 0A | two threads, a condition variable with timeouts, a lock that is released between a test and what depends on it, a join under the lock, a bounded queue | the handshake stays within connect(), no thread is leaked, no wakeup is lost, frames come out in order and only an overflow loses one, calls return |
| Smanet | `read_buf`, `size` | read, write | a frame cut anywhere, an escape cut from its byte, bytes left for the next call, timeouts in the middle, an 8-bit size | messages once and in order, damage stays local, a failure is an error |
| Smadata2plus | `devices`, `transaction_active`, `transaction_cntr` | connect (logout, discoverDevices, authenticate, syncTime), readAc, readDc, readStats, readStatus, readInverterInfo, readDayYield, readEvents, disconnect | answers that are late, lost, or of another inverter, retries, failures half way, a counter that wraps | transactions do not nest and end on every path, an answer belongs to its request, the list of devices is the plant, calls end; what is stored is what the answer holds, whatever the order of its records and the cut of an archive |
| Rfcomm | `connected`, `socket` | connect, disconnect, read, write, destructor | failures at every point of connect, the receive thread reading while the socket is closed | no descriptor leaks, the connection outlives its reader |
| pvlib | the plant: a connection and a protocol | open, connect, disconnect, close | order of calls and of destruction | as above |
| registries, Log, byte helpers, example | tables filled once; a log level | | | not modelled |

All calls are synchronous. The only concurrency is the receive thread of
Smabluetooth: it shares the members of Smabluetooth with the application
thread under `mutex`, and the members of Rfcomm with no lock at all.

The hazards of the code, each at its line, are the `hazards` of PROJECT.json.

## Modules

- **FrameWindow** is the abstract mailbox: numbered frames, the newest
  `Capacity` of them waiting, the reader takes the oldest.
- **Smabluetooth** is the link. A critical section without a wait is one
  action; `connect()` is cut at the points where the thread waits or another
  thread may run (`check`, `connWait`, `lockedJoin`, `join`, `start`), cmd_02 at
  the unlock before its answer. `wpc` and `apc` are the program counters of the
  receive and the application thread, `notified` is the wakeup in flight of the
  condition variable. `received` and `lastRead` are history: data frames are
  numbered by arrival; so is `told`, what the receive thread of the current
  connect() has been told. The frames of the network are an input (`Frame`), with
  every combination the handlers tell apart, our own address in a 0x0A being any
  six bytes, also null ones. `quit` starts with either value, as
  the constructor leaves it uninitialised.
- **Smanet** is the framing. An action is one iteration of the loop of read();
  `Fill`, `FillTimeout` and `FillFails` are the three outcomes of con->read() in
  it. `size` keeps the arithmetic of its 8 bits: it wraps at `BUF_SIZE + 1`, and
  BUF_SIZE is 255 in the code. Bytes are integers with their real escapes; the four
  header bytes are one and the two checksum bytes are one; the checksum is ideal,
  it accepts the content of frames write() makes and nothing else. Bytes of
  read_buf past those read keep their value (Smabluetooth::read copies the rest of an earlier frame
  there).
- **Smadata2plus** is the session above a mailbox of answers. `pc` is the
  request in progress, `cnt` its retries, `tag` the counter the last transaction
  was sent with. The inverters are external: `owed` are the answers each will
  still send. With `Timely` an answer comes before a read gives up and nothing
  fails; without it answers come late, damaged, or never, and writes fail.
  `ReadFails` is a read without an answer, with frames waiting or not. Several
  inverters may answer a query to all (`AskAll`): the one of syncTime(), and with
  `Timely` every inverter answers the one of readStatus(), which is sent by the
  requestChannel() that discovery uses. The code reads one answer of each; the
  others stay in the mailbox, and `leftover` is history that says so. `link` is
  what a later connect() finds in Smabluetooth: `Reconnect` fails after a session,
  because the state of the link is never reset, and ends the program after a
  disconnect(), as in link_close_aborts. With `RequestsGoOn` FALSE no request is
  made once an answer was left over.
- **Plant** extends Smabluetooth with Rfcomm and the pvlib functions that use
  both: the same two threads, with the calls in the order pvlib makes them. A
  socket is named by the connect that opened it; `Local` is the descriptor that
  Rfcomm::connect() works with while it runs, first of the adapter, then of the
  socket (`OpenAdapter` to `RfcommOpens`), each with its error paths. The session is reduced to
  reads and writes that end well or badly.
- **Readings** extends Smadata2plus with what a request stores for the
  application: RecordAnswer and ArchiveAnswer, together with the decoding of the
  answer, are `ReadRecords` and `ReadArchive`. What an answer holds is an input,
  chosen when it is read: records (`cnt`, `idx`, `value` as readAc, readDc and
  readStats look at them), attribute lists (`parseAttributes`, readStatus,
  readInverterInfo), and archives of totals or events cut into packets.
  `TakePacket` has the shrinking `packet.len` of requestArchiveData, `Wanted` the
  filters by time and validity, `NextYield` the loop of readDayYield. The results
  are compared with reference definitions that look at the whole content at once
  (`Latest`, `Selection`, `Sent`), not record by record. What an answer may hold
  is assumed by name: whole records, of trackers that pvlib_dc has room for
  (`ContentsAssumption`), and archives whose packets fit the buffer, whose entries
  come in the order of time and whose totals are of the end of a day
  (`ChunksAssumption`); `RoomAssumption` and `ObjectsAssumption` are about the
  constants of the code. `TimelyReadings` says that requests are made in time and
  before an answer was left over: what is decoded after that is not modelled.
  Packets have at least one entry and a header that announces what they hold; a
  packet that is too short or announces none is a `ReadFails` of Smadata2plus. TLC
  evaluates the assumptions for MCReadings.
- **MCSmabluetooth, MCSmanet, MCSmadata2plus, MCReadings, MCPlant** give the
  constants of these modules small values.
- **Smabluetooth_proofs, Smanet_proofs, Delivery_proofs, Plant_proofs,
  Smadata2plus_proofs, Timely_proofs, Readings_proofs** hold the theorems, and
  **Sequence_lemmas** what they need of numbers and sequences; see Proofs.

How they compose: Plant is Smabluetooth with its socket and its caller (every
step of a plant is a step of the link or a stutter of it, `PlantDrivesLink`);
Smabluetooth implements FrameWindow (`MailboxRefined`); Smadata2plus takes a
mailbox of this kind as its `inbox`; Readings is Smadata2plus with data
(`ReadingIsSession`).

Definitions named `X_Suffix` with the comment "Mutant" are faulty variants of
`X` that show that the properties can fail; no specification uses them.

## Runs

| Run | What it checks | Bounds | Result |
|---|---|---|---|
| link | type, handshake, threads, wakeups, queue, refinement of FrameWindow; calls return on a quiet link, disconnect always | 2 addresses, -1, 0 and 1 devices, queue of 2, 3 data frames | holds, 310 000 states |
| link_connect_hangs | a connect() that gives up returns | 1 data frame | violated |
| link_close_aborts | calls in any order do not end the program | 4 data frames | violated |
| smanet_framing | type and bounds of buffers, nothing twice, loss is local, an escape meets its byte | 3 messages of 3 kinds, fragments of 2 to 5 bytes, read_buf of 5, frames of 6 bytes, 1 damage (a fragment lost, or cut off where read_buf ends), 1 failure | holds, 2 594 000 states |
| smanet_link_down | a failed call returns no message | 1 message | violated |
| session_timely | the plant is found and authenticated, answers are complete and of the inverter asked, connecting succeeds; values, sums, states, types, day yields and events are what the answers hold; all until an answer is left over | 3 inverters, 3 retries, up to 3 records or attributes of an answer (2 of dc), archives of 1 to 4 days in 1 to 3 packets, every day present, missing or invalid, 3 ranges | holds, 750 000 states |
| session_lossy | types, transactions, counter, calls return | 2 inverters, no retry beyond the first two, a counter of 2 values, mailbox of 1, 1 answer owed by each | holds, 775 000 states |
| session_reconnect | no inverter is twice in the list | 2 inverters, 2 sessions with a connect() that fails between them, all timely | violated |
| session_leftover | an answer is of the inverter asked | 2 inverters, 3 retries, all timely | violated |
| session_status | the status is of the inverter asked | 2 inverters, all timely | violated |
| readings_unset | an archive that was read can be freed | as session_timely | violated |
| plant_handles | the connection outlives the receive thread, no descriptor leaks | 1 address, 2 connections, 1 data frame | holds, 62 000 states |

Why the bounds are enough. With three frames and a queue of two, the queue
overflows, with reads before and after; addresses matter only as "ours" and
"another's"; device counts matter by their sign. In smanet_framing three
messages are enough for a damaged one between two others, a read_buf of 5 bytes
holds a whole frame, so a replay would be possible, a fragment of 4 or 5 may hold
the end of a frame and the start of the next, and two merged frames exceed
FRAME_SIZE. A counter of two values wraps in every second transaction. A mailbox of one
answer drops one as soon as both inverters answer. Two
inverters are enough for an answer of the wrong one. Two connections are enough
for a socket to be replaced. Three records in a buffer of two show the one that
has no room; two records of trackers 0 to 2 have every order and the gap of a
silent tracker. Four days in three packets have a gap before, after and across a
cut, packets that get longer and packets that get shorter; the ranges cut the
archive at neither, both, and inside.

Fragments have two bytes or more in smanet_framing. A fragment of a single byte
may be an escape, and then the test for an escape at the end of read_buf (line
137) is not made again; whether a connection over RFCOMM delivers one byte alone
is not for this code to decide, so this is a precondition, and nothing is claimed
below it.

Deadlock is not checked: the application may stop calling, and the bounds end
every behaviour.

### Fairness

The run link assumes weak fairness of the receive thread and of the steps
inside a call of the application (`AppStep`). con->read() returns within its
timeout of 5 ms and con->write() returns, a timed wait ends, and the mutex is
never held for ever except in the deadlock the property names, so neither
thread stops while it can go on. Calls themselves are not fair: nothing forces
the application to call. Quiet means that from some time on no frame for us
arrives and no wait ends without a cause; as long as they do, each may start the
five seconds of wait_for() again, and the code bounds nothing.
The session runs assume that a call keeps running, and that an answer on its way
arrives or is lost; `ReadFairSpec` of Readings assumes the same of the program
that decodes.

### What the violated runs show

- **link_connect_hangs**: `connect()` joins the receive thread with the mutex
  locked (smabluetooth.cpp:312, 320). A thread that is about to lock it never
  ends.
- **link_close_aborts**: `disconnect()` assigns STATE_NOT_CONNECTED to its local
  variable `state` (line 350). The next disconnect, connect or the destructor
  joins a thread that is gone, and `std::thread::join` throws.
- **smanet_link_down**: the -1 of con->read() is stored in a `uint8_t`
  (smanet.cpp:140) and read() parses the buffer of the message before again: it
  returns that message a second time.
- **session_reconnect**: discovery appends to a list nobody empties
  (smadata2plus.cpp:599). The trace is connect, connect, connect: the second one
  finds the link still connected, joins its thread, gets no handshake (cmd_02
  ignores the hello) and times out, which resets the state; the third gets a link
  and finds every inverter again. After a disconnect() the program ends instead.
- **session_leftover**: only the object of an answer is compared with the request
  (line 523), and the answers of queries to all that are not read stay in the
  mailbox. All is in time: requests read the answers left over, are retried, and
  each retry asks again, until the answer of one inverter to an earlier request
  is returned for another one. An answer that is late does the same.
- **session_status**: readStatus() never uses its id (line 1224): the request
  goes to all, and whoever answers first is believed.
- **readings_unset**: with fewer than two totals in the range readDayYield()
  returns 0 and leaves the pointer as it was (line 1573).

## Proofs

TLAPS proves the following for every value of the constants that the ASSUMEs of
the modules allow, except where a theorem names a further assumption.

**Smabluetooth_proofs**, for every set of addresses and device counts, every
queue capacity and every number of frames:

- `TypeCorrect`: Spec => []TypeOK. TypeOK is inductive with the lemma
  PushedLength about the queue.
- `LinkSafe`: the inductive invariant `LinkInv`. HelloStillUnconnected alone is
  not inductive: that the state cannot change between the test of cmd_02 and the
  end of its answer needs that the application is still in connect(), hence
  HandshakeWithinConnect, and that it cannot leave while the thread runs, hence
  NoLeakedWorker, which in turn needs that STATE_NOT_CONNECTED with a running
  thread occurs only inside connect(). HandshakeIsComplete, that the handshake goes on
  with what this connection was told and not with what `mac` and `num_devices`
  still hold of another, needs the other three: a new thread starts with a
  handshake at its beginning, or at a state it cannot move.
  `ThreadsAccountedFor`, `AnsweredHelloIsCurrent`, `HandshakeConfined`,
  `HandshakeIsOwn` and `WritersApart` follow from it; NoAddressRace needs no
  induction of its own: a thread that writes an answer implies, by LinkInv, that
  the application is inside connect() and not writing.
- `WakeupsArrive`: NoLostWakeup is inductive with TypeOK: each action that makes
  a condition true goes to `notify`, and each wait begins with its test.
- `QueueKeepsWindow`: the invariant QueueInv, the queue as the window
  `received - Len(packets) + 1 .. received`. The lemmas QueueFrameStep and
  PopStep do the arithmetic once, QueueUsers says that no other step touches
  the queue. `DropsOnlyWhenFull` follows from it.
- `FramesReadInOrder`: the action property ReadsInOrder, from QueueInv.
- `MailboxRefined`: Spec => FrameWindow's Spec under the mapping of `Mailbox`;
  the initial state maps to the initial state, QueueFrame to Arrive, ReadCheck to
  Take, and every other step to a stutter.

**Smanet_proofs**, for every size of read_buf from two bytes, every size of the
frame, every set of messages and every cut of the stream:

- `FramingTypes` and `NoOverrun`, from `BufferInv`. WithinBuffers is not
  inductive: that the byte an escape is combined with lies in read_buf needs that
  the scan starts at index 0 with a byte there (`size > 0`), and that there is
  room for it. `ByteAtHand` is the step from BufferInv to WithinBuffers;
  `SizeFits` says that the conversion to uint8_t, also of -1, never exceeds
  read_buf, which is the reason the defect of smanet_link_down does not overrun
  the buffer.
- `EscapesPaired`, for fragments of two bytes or more, from BufferInv and
  `EscapeInv`: a buffer that was filled and begins with an escape holds another
  byte; the byte kept back makes the second one where a fragment ends in an escape.

**Sequence_lemmas**: the induction theorems of the library take an operator as
a parameter, which the provers cannot instantiate. A set can take its place:
`LeastNumber` says that a set of numbers that is not empty has a least one, and
`NatBySteps` and `UpToBySteps` that a set with 0 and with the successor of each
of its members is all of them. `FoldExists` says that FoldLeft goes step by step,
as a function of the number of elements folded: a function, so that it can be
named, and its value at each index can be followed with `UpToBySteps`.
`FlattenSeqByPrefix` and `MaxOfPrefix` do the same for FlattenSeq and Max. What
addHdlc makes of a message and what the loops of Readings compute is proved with
these.

**Delivery_proofs**, for every set of messages, every size of read_buf and every
cut of the stream into fragments of two bytes or more (MinFragment > 1), where no
message exceeds the frame (FramesFit):

- `DeliveredInOrder`: as long as nothing was damaged and no call failed, what
  read() returned is a prefix of what was sent, and all of it when nothing is
  left to read. `NothingReturnedTwice` and `NothingLost` are the properties of
  smanet_framing, without a damage. A damage is a fragment lost, a
  frame cut off by a timeout, or a checksum with a byte that has to be escaped:
  write() sends it as it is and breaks its own frame.
- The invariant `Delivery`: what read() has not looked at, the rest of read_buf
  from `pos` and then the stream, parses from the place where read() stands into
  the rest of what was sent. That only says what is to come, hence `Position`,
  which ties the place to what is in `buf` and to the messages returned; between
  two calls the HDLC_SYNC that ended a frame may still be in read_buf, and then the
  place is the end of a frame already returned. A place is before a frame, within
  one with so many bytes of its content read, or behind an escape there, and
  `Leads` says which byte leads from where to where. `FramePath` says that what
  write() makes of a message leads through it, `PathsJoin` that the paths of two
  messages join, `ReadOn` and `MovedOn` what is left when a byte was taken; then
  there is one lemma for each action. TLC checked it on the instance of
  smanet_framing before it was proved.
- With damages the properties are not true for every checksum: when a fragment
  is lost the pieces around it may make a frame again, and a checksum that accepts
  it makes read() return a message nobody sent. That it does not with the
  checksum of MCSmanet is what smanet_framing checks.

**Plant_proofs**, for every number of connections:

- `PlantDrivesLink`: PlantSpec => Spec of Smabluetooth, so all of the above holds
  inside a plant.
- `SocketsClosed` and `WorkerEndsFirst`, from `PlantInv`: an open descriptor is
  the socket Rfcomm::connected speaks of, or the one connect() is working with. That the receive thread has ended when the
  connection is deleted comes from LinkInv through PlantDrivesLink.

**Smadata2plus_proofs**, for every plant, every range of the counter that has two
values or more (CounterAssumption), every number of retries and every network:

- `TransactionInvariant`: the inductive invariant `TransactionInv`. A transaction
  is open exactly while a call reads inside one, and the counter equals the one
  the last transaction was sent with exactly while it is open. The three
  properties below are not inductive alone: that none is open where a request
  begins needs that all the reads before it closed theirs, and that the next
  counter is new needs that it has moved on since. One lemma for each way of
  touching a transaction (`BeginStep`, `BeginEndStep`, `LeaveScopeStep`,
  `ReadFailedStep`, `OtherStep`) carries every action; `CounterMoves` is about
  the wrap.
- `NoNesting`, `AllEnd` and `CountersDiffer` follow: TransactionsDoNotNest,
  TransactionsEnd and FreshCounter. TLC checked TransactionInv over session_lossy
  before it was proved.
- `SessionTypes`: TypeOK, from `TypeInv`, which adds that `op` is a request while
  one runs. `DeviceFound` says that getDevice() returns an entry or 0.

**Timely_proofs**, under `TimelyPlant`: the inverters are finitely many and answer
in time, the link reports their number, the mailbox and the answers owed have
room for one answer of each and for one archive, and it is the first session.
session_timely is an instance of it.

- `TimelyInvariant`: the inductive invariant `TimelyInv`. The properties say that
  what is read is right; the invariant has to say what is on its way. Until an
  answer is left over (`EachInv`), wherever a request is written nothing is
  (`Quiet`), although the code never empties the
  mailbox nor compares a counter. In discovery and authentication `OneEach` holds:
  every inverter has exactly one answer, read, waiting or owed, so the answers
  read are as many as the inverters they came from, and when the count reaches
  the number of inverters all have answered and nothing is left. In the other
  reads `Flow` holds: what was read, what waits and what is owed is, in this
  order, one answer counting down to 0. Each of the two has a lemma for asking,
  arriving, reading and ending; `NoReadFails` shows that no read
  fails and `ArriveSteps` that the mailbox never drops. Whether an answer is found in the
  list, marked twice or taken for another follows by counting. `LeftoverStep` is a query
  that several inverters answer: from there on `LateInv` says only that the session
  is past authentication, which is enough for the list of devices, as no later step
  touches it (`LateStep`), and for the program not to end.
- `PlantIsComplete`, `SessionSurvives`, `ResultsAreAsked`, `ArchivesAreComplete`
  and `DevicesAreDistinct` are parts of it. AnswersAreAsked and ArchiveComplete are about the time before an
  answer is left over; session_leftover shows what happens after it,
  session_reconnect what happens in a second session.

**Readings_proofs**: `ReadingIsSession`, ReadSpec => Spec of Smadata2plus, and
`DecodedAnswersAreWhole`, the properties above for the program that decodes. Then
what is decoded, for every content that the assumptions of Readings allow:

- `SpotValues`, `TotalPower` and `SelectedAttributes`, for every plant whose
  inverters answer in time (TimelyReadings), however many they are and whatever
  the mailbox holds. `RequestInv` says that
  a reading is stored only when a request ends, and of which kind of object it is;
  `SpotInv`, that what is stored is right for the content that was read. The
  argument is in the lemmas about the loops: `FieldsFolded`, `DcFolded`,
  `SelectedFolded` and `InfoFolded` follow each of them step by step, with the
  promise for the records seen so far as what a step keeps (`LatestOfOneMore`,
  `RowOfOneMore`, `TypeOfOneMore`), and `SpotIsRead` puts them together.
- `DailyYields`, `WholeArchives` and `OrderedArchives`, under `TimelyPlant`: the
  packets are decoded in the order of their numbers, and only ArchivesAreComplete
  says that they are all there and of one archive, which `EarlyArchives` provides:
  a request for an archive is made, and ends, before any answer is left over.
  `ArchiveInv` is the invariant.
  `EntriesFolded` follows the loop over the entries of a packet, `PacketsFolded`
  the one over packets with their shrinking length, `TurnsFolded` the one of
  readDayYield over pairs of totals; `ArchiveIsTaken` and `YieldsAreTaken` say
  what comes out, `SentIsAll` that the reference definition holds the same
  entries, and `GatheredInOrder` that their order is that of time, across packets
  as within one.

Only model-checked: the liveness properties (liveness under fairness is beyond
the prover), NothingTwice and LossIsLocal of Smanet after a damage, and all that
is refuted.

## Not modelled

- The texts: names and versions of inverters are numbers, the file of event
  texts (readTags, whose std::stoi may throw) and the texts of events are left
  out; so are logging and the example program.
- The clock of syncTime(): whether the deviation asks for another message is a
  free choice.
- The bytes of records: conversion from little-endian, the copy of 40 bytes into
  32 (smadata2plus.cpp:259), records that end behind their packet (line 302).
  Packets of Readings hold whole records. Trackers have numbers for which
  pvlib_dc has room; a larger one (line 1127) is an access outside of the
  structure, whose outcome no model can say.
- Frames that are shorter than any that write() makes (smanet.cpp:190), as the
  checksum of the model accepts only sent ones; truncation of a message to the
  buffer of the caller.
- What is decoded from answers that are late, lost or left over; day yields across
  a clock change: the totals of the model lie at multiples of 24 hours, in the code
  a gap of two days that has 47 hours passes the test of line 1588.
- Reuse of descriptor numbers by the operating system: Rfcomm::disconnect() may
  close a socket a second time (rfcomm.cpp:187), and a descriptor of another file
  may have its number by then.
- The list of plant handles and the alloc and free functions of pvlib.cpp; the
  registries of connections and protocols, filled before main() begins; Log.

## What is left

1. Descriptor numbers that are reused, in Plant, with the second close.
2. What Readings decodes once an answer was left over, packets of two archives
   mixed included.
3. The session above the real framing: a refinement that maps the mailbox of
   Smadata2plus to the frames that Smanet reads.
4. NothingTwice and LossIsLocal of Smanet where fragments are lost. It needs an
   assumption about the checksum, that no frame it accepts is put together from
   pieces of others, and an invariant that finds what is in read_buf again among
   pieces of the stream.
