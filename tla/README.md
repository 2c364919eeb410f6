# Verification of the SAM R30 voltmeter and its MiWi star stack

The repository holds an Atmel Studio project for SAM R30 boards, `mi-wi_test`. Its
committed `main.c` is a voltmeter: a timer interrupt asks for a measurement, the loop
reads the converter and sends the voltage over a USART. Beside it the project carries
the whole MiWi P2P/Star stack and an application for it (`task.c`, `p2p_demo.c`,
`dutyCycling.c`, `assa_protocol.c`), which this `main.c` does not start; the listing of an
older build, `Debug/MiWi_Tester_FW_V0.17.lss`, has a `main` that runs it. This directory
models both: TLA+ modules of the parts whose correctness depends on the order of
events, TLC configurations that check them on small instances, and proofs that TLAPS
checks for every instance.

Paths are relative to `src/mi-wi_test/src/`; `MIWI` is
`ASF/thirdparty/wireless/miwi/source/` and `P2P` is `MIWI/miwi_p2p_star/miwi_p2p_star.c`.

## 1. Inventory

### 1.1 How it runs

There is no operating system. A board runs one super-loop and a few interrupt
handlers. In the stack's loop `P2PTasks` (P2P:2342) hands the next queued frame to the
MAC, lets the MAC and PHY poll the radio chip, calls the confirmation callback of a
frame that was sent, takes one received frame to `frameParse`, and runs the software
timers that are due. Interrupts only count timer ticks and fill the ring of the serial
port. So the orders that matter are those of several boards, of requests with their
confirmations and time-outs, and, in the voltmeter, of the loop with its interrupts.

Configuration (`config/miwi_config*.h`, `task.h`): a star (`PROTOCOL_STAR`), ten
connections, three connection retries two seconds apart, keep-alives every 15 s,
inactivity check every 60 s, table broadcast every 15 s. The network freezer, sleeping
devices, indirect messages, frequency agility and active scan are compiled out.

### 1.2 Components

| Component, source | State | Operations | What is hard | What makes it correct |
|---|---|---|---|---|
| Connection table and coordinator, P2P | `ConnectionTable[]`, `conn_size`, `MyindexinPC`, `ConnMode`, `link_status`, `permanent_connections` | connection request, keep-alive, removal by either side, inactivity check, table broadcast, mode | removed entries keep address and counters; four ways of looking an address up | one entry per device; lookups agree; who is heard stays, who is silent goes; the answer names the requester's slot |
| Connection procedure of an end device, P2P | `p2pStarCurrentState`, `gEstConnectionInfo`, `connectionTimeInterval`, `linkStatusTimeInterval`, failure count | establish, retry, confirm, answer, keep-alive, table share, lost connection | retries and late answers, re-entry from callbacks, memory failures, power cycles of either board | each procedure is confirmed once; a device is in the network only if it was accepted; a dropped device learns it |
| Data path, P2P | `frameTxQueue`, `macAckOnlyFrameQueue`, `appAckWaitDataQueue`, `dataTimer` | `MiApp_SendData`, confirmation by hop, relaying, the answer command, time-out | queues tied together by order alone; an answer that names no message; shared buffers | a buffer has one owner; each message confirmed once, and with success only on an acknowledgement |
| MAC, PHY, `mimac_at86rf.c`, `phy.c` | PHY queue, one frame in sending, receive banks, frame counters | request, poll, confirm, take a frame | lost and reordered frames, a status cleared by a new transmission | the confirmation belongs to the frame; a frame is delivered at most once |
| Software timers, `sysTimer.c` | list of differences, tick count, clock extensions | start, stop, expire, read clock | handlers that start timers, late ticks, overflow while the clock is read | a timer expires neither early nor never |
| Heap, `mimem.c` | list of block headers, count of free bytes | allocate, free | splitting and merging on both sides | allocations are disjoint; all memory comes back |
| Queues, `miqueue.c` | head, tail, size | append, read, remove by criterion | list surgery at both ends; interrupt masking | it is a sequence |
| Voltmeter, `main.c` | `flag`, `count`, `msg`, `result` | loop pass, timer callback | flag and buffer shared without a lock; ignored results | one whole report per period |
| USART jobs, `usart_interrupt.c` | buffer pointer, remaining length, status | write job, interrupt | job and interrupt interleave | a job is sent once, whole, and reported done |
| Application, `task.c`, `p2p_demo.c`, `demo_output.c` | ring of received frames | connect, receive, send | no check for a full ring | nothing received is lost unnoticed |
| Duty cycling, `dutyCycling.c` | one callback, one length, a timer | send, confirm, wait | two frames in flight share them | the wait fits the frame |
| Host protocol, `assa_protocol.c` | none | build and check a frame | lengths in eight bits | what is built is accepted |
| Serial port, `sio2host.c` | ring, two indices | interrupt appends, loop reads | a full ring | bytes in order |
| Storage, `services/pds` | log of blocks in flash rows | write, read, compact, restore | power loss between two rows | last complete value is restored |
| Drivers (`ASF/sam0`), radio access, sleep manager | registers | configuration | | |

### 1.3 How they interact

The application calls `MiApp_EstablishConnection`, `MiApp_SendData`, ... and gets its answers
in callbacks, from inside `P2PTasks`. Every frame goes through `frameTransmit` into
`frameTxQueue`, from there one at a time through MAC and PHY, and back as a call of the
callback it was queued with. Frames, their buffers and the entries of the data queues
come from the one heap. A confirmation or a handler may queue the next frame, start
the next procedure or free a buffer another queue still points to: the models are about
these chains. `main.c` uses none of that; it shares `msg` with the USART driver, and `flag`
with the timer callback.

### 1.4 Hazards

`PROJECT.json` lists the hazards of the code at their lines, each with the properties that
would catch it or the reason why none does yet.

## 2. Modules

| Module | What it models |
|---|---|
| `ConnectionTable` | The table as a value, and each function that searches or changes it: `AddConnection`, removal, keep-alive, inactivity check, `Find_Index`, the rows of the broadcast |
| `Coordinator` | A coordinator alone: the table under any order of requests, keep-alives, checks, removals and modes |
| `Coordinator_proofs` | Its inductive invariant and what follows |
| `ConnectionTable_proofs` | What the functions of the table do, for any number of entries; used for both coordinator and star |
| `Radio` | `frameTxQueue`, the one frame in sending with its outcome, the receive banks |
| `StarNetwork` | Coordinators and end devices over `Radio`, all of the connection procedure, with `ConnectionTable` |
| `Membership`, `StarMembership` | What joining promises; the mapping that shows `StarNetwork` implements it |
| `StarNetwork_proofs` | Its invariants, for any number of boards, and the proof that it implements `Membership` |
| `DataPath` | Data over `Radio` between devices that have joined |
| `DataService` | What `MiApp_SendData` promises; `DataPath` implements it |
| `DataPath_proofs` | Its invariants, and the proof that it implements `DataService` |
| `UsartJob` | The driver's transmit job: the call and its interrupt handler |
| `Voltmeter`, `Voltmeter_proofs` | `main.c` on top of `UsartJob`, with timer callback and converter, and its proofs |
| `MiMem`, `MiMem_proofs` | The heap, and its proofs |
| `SysTimer` | `sysTimer.c`: the list of differences, the task handler with the handlers it calls, ticks, sleep |
| `Deadlines` | What the timers promise, one deadline each; `SysTimer` implements it |
| `SysTimer_proofs` | The sums over the list, its agreement with real time, and the proof that it implements `Deadlines` |
| `MiQueue` | `miqueue.c`: append and remove on chained buffers |
| `Mac`, `Mac_proofs` | One board from `frameTransmit` down to the transceiver, on `MiQueue`, and its proofs |
| `NvItems` | The log of items in flash, `S_Nv-SamR21.c`, with power failing anywhere |
| `MC*` | Instances for TLC |

`PROJECT.json` "map" names the lines behind each definition. A definition ahead of the
one it resembles, with a comment that begins `Mutation:`, is that definition with a
plausible bug; it is there to show that the property can fail.

### 2.1 Coordinator and its table

The table is a record of functions over slots. `addr` survives removal, which clears only
`valid` (P2P: `status.Val = 0`); `link` is `link_status`, `permanent` is
`permanent_connections`, `connSize` and `myIndex` are `conn_size` and `MyindexinPC`. One action per
handler: `ConnectionRequest` changes the table before it asks for the memory of its
answer, as the code does. The radio and the devices may do anything. Two history
variables, `silent` and `credited`, remember what the devices did, so that the properties
can speak about devices rather than about the counters.

### 2.2 Radio

`txq` is `frameTxQueue`. `Transmit` is the step of `P2PTasks` that hands the head to the MAC and
at once decides which boards receive it and what the confirmation will say; `Sent` is the
confirmation. In between the board does not listen. A frame may reach nobody; one that
was not acknowledged may have arrived, since it is the acknowledgement that may be lost.
It arrives at most once: `PHY_Init` sets the frame retries of the transceiver to zero
(`phy.c:240-244`). A board that finds no free bank loses the frame. Frames are taken from the lowest
bank in use, so that with two banks they may be parsed out of order.

### 2.3 Star network

`state`, `est`, `connTimer`, `linkTimer`, `failures` and `myIndex` are the end device's variables.
Timers are running or not; a running one may expire at any step. `RequestSent` and
`RequestFailed` are `connReqConfCallback`, `ConnectionInterval` the expiry, both of which run
`sendConnectionRequest` whole, with its confirmation to the application. Where the code calls
the application the application may ask for the next connection (`Reenters`).
`PowerCycle` restarts a board with nothing kept. `tries` and `granted` are history.

### 2.4 Data path

`held` are the buffers in use, numbered; an entry of `macQ` or `ackQ` names its buffer, and so
does a frame that points into it: a frame carries its `handle`, the message it was queued for, and `msg`, the one that
its buffer holds now. The two differ once a time-out, or an answer to another message, has freed the buffer while the frame
waits and the next message was given the same place in the heap, which `Rewritten` tells all frames that
point there. Such a place only ever goes to another data buffer in the model; in the code a smaller
allocation may get it. `Swept` is the loop that three handlers run over
`appAckWaitDataQueue`, including that it counts up to a size that shrinks: `Turned` is one turn of it,
which takes the head off and appends it again unless it is done with. The members of the
star stay the same: outside the network `MiApp_SendData` returns `true`, takes nothing and
confirms nothing (P2P:1360, 1503), which the model leaves out. It also leaves out the branch of the forwarding for an
addressee whose receiver sleeps (P2P:2174-2183), since no such device is built, and the early end of the
loop of `appAckWaitDataCallback` without memory (P2P:2882): the entry is lost as in the code, but the model turns the rest of the
queue over all the same, which changes nothing but the order of a queue that the coordinator searches by buffer.

Three histories serve the properties alone: `left`, the messages that a single hop ended with success;
`relayed`, the senders of the relayed messages that their addressees acknowledged, in the order of the acknowledgements;
`used`, which of these have confirmed a message. An answer carries the place in `relayed` that it reports, which the code's
answer, a single byte, does not.

### 2.5 Voltmeter

`Voltmeter` has one step per statement of the loop that touches shared state, `sprintf` byte by
byte, and interrupts between any two. `UsartJob` splits the driver's call into the check with
the length, the pointer and the status, since the interrupt may come between, and
models the data register, the shift register and the two interrupt flags.

### 2.6 Heap

`block` maps the address of each header in the list to its fields. The search, the split and both
merges change the links the way the code does. `live` is what callers hold.

### 2.7 Software timers

`timers` is the list as a sequence (its order stands for the `next` fields), `timeout` the field
of that name. `placeTimer` is `Inserted` with `TimeoutsWith`, removal is `Without` with
`TimeoutsWithout`. `SYS_TimerTaskHandler` is four actions: take the ticks, one round up to the call of
a handler, the handler's return, the end. Between `Expire` and `HandlerReturns` any timers may be
started and stopped, as handlers do, while `elapsed` is not yet taken off the list. `due` is
history: the real time until each timer may expire. In `Deadlines` every timer has a time left
of its own, which passes for all of them alike; `left` is mapped to `SYS_TimerRemainingTimeout`.

A timer that is placed while time is unaccounted for (ticks not yet handled, the rest of
a late pass) expires early by exactly that time. `NeverEarly` allows for this and for nothing else;
with `NeverLate` it says that differences, ticks and real time agree.

### 2.8 Queue, MAC and PHY

`Mac` runs `P2PTasks` for ever as five steps (`pc`): hand on the next frame, look at one received
frame, `PHY_TxHandler`, the rest of `PHY_TaskHandler`, the confirmation. The transceiver is a
record: mode, the one interrupt flag, the frame it sends, the frame it holds, the outcome. `FrameArrives`
and `TransmissionEnds` happen between any two steps. `frameTxQueue` is the chained list of `MiQueue` with
the links of all buffers in `nextItem`, and a buffer is taken again after it is freed with its old link in
it. `radio.buffer` is overwritten by a transmission, which `overrun` remembers. `Radio`, on which the
network models stand, takes such a frame as one that was lost.

### 2.9 Storage

A sector is an array of units of programming; a header with the first cell of its data is one unit, each
further cell one more. `LoadSector` notes if it starts a read behind the sector (`outside`), which `D_Nv_Read`
asserts against, and `RestartFindsAll` says that no start does. An operation is a list of steps (erase, program a unit, write the sector
header); `Done` performs them all and updates memory, `Interrupted` performs a prefix, perhaps with
one unit torn, and loses memory. `promised` are the contents a caller may find: one while nothing is in doubt, two
or more after calls that were cut short. `LoadSector`, `GatherData` and `CompactSector`
are recursive functions over the log.

## 3. Runs

| Run | Instance | Shows |
|---|---|---|
| `coordinator` | 3 devices, 2 entries, one device permanent | `conn_size` against holes, one entry per device, keep-alives reach the right entry, silent devices go, heard and permanent ones stay, no entry changes hands; the inductive invariant of the proof |
| `coordinator_index` | as above | **violated**: with `ENABLE_PREV_CONN` a known device is accepted with the slot of another one |
| `star_rejoin` | coordinator and device, 2 procedures, 2 requests each, 1 power cycle | each procedure is carried by one request or timer, no NULL callback, retries bounded, `Membership` implemented |
| `star_contention` | coordinator, 2 devices | the index a device holds is its slot |
| `star_live` | coordinator and device, removals and keep-alives | every procedure ends; a dropped device learns it |
| `data` | a device sends 2 messages to another through the coordinator and awaits both answers, and 2 to the coordinator | buffers owned once, queues in step, `DataService` implemented, all messages confirmed |
| `voltmeter` | reports of 3 bytes, periods of 4 overflows | whole reports, none refused, none stale, one per period, jobs end, reports go on |
| `heap` | 31 units, headers of 2, sizes 1, 4 and 7 | inductive invariant, disjoint, all comes back, the count is right, failure only when full |
| `timers` | 1 periodic timer, 2 others, intervals of 1 and 3 ms, ticks of 2 ms | no timer early, none late while awake, `Deadlines` implemented |
| `mac` | 3 frames in 2 buffers, 3 arrivals, 2 banks | frames leave in order, each is confirmed with its own outcome and in the end, frames are passed up in order, and one that arrived is lost only under a transmission |
| `storage` | 2 items of 1 and 3 cells, sectors of 8 units, 2 compactions | power may fail anywhere: calls are done or not done, memory is what a restart finds |
| `storage_resize` | as above, lengths may change | **violated**: a new length asked for when the sector is full is dropped, and success reported |

The type invariant of each module is checked with one of these properties, whose comment says so: it is
a conjunct of `IInv`, `OneCarrier`, `WholeReport`, `HeadsMatch`, `NeverEarly`, `QueueIsFifo` and `RestartFindsAll`.

The violated runs check what a document of the repository says of the program; the
findings in `PROJECT.json` quote it.

### 3.1 Bounds, and why they are enough

* Table: every disjunct of `AddConnection` (found, free in front, free behind, full) needs
  two entries and three devices, and so does every hole. The inductive invariant does
  not depend on the size.
* Star: two procedures give one that meets the remains of the first; one power cycle of
  any board gives a table and a device that disagree. `RetryTimes` 2 gives a first request
  and a retry. `RetryModulus` 4 stands for 256: what matters is that zero wraps.
  `star_rejoin` has no removal and `star_live` one procedure; both together, and two banks with
  them, exceed the time of a run and are left for a later, smaller model.
* Data: two awaited messages of one device are what it takes for an answer to confirm the other message, for the loop over the
  queue to skip an entry and for a frame to outlive its buffer; two to the coordinator share the device's
  buffers with them. Two buffers reach the limit of the heap; `SwAckTimeout` 1 lets an entry get older once before it
  expires. `MCNext` sends the messages of a pair, which nothing tells apart, in the order of their numbers. A relayed
  message that is not awaited, or a sender more, exceeds the time of a run; the theorems cover them.
* Voltmeter: three bytes are a first, a middle and a last; three generations tell
  the report before from the one after.
* Heap: 31 units hold up to seven blocks, so that a block has free and used
  neighbours on both sides; sizes leave
  remainders on both sides of the limit of the split, and 31 is not a multiple of the alignment.

* Timers: intervals of 1 and 3 with ticks of 2 put a timer in front of, behind and together with
  others and let the periodic one expire twice in a pass. Two ticks may wait, so that a pass is late. One sleep
  replaces the ticks that were counted.
* Queue, MAC, PHY: two buffers and three frames use a buffer again while the other is queued; two banks and three
  arrivals fill all banks and take the lower one again. The code has four banks.
* Storage: a sector of eight units, one of them a page header, fills after three blocks; an item of three cells can be
  written in part, in the middle and across older blocks. Two compactions go to the other sector and back.

Deadlock is not checked in the star, data, timer and storage runs: with their bounds used up they rest.

### 3.2 Fairness

* The super-loop goes round: weak fairness of sending, reporting, parsing and the
  timers. Nothing is assumed of the application, of removals or of power.
* `star_live` also takes it that, if table broadcasts are sent for ever, each device hears
  some of them for ever: a receiver that is never sending and never full at the
  right time is all that this needs, and the clocks of two boards drift. Without it no
  protocol could work over a radio that may lose every frame.
* `data` needs only that the boards together go on: one weak fairness of `P2PTasks`.
* `mac`: passes of `P2PTasks` go on (`Pass`), the clock gets past the duration of a transmission, and the
  transceiver ends what it was told to send. Nothing is assumed of arrivals or of the layers above.
* `voltmeter`: the loop, every raised interrupt and the clocked peripherals go on. `ReportsGoOn` has
  the premise that the loop does not for ever clear a flag that was raised after its test: the code
  does have that window (`main.c:115`).

### 3.3 Assumptions that the code does not enforce

* `Timely` (star): an answer arrives before the interval of two seconds is over. With `FALSE`, TLC finds
  an answer parsed while the next request is being sent: `connReqConfCallback` decrements the retries from zero
  (P2P:1073), they wrap, and `RetriesBounded` fails.
* `Reenters = FALSE`: the application waits for a callback to return before it connects
  again. With `TRUE`, TLC finds a procedure that ends by calling NULL
  (`NoNullCallback`, P2P:1203). `Connection_Confirm` in `task.c` does
  not wait either: it starts a network of its own from within the callback.
* The data path has no such assumption about time or order, and what the code does not ensure
  `DataService` and `BuffersOwned` do not claim. The answer of the coordinator names no message, and confirms the head of the
  queue (P2P:2131): `Answered` asks for an unused acknowledgement of a message of the same sender, not of this one. With the
  acknowledgements recorded by message TLC finds in 11 states a message told `SUCCESS` that was lost: the MAC
  reports the first hop of another one as failed though it arrived, its entry goes, and its answer confirms the next. And
  a time-out or such an answer frees the buffer of a relayed message whose frame still waits: `Overtaken` names these frames, the only
  ones that `BuffersOwned` does not hold to their buffer.
* Data callbacks return before the application sends again.
* `MemoryFails = FALSE` (star, data): the heap is not exhausted. With `TRUE`, TLC refutes `ProcedureEnds` of
  `StarNetwork` (the device stays in ESTABLISHING_NETWORK_STATE with no timer running and nothing queued, P2P:1110) and `BuffersOwned` and `HeadsMatch` of `DataPath`. `Mac`
  has no such assumption.
* `Timely` (voltmeter): between two overflows (two milliseconds or more) interrupts
  are served, the loop ends a pass and a byte is sent (one millisecond).
* Callers free what the heap gave them, once.
* Mac: no frame is longer than `MAX_PSDU` (the longest the stack builds without security has 121 bytes); the transceiver keeps
  a frame until it was read (`RX_SAFE_MODE`, `phy.c:248`); acknowledgements carry no pending bit, for which
  `PHY_TaskHandler` would report an error; random numbers and energy scans are asked for only at the start.
* Storage: callers respect the length of an item at its creation (`Spec`), and a torn unit never has the right
  checksum.
* The short addresses (three bytes) of a network are distinct (`CoordinatorAssumption`).

## 4. Proofs

What is proved holds for every value of the constants that satisfies the named assumptions of the modules
(`TableAssumption`, `CoordinatorAssumption`, `StarAssumption`, `BroadcastAssumption`, `HeapAssumption`,
`LengthAssumption`, `VoltmeterAssumption`, `TimerAssumption`, `MacAssumption`, `DataPathAssumption`, `MessageAssumption`): the runs evaluate them. What a theorem
needs beyond them is in its statement as `ASSUME`, and section 3.3 says what TLC finds without it.

### 4.1 Coordinator

`Coordinator_proofs` proves `Spec => []IInv` for any number of devices and entries, and from
it type correctness, `UsedIsPrefix`, `OneEntryPerDevice`, `NoStaleInFront`,
`SilentIsRemoved`, and the action properties `HeardIsKept`, `PermanentIsKept` and `NoTakeover`.
The properties are not inductive alone. That a silent device is removed needs that a
device silent for one check has nothing to its credit (`SilentUncounted`), since a slot
inherits the counter of its last occupant; that a heard one is kept needs
`CreditIsCounted`, which in turn needs `NoStaleInFront`: the keep-alive credits the first
entry with the address, valid or not. `NoStaleInFront` holds because a new entry takes the
first free slot, and the valid entry of a device is searched for before that. `UsedIsPrefix`
rests on `PrefixCardinality`, as `conn_size` is a count and is used as a limit.

`ConnectionTable_proofs` states what each function of the table leaves alone, for any table: adding writes one slot,
removal, keep-alive and check make no entry valid that was not (`Shrunk`).

### 4.2 Star network

`StarNetwork_proofs` goes in four layers, each needing more than the one before. All are for any number of boards
(the last one: of end devices), banks, entries, retries, procedures, removals and power cycles, and for a radio that loses frames at will.

1. `StarFormed`, with no hypothesis: tables, timers, counters and frames are what `TypeOK` says, a valid
   entry has the address of a device, a queued frame is its board's own, and a received one was meant for its receiver.
2. `Patient` (the application waits for its confirmations, and there is memory): a pending procedure
   is carried by exactly one of a queued request, a request being sent and a running interval. `Carried` says it
   board by board without counting, `RequestsCounted` turns it into the count of `OneCarrier` (`StarCarrier`), and
   `StarCallback` follows: a confirmation is only called for a carried procedure, so its callback is there. `CalmKeeps` is the
   lemma that disposes of the other actions: one that neither queues a request nor touches the procedure or
   the interval of a device keeps it carried.
3. `Patient` and `Timely` (answers come within the interval): `AnswersInTime`. Answers to a device exist only while its
   interval runs or its request was just sent (`QuietOtherwise`); so the requests queued and the retries left add
   up (`RetriesAddUp`) and never wrap: `StarRetries`. An answer that accepts comes from a coordinator that accepted
   (`Granted`). With these every step of a board is a step of `Membership` or none: `StarIsMembership`,
   one lemma for each handler.
4. The same and `OneCoordinator`: `StarIndex`, that a device holds the slot of its entry (`IndexAgrees`). `Indexed` relates
   the table, the answers on their way and what the device made of them: every answer and the index that
   was taken from one name the slot of the device's entry, if it has one; and when a coordinator has a request, nothing is
   left of an earlier answer, which is where layer 3 comes in: a request is queued only when nothing else is on its way.
   `AddedIndex` gives what `AddConnection` answers. Every action but three only loses frames, entries and
   answers (`Mild`). The hypothesis is needed: a device has one `myConnectionIndex_in_PanCo`,
   and with two coordinators TLC finds it holding the index of the one and an entry at the other
   (`MCStarContention.cfg` with `Coordinator = {c1, c2}` and two banks, by simulation). Without `state[e] = "IN_NETWORK_STATE"`
   the statement holds as well: `Answered` is enough.

Section 3.3 gives what TLC finds without `Timely`, `Reenters = FALSE` and `MemoryFails = FALSE`.
`StarIsMembership` is about safety; that procedures end is left to TLC.

### 4.3 Queue, MAC and PHY

`Mac_proofs`: of all the frames handed on at most one is unconfirmed (`OneInFlight`), and it is in one of
three places: before `PHY_TxHandler` (`Waits`), with the transceiver (`OnAir`), or confirmed and not yet passed up (`Confirmed`).
From it `ConfirmIsOwn`: one flag and one status are enough for all. `Fifo` says that the chained buffers list the
frames not handed on, in order; `AppendLists` and `RemoveLists` are the facts about `miqueue.c`, for any chain, also for a buffer whose link
is still that of its last use. `InOrder` shows that never two banks are filled at a time: the loop takes a frame before it polls for another, so the
lowest bank is the only one and `HeardInOrder` holds for any number of banks. That the transceiver loses frames only
under a transmission (`OnlyOverrunLost`) is inductive with the types. `MacAssumption` takes `Buffer` to be finite, since the queue's length is bounded
by its cardinality.

### 4.4 Voltmeter

`Voltmeter_proofs` separates what holds with any timing (`AnyTiming`: the driver's interrupt is enabled just while bytes
are left, and reads from the first byte on; the loop reads once for each period that ended) from what is a matter of time.
The first gives `OnePerPeriod`. The rest has the hypothesis `PeriodIsLong`: between two overflows a pass ends
and a byte is sent, and a period has as many overflows as a report has bytes, and at least two (the program has fifty,
and twenty bytes). Then the bytes not sent yet go down with each overflow (`Drains`), a result is ready when the
period ends (`Converts`), and the text stays in `msg` while the driver reads it (`Kept`): `WholeReport`, `NeverRefused`, `NeverStale`.

### 4.5 Timers

The sums of `Until` are a recursive function over a sequence. `SysTimer_proofs` takes them as the function `Sums` characterises, whose existence
and uniqueness it proves by induction over a set of naturals (`SetInduction`, from the least element of a set, needs no operator
parameter). `InsertKeeps`, `StopKeeps`, `TailKeeps` and `RestKeeps` then say, for any list, that inserting, removing and expiring
change no timer's sum but that of the timer meant and by the time that passed. The invariant is `NeverEarly` and
`NeverLate` with `Between`: time is taken only inside the handler. The same lemmas give the refinement `TimersAreDeadlines`.

### 4.6 Heap

`MiMem_proofs` proves `Spec => []IInv` for any heap size, alignment, header size and sizes
asked for, and from it `Disjoint` (allocations are disjoint and do not touch a header) and
`ComesBack` (with everything freed the heap is one block again). The invariant is `Chain`
(every block ends where the next begins, `prev` undoes `next`), `Coalesced` (no two free
neighbours) and `Backed` (blocks in use are those callers hold). `SplitChain` and `MergeChain` show
that the two list operations keep a chain, for any chain, and `AllocKeeps` and `FreeKeeps` put
them together; `Coalesced` is needed because `MiMem_Free` merges each side only once.

`Counted` bounds a sum over the blocks. `CountIsSum` says that there is a function from the ends of the blocks to the
free bytes in front of them, which ends in `availableMemory`; toggling, splitting and merging a block
each change one such function into another (`AddsToggled`, `AddsSplit`, `AddsMerged`). A free block is then covered by the
difference of two of its values (`CountCovers`). `FailureIsFull`: an allocation fails only if no block fits.

### 4.7 Data path

`DataPath_proofs` is for any number of boards, messages, buffers and banks. Its layers need more and more:

1. `DataFormed`, with no hypothesis: a frame is queued by the board that its type and message call for
   and only reaches whom it is for; an entry of either queue is about a message that was taken and that the board may wait for; the
   coordinator, which does not run `dataTimer`, never starts it.
2. Memory for frames (`InStep`): the entries of `macAckOnlyFrameQueue` match the frames that wait for the MAC, in
   their order, so that the head is the right one (`DataInStep`). A frame is in the line of its board from the call that
   queues it until its confirmation; `Matches` gives the place in the line for each entry, and a step adds at
   the end of both or takes the head of both.
3. `Unconfirmed`: who waits at its sender has not been confirmed, and waits once. It needs no memory, and with
   it no time-out, answer or failed hop confirms a message twice.
4. Memory for frames (`Ownership`): the buffers in use are those of the entries, no two of which share one. A frame that waits for
   `appAckWaitDataCallback` is backed by an entry that has its buffer and its message, or was overtaken; at the coordinator, which
   has no time-out, it is always backed and no two point to the same buffer (`OneEach`); one that waits for the MAC still
   carries its own message (`Faithful`). That gives `DataOwned`, with time-outs at any moment: a buffer is written again only
   after its entry has gone, so the frames that see the change are those that no entry backs.
5. All of these (`IInv`), with `Answers`: every answer that is queued or was received reports an acknowledgement of a message of the
   device it goes to, one that has confirmed nothing, and no two report the same. An answer is queued when the
   frame that was acknowledged took its entry along (`OneEach` makes it the only one), and parsed once. Every step is then one
   of `DataService` or none: `DataIsService`.

The loop over `appAckWaitDataQueue` is a recursive function over a sequence. `Derived` says what it makes of any queue: the entries are
those it had, aged or not, none twice, and, when it ages none, one that is missing was done with. That is proved for one turn and carried through the loop by
induction over the set of turns; the rotation of the queue and the last entry that it does not reach are
covered with that, since nothing that follows depends on the order.

### 4.8 Checked by TLC only

* Every liveness property: `ENABLED`, and so fairness, is out of the prover's reach.
* `RestartFindsAll` and `HoldsPromised` of the storage: recursion over the log, an induction over data.
* `IndexOfRequester` and `LengthAsPassed`, which are violated.

## 5. Not modelled, and why

Most of the repository's lines are the vendor's: ASF drivers and headers of registers, CMSIS, device tables. They
hold no state of the program's own, and what the program relies on is modelled where it is used. The
components with status `not_modelled` in `PROJECT.json` say why each is left out. In short:

* What is compiled out: the network freezer with the data server and task manager of `services/pds`, sleep,
  indirect messages (`ENABLE_INDIRECT_MESSAGE` is commented out), active scan, frequency agility. (The log under them, `NvItems`, is modelled all the same: it is
  the one part of the code that must survive a loss of power.)
* Register work: drivers, SPI, the radio's channel settings, random numbers, energy scan.
* Output: menus, display, build outputs.
* Inside what is modelled: security, frame counters and addressing modes of the MAC (data is sent in the clear);
  the clock `MiWi_TickGet`; the refusal of `MiApp_CB_AllowConnection`, a macro that is always true (`miwi_api.h:1472`); `MiApp_StartConnection`; capacity and peer information bytes; the receive and
  abort operations of the USART driver; in the storage, the lookup in the table of persistent items, which counts to its size in bytes and so also looks at as many items behind it (`S_Nv-SamR21.c:333`; `Persistent` is whatever it finds), flash that cannot be programmed, refusals for want of power, the
  first revision of the format and the timers for compaction, which the code never starts.
* Duty cycling, the rings of `p2p_demo.c` and `sio2host.c`, the lengths of `assa_protocol.c`: the next
  models of the plan.

Of the storage the code also does, beside what run `storage_resize` shows: `CompactItem` changes the header
of the block it rewrites and leaves both of its checksums, so that a start after a resize that
did happen skips the block (`S_Nv-SamR21.c:1185-1206`). `NvItems` has this (`unsigned`); in `Spec` no
item changes its length.

## 6. Plan

Done: `ConnectionTable`, `Coordinator`, `MiMem`, `Mac` with `MiQueue`, `Voltmeter` with `UsartJob`, `SysTimer` with `Deadlines` and `StarNetwork`
with `Membership` and `Radio`, and `DataPath` with `DataService`, all with proofs; `NvItems`.

Every safety property that a passing run checks is proved, but for the two of `NvItems` (section 4.8).

Next, models: duty cycling on top of the confirmations; the two rings; the lengths of a host frame as
operators against a reference; `MiApp_StartConnection`; `Mac` as an implementation of `Radio`; a smaller network
model with removals and two procedures, which would take the place of `star_contention`.
