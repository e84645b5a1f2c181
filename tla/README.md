# A formal model of the NUCLEO-H563ZI generic IO controller

The firmware takes JSON messages over UART, TCP (port 42069) and USB, configures
pins and PWM timers from them, and stores the configuration in flash.  The
modules here are TLA+ models of its own code (`src/Core`), with model-checking
instances and machine-checked proofs.  `QueueT.h:34` below means line 34 of
`src/Core/Inc/Utility/QueueT.h`, and so on.

## The system

| Part | State | Operations | Talks to |
|---|---|---|---|
| Message queue (`Queue<T>`, QueueT.h) | pool of nodes with `inUse`, ThreadX queue of pointers | `push`, `pop` | handler queue (5 messages of 512 bytes), debug queue (50 lines) |
| Message handler (MessageHandlerThread.cpp) | `stringBuffer`, `tempBuffer`, `stringLength` | receive callbacks, `main`, `parseJson` | pops the queue; calls Configuration, PWM, Debug |
| JSON parser (gason.cpp, third-party) | none; overwrites the text it parses | `jsonParse` | handler |
| Configuration (Configuration.h) | `data`: a version and 9 x 16 pin configurations | `handleConfiguration`, `store`, `reset`, constructor | WearLeveling, Pin, PWM |
| Wear levelling (WearLeveling.h) | index bits in RAM and in flash | `store`, `readLastElement`, `reset` | Flash |
| Flash driver (Flash.cpp) | the high-cycle data area | `write`, `eraseAll`, `read` | the HAL |
| TCP service (Socket.cpp) | one NetX socket, one event group, a pool of one packet | the event loop and its three handlers, NetX callbacks, `transmit` | NetX Duo, handler queue |
| USB service (CDC.cpp) | handle, reader buffer and length, event group | event loop, reader thread, `transmit` | USBX, handler queue |
| UART driver (UART.cpp) | DMA buffer, two locks | `transmit`, receive and transmit interrupts | handler queue (from the interrupt), Debug |
| Debug output (Debug.h) | static buffer, queue | `send`, `transmitDirect`, its thread | UART, Socket, CDC |
| Pins and PWM (Pin.h, PWM.cpp) | registers, table of pin definitions | `handleConfiguration`, `startPWM`, `findPinDef` | the HAL |
| Threads, timers, start-up (Thread.cpp, app_threadx.cpp) | list of threads, static objects | `launchAllThreads`, replay of the stored pins | everything |

Who runs when: MessageHandler, MessageSocket, USB-CDC and USB-CDC-RX have one
priority (16) and no time slice; the debug thread has the lowest (31); the IP
thread of NetX has 1; interrupts preempt all.  So two of the first group
switch only when one of them blocks (or gives way with
`tx_thread_relinquish`, which yields to equals only), and most of the code relies
on that without a lock.

A message comes in through one of the three services, is queued, assembled and
parsed by the handler, and ends in pins, timers and flash.  What the firmware says
goes through Debug's static buffer and its queue, or directly from the handler, to the
UART, the TCP socket and USB, in this order and each waiting for its peer.

What is hard here: the unlocked queue with an interrupt as one of its
producers; stores that power may cut at any half-word; messages cut into
packets anywhere, from several peers; event flags that fall together while peers
come and go; a buffer that is armed again while it is read; two threads of different
priority inside one polling driver; a packet with three places that may release it.
PROJECT.json lists each of these at its line under "hazards", with the properties
that cover it.

What correctness means, part by part:

* queue: a FIFO channel; nothing torn, doubled, lost or reordered; refusals
  mean a full queue; no node is lost to the pool
* storage: a restart loads the configuration stored last or the one being
  stored; a store does not erase, and without faults fails only in a full area;
  the two indexes agree
* handler: what stands between two packets that end a message is carried out as it
  was sent, in its turn, or not at all
* TCP service: only ended connections are closed, data is not left waiting and
  not mixed between peers, the port stays served; each packet it sends has one
  owner and comes back
* output: what is on the wire is its writer's; no token of a semaphore is lost or
  made unless a writer cut in on the other, and no message with characters refused;
  everything that is queued is said
* pins: the table says what the pins are, a restart gives them back and comes to its
  end, whatever was tried before

## The modules

**Channel** is the abstract FIFO: `Put` appends to `accepted`, `Get` moves the
next value to `delivered`.

**QueueT** is `Queue<T>`.  Each actor (the contexts that push, and the one that
pops) has a `pc`; a step is one shared access.

| Action | Code |
|---|---|
| `Call`, `ScanFree`, `ScanNext`, `Refuse` | `findAvailableNode`, QueueT.h:29-31, 59-69 |
| `CopyIn` | one word of the `memcpy`, :33 |
| `HandOver`, `Enqueue`, `QueueFull` | the three outcomes of `tx_queue_send` without wait, :34 |
| `Mark` | `nextNode->inUse = result`, :35 |
| `Receive`, `Wait` | `tx_queue_receive`, :42 |
| `Clear` | `poppedItem->inUse = false`, :44 |
| `CopyOut`, `Deliver` | the `memcpy` out, :45 |

`Runs(a)` is the scheduling: whoever is in the middle of an operation while
`a` takes a step has a lower priority than `a`.  It is the guard of every
action, so with equal priorities an operation is not interrupted, and with the
interrupt above all others it may come in anywhere.  A message is the name of
its push, written in each of its `Words` words, so that torn contents show.

**Flash** is `Flash.cpp`.  A cell is a half-word, kept as the set of its 1 bits:
programming is intersection, erasing restores the full set.  `write` is a `job`
whose steps are the calls of the HAL (`Accept`, `EraseSector`, `ProgramCell`,
...), `eraseAll` likewise (`EraseNext`).  The table of sectors is as the code
computes it, four times too far apart (Flash.h:15), and the loops that are to
restore a sector are modelled by what they do (`RetainStart`, `RetainEnd`).
That programming only clears bits, that an erase is one indivisible step, and
that a cell that was cut short is either programmed or not, are assumptions on
the hardware; its ECC and the NMI it raises are left out.

**WearLeveling** extends Flash with `WearLeveling.h` and the loading and
storing half of `Configuration.h`.  `Store` starts the data write, `DataWritten`
sets the RAM index and starts the index write, `IndexWritten` ends it;
`Wrapped` is the store that erased first; `ResetStorage` / `ResetDone` are
`reset`.  `PowerFails` may come at any step, `StartUp` is the constructors.
`committed` is what a restart may load; `risk` remembers that a flash call was
cut short ("armed") and that a store has begun after that ("spent").

**UartRx** is the receiving half of `UART.cpp` with the events the HAL reports.
`Store` is one character the DMA puts into `dataBuffer`; `Event` is an interrupt at
half of the buffer, at its end, or when the line falls silent, each of which calls
`RxEventCallback`: `startReceiving` (`HAL_BUSY` and without effect at the half) and
only then the copy of the buffer up to its first NUL, `CallbackEnds`.  The buffer is
never cleared, so `Line` is what the copy finds: the text, what an older and longer
text left behind it, and, once the buffer has been full, whatever lies behind the
buffer ("junk").

**MessageHandler** extends UartRx with the handler thread, from the callbacks to
the calls it makes.  Characters are tokens: brackets, carriage returns, and
one token for each object of the array.  `Begin` starts a message, `BeginBehind` one
that goes into the stream of a socket while the one before is still on its way.  `Received`
is a callback of the socket (a packet of some length, cut at 511 bytes, its push possibly
refused), `uartRXReceived` that of the UART; `Pop`, then one of `Gather`, `Drop`, `Refuse`,
`ParseJson`, is one turn of `main`.  A *text* (`sent`) is what a
peer sends between two packets that end with `END_OF_MESSAGE` (`EndsAt`): one message, or
the messages that share packets.  The handler looks for the end only at the end of what
it has (MessageHandlerThread.cpp:126), so of the latter it carries out the first array and
loses the others: that is what a text says (`Meaning`), and ExecutedAsSent is about texts.
`JsonParse` is gason seen from here, `Scanned` what
it leaves of the text, `Copied` the `strncpy` without a NUL.  The pieces of all
peers meet in one `stringBuffer`, and `mixed` remembers that they did.  The queue in
this module is a Channel, which is what QueueT_proofs shows of the queue between
threads; run QueueIsrInOrder shows what is different with the interrupt.

**Pins** is the loop of `parseJson` over the objects of a message,
`handleConfiguration` with its validation, `Pin`, `PWM`, and the start-up in
`app_threadx.cpp`.  The mask 1 << n in a byte (`MaskOf`) and the row it is stored in
(`Slot`) are computed as in the code, so that pin 8 and above fall on the pin 4 of
the port before.  `StartPWM` counts a prescaler up until the
frequency fits, which never ends for 0, for a frequency that is missing (gason gives 0.0)
and for one that is too low (PWM.cpp:246-257): `io.hung`.  The table was written before,
the store comes after the loop over the objects, so a handler that hangs has not stored it.
`Object` is one turn of the loop, `EndOfMessage` the command that follows it,
`Restart` the constructor of Configuration with the replay of its table (`Replay`), which runs
before any thread.  `clash` remembers that a
pin took the slot of another, or set the timer of another to a frequency of its own.

**Socket** is the receiving side of `Socket.cpp` with the NetX Duo calls it makes.
The thread's actions are the calls of `main` and its three handlers, one step per
NetX call, because each holds the protection mutex of the IP instance.  The actions
of the IP thread (`Synchronise`, `Queue`, `Acknowledge`, `Data`, `Finish`, `Reset`, ...)
are translated from the vendored NetX sources named in the map, as far as a server
socket with one listen request goes.  `Post` is `tx_event_flags_set`: it hands the
flag to a thread that waits, else it leaves the flag for the next `get`.

**PacketPool** is `Socket::transmit` and the life of its packet in NetX Duo.
`Allocate`, then `Send`, or `Stall` and `Refuse`, then `Release`, are the calls of `transmit`.
`HandOver` is `nx_packet_release`: to the writer that waits longest, else to the list.
Three places may call it: the writer, the IP thread that walks what an
acknowledgement or a flush has cut from the queue (`Walk`), and the driver when the
DMA is done with a frame (`TxDone`); `mark` and `txDone` are the two link fields NetX
decides by.  `Ack`, `Retransmit`, `Probe`, `TimeOut`, `PeerResets` are the segments and
timers of the connection.  Error checking is on (nx_user.h:106 is in a comment), so
`nxe_tcp_socket_send` clears the pointer of the caller when it has taken the packet.

**Threads**, **Uart**, **Cdc** and **Output** are the output.  Uart is `UART::transmit`
down to the DMA channel: the tests and assignments of `HAL_UART_Transmit_DMA` and
`HAL_DMA_Start_IT` that a second caller can see, one step each (`Test` ... `Flag`), the
two semaphores (`Take`, `Await`, `Leave`), and the interrupts that end a transfer
(`DmaIrq`, `TcIrq`; `merged` counts the transfers whose TcIrq was
still to come when the next one ended, so that both give one token).  Cdc is the
attachment of the USB device as USBX reports it,
`CDC::main`, and `CDC::transmit` waiting for the host.  Output composes the two with
`Debug::send`, its static buffer and its queue (`Format`, `Cut`), the debug thread
(`Pop`), the lines of `printHelpMessage` in the handler's thread (`PrintLine`), and the scheduling
by priority (`Runs`).  `s` counts the NUL behind a line (Debug.h:66), so a line of 125 + 127k
characters ends in an empty piece, and a line with an end of its own leaves its NUL on the next
place (`NulFirst`); the HAL refuses an empty message (stm32h5xx_hal_uart.c:1443, `Test`), and
`CDC::transmit` skips it.  Threads holds the two names all of them share.  Only these two
threads transmit: the help is printed on the command PrintPWM, and never at the
start (readme.md:8 says it is).

MCQueueT, MCWearLeveling, MCMessageHandler, MCPins and MCOutput define the instances.
`SUBSET`-valued and function-valued constants are definitions there; Socket and
PacketPool need only numbers and model values and are run as they are.

## The runs

| Run | Instance | States | What it shows |
|---|---|---|---|
| QueueThreads | 2 threads of equal priority, 2 nodes, 2 words, 3 pushes each | 18,348 | the queue is a Channel, its progress included |
| QueueIsr | a thread and an interrupt above everyone, 2 pushes each | 15,308 | no node leaks, refusals mean a full queue, as many out as in |
| QueueIsrInOrder | the same | - | *violated*: a message is overwritten in its node |
| StoreDeviceShape | 8 sectors of 5 cells, elements of 10, 3 slots, 5 stores, 1 power failure | 82,661 | old or new configuration after a power failure; no erase before one; the indexes agree; without faults a store fails in a full area only |
| StoreSmallElement | 8 sectors of 2 cells, elements of 4, 5 stores, 1 power failure, 1 HAL error | 186,492 | the same through the wrap to an erased area |
| StoreAccepted | the device's shape, 4 stores, no faults | - | *violated*: MAX_ELEMENTS wrapped, the full area is never erased |
| HandlerAssembly | a socket and a UART, 6 texts, packets of 4 and 14 tokens, queue of 2, 2 messages | 150,351 | texts carried out as sent, in order or not at all; their ends are recognised |
| HandlerUart | one text of 8 tokens and a receive buffer of 10 | - | *violated*: a message longer than half the buffer comes half and whole |
| PinsAcrossRestarts | 2 ports, 2 timers, 16 kinds of objects, 4 objects | 79,983 | the table says what the pins are; a restart gives back what was stored, and does not hang |
| SocketService | 3 connections, 2 packets each, 1 pending request | 29,086 | closes only what ended, no data left or mixed, the port is served again |
| PacketPool | 3 writers, 2 packets, 2 retries | 41,200 | one owner for each packet, nobody waits for a free one, every transmit returns |
| OutputToUartAndUsb | 2 writers, 2 callers, up to 2 lines printed and sent, of 1 or 2 pieces, 2 words, USB attached once | 483,825 | what is on the wire is its writer's, tokens are lost by a cut-in only, everything is said |

Why the bounds are enough:

* Queue.  2 nodes and 4 to 6 pushes fill the queue, refuse a push, and use each
  node again; 2 words let a copy be torn.  The proofs below have no bounds.
* Storage.  What matters of the sizes is kept: in the device's shape an element
  (1154 half-words in 3072 per sector there) crosses the sectors it is stored
  over, the subtraction in MAX_ELEMENTS wraps (`SizeModulus` stands for 2^32),
  there are more index bits than slots, and five stores fill the slots, are refused
  in the full area and, after a reset, begin again.  In the small shape the wrap to slot 0
  happens.  `Width` = 2 bits and two payloads that need different bits make programming over old data visible.
  One power failure at any step is enough to leave every torn state; the second
  is outside what the code can promise, see below.
* Handler.  The texts are a short one, one that fills `tempBuffer` to the last
  byte, one that is no array, one that leaves its array open, one too long for
  `tempBuffer`, one too long for `stringBuffer`.  Packets of 4 and 14 tokens cut them
  inside the carriage returns too, and one of 14 is longer than a Message.  Two messages are
  enough for one packet with the end of the first and the start of the second.  As on the device
  DataSize < MessageSize < TempSize < BufferSize.  `Disturbance` allows two
  messages to meet, or one to come in two receptions of the UART, once.
* Pins.  Two ports are enough for a slot taken by the next port, two timers for one
  that is shared and one that is not; a pin has a definition on both.  Two objects have
  no frequency, one of them for a pin without such a timer.  Four objects configure both
  timers, disturb one, or hang, store and restart (restarts are not bounded).
* Socket.  Three connections are one that is served, one that waits and one that
  pushes it out of the queue (the listen queue holds 1 here, 2 on the board).
  The proofs below have no bounds.
* PacketPool.  Two packets let one be in the queue while the other is in a hand, three
  writers let one wait behind another; the board has one packet and two writers.
  The proofs below have no bounds.
* Output.  Two words let a message be rewritten while it is moved; two pieces let
  a line be cut after it was overwritten; a queue of 1 loses pieces.  The help
  is many lines; two of them let two cut-ins follow each other, which is what it takes to
  lose the token of `txLock` (`Deaf`).  `MaxSaid` bounds the lines of the IP thread and
  the handler together to two.  The USB device comes
  once and may go at any step: what a second attachment adds is only a `Connected` next
  to an older `Disconnected`, which `ConnectedFollows` meets the other way round.  The
  safety properties are proved below without bounds.

Deadlock is not checked: every instance stops when its bounds are used up, and
a system whose peers are silent waits for ever.

### Preconditions of the properties, and why

* `RestartLoadsACommit`, `OnlyCommitsChangeLoaded` hold up to `risk = "spent"`:
  up to and with the first interruption after the area was clean.  A torn slot is
  not marked, so the next store goes to the same slot, finds bits that it cannot
  set, and erases, by the table of Flash.h, sector 0 or 1 and not its own: the
  index may be lost, and so are the neighbours that Flash.cpp:176 and 189 mean to retain.
  A reset of the storage that succeeds starts afresh.
* `StoreFailsOnlyWhenFull` is about runs without faults; a store after an interrupted one
  may fail (see above), and an error of the HAL fails one.
* `ExecutedAsSent`, `EveryTextEnds` assume that no piece was refused or cut, which
  the handler has no way of noticing (`refused`: a packet of more than 511 bytes is cut
  silently, MessageHandlerThread.cpp:240, and with its end go the four CR); and that
  no two messages met (`mixed`: pieces of two peers, or two messages on the UART
  without a silence between them, which become one `Line` of which the handler carries
  out the first).  `ExecutedAsSent` leaves out texts that are not `Fair`: those whose
  array is never closed, because a bracket of an older text in `tempBuffer` may close
  it, and those longer than `stringBuffer`, because the buffer is thrown away at the
  piece that does not fit and what follows counts as a message of its own.  Both
  the silence and the length were found by proof attempts that failed, and confirmed by TLC.
  They are about texts, not messages: what is lost because two messages share a packet is
  not carried out, and the run does not call that a violation.
* `MirrorsTheTable`, `RestartRestoresPins` assume that no pin took another's slot or
  timer (`clash`).  Pin 4 of the last port is not configured at all: its row is behind
  the array, and what a write there does is not defined.
  `MirrorsTheTable` says nothing of a handler that hangs (`io.hung`): its table has the
  configuration that it never applies.
* `NothingLeftWaiting` leaves out data that came before the receive notification was
  set (`early`): no event is raised for it.
* `AvailableAgain` assumes that no peer left before handleConnected was done with it
  (`gone`): otherwise handleConnected takes its error path, unlistens, and the port
  is closed for ever (Socket.cpp:35-52).
* `EveryTransmitEnds` leaves out a closed window: the probes of NetX reset their own
  failure count, so that a peer that keeps its window closed is never given up.
* `NothingRefused`, `FromItsWriter` assume that the handler did not
  print while the debug thread was inside the HAL (`cutIn`).  When it does, the
  second caller may be refused by the DMA and its message dropped, or poll for ever
  (`Starved` in `EverythingIsSaid`).  Empty pieces are refused in any case: nothing is lost
  with them, and `refused` does not count them.
* `LocksComeBack` holds with cut-ins too, and says what they cost: a token of `txLock` for
  each transfer that ended together with another (`merged`).  The semaphore starts with one
  more than it needs, so the first loss goes unnoticed; after two a writer waits
  for ever (`Deaf` in `EverythingIsSaid`).  The third way to wait for ever is a USB host
  that has configured the device and does not read (`AtTheHost`).

### Fairness

* QueueT: weak fairness of `Pop` and of `GoOn(p)`.  ThreadX always runs the ready
  context of the highest priority, an interrupt handler ends, and the handler
  thread returns to `pop`.  `Call` is not fair: nobody has to push.
* MessageHandler: the handler blocks in `pop` only, so `Pop \/ Handle` is fair; a
  peer that has begun a message sends the rest of it; interrupts are served, and the
  line of the UART is silent at last.
* Socket: the thread runs when it is ready (`Main`), and NetX repeats a SYN or a FIN
  until it is acknowledged or the retries are over (`Handshake`, `LastAck`).  What the
  peers do is not fair.
* PacketPool: a writer goes on with its call, the IP thread walks its list and has its
  timer, the DMA ends.  Acknowledgements, resets, the link and new messages are
  not fair: that a transmit returns follows from the retries running out.
* Output: a thread that may run by its priority runs, the channel moves, interrupts come.
  Who has something to say and what the USB host does is not fair.  Since `Runs` is
  part of each fair action, a thread that is held off by a more urgent one gets no promise.

## The proofs

TLC checks the instances above; the theorems hold for every value of the constants.
Every invariant and action property that a passing run checks is a theorem, but for
`StoreIsAccepted`; what conditions it needs is said below.

### Assumptions

The theorems use the named assumptions on the constants, which TLC evaluates in each run:

* `QueueAssumption`: the consumer is not a producer, priorities are numbers, capacity
  and word count are at least 1.
* `FlashAssumption`, `WearLevelingAssumption`: sizes are positive, an element is
  longer than its version (two half-words), and the index has more bits than
  elements fit the area (`DataLocation(IndexBits) > AllCells`; on the device 160 bits
  for 21 elements), so that a free slot is always found.
* `UartRxAssumption`, `HandlerAssumption`: `DataSize < MessageSize < TempSize <
  BufferSize`, as 256, 512, 4096 and 24576 are on the device, and pins are no keywords.
* `TextsAssumption`: a message ends with the four CR, they come nowhere before its
  end, and it does not begin with a CR.
* `PinsAssumption`: a configuration asks for values of the enumerations of Message.h
  and for a mask that `1 << n` gives in a byte; names of timers are no modes.
* `PoolAssumption` (`NULL` is no packet), `SocketAssumption`, `UartAssumption` and
  `OutputAssumption` (bounds are numbers; the two writers are the handler's thread
  and the debug thread, the latter less urgent; callers are neither of them).

Conditions that are true of some instances and false of others are not assumed but
stand in the theorem: `ConsumerNotAbove`, `NoPreemption`, `IndexInOneSector`.

### The queue

**QueueT_proofs.**  `TypeCorrect`: `TypeOK` is inductive as it stands; its conjunct
that a busy producer has begun a push makes `Message(p)` a message.
`NodesNeverLeak`: `Safety => []NoLeak` if no producer is less urgent than the
consumer (`ConsumerNotAbove`), which is so of both queues of the firmware, with the
UART interrupt among the producers.  `NoLeak` (a node in use is queued or on its way
to the consumer) is not inductive: it has to be known that between a producer's
successful send and its mark the pointer is still on its way.  The strengthening
`LeakInv` says that, and rests on `Runs`: while that producer is busy a consumer
that is not above it cannot have gone on (`ConsumerAlone`).

`RefusesOnlyWhenFull`, under the same condition, by `ScanInv`: the
nodes a push has looked at stay in use until it has looked at all, because whoever
cuts in and marks a node free again has found it free.  So a push that has no node
left has seen all of them in use at one moment, by `LeakInv` they are all on
their way, and being distinct they are as many as the queue was made for.

If no actor can preempt another (`NoPreemption`, the threads of
priority 16), then at most one is in the middle of an operation.  `FifoInv`
says so, and for each place in `push` and `pop` what the nodes hold: what is
queued, together with what the consumer holds, is exactly the accepted
messages that are not yet delivered, in order; the node being filled or marked is
in no other entry; a queued node is in use unless it was just sent.  From it follow
`DeliveredInOrderIfNoPreemption` and `QueuedOnceIfNoPreemption`.  The condition is
needed: run QueueIsrInOrder is the counterexample without it.

`ImplementsChannelIfNoPreemption`: under the same condition every
step of the queue is a `Put`, a `Get` or a stutter of Channel (`Safety => Fifo!Safety`).
A message is put when its pointer is handed over and got when `pop` returns.  That the
channel has room then is counted: queued nodes, the one the consumer holds and the one
that is sent are distinct (`RoomForTwo`).  The rest of `ImplementsChannel`, that the
channel makes progress, is left to run QueueThreads.

### The storage

**WearLeveling_proofs.**  `WearLevelingTyped` needs to know what the call under way is
for (`CallInv`): its destination and input are those of the place `store` is at,
and a write that has been let through lies in the area (`InRange`).

`RestartLoadsCommit`, `NoEraseInStore` and `CommitsChangeLoaded` come from one invariant,
`StorageInv`, in three parts.  `CleanInv`, as long as nothing was cut short: `Used(index, n)`
says that the first n slots are marked and no other, `Clean(f, n)` that nothing lies
behind them; `CleanData` and `CleanIndex` say how far the programs of the write have
come (`Reached`), what is on the medium before that place (`Written`) and which programs
are left (`Rest`).  Since the destination is blank and programming a blank cell gives what
is programmed, `write` accepts and never erases; since marking slot n only clears its
bit, the index in flash is the old or the new one at each half-word.  `LoadInv` says
what a start-up would load at each place of the code.  `ArmedInv`: a call
that was cut short asks the HAL for nothing more, so that nothing is damaged until
the next store begins.  The proof does not need `MAX_ELEMENTS` not to wrap: a store
behind the area is refused by `write`, and the configuration stored before stays.

`RamIndexAgrees` holds under power failures at any time, also after them, where
`CleanInv` says nothing.  `IndexInv` follows the write of the index through an erase
too: the programs that mean to retain the rest of the sector go behind the index if
it lies in one sector (`IndexInOneSector`; the device's 20 bytes do), and the index
is programmed after them.

`StoreRefusedOnlyWhenFull` says that, as long as there are no faults, a store fails only
when no slot that fits the area is free (`FreeSlots`), whatever `MAX_ELEMENTS` has become:
by `FullInv` the data goes to the first free slot, which `IndexInv` makes the first free one
of the flash too, and only a slot behind the area is refused.  That the next store then
erases and succeeds (`StoreIsAccepted`) is true of the instance of StoreSmallElement, where it
is model-checked, and false in the shape of the device: run StoreAccepted is the
counterexample.

### The message handler

**Recursion** holds what the proofs about recursive functions need.  The library's
induction theorems take an operator as a parameter; `UpTo` is induction over a set
of numbers instead, derived from the well-foundedness of `<`, and `Recursively` says that
the function exists that begins with a base and goes on by a given step.

**MessageHandler_proofs.**  `JsonParse` and `Meanings` are such functions; the lemmas of the first part
say what they return, that the parser's view of a text depends on the text up to the
place where it ends (`ParsePrefix`), and that `Meanings` of more messages begins with the
`Meanings` of fewer (`MeaningsPrefix`).  `HandlerTyped` needs that no entry of the queue is
longer than a Message.  `OutcomeIsTheText` follows from `ParsePrefix`: the parser has
ended before it comes to what an older message left in `tempBuffer`.

`CarriedOutAsSent` is the end-to-end statement.  Its invariant `FlowInv` regards all that
was sent as one stream, in which `Place(k, o)` is the place after k texts and o tokens.
Main has come to one such place (what it carried out is `Meanings` of the texts before,
and `stringBuffer` is the part of the next that was gathered); each piece in the queue
`Leads` from the place where the one before ends to the next; and from the last place on,
what is to come is nothing, the rest of a message on a socket, one that the UART is
receiving, or one that its callback is about to copy (`Coming`).  A piece of the UART may be
longer than its message: what lies behind it in `dataBuffer` is the tail of an older
message and so ends with the four CR as well (`Filled`, `Covers`).  A message
that is begun behind another makes the last text longer;
the places before its end stay places, because no packet has ended with an end of that
text (`JoinsMore`, `BehindFlow`).

### The pins

**Pins_proofs.**  `PinsTyped` needs that each entry lies in the slot of its own mask (`Good`).
`TableIsMirrored` and `RestartRestores` compare what messages made of the pins,
in their order, with what the replay makes of them in the order of the table.  Both are
shown to be what the table says (`Shows`): a pin is what its own entry asks for, and its
timer has the entry's frequency, and a pin without an entry is as after a reset.  That is an invariant
of the messages (`ShownInv`), and, by induction over the slots, holds of the replay of
any table with that property of some hardware (`ReplayShows`): the entries of one timer
must agree on its frequency, since the hardware can have only one.

`RestartsEnd`: no configuration for which `startPWM` does not end (`Endless`) is in the
storage, nor, unless the handler is in that loop, in the table (`EndsInv`), and the replay of
such a table ends (`ReplayEnds`).

### The TCP service

**PacketPool_proofs.**  `PoolTypeCorrect`, `EveryPacketHasOneOwner` and
`NobodyWaitsForAFreePacket`, by the invariant `PoolInv`.  To the properties it adds
that a packet is queued at one place of one list only (`Distinct`: otherwise its first
release would leave a queued packet free), and that the suspension list names each
suspended writer once and nobody else (`Waiting`).

**Socket_proofs.**  `SocketTypeCorrect`, `NeverClosesALiveConnection`,
`NotifiedDataIsReceived` and `DataIsThePeers`, by the invariant `SocketInv`.  Its core is
`FlagInv`: what an event flag that waits, or that the thread has taken, still says of the
connection (`ConnectedMeans`, `DisconnectedMeans`, `ClosingMeans`, `ListeningMeans`).  No
flag outlives its connection, because the socket listens again only in the handler of
the flag that tells its end.  `QueueInv` numbers the received packets, and `WakeInv`
says that data which was notified is on the queue together with its flag, or the
thread is still in its loop.

### The output

**Output_proofs.**  Every step is one of a writer in `transmit`, of the hardware, or one
that leaves both alone (`Steps`).  `OutputTypeCorrect` needs `CountInv`: who is inside
has taken `uartLock`, and the tokens of `txLock`, with those still to come and those of
transfers that ended together (`merged`), are one and one for each transfer whose
writer has not gone on.
`DamageComesFromAbove`: who has been through a place of the static buffer finds its own
piece there or one of a caller that cut in (`DamageInv`), and only a more urgent one
can (`Runs`).  `ConnectedFollowsTheDevice`: an attachment that comes before CDC::main looks
at its events stays among them (`ConnInv`).

`TransmitDropsNothing`, `TheSemaphoresComeBack` and `SentByItsWriter`:
`HalInv` says, as long as `cutIn` is false, what each place in `transmit` knows of
`gState`, the channel and its lock (`Place`, `Handles`), that the handler is not in
`transmit` while the debug thread is past the test of `gState` (`Alone`), and that the
tokens of `txLock` and the transfers under way count up (`Tokens`), so that none is
`merged`.  `Tokens` is also why the handler never waits for `txLock` (`DebugRunsAlone`),
which `Alone` needs.  The counts of `TheSemaphoresComeBack` need no such condition: they
are `CountInv`.  `WireInv`
adds that while a message is moved its writer may come back with one more message, but
no further than the test of `gState`.

### Only model-checked

Liveness, which is out of the prover's reach: `EveryPushIsPopped`, `EveryTextEnds`,
`AvailableAgain`, `EveryTransmitEnds`, `EverythingIsSaid`, and the progress half of
`ImplementsChannel`.  `DeliveredInOrder` and `QueuedOnce` are proved of threads that do not
preempt each other; with the interrupt among the producers the first is refuted.
`StoreIsAccepted` depends on the shape of the area (see above).

## Not modelled, and why

* The reader of `CDC.cpp`: `currentDataLength` never grows (CDC.cpp:83-102), so nothing
  that is read from USB is ever handed to the handler, and there is no behaviour to
  state anything about.  (`retreiveData` also copies 1024 bytes into a buffer of 512.)
* What the handler prints while it hangs in `startPWM`, and what becomes of the queues
  behind it: Pins ends there.
* Line errors of the UART: the HAL ends the reception and no `HAL_UART_ErrorCallback`
  starts it again; what could be said of it is that the UART is deaf from then on.
* In `Socket::transmit`, messages longer than the window or a segment.  In Debug, the
  overload of `send` for raw bytes, and that `vsnprintf` returns the length it would have
  written (Debug.h:66), so that a line of more than the buffer is cut from beyond it.
* gason below its tokens: characters, numbers, strings, depth.
* Duty cycle, prescaler, the tables of pins and timers, and the help texts are data.  (The
  help offers "NoChange", MessageHandlerThread.cpp:16, which `valid()` refuses for pins
  without PWM, Message.h:78.)
* A second power failure after an interrupted store (`risk`), ECC and the NMI.
* The heartbeat, and the generated initialisation (main.c, clocks, `app_netxduo.c`,
  `app_usbx_device.cpp`), which is straight-line code.  FileX is not used.
* ThreadX, the HAL, USBX: vendored, and modelled by what their calls promise, with the
  parts of the UART and DMA drivers that a second caller can see.  NetX Duo is modelled
  in the part a server socket and the packet pool need.  Nearly all of the lines in
  `src/` are such code (CMSIS headers, HAL drivers, NetX Duo with its add-ons), so that
  the modelled lines are a small share of the repository.

## Plan

Done: queue, channel, flash and wear levelling, reception, assembly and parsing, pins
and replay, the TCP service with its packets, the output with its HAL; and the
proofs of every safety property of each.  Left, in this order:

1. Flash by itself: what `write` promises of a range it erases for, and how much of the
   neighbours Flash.cpp:161-189 loses, as a theorem about the sector table.
2. The power failures after an interrupted store (`risk = "spent"`): what can still
   be said of the index there, beyond `IndexAgrees`.
3. gason on characters, with the reads behind the end of the text (gason.cpp:253).
4. Liveness of data that arrives before its notification is set (`early`).
5. Socket and MessageHandler composed over Channel: what one peer sent is carried out.
6. The CDC reader, once it keeps the length of what it has read.
