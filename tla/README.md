# VirtualSMC in TLA+

VirtualSMC is a macOS kernel extension that emulates Apple's System Management
Controller. AppleSMC, the driver of the real device, talks to it through I/O
ports (first generation) or through a memory window (second and third
generation), asks for the values of four-letter keys, and is woken by events.
Plugins add keys and feed them with sensor readings.

This directory holds TLA+ modules translated from the sources, the TLC
configurations that check them on small instances, and TLAPS proofs for every
value of the constants. `PROJECT.json` lists the runs, the mutants that show
each property can fail, the source lines each definition stands for, the
hazards of the code and the theorems.

## 1. Inventory

### Event delivery (`VirtualSMC/kern_vsmc.cpp`, `kern_intrs.hpp`)

State: `interruptsEnabled`, `storedInterrupts` (at most 16 slots, reserved at
start because nothing may allocate under the spin lock), `registeredInterrupts`
with its `enabled` flag. Operations: `postInterrupt` (any thread),
`getInterrupt` (the driver's event thread, through the MMIO window),
`setInterrupts` (a write of the key NTOK), the four registration calls of
AppleSMC, and `causeInterrupt`, which runs without the lock after a post or a
read. Hard: the wake-up is sent after the lock is released and only by the post
that found the queue empty; registration calls take no lock; a post of a stored
code is merged. Correct when: no code twice, no event without a wake-up, every
event read in the end, and the queue is a mailbox with one slot per code.

### Port protocol, PMIO (`kern_pmio.cpp`)

State: command, status flags, result, key, index, announced size, buffer with
two indices. Operations: one per port access (`writeCommand`, `writeData`,
`readData`; `readStatus` and `readResult` change nothing). Hard: the driver may
touch any port at any time, give up in the middle of a command, announce sizes
that do not fit, and values change while it fetches them. Correct when: the
machine implements atomic transactions, its phases agree, no byte of one
transaction shows up in another, and no unhandled command is ever reached.

### Memory mapped protocol, MMIO (`kern_mmio.cpp`)

State: `currentResult`, `currentStatus`, `currentEventStatus`, `dataBuffer`,
`dataSize`, the window. Operations: `handleWrite` (a command, then `submitData`
and the post of `SmcEventKeyDone`), `handleRead` of the key status and of the
event status. Hard: no lock at all between the command thread and the event
thread, both of which clear `currentStatus`; it sits on top of event delivery.
Correct when: a completed command stays visible until it is seen, an event
status is that of the read that shows it, and replies contain only what they
should.

### Key store (`kern_keystore.cpp`, `kern_value.cpp`, `kern_keyvalue.cpp`, `kern_keys.cpp`)

State: visible and hidden storage, plugin slots, the values, the lock of the
private keys (`KPST`), device information. Operations: `readValueByName`,
`writeValueByName`, `readNameByIndex`, `getInfoByName`, `loadPlugin`, `merge`,
and the code of the special keys. Hard: plugins are loaded by threads of their
own, without a lock, while the driver reads; overrides that run out of slots or
memory; a search that locks the private keys again. Correct when: no search
leads to a deleted value, an index means the same key for ever, an override is
answered once it has succeeded.

### Special keys (`kern_keys.cpp`)

OSWD, NATi and NATJ start and count down the watchdog; CLWK counts the time since
the last wake in 16 bits; CLKT is the clock of the day; HBKP takes the
hibernation key; KPPW asks for the private keys to be unlocked; NTOK turns events
on. Hard: rounding, limits and restarts. Correct when: no key promises more time
than the watchdog leaves, a counter never wraps.

### Service startup and hand-over (`kern_vsmc.cpp`, `kern_vsmc.hpp`, `kern_prov.cpp`)

State: `instance`, `servicingReady`, `mmioReady`, the provider's fallback to
first generation mode, the monitored range. Operations: `start`,
`onPatcherLoad`, `onKextLoad`, `postMmioReady`. Hard: two threads settle with
two atomic flags and no lock which of them registers the service. Correct when:
it is registered once, and not before it is ready.

### Page fault trap (`kern_prov.cpp`, `kern_handler.S`)

State: `pageInfo` per page, `kernelWriteLock`, the patched instruction, the
protection of the pages. Operations: `kernelTrap`, the trampoline,
`ioProcessResult`. Hard: a lock held from the fault to the trampoline, across
the faulting instruction; `pageInfo` filled before the lock is taken and read
after it is given back; both status registers, which two threads of the driver
read, in one page. Correct when: each thread goes on behind its own access with
code and page as they were, and no thread waits for itself. That holds for
accesses that share no page and no address with another (finding 3).

### Watchdog (`kern_vsmc.cpp`, `kern_keys.cpp`, `kern_prov.cpp`)

State: `watchDogJob`, the timer, `watchDogAcceptJobs`. Operations:
`postWatchDogJob`, `watchDogAction`, the keys that post jobs, the panic
filters. Hard: none of it is locked. Correct when: a stored job has its timer.

### EFI backend (`kern_efiend.cpp`)

State: whether the firmware takes the key, the private key in RTC memory, the
NVRAM record. Operations: `detectFirmwareBackend`, `eraseTempEncryptionKey`,
`submitEncryptionKey`. Hard: two memories written by separate steps, each of
which may fail, and power that goes off between them. Correct when: what a
successful submission left can be read by the boot loader.

### Battery manager (`Sensors/SMCBatteryManager`)

State: `btInfo`, `quickPoll`, the poll timer, `mainLock`, the handler of the
SMBus controller. Operations: `checkDevices` with the firmware methods it
evaluates, `acpiNotification`, `setPowerState`, `sleep`, `wake`, `subscribe`.
Hard: four threads check, cancel and set the timer; the quick poll count is
lock-free; seconds are kept in eight bits. Correct when: a battery that needs an
update gets its poll, sleep ends the quick polls, no capacity of zero is shown.

### Dell sensors (`Sensors/SMCDellSensors`)

State: the queue of key updates, `fansStatus`, `targetSpeed`, `awake`,
`ignore_new_smc_updates`, the machine's mode. Operations: key updates
(`postSmcUpdate`), the bound worker thread, the sleep and wake handlers. Hard:
sleep waits for the queue to drain while the worker holds an update; an entry is
overwritten in its place. Correct when: the last value wins, the mode is what
the status says, sleep comes to an end with automatic fans.

### Processor and SuperIO sensors (`Sensors/SMCProcessor`, `Sensors/SMCSuperIO`)

State: a flag and a timer each. Reading a key makes the timer come sooner.
Hard: the flag and the timer are set and cleared in two steps by two threads.
Correct when: a flag that is set stands for a refresh that will come.

### Others

The plugin interface (`kern_vsmcapi.cpp`) registers plugins and converts
numbers; the light sensor plugin re-arms a timer and posts an event; the EFI
driver and the user tools are programs of their own.

### How they interact

    AppleSMC --ports-----------------> PMIO ---+
       |  \                                    |--> key store <-- plugins, sensors
       |   page fault --> trap --> MMIO -------+        |
       |                            |  ^                +--> watchdog, EFI backend
       |                postInterrupt  getInterrupt
       |                            v  |
       +<----handler call---- event delivery <-- light sensor, keys

    IOKit --> start  <-- servicingReady, mmioReady -->  provider <-- Lilu

## 2. Modules

| Module | Stands for |
|---|---|
| `EventMailbox` | abstract: one slot per event code, in order of first post |
| `SmcEvents` | `postInterrupt`, `getInterrupt`, `causeInterrupt`, `setInterrupts`, the registration calls |
| `SmcKeyAccess` | the answers of the key store to the protocols, as operators |
| `SmcTransaction` | abstract: commands as atomic transactions on the key store |
| `SmcPmio` | the port protocol, one action per port access |
| `SmcMmio` | the window protocol composed with `SmcEvents` (`Events == INSTANCE SmcEvents`) |
| `SmcStartup` | `start`, `onPatcherLoad`, `onKextLoad`, `postMmioReady` |
| `KeyDirectory` | abstract: names whose index never changes, values replaced one by one |
| `SmcKeystore` | the search, `loadPlugin`, the access interface, `KPST` and `KPPW` |
| `SmcWatchdog` | `postWatchDogJob`, `watchDogAction`, the panic filters |
| `SmcTimerKeys` | OSWD, NATi, NATJ |
| `SmcClockKeys` | CLWK, CLKT |
| `SmcTrap` | `kernelTrap`, the trampoline, `ioProcessResult` |
| `SmcEfiBackend` | the hibernation key from HBKP to RTC memory and NVRAM |
| `SmcBattery` | `checkDevices`, the poll timer, notifications, power, the handler |
| `SmcDell` | the update queue, its worker, sleep and wake |
| `SmcSensorPoll` | when the processor and SuperIO plugins refresh |
| `MCSmcDevices` | `SmcStartup` and the modules from `SmcWatchdog` to `SmcSensorPoll` but for `SmcTrap`, checked in one run |
| `MC...` | values of the constants for TLC |
| `..._proofs` | theorems about the module of that name |

**SmcEvents.** A critical section of `interruptsLock` is one action (`PostNew`,
`PostAgain`, `GetInterrupt`, `GetNothing`, `SetInterrupts`). `causeInterrupt`
is two more steps of the same thread: the test of `enabled` (`CauseInterrupt`)
and the call of the handler (`CallHandler`), so that a source can be disabled
between them. `registeredInterrupts` has at most one entry, since only
`EventInterruptNo` is accepted and only once; it is the variable
`registration`. The driver is external: its handler raises `signal`, which its
event thread takes before it reads the event register; it may also read without
a signal. `missed` is a history variable: a wake-up was withheld since the last
read because the source was not enabled.

**SmcKeyAccess.** A key is in `Keys` when the search of the code finds it. The
attributes are the sets `Readable`, `Writable` and `Private`; `Special` are the
keys with code of their own, which may refuse the bytes and change their value
later (`ValueChanges`). Private writes are always refused because `getByName`
locks `KPST` again before each access (`kern_keystore.cpp:668`): an unlocking by
KPPW never lasts until the access it was meant for. `Docs/SMCBasics.txt:78-81`
withholds the private attributes only while `gKPST` is 0; what the emulated
device should do is not said in the sources, so the models follow the code and no
property takes a side.

**SmcPmio.** The status register is the set of its flags; the rest is as in the
code, with indices from 1. `WriteExpected` is the whole of `writeData`'s switch.
The driver may announce any size. A read it is refused then counts as many bytes
as were announced (`loadValueInBuffer` takes the size over as it is): the reply
is zeros and then what lies in memory behind the buffer, one value `Beyond` for
whatever it is. `TypeOK` says that this is the only way to count more than the
buffer holds and that nothing is ever stored there, and the abstract
transactions give the same reply. Left out: `resetBuffer` then clears as many
bytes, and what it clears behind the buffer and its two indices, which it sets to
0 anyway, is no state of the model.

**SmcMmio.** Each access to a shared member is an action, in the order of the
code. `at` says where the command thread and the event thread are, `code` is
the local of `handleRead`. The queue changes only by actions of `SmcEvents`.
`setInterrupt` is part of `GetInterrupt`, under the same lock as in the code.
What the driver stores to the window before a command is part of `HandleWrite`.
`TakeStatus` and `TakeEvent` are the faulting instruction reading the register.
The history variable `undelivered` is set with the status and ends when the
driver has read either the key status or an event status that belongs to
`SmcEventKeyDone`; that AppleSMC remembers a completion event it has read is an
assumption about the driver. Left out: the bytes of a log message, and the
branch of `submitData` in which `setKernelWriting` fails.

**SmcStartup.** Each access to a flag is an action. The store of `start` to
`servicingReady` waits in `pending` until `DrainStore` makes it visible, since
release and acquire order do not keep a load from overtaking an earlier store.
`registerService` takes locks of IOKit and is taken to drain the store. The lost
registration below does not need the delayed store: the order of accesses in
`postMmioReady` is enough. `overlap` records that both sides were between their
two accesses at once. Preparing the instance is one step that succeeds or fails.

**SmcKeystore.** A submission is `Collect` (the overrides leave the plugin's
storages), `Publish` (the compare and exchange that takes the first empty slot),
then for each override a load of the store's pointer and a store of the new one,
and `Complete`, where the temporary entries delete what they still hold;
`CollectFails`, `NoSpace` and `RefuseVersion` are its failures. A value object is
a pair of owner and key, so that a deleted one can be told from its
replacement; `freed` is a history of what was deleted. The driver's access is a
search, a load of the pointer and the access, since plugins move in between.
`SearchIn` is the binary search as written. Assumed: no two plugins bring the
same key, and no key is visible in one place and hidden in another. The
interface calls it a contract violation; in the code `merge` and `loadPlugin`
then keep both entries and the search finds the earlier slot, where
`kern_keystore.hpp:231` speaks of a priority.

**SmcWatchdog.** Each access to the job, the timer and the accept flag is a
step; IOKit's cancel does not wait for an action that has begun. `JobHasTimer`
speaks only of jobs that are still stored. The model also shows what the code
lets happen and no source forbids: a cancelled job may still fire, a job may be
replaced between the action's load and its reset and is then lost, and a post
that passed the accept flag before a panic arms its timer after it.

**SmcTimerKeys, SmcClockKeys.** A tick is the unit of the clock; a second is
several ticks, so that rounding shows. A post to the watchdog is one step here.
`UpdateCLKT` takes its offset from the value's old bytes and not from those
written, as the code does.

**SmcTrap.** `traps` is what the trampoline tells, the page and the kind of the
fault, with `vm` for a page that was opened by `vm_protect`. The address behind
the access is a free choice of `Returns`; two trampolines overlap exactly or not
at all. Any number of threads may be at one page or come to one address: the
second to fault overwrites the first one's entry in `pageInfo`, an access to a
page another thread has opened does not fault (`Touch`), one to a page another
thread has closed faults again with `kernelWriteLock` held (`AccessPage`), and a
thread that runs into somebody else's trampoline goes where that one leads. The
history variable `mixed` collects the threads, pages and addresses of accesses
that have met, and of those that came to such a page or address afterwards.
`ReturnsHome` and `NoSelfDeadlock` speak of all others: the damage is contained
where something was shared. What it is there is finding 3, and a thread that has
shared a page may wait for itself, in the model as in the code.

**SmcEfiBackend.** Cryptography is the number of a private key; every read,
write and allocation may fail; `PowerOff` may come between any two steps and
takes what was not synchronised.

**SmcBattery.** Each firmware method is a step under `mainLock` and its answer
is free; of a battery's data the model keeps what the decisions read. Whether
external power is told to the root domain is no state of this code. A battery
has an average rate (`Averages`) once a static update has read it.

**SmcDell.** A value is the set of fans it switches on, so that F0Md, F0Tg and
FS! have one form. The step from target speed to the machine's own three speeds,
the waits of `i8k_smm` and its audio hooks are left out; a call of the firmware
may fail. What a poster brings is chosen when it is stored, since nothing looks
at it before. `asked` and `failed` are history variables.

**SmcSensorPoll.** The SuperIO plugin does not look whether the timer was set;
`failed` says which of its calls have failed, so that `RefreshComes` can say what
the flag stands for: a quick refresh unless setting that one failed, and some
refresh unless both did.

**MCSmcDevices.** The components that share no variable: `part` names the one
that moves, so the states of the run are the sum of theirs and not the product.
`Spec` carries the fairness of `SmcDell` and of `SmcStartup` for their parts.
Nothing is claimed of two of them at once.

## 3. Runs

| Run | Properties | Shows |
|---|---|---|
| `events` | `TypeOK` `UniqueCodes` `WakeupNotLost` `EventDelivered` `MailboxSpec` | the queue under two posters, the driver and the registration calls |
| `events_wakeup` | `AlreadyCaused`, violated | finding 1 |
| `pmio` | `TypeOK` `NotPanicked` `NoStaleBytes` `PhaseConsistent` `TransactionSpec` | every order of port accesses |
| `mmio_race` | `CompletionVisible` `EventStatusFresh` | command and event thread, other posters, registration calls |
| `mmio_data` | `TypeOK` `NoValueLeft` | every sequence of commands on keys of two sizes |
| `startup_lost` | `SomebodyRegisters`, violated | finding 2 |
| `keystore` | `TypeOK` `ReachableAlive` `NamesAreFound` `EnumeratedOnce` `OverrideAnswers` `DirectorySpec` | three plugins loaded, refused and failing while the driver looks up, reads and writes |
| `devices` | `TypeOK`; `JobHasTimer`; `CountdownHonest`; `WakeCounterGrows`; `FirstGenerationPrivate` `SecondPublishes` `RegisteredWhenReady` `EventuallyPublished`; `SubmittedReadable`; `UpdateScheduled` `SleepStopsQuickPolls` `CalledWithTarget`; `LastTargetApplied` `ControlAgrees` `SleepCompletes`; `RefreshComes` | watchdog; timer keys; clock keys; hand-over; hibernation key; battery; Dell fans; sensor polling |
| `trap` | `TypeOK` `ReturnsHome` `NoSelfDeadlock` | two threads fault, on one page or on two |
| `trap_path` | `PathRestored`, violated | finding 3 |
| `battery_shortcut` | `NoZeroCapacity`, violated | finding 4 |
| `dell_sleep` | `FansAutomaticAsleep`, violated | finding 5 |

Every property of a passing run has a mutant in `PROJECT.json`: a plausible
slip in one definition (a wrong boundary, a missing reset, a dropped case) for
which TLC finds the property violated.

**Bounds.** `events`: two posters, the three codes of `AppleSmc.h`, two
contents, two slots. Merging needs two contents; queueing behind another code,
two codes; refusing for want of a slot, one slot fewer than codes. A third
poster adds no step that two do not take, because `postInterrupt` has no local
state outside the lock but the pending `causeInterrupt`. `pmio`: keys of two
bytes and a buffer of four, so that a header is longer than a byte and shorter
than the buffer; the bytes 0, 1, 2 and 6 stand for no size, sizes that fit and
a size that does not; the four existing keys cover readable, writable,
write-only with code of its own, and private. `mmio_race`: one slot for two
codes, so that the completion can be refused; the key store is empty, for the
commands' bytes play no part in the race. `mmio_data`: a key as long as the
buffer, a shorter one and an information shorter than a long value, the command
thread alone posting.

`keystore`: three plugins for two slots, so that one finds none whatever the
order; the first overrides a visible and a hidden key and adds one of each, the
second overrides and adds, the third only adds. The store's five keys give the
binary search odd and even lengths.

`devices`: one driver thread and the panic thread post jobs, of a resetting and
a harmless kind (both the race of two posts and of a post with the action are in
it); a second of two ticks, countdowns of at most two seconds (`MaxSeconds`), a
clock of seven ticks (`MaxTime`); a counter limit of 2 and a day of 3 against a
clock of six, so that both limits are passed; two boots (`MaxBoots`) and three
private keys (`MaxKeys`), enough for a record of one boot with the RTC of
another; one battery, a quick poll count of two, and elapsed times of 55 and
310 seconds, the second 54 in eight bits; one fan, one posting thread and a
queue of two; two readers; the hand-over has no parameters, both generations and
all orders are in it. The battery part has also been run with two
batteries and the fan control with two posting threads, with the same results,
but that takes longer than the run should. The
bounds `MaxTime`, `MaxSeconds`, `MaxBoots` and `MaxKeys` are guards of actions;
no other counter is bounded by one. `battery_shortcut` has two batteries,
`dell_sleep` a queue of three.

`trap`: two threads, a closed page and one that may be read, two return
addresses. Two threads on one page, two on one address, and two that share
nothing are all in it; what a third thread adds to them is in the proofs, which
hold for any number, and was tried by simulation. `trap_path` needs one closed
page.

The bounds in `TypeOK` are the code's own: the slots
(`MaxActiveInterrupts`), the buffer (`MaxDataSize`).

**Fairness.** `events`: a thread inside `causeInterrupt` goes on, the driver's
event thread takes a raised signal, and a register read ends (`FairSpec` of
`SmcEvents`); posters, polling and registration calls are free. This is what the
kernel's scheduler and the driver's work loop give: none of those steps waits for
anything but a spin lock. `devices`: `IOService::start` is called and both
threads of the hand-over go on once inside, while Lilu may never report AppleSMC
(`FairSpec` of `SmcStartup`); the Dell worker, a thread that loops for ever and
whose firmware calls give up after a bounded wait, and the sleep handler that
looks at the queue again and again (`Fairness` of `SmcDell`); posters, timers and
power changes are free. `SleepCompletes` excuses the one case in which the wait
may be longer: a wake-up timer that was already running lets new updates in. The
other runs check safety only. `CHECK_DEADLOCK FALSE` stands in `devices` because
the hand-over ends, the watchdog resets the machine and the clocks and boots stop
at their bounds, in `trap` because threads that shared a page may wait for
themselves for ever, and in the configurations that look for one violation of a
part (all but `events_wakeup`); elsewhere deadlock is checked.

## 4. Findings

1. **A merged post without a wake-up** (`events_wakeup`). `kern_vsmc.cpp:452`
   says of a stored event that "It should be already caused when it was added".
   If the source was not enabled then, `causeInterrupt` called nobody;
   `enableInterrupt` does not cause anything either, later posts are merged or
   queued, and none of them wakes the driver until it reads the register of its
   own accord. `WakeupNotLost` and `EventDelivered` say this is the only gap.
2. **The lost registration** (`startup_lost`). `start` sets `servicingReady`,
   then reads `mmioReady`; `postMmioReady` reads `servicingReady`, then sets
   `mmioReady`. When both reads come first nobody registers a later generation
   device. `SecondPublishes` says this needs the overlap.
3. **The way back overwritten** (`trap_path`). `kernelTrap` saves the code behind
   an access and its address in `pageInfo`, one entry per page, before it takes a
   lock, and `ioProcessResult` reads the address again after the lock was given
   back. The registers of the key status and of the event status lie in one page
   (`kern_mmio.cpp:17`), and the driver's command thread and event thread each
   read one. `kern_prov.hpp:250` says that `ioProcessResult` "Restores the
   original code execution path"; a second thread that faults in between makes
   the first go on behind the second one's access. `ReturnsHome` says the damage
   stays with accesses that shared a page or an address.
4. **A battery of no capacity** (`battery_shortcut`). `checkDevices` evaluates
   `batteriesAreFull && updateRealTimeStatus(...)`: behind a battery that is not
   full no other is asked. One whose static data has just been read then stays
   connected with a remaining capacity of zero, of which
   `ACPIBattery.cpp:333` says it "will lead to boot failure".
5. **Manual fans asleep** (`dell_sleep`). `handlePowerOff` looks at `fansStatus`
   and forces automatic control only if it is set. A request for manual control
   that still waits in the queue is applied after that look and before the
   queue is empty, and the machine sleeps under manual control.
   `ControlAgrees` says mode and status agree all the same.

Two more things differ from what one might expect without contradicting a source:
`getKeyInfo` copies its information without counting it (`kern_mmio.cpp:188`), so
that it stays in the buffer until the next value covers it (`NoValueLeft` allows
for that and nothing else), and the private keys are locked again by each search
(see `SmcKeyAccess` above).

## 5. Proofs

All of it holds for every value of the constants within the named assumptions
(`ConstantsAssumption`, `KeyAccessAssumption`, `MmioAssumption`, `TrapAssumption`,
`BatteryAssumption`, `DevicesAssumption`): any threads, codes, slots, pages, keys,
bytes and lengths.

`SmcEvents_proofs`. `TypeOK` and `UniqueCodes` are inductive, the second with
the help of the first: a post appends a code only when the search found none.
`WakeupNotLost` is inductive too: only a take of a signal, a read or the end of
`causeInterrupt` removes a reason for it, and each leaves another one or empties
the queue or sets `missed`. `ImplementsMailbox` maps the sequence of entries to
the order of codes and one content per code; it rests on `UniqueCodes`, without
which the content of a code would not be a function of the queue.

`SmcPmio_proofs`. The inductive invariant `IInv` joins the four state properties.
They need each other: that an argument is stored within the buffer rests on
`dataIndex = dataSize` while collecting (`PhaseConsistent`) and on a count beyond
it only being that of a refused read (`Oversized`), which collects nothing, that
the switches never reach their default rests on the command being known then, and
that no byte is stale rests on the indices. `ImplementsTransaction` takes each
port access to a step of `SmcTransaction` or to a stutter; the reply and the
argument bytes are read off the buffer, the rest of an oversized reply off the
memory behind it.

`SmcMmio_proofs`. `UsesQueue`: each step is a step of `SmcEvents` or leaves its
variables alone, so the theorems above hold of the queue under the protocol.
`CompletionStaysVisible` and `EventStatusIsFresh` come from `IInv`, which
strengthens them by where the event status is on its way from `setInterrupt` to
the driver (`EventFlow`) and by the fact that a status read clears no completion
it does not show (`StatusFlow`). The latter holds because the one thread that
sets the status is the one that reads the key status; the event thread may
clear it between, but never without the completion's event in hand.

The data of `SmcMmio` rests on a second invariant, `BufferInv`: the types,
`NoValueLeft`, and that outside a command nothing is counted (`Uncounted`), so
that an answer is written to an empty buffer and `submitData` erases all of it.

`SmcStartup_proofs`. The counters of registrations do not tell who counted.
`Announced` says what each thread has stored by the time it is where it is,
`Counted` recovers the counters from the two places, and `Settled` says that
without an overlap exactly one of the two finds the other's flag. The theorems
about the run are in `SmcDevices_proofs`, which takes these over.

`SmcTrap_proofs`. `pageInfo`, the patched code and the protection of a page are
shared, and the lock covers only part of the way. The invariant has two sides.
What is clean, not in `mixed`, belongs to one thread at a time: `Apart` (no other
thread at its page or address), `Saved` (what its fault saved is original code
and stays until it has gone back), `Locked` (it holds the lock between patch and
restoration at most), `Patched`, `Told` and `Opened` (its trampoline is its own,
and code that is not the original and a page that is open have a thread that will
put them right). What is shared leads to nothing clean: `Placed` (a page and an
address are shared together, and with them the thread) and `Contained` (a shared
address or entry holds only trampolines of shared pages). `Known` says a page has
an address before any trampoline names it, so that `ioProcessResult` never
restores at, or returns to, an address nobody stored. The long step is an
arrival (`ArrivalKeeps`): what was clean before may become shared, with all that
hangs on it.

`SmcBattery_proofs`. `NeedFlow` follows the need of a static update through
`checkDevices`: the first loop leaves no battery in need, the second keeps
`full` only while none is, and without `full` a poll is armed. `Indexed` and
`Locked` make the loops and the lock those of one thread, `Counting` says a
decrement starts above zero, `HandlerTold` that the target is there before the
handler.

`SmcKeystore_proofs`. `NothingDeletedIsFound` needs the history of a submission:
what is left to override is overridden once (`ToDo`), backups are originals
already replaced (`Submission`), behind a store name is the store's value or that
of a plugin that got so far (`Held`), and a deleted value is one of those
originals or one that a refused plugin had lost (`Gone`). The other properties
need what the search finds: `Layout` (behind every name of a published plugin is
a value it has brought or replaced, and its overrides are all done once it has
succeeded), `Listed` (the list of names holds each visible name once), `Lasting`
(what a driver was told of names and their number stays true, since the list only
grows) and `Aimed` (an access is on its way to the owner's value).
`StoreIsDirectory` is the refinement of `KeyDirectory`, step by step.

Three facts about data carry these proofs, and are results of their own:
`SortedNames` (sorting keeps every name once, in increasing order), `SearchFinds`
(the recursive binary search of a sorted list finds a name if and only if it is
there) and `FlattenAppend` (the list of all names is made of the lists of the
plugins). They are inductions over natural numbers. The library's
induction theorem cannot be instantiated here, but a set can take the place of its
predicate: `SetInduction` says that a set of natural numbers with 0 and with every
successor is all of them, and follows from the least number principle (`Least`).
The keys are assumed finite in number (`ConstantsAssumption`); a key is four
bytes.

`SmcDevices_proofs`. For each component of `MCSmcDevices` the run's properties as
theorems about that component's specification; those of the hand-over and of the
battery manager are taken over from the two modules above (`SameStartup`,
`SameBattery`), the others proved here. A
job has its timer because somebody who has still to store or to arm is at work
(`WCovered`). The record is readable because an encrypted value is only kept
once its key is in the RTC (`EInv`). A countdown ends before its job is due
because rounding is downwards, at every restart. The Dell invariant `DInv` has
four parts: types, no slot stored twice, where the last accepted target is
(queue, worker or applied), and where mode and status may differ (only between
the call and the store). A SuperIO flag stands for a quick refresh because the
action sets its timer first and clears the flag last: a flag that is set when no
action is under way was set after the last one, by a reader who then starts the
timer.

The types of a component need a little more than its types: that no countdown
starts later than now, so that rounding leaves no more seconds than were set
(`LeftTyped`); that the last wake is not ahead of the clock; that the queue of the
Dell plugin grows only while it has room. `PartsBehave` says that in
`MCSmcDevices` every part follows its own specification, whichever of them moves;
with it `TypesCorrect` and `DevicesSafe` state the run's safety properties of the
specification TLC checks.

Only model-checked: the liveness properties `EventDelivered`,
`EventuallyPublished` and `SleepCompletes` (the prover handles neither fairness
nor ENABLED). Every invariant and every other action or refinement property of a
passing run has its theorem. A lost merge could not be told from a stutter in
`MailboxSpec`: that a post takes effect is what the action says, that nothing else
changes the content is what the refinement says.

## 6. Plan

What could still be added: `merge` and the creation of the standard keys from
the model database, and with them plugins that bring the same key; the request
queue of the SMBus controller; the composition of the trap with `SmcMmio`, which
now takes the trap to bring each access to its handler.

## 7. Not modelled

- The bodies of the sensor plugins: reading of model specific registers, SuperIO
  chips, embedded controllers and temperatures, and the tables of
  `Sensors/SMCSuperIO/Devices.cpp`, which are generated. They keep no state that
  an order of steps could break; `SmcSensorPoll` has when they are read.
- `WMIDellSensors`, a near copy of `SMCDellSensors` with another way to the
  firmware; its queue and worker are the ones of `SmcDell`.
- The light sensor, a timer that re-arms itself and posts an event; the posters
  of `SmcEvents` stand for it.
- `kern_vsmcapi.cpp`'s number formats, pure conversions, and `registerHandler`,
  a wait for a service to appear.
- `merge` and the standard keys, executed before the service is reachable.
- In the battery manager `probe` before the batteries are found (its early
  return keeps `mainLock`), the SMBus request queue, and the answers the
  controller composes.
- The disassembler and the encoding of the patch in the trap; the search of the
  return address is a free choice. Of shared accesses, what a processor executes
  while another is writing the trampoline there.
- What `resetBuffer` of the port protocol clears behind its object after a refused
  read of an announced size above the buffer.
- The EFI driver, `smcread` and the other tools: programs of their own.
- Lilu, IOKit, the firmware and AppleSMC are external and modelled by how this
  code uses them.
