# Specifications of the mini2440 drivers

TLA+ models, model-checking configurations and machine-checked proofs for the
drivers in `src/`: a collection of small Linux 2.6 drivers for the mini2440
board (S3C2440, one ARM processor), each with a user-space test, plus a FreeBSD
echo device. The drivers are independent of each other; what makes each of them
hard is what happens between two of its own steps: an interrupt, another thread
on the same file, a second open, a signal, a failure half way through probe.

## The system

| component | state | operations | how its parts meet | what is hard | what makes it correct |
|---|---|---|---|---|---|
| watchdog (`watchdog/driver/watchdog.c`) | WTCON, WTDAT, WTCNT; `open_lock`, `expect_close`, `wdt_count`, `tmr_margin`; module parameters; module reference | open, write, ioctl, release, interrupt, probe, unbind, remove, shutdown | threads share the one open file; the counter runs beside them; `wdt_lock` protects the register sequences but not `watchdog_set_heartbeat` | read-modify-write of WTCON without the lock; device visible before probe is done; divisor search and unsigned wrap; the magic word across writes and opens | held or abandoned means running in the configured mode; stopped only on the magic word; reported margin = period; one opener; nowayout keeps the driver |
| keys (`key/driver/keys.c`, `key/app/unit-test.c`) | `key_values`, `ev_press`, wait queue, six interrupt lines | open, release, read, poll, interrupt | handler sets values and flag and wakes; readers clear the flag, then copy | interrupt between clear and copy; merged edges; several readers; open that fails half way, beside a release | no change lost, no sleeper missed, lines held = file open |
| adc (`adc/driver/adc.c`, `adc/app/adc-unit-test.c`) | `ADC_LOCK`, `OwnADC`, `ev_adc`, `adc_data`, wait queue, converter | open, read, interrupt, init, exit | the reader owns the converter, the handler fetches the sample; shared interrupt line | signal during the wait, open during a read, early interrupt, foreign interrupt | a read returns its own sample, and returns; nothing is left for the next |
| rtc (`rtc/driver/rtc.c`) | calendar, alarm and control registers, tick enable, wake enable | read/set time, read/set alarm, periodic interrupt, open, release, probe, unbind, remove, suspend, resume | the RTC core serialises the operations; the clock ticks beside them | torn reads and writes of six registers; alarm fields half written; wake enable count; rates the counter cannot produce; unbind under an open file | a time read is the time at some instant of the call; an alarm read is the alarm set |
| rtc unit test (`rtc/app/rtc_unit_test.c`) | one mutex, one exclusive device | ten threads, 22 tests each | the mutex makes up for the exclusive open | the assertions hold only because of the mutex | every open succeeds, the threads end |
| pwm (`pwm/driver/pwm.c`, `pwm/app/unit-test.c`) | semaphore, timer registers, pin; the terminal's mode | open (try-lock), ioctl, close; a loop of set frequency and wait for a key | close silences the buzzer, then releases; the program stops the buzzer in `atexit` | failures, signals and a second program while the terminal is raw | sounds only for its opener; terminal restored; ESC ends |
| scull3 (`scull3/driver/scull3.c`) | quantum, qset, size, data list, semaphore | open (trims), read, write, release | four minors share one device | trim without the semaphore; geometry read before it | a write stores |
| echo (`echo/echo.c`, FreeBSD) | message buffer and length; an offset per file | load, unload, read, write | unlocked buffer | overlapping writes; shorter message after a longer; faults half way | copies inside the buffer; a read returns what was written |
| completion (`completion/driver`, `completion/app`) | completion, buffer, two indices | read (waits), write (completes) | one completion per write; the program forks a writer and reads | indices unlocked, count unbounded, failed copies complete all the same | a run reads its own message; every reader is woken |
| ioremap (`ioremap/driver/ioreamp.c`, MIPS) | page flags, the kernel's virtual areas | `__ioremap_mode`, `__ioremap` | the kernel's areas and page tables | wrap at the top of the address space, rounding, RAM | every byte asked for is reached; RAM in use is not |
| init and exit of every driver | regions, mappings, lines, clocks, devices, buffers | load, unload, unbind; failure at any step | a user opens the device as soon as it is there | undo after a half-done init; order of registration and allocation | nothing left behind, nothing given back twice, resources there while in use |
| mmap, leds, filp_open, hello, skeleton | a page; a pin table; none | mmap, ioctl | - | - | see "Not modelled" |

## The modules

`Watchdog.tla` models `watchdog.c`. One action per handler or half handler:

* `ProbeRegister`/`ProbeFail`/`ProbeFinish` are `watchdog_probe` up to
  `misc_register`, its failure there or earlier, which leaves the module loaded
  and unbound, and the rest. The margin may have been refused on the way (phase
  "unset"). Probe tries `tmr_margin`, which an ioctl may have changed before an
  unbind: the statics live as long as the module.
* `Unbind` is `watchdog_remove` called by an unbind through sysfs, which asks
  neither for the file to be closed nor for the module's reference; `Remove` is
  rmmod, which asks for both. An unbind under an open file unmaps its registers:
  the phase is then "torn" and no call follows, since what one would do is not
  defined. `Shutdown` and `Boot` follow.
* `OpenLock`/`OpenStart` split `watchdog_open` after its test-and-set, as
  `ReleaseStop`/`ReleaseUnlock` split `watchdog_release` before its clear;
  `WriteBegin`, `WriteV`, `WriteEnd`, `Feed` are a write: reset the magic word,
  meet a `V`, end or fault, refresh.
* `SetMargin`, `SetCount`, `ReadCon`, `WriteDat`, `WriteCon` are
  `watchdog_set_heartbeat`, one step per access, since it takes no lock. `Count`,
  `Divisor`, `Accepts`, `Setting`, `Prescale` are its arithmetic, with the wrap
  of an unsigned int and the width of the prescaler field.
* Sections under `wdt_lock` are one step. An interrupt may cut into them on the
  one processor, but it stores the value the section stores.
* `Tick` and `Expire` are the counter. WTCON is a record of its three bits and
  its prescaler; the clock divider, always 128 once started, is left out.
* `saidV`, `abandoned` and `mixed` are history variables: a `V` since the latest
  write began, a close without a valid magic close, and a margin set beside
  another that is being set.

`WatchdogContract.tla` is what `/dev/watchdog` promises, in nine actions;
under nowayout a driver that was taken leaves only with the machine (`GoDown`), not
by `Unload`. `Watchdog` implements it under the mapping given at `Contract`.

`Keys.tla` models `keys.c`. An edge is latched (`Edge`), the handler samples
(`IrqSample`) and stores (`IrqStore`); handlers of different keys may nest, and
no call moves while one runs. A read is `Sleep` or `Ready`, `Clear`, one `Copy`
per byte, `CopyDone` or `CopyFault`; a poll is the other kind of `Sleep`. open
and release request and free the lines one by one. `delivered`, `dropped` and
`synced` are history variables.

`Adc.tla` models `adc.c`, one step per statement of `adc_read` that other
parties can see. Samples are "new" or "old" relative to the latest start of a
conversion. The history variable `stray` remembers interference (a signal, another
driver's conversion) until a read finds the converter at rest again, `forgotten`
an open that emptied the wait queue under a sleeper.

`RtcClock.tla` models the calendar and alarm half of `rtc.c`, one step per
register: `ReadField`, `ScanAgain`, `GotTime` are `rtc_gettime` with its one
retry; `WriteField` is `rtc_settime`, in the order of `SetOrder`; `ClearAlarm`,
`WriteAlarmField`, `WriteEnables`, `SetAie` and `SetWake` are `rtc_setalarm`;
`GetAlarm` is `rtc_getalarm` as a function of the registers. `Tick` is the clock,
which may carry through all six registers, and compares them with the alarm.
Times and registers keep their BCD and their offsets (months from 0, years from
1900). The date registers of the alarm, which no call writes, are left out.

`Rtc.tla` models the other half, the driver's life: `ProbeRegister`, `ProbeFail`
and `ProbeFinish` split `rtc_probe` at the registration of the device and at
`platform_set_drvdata`; `OpenAlarm`, `OpenTick`, `OpenUndo` and `ReleasePie`,
`ReleaseAlarm`, `ReleaseTick` are open and release, one step per interrupt line;
`SetPie`, `SetFreq`, `SetAlarm` are the calls that touch TICNT and ALMEN;
`Suspend`, `Asleep` and `Resume` follow. `Remove` is `rtc_remove` at rmmod,
`UnbindBegin` and `UnbindEnd` the same function at an unbind, before and after
`rtc_device_unregister`: between them the device can still be opened, with no
driver data. The history variables are what was asked of the tick (`pie`, `freq`)
and `orphaned`, an unbind under an open file. The two modules share no register but
RTCALM, of which `Rtc` keeps the one bit that outlives calls.

`RtcTest.tla` models `rtc_unit_test.c`: `CreateThread` and `JoinThread` are
`main`, `rtc_lock`, `OpenRtc`/`OpenBusy`, `Ioctl`, `Close`, `rtc_unlock` the steps
that each of the 22 tests takes, `Assert`/`Abort` the assertion in
`unit_test_entry`. The tests keep their names, and each is its ioctl and the rate or
year it passes. `Answer` is what the ioctl returns: which ioctls the RTC core
carries out with the operations of `rtc_fops`, and its rule of one open file, are
external; `RefusesRate` and `RefusesYear` are the driver's own refusals.

`Lifecycle.tla` models what every init, probe, loader, remove and exit function
of the repository acquires, undoes and gives back, as one table per function,
named after it, and one machine that runs a driver through its tables:
`Load`, `Acquire`/`Fail`/`FailUnnoticed` per step of the init, `Unload` (rmmod, or
an unbind through sysfs), `GiveBack` per resource, `Finish`, and a user who may
`Open` and `Close` the device whenever it exists. The tables are the code, the
machine is the kernel. What `Watchdog` and `Rtc` say of probe's registers is not
repeated here. The functions do leave things behind, and the properties name
them instead of hiding them:

| driver | left at exit | left by a failed init |
|---|---|---|
| rtc | the clock stays enabled | the struct resource, which `release_resource` does not free |
| adc | - | the mapping, the clock or the interrupt, depending on the step |
| mmap | - | the registered device, when `kmalloc` fails |
| sysfs version | its last reference: `device_del` without `put_device` | - |
| scull3 | the device numbers and three of four cdevs | - |
| cp0 | everything: `cp0_exit` only prints | - |

`Echo.tla` (read and write in the steps between which another user may act; the
kernel serialises a file's own offset), `Completion.tla` (the driver under runs
of its test program; the copy and the move of an index are steps, and a copy that
runs over the end of the buffer may `Spill` into either index behind it), `Pwm.tla`
(the driver and programs that share the device and the terminal; a signal may come
anywhere, and the two statements of `PWM_close` are two steps) and `Ioremap.tla`
(32-bit arithmetic that wraps, and the call with its failures) are small and share
nothing, with each other or with `RtcTest`; `MCDevices.tla` puts the five under one
run.
Each behaviour exercises one of them, so the run explores the sum of their
states. `Scull.tla` models scull3's read, write, open with its trim and release,
with the geometry copied before the semaphore is taken; on ARM a division by
zero answers 0.

`MCWatchdog`, `MCKeys`, `MCAdc`, `MCRtcClock` and `MCRtc` give the constants small
values, as `MCDevices` does; `Lifecycle` and `Scull` need none beyond their cfg.

## What the runs show

| run | instance | result |
|---|---|---|
| `wd_safety` | two threads, margins 1, 3 (prescaled) and 9 (refused), counter 0..2; probes that fail, unbinds, unloads, resets | held and abandoned watchdogs are armed, nowayout keeps the driver, the period is the reported margin, an abandoned watchdog bites, the contract holds |
| `wd_divisor` | margin 6 | **violated**: an accepted margin that is not in force |
| `keys_readers` | two keys, two readers, short reads, faults, signals, two edges | no event lost, no sleeper missed |
| `keys_lines` | three keys, lines taken by another driver, a reader in a loop | lines match the file; rollback and release free their own lines; keys tracked, and reported in the end |
| `adc_reads` | three readers, opens at any time, signals, foreign conversions | one owner; reads return, with their own sample, unless one of these interfered |
| `rtc_clock` | a calendar in which every field rolls over, three alarms | a time read was shown during the call; a time set is shown, unless in the last second of its minute; no half-set alarm rings; alarms read back, their minute as any, wake and ring |
| `rtc_ontime` | the same | **violated**: the alarm rings in another minute than its own |
| `rtc_life` | rates 0, 4, 100, 128, 512; another driver on the lines; unbinds | lines match the file, unless it was open at an unbind; the tick is handled, as asked and at its rate, from a clock that runs; 512 turns the slowest tick on |
| `rtc_rate` | the same | **violated**: the rate 512 is accepted and not produced |
| `lifecycle` | twelve drivers, every step failing, unbinds, reloads, a user | nothing left behind but the table above; nothing given back that is not held, but in the watchdog's `err_req` and after scull's unnoticed failures; users find what the handlers need, but in mmap's and echo's init and in an unbound watchdog |
| `devices` | two echo users, messages of 1 to 3 bytes and a buffer of 2; three overlapping runs of the completion test, messages of 1 to 3 bytes in 3; two buzzer programs; every address and size of a 16-byte space for ioremap; two threads of the RTC's unit test, 22 tests each, and another program | the eleven properties of `Echo`, `Completion`, `Pwm`, `Ioremap` and `RtcTest`: among them, assertions of the unit test fail only by the other program, and the test ends |
| `scull_write` | two processes | **violated**: a write is refused although no allocation has failed |

More disagreements are the same properties on other constants, and are not kept as
runs: `OpenedIsArmed` fails for `Watchdog` with `EarlyOpen = TRUE`, because probe
registers the device before it stops the timer (watchdog.c:395), which an opener in
between has started; `MarginInForce` fails for the margin 17, whose count wraps in
an unsigned int (watchdog.c:133); `LinesMatchFile` fails for `Rtc` with `EarlyOpen =
TRUE`, because a file opened before `platform_set_drvdata` requests its lines with
one dev_id and frees them with another, after which no open succeeds (rtc.c:99).

Some properties hold only with an exception that the code makes necessary, and
fail without it: `FreshSample` because `adc_read` ignores that its wait was
interrupted (adc.c:99); `CopiesStayInside` and `ReadsWhatWasSaid` when two writes
overlap (echo.c:155); `MessageArrives` once a copy fails or reaches over the end
of the buffer, as the fifth 27-byte message in 128 bytes does
(completion_test.c:23), and `EveryRunEnds` once one has been written over the end,
since a lost index may send later copies anywhere; `SetTimeTrue` for a time in the
last second of its minute, because the seconds are written first and may carry into
a minute that is then overwritten (rtc.c:346); `LinesMatchFile` of `Rtc` once the
device was unbound while open, because its lines were requested with a dev_id that
`rtc_remove` has taken (rtc.c:458); `TerminalRestored` when a program ends inside `getkey`;
those of `Lifecycle` as listed. A read of the echo device at an offset other than
0 returns the start of the message (echo.c:125), and `ReadsWhatWasSaid` speaks of
reads from the start only. `AlarmReadBack` says of the minute that it reads back as
255, any, whatever was set: `rtc_setalarm` enables the seconds in its place
(rtc.c:421). `RateAsSet` and `PieAsAsked` say what `rtc_setfreq` makes of a rate above
128: (128 / 512) - 1 sets every bit of TICNT, the enable bit among them (rtc.c:164).
Binding the watchdog afresh stops it, abandoned or not and even under nowayout,
unless it is to start at boot (watchdog.c:395); the contract allows for it at
`EndBind`. `rtc_enable` fails to clear CNTSEL (rtc.c:140 clears
the bits of the register's address), which `Enabled` models and no property
promises. The buzzer's program opens `/dev/pwm`, the driver calls its device
`mini2440-pwm`; the model takes them for the same.

**Bounds.** The watchdog's timer is scaled down (one count a second, counter 0..2,
divisors 1 and 2, words of four bits) so that each class of margin has a
representative: unprescaled, prescaled, one past the last divisor, refused, wrapped.
Two threads are enough for every pair of overlapping calls; no call depends on more
than one other. Two keys give every order of two handlers, three keys an open that
fails at the first, middle and last line; edges are bounded by `MaxEdges`, and two
suffice for a press and a release or for two keys at once. Three ADC readers are one
inside, one refused and one to follow. `RtcClock`'s calendar has 11 seconds (two BCD
digits), two minutes, hours and months, one day and one year, so that each carry,
and all at once, occur; its bound `TicksPerScan` says that the second advances at
most once while six registers are read or written, which holds for a call that is
not preempted for a second. `MaxWake` bounds the nesting of wake enables. `Rtc` is
finite but for its rates: one the counter can produce, the fastest, one above it,
zero and one that is no power of two. Two threads of `RtcTest` are every pair of
tests beside one another; the other eight would only wait for the same mutex.
`Lifecycle` has no bound: drivers do not meet, and loading again reaches what an
earlier life left behind. `Echo`'s buffer of two bytes admits messages shorter, as
long and longer, new ones and appended ones; `Completion`'s buffer of three is a
multiple of two message lengths, which three runs take around it, and not of the
third, which runs over its end; `Spilled`, what an index may hold then, is a value
inside no buffer; `Pwm` has a frequency at the first, one at the last and one
between its limits; `Ioremap`'s sixteen bytes hold RAM, KSEG1's reach, devices and
areas in pages of two bytes, and all requests are tried. `Scull` is violated within
five steps.

**Fairness.** `Watchdog`: only the counter is fair; no user need call and no call
need be scheduled. `Keys`: latched interrupts are handled, runnable threads run, and
readers read in a loop as the unit test does; presses end because `MaxEdges` bounds
them. `Adc`: the converter converts, its interrupt is served, runnable reads run.
Nobody need open, press or signal. `RtcClock`: the oscillator runs and a call that
has begun goes on; nobody need begin one or read an event. `RtcTest`: every thread
gets the processor; weak fairness suffices for the mutex because each thread takes
it a bounded number of times. `MCDevices`: the same for the device it exercises, and
a process of the completion test or of the buzzer program that can run is run, while
nobody need press a key, start a program or call echo. `Rtc`, `Lifecycle`, `Echo`
and `Ioremap` have no liveness property.

**Deadlock** is checked in every run but `devices`, whose programs end, and
`scull_write`.

## What is proved

Every safety property that a passing run checks, invariants and action properties,
is also a theorem. Each theorem holds for every value of the constants: any number
of threads, readers, keys, users, programs or runs, any buffer size, calendar, page
size. Where an invariant is not inductive, the conjuncts that make it so are named;
TLC found each of these invariants true on the constants of the component's run
before it was proved.

`WatchdogProofs.tla`, for all threads, clock rates and register widths:

* `DivisorValue`: the search loop yields `count \div CountLimit + 1`, or one past
  the last divisor. The argument: d divides a count into the counter exactly if
  the count is below `d * CountLimit` (`FitsIff`, from the two bounds on a
  quotient and monotonicity of multiplication).
* `TypeCorrect`: `TypeOK` is inductive by itself.
* `Invariance`: `IInv`, assuming nobody opens the device before probe returns
  (`~EarlyOpen`; with it `OpenedIsArmed` fails, see above). `TypeOK` is not enough: that
  the device is armed while open depends on the copies of WTCON that threads hold
  inside `watchdog_set_heartbeat` (`HeldIsArmed`), on those threads being there
  only while the file is open and on one thread at most being in open or release
  (`CallsMatchFile`), and that it stays armed when let go depends on the magic
  word having been given (`MagicWasGiven`). `HeldIsPinned` carries nowayout: what is
  pinned is not unloaded, through failed probes and unbinds.
* From it `OpenIsArmed`, `AbandonedIsArmed`, `OpenIsExclusive`, `DriverStays`, and
  `Refinement`: every step of `Watchdog` is a step of `WatchdogContract` or a
  stutter.
* `MarginIsInForce`, under `~EarlyOpen` and `MarginsFit`: what is asked for and
  accepted is below `MaxDivisor * CountLimit`. This excludes what the code fails to
  refuse and no more: the divisor one past the last (run `wd_divisor`) and
  products that wrap. `MarginInv` says that the registers have the margin as soon as
  no call is setting it (`Programmed`), how far the one call that sets it has got
  (`Progress`), and that the counter is within its period or about to be reloaded
  (`InPeriod`).

`RtcProofs.tla` proves about `Rtc`, for every set of rates:

* `TypeCorrect`: TICNT's count keeps to its seven bits whatever rate is set (the
  lemmas on `WithFreq` are its arithmetic, kept apart from the steps).
* `Invariance`: `IInv`, under `~EarlyOpen`. `LinesMatchFile` is not inductive: that a
  rollback and a release find their own requests depends on the driver data, the
  same at open and release (`DataMatchesPhase`, `OpenIsBound`, `RequestsAreOurs`)
  unless an unbind came between; that a resume
  restores no tick without a handler depends on what a suspend may interrupt
  (`SuspendIsQuiet`); and release must be past its tick (`ReleasedIsOff`).
* From it `HoldsLines` and `TickIsHandled`; and, with no assumption on the rates or
  on early opens, `PieIsAsAsked` and `RateIsAsSet`. `RateIsAsSet` rests on
  `FreqSetsRate` and `FreqSetsSlowest`, that 128 is divided without remainder by the
  powers of two up to it and that a larger rate gives the count 127, and on what a
  suspend saves (`SavedRate`).

`RtcClockProofs.tla`, for every calendar and any ticks between the steps of a call:

* `TimeWasShown`, under `RetryIsQuick`: one tick at most during a scan, minutes of
  at least three seconds. `GetInv` says which of the fields read are still shown,
  and that a tick which made them stale took the seconds, read last, to 0, so that
  the retry reads all again and a second rollover cannot follow.
* `TimeIsSet`, under `OneTick`: one tick at most during the call. The exception of the
  last second is in `SetTimeTrue` itself. `WritingInv` says that what is written of
  another time stays, the seconds perhaps one on.
* `AlarmInvariance`, and from it `NeverMixedAlarm`, `AlarmReadsBack` and `AlarmCanWake`,
  under `AlarmsValid`: alarm fields are within the calendar, as the RTC core's
  `rtc_valid_tm` makes sure of before it calls the driver. `AlarmInv` says what RTCALM
  and the alarm registers hold at each step of `rtc_setalarm`, and that an enabled
  alarm has a wake enable in force. `BcdInverse` and `BcdInjective` are the BCD
  arithmetic.

`RtcTestProofs.tla`, for any number of threads: `ThreadsDoNotDisturb`, from `TestInv`,
which ties the mutex to the thread inside a test (`MutexHeld`), the open file to the
mutex (`FileUnderMutex`) and the result to the driver's answer (`Outcome`);
`ExpectedIsAnswer` goes through the 22 tests.

`KeysProofs.tla`, for any number of keys, readers and read sizes:

* `LinesInvariant`: `LineInv`, the books of the interrupt lines. A line is the
  driver's exactly if the open file, a release that has not come to it or an open
  that has claimed it accounts for it (`LinesAccounted`), and an open that runs
  beside a release stays behind it (`LoopsInRange`), because it cannot get a line
  that is not free yet. From it `LinesFollowFile` and `OnlyOwnLinesFreed`.
* `KeyFollowsPin`, with `SampleIsLevel`: what a handler has sampled is the level, or
  another edge is latched.
* `NobodySleepsThrough` and `EventsReachReaders` are inductive given the types.

`AdcProofs.tla`, for any set of readers: `Invariance`, and from it `ReadsAreExclusive`,
`SampleIsOwn` and `NothingHandedOn`. `IInv` adds to them who sleeps (`WaitersSleep`)
and, for each step of `adc_read`, where the one conversion is: running, at the
interrupt, or fetched (`Undisturbed`, `OnItsWay`).

`DeviceProofs.tla`, each device under a specification of its own:

* `PwmSpec`: `TerminalComesBack`, from one program being past its open at a time
  (`OneProgram`) and knowing how the terminal was (`TerminalKnown`), and
  `BuzzerObeysHolder`, from `SilentBeforeUp`, that `PWM_close` has stopped the
  buzzer when it frees the lock, under `PitchFits`: every frequency the keys can
  reach gives a count that is not 0 and fits the timer. With the limits of the
  source these are 2 to 20009 Hz, and it does.
* `CompletionSpec`: `MessagesArrive`, from `InStep`: undisturbed runs come one after
  another, with the indices and the completion at the stage of the one that runs;
  a copy over the end disturbs, so nothing is assumed of what it overwrote.
* `IoremapSpec`: `ReachesEveryByte` and `RamStaysOut`, for every word and page size.
  The steps are few and the arithmetic is all: sums that wrap (`WrapsOnce`), the
  page after the last byte, which is 0 at the end of the address space
  (`AlignedEnd`), and the window between (`WindowFits`, `WindowSpares`).
* `EchoSpec`, for any users, buffer size and messages: `EchoCopiesInside`. It is not
  inductive: that the amount fits depends on the offset still being the length when
  the amount is computed (`OffsetIsLength`), which depends on there being one writer
  (`OneWriter`), and the length on where the last copy ended (`EndIsInside`).
* `EchoSpec` also: `ReadsAccepted`, an action property. `SaidInv` says that the buffer
  begins with what was said (`SaidIsStored`), a write goes on where that ends
  (`WriteContinues`), its length and NUL are in place between writes (`SaidIsEnded`),
  and nobody writes beside a clean read (`CleanIsAlone`).

`LifecycleProofs.tla`, in two halves that meet in one definition, `TableSound(d)`:

* `TablesSound` is about the code's error paths and nothing moves in it: of each of
  the twelve drivers it shows that a step that can fail gives back what the steps
  before it acquired, each thing once and nothing else (`UndoSound`), that the exit
  function gives back what the init function acquired (`ExitSound`), and that the
  device is registered when all its handlers need is there and, where the exit takes
  it from its users, taken first (`NodeSound`). The exceptions are the ones the
  properties name and no others.
* `BooksKept` is about the machine, and uses of a driver only that its tables are
  sound, so a changed or a new driver needs its table's lemma and nothing else.
  `NothingLeftBehind` and `GivesBackOwn` are not inductive, since they say nothing of
  a driver that is half loaded: `BooksInv` adds that on the way in what is held is
  what the steps so far acquired, less what failed unnoticed (`WayIn`), and on the way
  out what is still to be given back (`WayOut`), leftovers of earlier loads aside.
  From it `LeavesNothing` and `GivesBackOnlyOwn`.
* `UserIsServed`, from `BooksInv` and `UserInv`: in which phases a device whose handlers
  need anything can be open at all (`UserPhase`), that an error path leaves none to open
  (`UndoClosed`), and that the exit of an unbound rtc takes it from its users before
  anything they need (`ExitClosed`).

`Lifecycle` is finite and its run takes all twelve drivers, so TLC's result already
covers its constant; what the proof adds is the reason, table by table, apart from
the interleavings.

The assumptions are the named ASSUMEs of the modules, which TLC evaluates in the
runs (rates, sizes and widths are naturals, positive where they divide; messages
are sequences; page sizes divide the address space and the layout is aligned) and
the hypotheses named above, each of which the constants of the passing runs
satisfy.

Model-checked only:

* all liveness properties (`AbandonedBites`, `KeyReported`, `ReadReturns`, `AlarmRings`,
  `Ends`, `EveryRunEnds`, `EscEnds`): liveness under fairness and ENABLED are out of
  the prover's reach;
* the violated properties, which have counterexamples.

## Not modelled

* `watchdog_suspend`/`watchdog_resume`: resume uses the undeclared name `wtd_base`
  and does not compile with `CONFIG_PM`; without it both are `NULL`.
* `my_mmap` (mmap): one call of the memory manager, then ten constant bytes. The
  leds' ioctl: a table look-up and a pin write (its bounds check `arg > 4` admits
  one index too many, leds.c:57). Their init and exit are in `Lifecycle`.
* `pwm/app/test.c`, the application tests of key, adc, mmap and led, which call
  the drivers once or in a loop with nothing of their own to get wrong.
* `filp_open`: opens, reads and closes a file once, at module load: pure I/O.
  `hello`, `skeleton`: print a line.
* Calls on a watchdog file whose device was unbound under it: they use unmapped
  registers, and nothing can be said of them.
* What a margin is when two threads set margins at once: the repository promises
  nothing, and `MarginInForce` excuses it until the next margin is set.

## Plan

Every component with state of its own is modelled and each safety property of the
passing runs is proved. The liveness properties stay with TLC until the prover
handles fairness. `mmap` and the leds would be worth a module when their handlers
keep state.
