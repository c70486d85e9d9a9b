# Verification of the trolley firmware

The repository is the firmware of a mains-powered charging trolley on a
Particle P2 (`src/src/zioxi-trolley2.cpp`, one `setup`/`loop` program, with its
libraries under `src/lib`). The firmware switches four outlets, or a USB-C hub
behind them, on and off: for a time, until told otherwise, by a weekly
schedule, or until the devices are charged ("smart"). It goes to sleep on its
battery when the mains is lost and takes up the suspended session afterwards.

This directory holds TLA+ modules of that program, TLC runs over them, and
TLAPS proofs. Line numbers without a file are lines of
`src/src/zioxi-trolley2.cpp`.

## 1. Inventory

| Part | State | Operations | Where |
|---|---|---|---|
| Loop and boot | `runState`, `prevRunState` | `setup`, `loop`, `startupController`, `powerOnStateSelection` | 902-1218 |
| Standby and sleep | `runState`, sleep stage, `mainsofftime`, RTC RAM | standby, restart, go to sleep, sleep, wake | 2206-2303, 3698-3879 |
| Timed, continuous | minute counts, timers, session in the parameter block | start, count a minute, end, suspend, resume, overheat, sleep | 2329-2452, 2749-2869 |
| Automatic by schedule | `param.isAuto`, `isAutoTimeInValidSent` | half hour on/off, expire, clock invalid, suspend, resume | 2457-2727 |
| Smart charging | `oucState`, `chargeState`, `param.isOUCMonitoring` | start, warm-up, sample, limit, suspend, restart; scheduled start | 2874-3434, 3896-4070 |
| Outlets, timers, store | relays, `powerState`, timer flags, `param` and its EEPROM copy | `ACRelaysOn/Off`, timer start/stop/callback, `putParameters`, `getParameters` | 4100-4728, 6281-6307 |
| Cloud commands | `runState`, `prevRunState` | `remoteAdmin` and the WEB controllers | 3441-3693, 5134-5324 |
| Configuration | parameter block, ledger version | `remoteParam`, `performConfiguration`, defaults, checksum | 5327-5547, 5692-6307 |
| Clock and schedule bits | time of the P2, RTC with its registers and RAM, zone and daylight saving in three copies, 42 schedule bytes | `setupMCP7940`, restore, daylight saving, time sync, `dst`, `tzo`, schedule lookup and expiry | 1544-1713, 1798-1903, 2698, 3967, 4730, `lib/MCP7940` |
| Publish queue | files, their queue, state handler, sending thread | publish, send, retry, discard | `lib/PublishQueuePosixRK`, `lib/SequentialFileRK`, `lib/BackgroundPublishRK` |
| Network | state handler, interface, local or connected mode, adapters and cloud of Device OS | try Ethernet, fall back to Wi-Fi, go back, local mode, `checkNetworks` | 1949-2030, `lib/EthernetWiFi` |
| BLE provisioning | message queue, manager's state, `provision_state` | credentials, mode, waits inside a pass | 2062-2203, `lib/ble-wifi-setup-manager` |
| Measurements, hub bus | samples, port lights | current, temperature, hub messages | 1391-1515, 2030-2056, 6485-6654, drivers |

How they interact: `loop` (1073) runs one controller a pass, chosen by
`runState`; before it, `checkScheduledStartUntilCharged` may choose another.
The controllers call the outlets and the store directly. Cloud functions run
between passes and inside any `delay`, and change `runState` and `prevRunState`
under the controller; software timers set flags from their own thread at any
moment. The sleep ends by a reset (hibernation) or in place (stop mode). The
network, the clock, the queue and the configuration share the loop with the
controllers but none of their variables, so each has a model beside the trolley
that lets the rest happen at any moment.

What is hard in this code: commands that arrive in the soft start or before the
pass that serves the previous one; a mains that comes and goes at any line; the
session kept in RAM, EEPROM and the run state at once; resets; and limits that
have to hold through suspend and resume. `PROJECT.json` lists each hazard at its
line with the properties that catch it.

What makes each part correct:

* outlets are off in standby, asleep, in the off half hours and when overheated;
* whatever holds them on is counted by a timer that ends it;
* a suspended session is resumed once, with its minutes, to its own activity;
* what the user has set survives a reset;
* a published event reaches the cloud, in its order, restarts or not;
* a configuration marked as done is stored, takes nothing from what the user has
  set, and never costs the trolley its serial number;
* the adapters that are on are those the connection waits for, the chosen mode is
  kept, and a network that works leads to the cloud, before the watchdog expires;
* local time and time survive resets and losses of the power, summer time is that
  of Europe, and a lasting connection sets every clock;
* a stop command stops, a limited charge ends, a lost supply leads to sleep and a
  returned one out of it.

## 2. Modules

| Module | Models |
|---|---|
| `RunStates` | the numbers of run, power and charge states; `onViewRunState`; `powerOnStateSelection` |
| `TrolleyState` | constants and variables of the whole; outlets, timers, overheat check, parameter store |
| `StandbyAndSleep` | startup, boot, standby, restart, the sleeping controller |
| `TimedAndContinuous` | timed and continuous charging |
| `AutoSchedule` | automatic charging and the scheduled smart start |
| `SmartCharging` | both smart charges, requested and scheduled |
| `WebCommands` | `remoteAdmin` and the WEB controllers |
| `Trolley` | composition: `Init`, `LoopPass`, the surroundings, `Spec`, `FairSpec`, `TypeOK` |
| `TimedSession` | the abstract timed session: a duration charged in pieces |
| `TrolleyProperties` | every property, and the refinement of `TimedSession` |
| `EventStore` | what the trolley promises of its events: kept until arrived |
| `PublishQueue` | the queue of events in files, the thread that sends them, and their properties |
| `Configuration` | the parameter block, the configuration ledger, `remoteParam`, factory reset, boots, and their properties |
| `DeviceNetwork` | external: the adapters, the cloud and the credentials of Device OS, with the system thread that brings links up and down |
| `EthernetWiFi` | the library's eleven state handlers |
| `WiFiSetup` | the BLE manager, `wifiProvisioning`, and the waits inside a pass |
| `Network` | composition of the three with `checkNetworks`, commands, phone, resets and watchdog; its properties |
| `Calendar` | dates of the RTC driver, the rule of daylight saving, the weekly schedule: operators |
| `Clock` | the clocks: P2, RTC, its RAM, EEPROM, cloud; boots, losses of the power; their properties |
| `MCTrolley`, `MCConfiguration`, `MCClock` | sets for TLC |
| `TrolleyProofs`, `ChargingProofs`, `TimedProofs`, `SettingsProofs`, `QueueProofs`, `ConfigurationProofs`, `NetworkProofs`, `ClockProofs` | theorems and proofs |

**Step size.** A pass of the loop is one action, the controller with every call
it makes. A pass is cut only where the firmware lets others in: the soft start
in `ACRelaysOn` (seconds of `delay`, in which cloud functions and timers run)
and the waits of `sleepingController`. The variable `busy` names the wait. A
command is served whenever the loop is between passes or in a delay
(`ServesCommands`), which is what the single application thread allows. Timer
callbacks fire at any time the processor runs.

**State.** Variables carry the names of the code. `relays` is the four outlets
as one, since every switching operation here drives them together; `countdown`
and `charging` are the `isActive()` of the two timers; `mains` is the detect
pin and the wake pin, which are the same signal; `temp`, `sched` and `newPeriod`
are the inputs of the overheat check, the schedule lookup and
`checkIfChangedPeriod`. `mainsofftime` is "zero", "recent" or "old", which is
all the code compares; a zero stamp counts as old, as it does in the code once
the board has been up for two minutes.

**The queue.** `PublishQueue` stands beside the trolley: any event may be
published at any moment, and a reset may come at any moment, so what the
controllers do is covered. The trolley gives the RAM queue no room (919), hence
every event is in a file when `publish` returns. A file is whole, partly written
(`Corrupt`) or absent; reading an absent one gives what the memory happens to
hold, nothing or the event read before. The sending thread is a process of its
own, with the two flags of its callback set in two steps. A delay of the queue,
a second or more, is assumed to outlast that callback (`DelayPasses`). Three
events and room for two are enough for an event that displaces the one in
flight, for one waiting behind a failed one, and for files of two boots.

**The configuration.** `Configuration` looks at the block as a whole, which the
trolley model takes as constant but for two settings. It stands beside the
trolley: a controller may save its session, and the block with it, at any moment.
Four settings tell apart what the code does with them: the serial number, without
which a configuration is rejected; a limit that configuration and commands both
set, for the other fourteen keys and the commands like `mxo`; the timer period
(`tip`), that only commands set; and the end of the schedule (`sch`), which is set
and not saved. A value says who set it: nobody, version `v`, or a user, so "not
older than" is a comparison of numbers. `performConfiguration` looks every value
up in the ledger as it is then, so it takes several steps, with the ledger's own
thread in between. Assumed of the surroundings: the block is written whole, the
numbers of versions only grow, and the cloud is reached after `setup` and brings
the time with it. `setupMCP7940` takes the time from the RTC before the
configuration is looked at. Left out: the conversion of
older layouts (6016-6180), as the magic number of this program is not of that kind.

**The network.** A handler of `EthernetWiFi` is one operator, run once in each
pass; `LoopStarts` runs it, then `checkNetworks` if its interval has passed (an
open choice), the manager, and `wifiProvisioning`. These are separate steps of
one pass (`pc`), because the manager and the provisioning wait for up to 20 or 40
seconds in the middle of it, and meanwhile links change, the phone writes, and in
`waitFor` events are handled (`EventPlaces`), while nothing refreshes the
watchdog. `busy` counts those waits in units of 20 seconds since the refresh, and
`WatchdogTimeout` is what the watchdog no longer outlasts. A step outside of the
waits takes no time (`Outside`). The application's calls switch adapters in
`wanted`; the system thread has them `up` when their network reaches, as
`reach`, which anyone may change, says. `minutes` is the time since `stateTime`;
with `Prompt` a minute passes only when nothing that can come up is still down.
Left out: the network events, what `checkNetworks` does to the RTC (it is in
`Clock`), `ethernetConnectedCount` and the IP and RSSI fields, which are reported
only, the answers to scans and questions, the channel scan, the sleep (a reset
for the network), the factory reset of `isLocalMode`. `next_provision_state` is
in each case what `provision_state` becomes.

**The clock.** Time is in hours since 2000. The RTC's registers are numbers
(`RegistersKeepNumbers`); stopping, writing one register and starting it are
steps of their own (`setting` is what is left to write), as are the stages of
`setup` and the write to the RTC's RAM after a setting has gone to the EEPROM
("Save"), so that a reset or a loss of the power falls between any two of them.
The RTC counts on as its own registers say, also in the month and day zero of a
cold start. A reset may leave the P2's time or lose it. Left out: minutes and
seconds, the alarms and time stamps of power failures (no controller reads
them), `param.timeZone`, which is written and never read, the branch of
`setupMCP7940` for a bus that fails (1848-1893). External: `Time.isValid` takes a
time from 2018 on as set; registers and RAM without power are zero.

**The schedule.** `unpackSchedule`, the lookup of a half hour and the last day are
operators of `Calendar` with theorems in `ClockProofs`; in the controllers their
outcome is an open choice (`sched`, `newPeriod`), which allows every schedule.

**Abstractions.** Left out: published events and logs; the restart data in RTC
RAM, which only feeds them; `isTriedAutoOUConce` and
`wasSmartChargeEndedThisHalfHour`, which decide nothing but the answer of
`checkIfChangedPeriod`; settings that stay
constant here (period, limits, power-on setting, hub, schedule type). Open
choices: what a current sample, a slope or a port light says, and whether two
half hours compare as the same period. A minute count stays at `MaxMins`, above
which no threshold lies (assumed in `TimesAssumption`). Bounds and environment
assumptions are constants:

| Constant | Meaning |
|---|---|
| `MaxMins` | the bound of the minute counts |
| `Commands` | the commands users send in this run |
| `Patient` | no command is sent while another one waits for its pass |
| `CanReset` | the board may be reset at any moment |
| `SteadyWaits` | waits in which the mains does not change (`ArmingSleep`: the milliseconds in which the sleep is armed; `NoWaits`: none) |
| `Temperatures`, `Schedules` | what the board and the clock may say |
| `MaxVersion`, `Contents` | versions of the configuration and what they may contain |
| `ClockFails` | the RTC may lose the time in a reset |
| `ReadsFail` | an intact file of the queue may not be read |
| `ResetsWhileMarking` | a reset may fall between the mark of a version and its save |
| `Reaches`, the timeouts of `EthernetWiFi`, `Messages`, `MaxMessages` | how far networks go, how long handlers wait, what the phone sends and how often it or the local command speaks |
| `ConnectionTimeout`, `WatchdogTimeout`, `Prompt` | the manager's waits (40 s, 2 units), the watchdog (90 s: 5 units are too many), and links that come up within a minute |
| `Hours`, `Starts`, `Zones`, `FirstValid`, `MaxFaults`, `MaxWrong` | the hours the clock model looks at and begins in, zones users choose, when a time counts as set, the resets and losses of power, the hours in which a clock is wrong |

## 3. Runs

The first six of the table and the two runs expected to fail are on module `MCTrolley`, the
others on `PublishQueue`, `MCConfiguration`, `Network` and `MCClock`. The period is
2 minutes, the longest smart charge 2, the warm-up 1 and `MaxMins` 3 unless said:
enough to be below, at and above every threshold, and to suspend in the middle of
a session. Where no property is about a duration all minutes are 1. Sizes are
distinct states.

| Run | Shows | States |
|---|---|---|
| `Timed` | timed charging with mains losses refines `TimedSession` (`SessionSpec`); it does not dismiss itself before its time (`EndsOnTime`), ends (`ChargingEnds`), is taken up again with the mains (`SessionResumes`), and the trolley sleeps without mains (`MainsLossSleeps`); period 3 | 884 |
| `TimedStop` | with stop commands, hibernation and resets: `StandbyIsOff`, `SleepIsOff`, `TimedIsCounted`, `SavedIsResumable` | 14.7k |
| `Continuous` | stop commands, heat, mains free in every wait: `TypeOK`, `HotEndsCharging`, `StopWorks`; its safety is proved | 99k |
| `Auto` | every schedule, resets: `AutoOffIsOff`, `SettingsAreSaved`, `ScheduleEndsCharging` | 151k |
| `Scheduled` | scheduled smart starts replace sessions, with restarts and factory resets: `ReplacedIsStopped` | 1.9M |
| `Overheat` | every kind of charging after one another, heat, resets, hibernation, `MaxMins` 2: `ChargeIsCounted`, `SmartIsBounded`, `OverheatedIsOff`, `ResumedOnce`, and `OverheatedStaysOff`, which is about timed, continuous and automatic charging; automatic charging is always scheduled | 1.0M |
| `Queue` | 3 events, room for 2, lost connections and sends, resets: the queue implements `EventStore` (`StoreSpec`), `ArrivesInOrder`, `QueueDrains`, `FilesAreQueued`, `QueueTypeOK` | 82k |
| `Configured` | 2 versions with and without serial number and limit, commands, refused ones, factory resets, updates, restarts: `DoneIsStored`, `AcceptedIsKept`, `IdentityKept`, `ConfigurationSettles`, `ConfigTypeOK` | 133k |
| `Network` | both adapters with networks that come and go, with and without an Ethernet adapter and credentials, any message of a phone or the local command, resets, watchdog: `AdapterFollowsHandler`, `LocalSurvives`, `ManagerFitsWatchdog`, `ModeSettles`, `Reconnects` | 322k |
| `Clock` | a new and a used trolley in five weeks of the calendar, commands, a reset or a loss of the power at any step: `LocalTimeSurvives`, `DaylightInSeason`, `TimeStaysRight`, `ClocksRecover` | 630k |

In `Overheat` every half hour is on: a schedule that changes at any moment makes it
four times as large. Automatic charging is still left and entered again, by heat and
by the mains; half hours that are off are in `Auto`, without heat, and in the theorems
`PlainStaysOff`, `HotOutletsAreOff` and `SessionResumedOnce`, which allow every
schedule and any heat, but no smart charging.

`Network` has one message or command, which may come at any place, and all timeouts
one minute: a handler sees its timeout once before and once after it has passed,
and the order of timeouts in different handlers does not matter, as each starts
its own. Two units for the manager's waits and five for the watchdog are the code's
proportions (40 + 40 + 20 s against 90 s). `Clock` looks at hours in five places
where dates are hard: 29 February 2024, the March of that year, whose last Sunday
is the 31st, its last night, and October 2026, whose last Sunday is the 25th, with
the Sunday before. Zones are one with both rules (0), one in which the local day
is ahead (2), and one without summer time (10). One fault is enough, as what a
boot leaves behind is what every other boot finds; one wrong hour lets a wrong
clock be seen by everything that reads it.

Every property of these runs has a mutant in `PROJECT.json`: a plausible slip in
one definition, written next to it, which violates the property.

**Where code and comments disagree.** Two runs expect a violation; the
counterexample is the code's own behaviour and the finding quotes the comment:

* `StopScheduled`, in which a stop command does not stop a scheduled smart charge
  (4135) and standby has its outlets on;
* `SmartOverheated`, in which a smart charge starts although standby has flagged the
  board overheated (2885), "to prevent relays from being turned on" (2265). The
  other activities ask for the flag: `OverheatedStaysOff` says so of them in the run
  `Overheat`, with smart charges before and after, and `PlainStaysOff` proves both
  properties for a trolley without smart charging.

The models show more of the kind, most of them when a configuration is widened. They are
the reason for what the passing configurations leave out, which is in the cfg
(`Commands`, `ScheduleType`, `Temperatures`, `Patient`, `SteadyWaits`, `ClockFails`,
`ResetsWhileMarking`, `ReadsFail`) and never
in the model:

* a mains that is back before the first check of the sleep, with nothing suspended,
  leaves the run state sleeping (3875): `SessionResumes` is about suspended sessions;
* a smart charge suspended in its warm-up never restarts (3002), nor does a USB-C
  charge in its charging phase (3308): no liveness of smart charging is stated;
* a configuration is marked as done before it is saved (5711, 5712): with
  `ResetsWhileMarking` `DoneIsStored` is violated;
* a configuration applied by `setup` is saved before the block is read (940, where
  942 says that the block has to be read before it is used): the other settings
  become defaults, so `AcceptedIsKept` ends there. A rejected one saves nothing,
  unless the clock has lost its time and the date of the error event saves the
  block (1720), which then has neither the settings nor the serial number: with
  `ClockFails` `AcceptedIsKept` and `IdentityKept` are violated;
* the end of a schedule is not saved (5409), and is lost with a restart unless
  something else saves the block before: not stated;
* `auo` during a smart charge from the outlets sets the phase to that of a scheduled
  one (3561), in which the controller tests neither warm-up nor longest time,
  though its comment (3538) has it only send an event. That breaks `SmartIsBounded`,
  which `Overheat` therefore states with on/off schedules ("C") only, where `auo`
  starts automatic charging;
* a stop command in the soft start of a USB-C charge is forgotten (3238): no run
  has `usb` with `stb`;
* a timed command sent after a stop command and before its pass loses what was to
  be stopped (5221): `Patient` is TRUE everywhere;
* overheating during a mains loss, or the stop mode, replaces the cause of the
  suspended session; the stamp of the loss stays and the next loss is not
  suspended, so that the trolley sleeps with its outlets on (2433, 3819):
  `Overheat` does not state `SleepIsOff`, and the sleep is armed with steady
  mains (`ArmingSleep`) except in `Continuous`;
* a stop or restart while a session is suspended leaves it in the store, and the
  next activity takes it for its own suspension (3681, 3653): `Timed` has no stop
  command, `TimedStop` no restart and no continuous charging, and `ResumedOnce`
  is stated in `Overheat`;
* a smart session resumed by a boot keeps its stored minutes, and the next loss is
  not suspended (2928-3050): again `Overheat` does not state `SleepIsOff`;
* after a boot with flickering mains the saved minutes are not loaded (3877);
* the half hours that `checkIfChangedPeriod` compares as products (3982) collide:
  Sunday 00:00 and 06:00 are both 8, and with nothing scheduled in between the
  second smart start is skipped. Half hours that follow each other never collide
  (`NeighboursDiffer`);
* a hub that does not answer reads as one with no red light (3407), which ends
  the charge: port lights are an open choice;
* a file of the queue that is intact but cannot be read (no memory, no descriptor)
  is discarded "probably" for a corrupted one, and its event is lost
  (`PublishQueuePosixRK.cpp:174`, 303): with `ReadsFail` `StoreSpec` is violated, and the
  other properties of `Queue` hold;
* a character outside base64 reads as the 65th (4775), whose bits are those of `A`,
  so a damaged schedule is accepted with half hours switched off.

Of the network:

* once Wi-Fi is connected, Ethernet is to be tried again after a while
  (`EthernetWiFi.h:129`), for which the library waits until the cloud is
  disconnected (`EthernetWiFi.cpp:331`). If the phone or the provisioning connects
  the cloud again meanwhile, it waits for ever: not stated that Ethernet is preferred;
* set_creds and the provisioning may wait 40, 40 and 20 seconds in one pass, more than
  the 90 of the watchdog (925): `ManagerFitsWatchdog` allows the last of them;
* with stored credentials and no Wi-Fi, every pass of the provisioning takes 20 s;
* the timeouts of the cloud connections count from the try of the adapter and not from
  the link (`EthernetWiFi.cpp`, `stateTime` is not set in between);
* local mode leaves Wi-Fi switched on if it was being tried, and the cloud wanted
  if it was being connected over Ethernet; credentials sent by a phone switch Wi-Fi
  on beside Ethernet, and in local mode: `AdapterFollowsHandler` is about Ethernet;
* a check of the networks that falls in the pass after a try undoes the local
  command in the parameters until the next check: `LocalSurvives` says when;
* after clr_creds and a slow set_creds nobody calls `Particle.connect` before the
  library's next timeout, which without Ethernet never comes: `Network` has one
  message, and `Reconnects` credentials that stay.

Of the clock:

* in the night of the October switch, the hour is UTC and the date local: summer
  time ends at local midnight (not 02:00, as 1641 has it), the date falls back to
  Saturday, and it begins again, every 20 s for an hour, each time with an event and
  a write of EEPROM and RTC, where 1597 has it reported once. In March zones 1 and 2
  switch before the hour. `DaylightInSeason` leaves out the two switching nights;
* `param.timeZone` is stored and not used at the boot: the zone comes from the RTC's
  RAM, and a cold one stores its summer time over the user's;
* a reset between the two writes of a setting (5370, 5372) takes back the new one;
* every boot stops the RTC and starts it again; a loss of the power in between
  freezes it, and the next boot takes the stale time as valid: `TimeStaysRight`
  names this case;
* an RTC that starts cold and has counted one hour counts as set, unlike its
  comment says (`MCP7940.cpp:387`): the next boot has a date of its overflow, in
  April 2043;
* the RTC is set on the edge of the connection (2014), possibly before the time has
  arrived, and is then wrong for a day: `ClocksRecover` waits for the daily sync.

**Fairness.** `FairSpec` adds weak fairness of the loop (it runs for ever) and
of the timer callbacks and the two-minute delay (software timers and `millis`).
Nothing is owed by the mains, the temperature, the schedule or the users;
liveness properties have what they need of them as premises (`CommandsEnd`,
`PowerStays`).

The queue's own `FairSpec` has its loop, its thread and its delay run, and two
things happen that must happen at some time for a retry to be of use: the cloud
acknowledges an event sent again and again, and the loop does not fall between
the two flags of the callback every time (strong fairness). `QueueDrains` has as
premises that the connection comes back for good, that no update pauses the
queue, and that the restarts end.

The configuration's `FairSpec` has the program go on and its restart timer expire.
`ConfigurationSettles` has as premises that resets, factory resets and a pending
update come to an end; that no more versions come is the bound `MaxVersion`. Two
versions are enough: one that is applied while the next arrives.

The network's `FairSpec`: the loop goes on or the watchdog expires (weak fairness of
either), among the passes are always some with a check of the networks, and the
system thread and the minutes come round (strong fairness, since other steps
disable them for a while). `Reconnects` has as premises that the mode stays
connected, that credentials and a working Wi-Fi network stay, and that resets and
changes of the networks end; `Prompt` is the assumption that what can be connected is
within a handler's timeout, without which no retry need ever succeed.
`ModeSettles` has none: messages and commands are bounded.

The clock's `FairSpec`: a boot, a write and what it has begun go on (weak), the daily
synchronisation is reached, as it is tried in every pass (strong, since other
operations come in between), and days pass. `ClocksRecover` has as premise that the
connection lasts.

## 4. Proofs

| Theorem | Says | Assumes |
|---|---|---|
| `TypeCorrect` (`TrolleyProofs`) | `Spec => []TypeOK` | the constants' assumptions only |
| `ContinuousStandbyIsOff`, `ContinuousSleepIsOff`, `ContinuousIsCounted`, `ContinuousOverheatedIsOff` (`ChargingProofs`) | the four safety properties of the run `Continuous`, with restarts, factory resets and hibernation as well | `ContinuousOnly`: of the commands, continuous charging and those that stop it |
| `AutoStandbyIsOff`, `AutoSleepIsOff`, `AutoOffStaysOff`, `AutoIsCounted` (`ChargingProofs`) | four of the safety properties of the run `Auto`, with hibernation sent as well, for every schedule of on, off, expired and invalid | `AutoOnly`: automatic charging and the commands that stop it, one at a time; not hot; steady mains as above; power-on to the last state or standby |
| `SmartStaysBounded`, `SmartIsCounted` (`ChargingProofs`) | `SmartIsBounded` and, for charges from the outlets, `ChargeIsCounted` in any order of charges, with stop commands, restarts, factory resets and power-on settings as well | `SmartOnly`: the smart and timed commands and those that stop them, one at a time; power-on to the last state, standby, timed or a smart charge |
| `TimedStandbyIsOff`, `TimedSleepIsOff`, `TimedSessionIsCounted` (`TimedProofs`) | three of the safety properties of the run `TimedStop`, with factory resets sent as well | `TimedOnly` |
| `TimedImplementsSession` (`TimedProofs`) | `Spec => SessionSpec`: the refinement of the run `Timed`, with hibernation sent as well | `SessionOnly` |
| `TimedEndsOnTime` (`TimedProofs`) | `Spec => EndsOnTime`, with any other charging, command, temperature and change of the mains around it | `NobodyStops`: no `stb`, and no schedule of automatic smart charging |
| `ReplacedStaysStopped` (`TimedProofs`) | `Spec => []ReplacedIsStopped`, the property of the run `Scheduled`, with all charging, schedules, temperatures, resets and power-on settings | `NoStopCommand`: no `stb`, one command at a time, steady mains as above |
| `QueueTypeCorrect`, `QueuedFiles`, `EventsArriveInOrder`, `QueueImplementsStore` (`QueueProofs`) | the safety properties of the run `Queue` and its refinement, for every number of events and every room | the constants' assumptions only; for `QueueImplementsStore` `FilesAreRead` (not `ReadsFail`) |
| `SettingsSurviveReset` (`SettingsProofs`) | `Spec => []SettingsAreSaved` | `NoFactoryReset` |
| `PlainIsResumable`, `PlainStaysOff` (`SettingsProofs`) | `SavedIsResumable` as long as the board does not get hot, and `FlagKeepsOff` and `OverheatedStaysOff` in any heat; timed, continuous and automatic charging mixed, with all other commands, resets and changes of the mains | `NoSmartCharging`: neither by command, schedule nor power-on setting |
| `SessionResumedOnce` (`SettingsProofs`) | `Spec => []ResumedOnce`, for the same charging in any heat, with restarts, hibernation and resets | `ResumingOnly`: the same, neither `stb` nor `hst`, one command at a time, steady mains as above |
| `MixedStandbyIsOff`, `HotOutletsAreOff`, `MixedTimedIsCounted`, `MixedIsCounted` (`SettingsProofs`) | `StandbyIsOff`, `OverheatedIsOff`, `TimedIsCounted` and `ChargeIsCounted` in the same mixture, that is, when one activity follows or resumes another, in any heat | `ResumingOnly` |
| `ConfigTypeCorrect` (`ConfigurationProofs`) | `Spec => []ConfigTypeOK` | the constants' assumptions only |
| `NetworkTypeCorrect`, `AdapterAlwaysFollows`, `LocalAlwaysSurvives` (`NetworkProofs`) | types, and that the manager finds the message it takes; the properties `AdapterFollowsHandler` and `LocalSurvives`, for all timeouts, networks and messages | the constants' assumptions only |
| `ManagerAlwaysFits` (`NetworkProofs`) | `Spec => []ManagerFitsWatchdog` | the watchdog outlasts two waits of the manager, which are not zero |
| `LocalTimeAlwaysSurvives` (`ClockProofs`) | `Spec => []LocalTimeSurvives`, for all hours, zones and numbers of faults | the constants' assumptions only |
| `ClocksStayRight` (`ClockProofs`) | `Spec => TimeStaysRight`, in every year of the RTC, for all zones and numbers of faults | `ProvedHours`: the hours are of 2000-2099, the first one that counts as set is not the first of all |
| `DaylightIsInSeason` (`ClockProofs`) | `Spec => []DaylightInSeason`, likewise | `ProvedHours`, and `SetHours`: no hour is one that an RTC without a day reads as |
| `DatesKeepHours` (`ClockProofs`) | `DateTime` and `unixtime` are inverse for every hour of 2000-2099 | none: arithmetic |
| `NeighboursDiffer`, `HalfHoursHaveBits`, `SchedulesArrive`, `RegistersKeepNumbers` (`ClockProofs`) | consecutive half hours never compare equal; every half hour has its own bit; a schedule is unpacked as it was packed; the registers' decimal digits | none: arithmetic |
| `MarkedIsStored`, `PeriodIsKept`, `SerialIsKept` (`ConfigurationProofs`) | the three safety properties of the run `Configured`, for any number and content of versions and any commands | `Undisturbed`: neither `ClockFails` nor `ResetsWhileMarking` |

Each holds for every period, limit, bound, temperature set and schedule, with
resets or without.

`TypeCorrect` has one lemma an action; the helpers that set a group of variables
(outlets, timers, store) have lemmas of their own, cited by name.

`SettingsAreSaved` is not inductive: a reset reads RAM back from EEPROM, so equality
has to hold in the waits of the sleep too, and the steps that change the
settings must save in the same step. `SettingsInv` adds types and that no
factory reset is under way. Its boots read the block back; a configuration
applied by `setup` is the matter of `Configuration`.

`DoneIsStored` holds of the store, and becomes true when the block is saved, so the
invariant `ConfigInv` has to follow the block in RAM. `ReadsOK` says of a version
being applied that what has been read so far is not older, or that some version
since then does not have the key. `MarkOK` says the same of RAM and store once it
is marked, but of RAM only when setup has read the block. `RestOK` has the serial
number and the period in RAM as well, as any save of a session stores them, and
that the time is known once a version is there, without which a rejected
configuration would store the defaults.

The continuous theorems rest on `OnInv`, in three parts besides the types.
`OnRunInv`: which run states and waits are reachable at all with these commands.
`OnStoreInv`: what is stored is continuous charging or nothing. `OnOutletsInv`:
outlets on implies that the run state is the continuous one or a stopping
command that comes from it, with its timer running. The last is what a stop
command needs: it looks at `prevRunState` to know what to stop, so the invariant
must say that it is the true one. With it, each way into standby and sleep is
seen to have switched the outlets off.

**Smart charging.** That the limit holds does not follow from the test of it, which the
controllers make in some phases of the charge only, and of minutes that may come from a
charge before. `SmartInv` says, besides what is reachable: with the outlets on, the minutes
are within the limit in whatever run state they were left on (`SmartOutletsInv`), as
a stop command that was lost leaves them on for the next charge; the phase is
one in which the controller of the run state tests the limit, and of the run state that
a sleep will resume (`SmartPhaseInv`); the minutes from which a charge from the
outlets restarts are within the limit (`SmartStoreInv`, `SmartResumes`).

Timed sessions come between the charges, and share outlets and store with them. One
that overheats stores its minutes without a run state, so that they end up under that
of an earlier smart charge, and a timed session may be longer than any limit of
a charge. That is harmless, as the phase has been reset by then, and a charge
resumed in that phase stops at once. A session does not reset the minutes of a
charge either. If it is new they are zero; if it was taken up from the
store, no smart charge is left there to inherit them (`SmartTimedInv`, `SmartGone`).

Two details more it took to be inductive: a USB-C charge may be in the phase ON_UNTIL_END, in which
nothing is tested, but then none of its timers runs; and with a warm-up longer than the
longest time, the minutes of the outlets may exceed what the hub allows, so that
the outlets have to be off before a charge from the hub begins. The last needs
`Patient`. Mains, heat and resets are free. `auo` is left out because with
it the theorem would be false, as section 3 says (TLC finds the trace).

**Timed charging.** `TimedOnly` has the commands `tmc`, `stb`, `hst` and `hib` in any
order, one at a time (`Patient`), a board that is not too hot, steady mains in the
wait before the sleep and in the confirmation of a stop, any period, bound and
power-on setting without a schedule, resets or not. Each restriction keeps out one of
the divergences listed above (`rst`, for one, overwrites the cause for which a
session is suspended). `TimedInv` has the four parts of `OnInv` in a harder case,
since a timed session may be suspended: `TimedStoreInv` says what of it is stored
while it is suspended, and by which controller it will be resumed; `TimedLostInv`,
that the stamp of the mains loss is there exactly when something is suspended or
on its way to sleep, which is what decides whether the next loss is suspended.

The refinement needs more (`SessionInv`, under `SessionOnly`, the above with neither
stop nor reset): the abstract session has one number, what is left, where the code has
three, in RAM, in the store, and in the count of the timer, of which each
is valid at certain times. `SessionCountInv` says which; `SessionWayInv` follows the
session through sleep and waking, where it exists in the store only. Each
controller is then shown to take a step of `TimedSession` or none.

`EndsOnTime` is about the step that dismisses a session, so it needs little of how
sessions run but much of where else the mark of an end can come from. `EndInv`
has two parts: with a timed session in progress the mark is not set before the
minutes are over (`EndMarkInv`), and nothing scheduled is ever about (`UnscheduledInv`),
as the scheduled smart start sets its mark for whatever runs. It passes through all
controllers, hence the theorem allows any other activity.

**Automatic charging.** The hard case is the mains that fails twice. Only a loss that is
not stamped yet suspends the charge and switches off; one that comes while the stamp of
an earlier one is set would put the trolley to sleep with its outlets on. So
`AutoOutletsInv` has the stamp gone whenever the outlets are on, and that it goes when
charging starts rests on the store: `AutoResumes` clears it only for a session that
is stored with minutes and suspended for a loss of the mains. `AutoLostInv` says where,
on the way through sleep, standby and waking, a set stamp comes with such a session.
A restart command breaks it (the stored cause is another one), as does heat; both are
among the divergences above, hence `AutoOnly`.

**What is stored.** `PlainInv` leaves open which activity runs and says that no smart
charge runs, waits or is stored. Waking makes a run state of whatever is stored, so the
stored run states have to be known before the running ones are; and overheating stores
minutes without a run state, hence the case distinction on the heat. Each action is
shown to take a `PlainStep`, from which both theorems follow.

`OnceInv` serves one implication, that outlets on in a session mean no minutes in EEPROM.
A session that starts clears the minutes in RAM and stores the block, but looks at
RAM only; so the store may have no minutes that RAM has not (`OnceStoreInv`). The end of
a timed session clears RAM alone: then EEPROM must have none already, whether a minute
has ended it (`OnceCountInv`) or a mark it found set (`OnceEndInv`). A session resumed in
the heat may go to sleep with its outlets on, its loss being stamped already; on waking it
is in the store's run state, so `OnceStampInv` and `OnceOutletsInv` follow stamp and run
state there. `stb` breaks it with the end mark it leaves behind, `hst` with a block that
is not saved, and unsteady mains with a sleep that is given up between its checks: TLC
has a violation for each, which is why they are excluded.

`OnceOutletsInv` says where outlets can be on in such a mixture, which is never standby
(`MixedStandbyIsOff`). That is what `HotOutletsAreOff` needs: standby looks at the
temperature and switches nothing, whereas the controllers of charging switch off in
the pass in which the board becomes hot, as becoming hot clears the flag by which they would
take it for known (`HeatSwitches`). `Counting` has the timers. Awake, outlets that are
on have that of their activity; asleep, a countdown goes with timed charging in the store
and a charge timer with automatic charging, so that waking takes each up under its
own. `AutoOffIsOff` does not hold in this mixture: with the stamp left by overheating,
automatic charging sleeps with its outlets on, and wakes in a half hour that is off.

**Scheduled charging.** `ReplacedIsStopped` needs to know where a countdown can run at
all. `Interrupted` is the run state that goes on when a command for the schedule or a
scheduled start comes to nothing: `prevRunState` while one of them is being taken up,
else the run state. By `ReplaceCountInv` it is timed charging or a sleep that leads back
to it. Such a sleep is the difficult part: a session goes to sleep with its
countdown on only when its mains loss was stamped before, which is so only if
it was itself taken up from the store; so `ReplaceStoreInv` has no other
activity's session in the store then, and waking leads to timed charging and
nowhere else. The stamp outlives the session, hence its second implication speaks of
the stamp; a scheduled start from a suspended smart charge has cleared the store, hence
its last one. The hypotheses are needed, TLC has a violation without each: a stop command
during such a sleep stops nothing and leaves standby with the countdown on,
which the next scheduled start takes over; a command sent before the last one is
taken up overwrites the remembered state; and mains that returns in the wait for the
queue before hibernating ends the sleep in standby, the countdown on.

**The queue.** `QueueInv` is what the queue's loop, the sending thread and its callback
know of each other (`SendingInv`): while the loop waits for a result, the file it is
about to remove holds the event the thread is sending, or has been discarded to make
room, in which case nothing is removed; and a result is never left over from an
earlier event, since the delay outlasts the callback. `FilesInv` has the order of the
files: of two in the queue the second is newer unless the first is from before the
boot (`bootMark`), where the directory's order decides. `SentInv` adds that nothing older
than the last event sent is kept. From these follow order and, action by action, the
steps of `EventStore`: what disappears has arrived or is the one discarded.

`AdapterFollowsHandler` is inductive with the types alone: one lemma goes through the
handlers, and outside of them only Wi-Fi is switched. `LocalSurvives` needs more:
`checkNetworks` stores what the interface says, in a step after the handler of its
pass, so `CheckAgrees` carries what each handler leaves behind when local mode is
chosen (the interface OFF, or a try just begun) over to the check.
`ManagerFitsWatchdog` needs `PassFits`, the time used at every place of a pass; the
point is that only credentials just set lead to both waits of the manager, and
that the provisioning then does not wait for credentials again.

`LocalTimeSurvives` says that three copies agree when nothing is left to write. Its
invariant `LocalInv` adds that the EEPROM has a change before the RTC's RAM has it
(in "Save"), and that a boot sets P2 and EEPROM from the RAM in one step, so that
no reset in between leaves two of them apart for the loop to find.

**The clock.** That clocks stay right is a matter of the registers, which are written one
by one and of which a reset may leave any part written. `ClockInv` has four parts.
`TimeTypeOK` bounds the registers, and `Staged` says at which stage of a boot what runs.
`Written` follows the order of `adjust`: hour, month, day, year, so that a day is there
only after a month and a year only after a day, and an RTC with a day has a date to
count on from. `LockStep` is about a P2 that does not know the time. It runs in step with the RTC it took its time from, or is
about to set the RTC to its own. Without it an hour could pass that makes the wrong
time of the P2 count as valid while the RTC is right, and `checkNetworks` would
write the wrong one over it. That the RTC reads the next hour when one has passed, over
the end of a month, a leap day and a new year, rests on the dates (`DatesKeepHours`,
`TicksToNextHour`): the days before a month are a table in `Calendar`, which
`MonthsAddUp` ties to the lengths of the months that the code adds up.

`DaylightInSeason` compares the rule of the code, which looks at month, day, weekday and
hour of the local date, with the last Sundays of March and October by the hour.
`SeasonOfDay` is the arithmetic: in the switching month the code's difference of day and
weekday is above 24 exactly from the last Sunday on (`LastSundayIs`), and the local date
is at most three hours ahead of the hour of UTC it is used with, which is why the property
leaves out the switching nights; a local new year is in no season. `Looked` is the
property without the stage of the program: every step that changes zone, flag or clock
ends `updated` or looks for the change again. A look at an unset time only restores the
time of the RTC, without the rule. By `LockStep` that is the unset time again, unless the
RTC has no day yet; such an RTC reads as 27 or 28 April 2043 or as a day of 2000,
so `SetHours` leaves those out. TLC has a violation with the hours around the 28th.

Model-checked only: all liveness, which the prover does not reach.

## 5. Not modelled

Measurement drivers (`lib/ACS37800`, `lib/MCP9800`, 1219-1543, 4786-4815) and the hub
bus (6485-6654): register access and floating point, whose outcome the model
leaves open, as the controllers do nothing but compare it. The events (much of
the main file writes their JSON) and logs, the device update and
network information (4834-5133), which change no state a controller reads.
`remoteCharge` writes a record no controller reads; the run state buffer
(6349-6420) is not called. The schedule a user sends (`sda`, `oda`, 5411-5450) is not
a command of the trolley model, in which a schedule has one kind throughout a run and any
half hours; so an empty `oda` that ends the scheduled charge (5442) is left out, and
`aux` is what reaches its run state. A message of a phone has one
`msg_type`: the parser would act on every one it finds in the text. Of the RTC's driver what the trolley does not
use: alarms, power-fail stamps, square wave. Of the queue: sending from the RAM queue, which has no
room here, and what the trolley does not call. `lib/LocalTimeRK` (with its tests, the largest part of the repository by lines),
`lib/WiFiChannelRK` and `lib/DeviceLocator` are third party: the first is included and
none of it is called, the others only feed reports. `lib/ChargingControl` is empty.

## 6. Plan

Done, in this order: `RunStates`, `TrolleyState`, the controllers, `WebCommands`,
`Trolley`; properties and runs; `TypeCorrect`, then the two inductive
invariants; `PublishQueue`; `Configuration` and its theorems; the network
(`DeviceNetwork`, `EthernetWiFi`, `WiFiSetup`, `Network`) and the clock (`Calendar`,
`Clock`) with theirs; the theorems of timed charging, its refinement, the queue's, automatic
and smart charging's, those about what is stored and about replaced sessions; the
clock's dates and seasons.

Left:

1. The hub bus as a component that may fail, with the smart USB-C charge over it.
2. The smart charge and an expiring schedule together, for `ChargeIsCounted`.
3. `SmartIsBounded` with continuous charging besides, which counts with the same timer.
