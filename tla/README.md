# A verification project for the industrial safety monitoring firmware

The repository is the firmware of an ESP32 board that watches a plant room: it
measures temperature, gas, noise, vibration, motion and a door, drives a siren,
a fan relay and two LEDs, and shows what it knows on an OLED, on a web page and
over a small MQTT broker of its own. It runs FreeRTOS on two cores. Nearly all of
it is one file, `src/rtos_firmware/main/ISMS_MQTT_v8_0_RTOS_PERF.c`, called
`MAIN` below; the web server is `src/rtos_firmware/main/isms_web_server.c` (`WEB`)
and the dashboard is `src/rtos_firmware/spiffs_image/index.html`.

This directory holds TLA+ models of the parts of the firmware whose correctness
depends on the order in which tasks, interrupts and clients act, TLC
configurations that check them on small instances, and proofs of some of the
properties for every value of the constants.

| file | contents |
|---|---|
| `ActuatorCommands.tla` | the commands, what each drives, and the pins, for the next two |
| `Executor.tla` | what ActuatorTask promises to those who post commands |
| `Actuator.tla` | ActuatorTask, its command queue and mutex, the tasks that share `g_actuator` |
| `ActuatorProofs.tla` | six theorems about it, one of them that it implements `Executor` |
| `Alarm.tla` | from a reading through `xDataQueue`, SafetyTask and `xEventQueue` to EmergencyTask |
| `AlarmProofs.tla` | five theorems about it |
| `Vibration.tla` | the vibration sensor's interrupt, ScalabilityTask and the report of `g_vib_isr_flag` |
| `VibrationProofs.tla` | three theorems about it |
| `Security.tla` | SecurityTask and the interrupts of door and motion sensor, with time |
| `SecurityProofs.tla` | four theorems about it |
| `Presence.tla` | how a dashboard is counted in and out, and what the OLED makes of it |
| `Display.tla` | composes `Presence` with the screens of OledTask, the transfers and the glass |
| `DisplayProofs.tla` | four theorems about `Presence` and three about `Display`, one of them that it implements `Presence` |
| `Broker.tla` | the MQTT broker: listener, handlers, slots, sockets |
| `BrokerProofs.tla` | five theorems about it |
| `Wire.tla` | how a handler of the broker takes the stream of a client apart |
| `WireProofs.tla` | a theorem about it |
| `Startup.tla` | `app_main`, the web server's start, early interrupts and the first tasks |
| `StartupProofs.tla` | five theorems about it |
| `*.cfg` | one per run, see "Runs" |
| `PROJECT.json` | components, runs, the source lines of each definition, findings, hazards, theorems |

To repeat a run, `tlc -workers 2 -config Alarm.cfg Alarm`; to check the proofs of
a module, `tlapm ActuatorProofs.tla`. The module of a run is the one its
configuration is named after (`ActuatorWatch.cfg` belongs to `Actuator.tla`).
Definitions headed *Mutant* are faulty variants of the action that follows them.
No specification uses them; putting one in the place of the right action makes
the property it is meant for fail, which shows that the property can.

## 1. Inventory

### Components

| component | lines | state | operations | model |
|---|---|---|---|---|
| SensorTask | MAIN 1489-1660 | the snapshot it writes to `xDataQueue` | measure, overwrite, copy `g_actuator` | Alarm, Actuator |
| SafetyTask | MAIN 1769-1842 | none | peek, compare with thresholds, raise events | Alarm |
| SecurityTask, PIR and door interrupts | MAIN 640-668, 1662-1767 | `last_pir`, `last_door`, `door_stable_since`, `door_open_since`, two semaphores, two debounce times | pass every 100 ms, edges | Security |
| EmergencyTask | MAIN 1844-1908 | none | receive an event, post its burst of commands | Actuator, Alarm |
| ActuatorTask | MAIN 1910-2029 | `g_actuator`, the output pins, `xActuatorQueue` | nine commands, timed pulses, watchdog of the manual override | Actuator |
| MonitoringTask | MAIN 2031-2127 | none | poll buttons and noise, write to `g_actuator` and `xDataQueue` | Actuator, Alarm |
| ScalabilityTask | MAIN 669-681, 2129-2159 | semaphore, `g_vib_isr_flag` | raise an alert, sleep 3 s, clear the flag | Vibration; event source in Alarm |
| CommTask, PerformanceTask | MAIN 2161-2563 | report counters | publish and print reports | not modelled |
| system state, events, bits | MAIN 964-1028 | `systemState`, `xEventQueue`, `xSystemEventGroup` | `update_system_state`, `send_event` | Alarm |
| MQTT broker | MAIN 1231-1487 | `s_clients`, `s_client_count`, `xBrokerMutex` | accept, register, spawn, receive, publish, free | Broker |
| MQTT codec | MAIN 1162-1229, 1314-1395 | none | remaining length, strings, topic filters | Wire (the decoding) |
| web server, CleanupTask | WEB | `s_last_request_ms`, `g_ws_client_count` | activity, cleanup | Presence |
| OledTask | MAIN 2565-3076 | screen, page, previous count, frame buffer | five states, ten screens, transfer | Presence, Display |
| dashboard page | index.html 1472-1528 | poll timer, connected flag | connect, poll, disconnect | not modelled |
| start-up, SoftAP, task watchdog | MAIN 3078-3266, WEB 216-250 | objects, handlers, tasks, `EVENT_AP_STARTED` | creation in order, failures | Startup |
| drivers | MAIN | pointer of the SSD1306 | register traffic, conversions | SSD1306 in Display, probes in Startup |
| trace hooks | MAIN | counters | scheduler hooks | not modelled |
| esp_websocket_client | vendored | - | - | not used by the firmware |

### How they interact

    SensorTask --xDataQueue--> SafetyTask --xEventQueue--> EmergencyTask
         ^           ^ |           |  bits, systemState        | xActuatorQueue
         |           | v           v                           v
    g_actuator <-- MonitoringTask, SecurityTask,          ActuatorTask --> pins
         ^         ScalabilityTask                             |
         +---------------- xActuatorMutex ---------------------+
                                                               v
    broker handlers <-- xBrokerMutex -- broker_publish <-- every task
    GET /data --> g_ws_client_count <-- CleanupTask;   OledTask reads it

`xDataQueue` is a mailbox of one element that two tasks overwrite. `g_actuator`
is shared under `xActuatorMutex`, which two of its three users take with a
timeout whose result they ignore. `systemState` and the two counters are shared
with no protection. The slots of the broker are shared under `xBrokerMutex`, but
the handlers use their sockets without it. Interrupts speak to tasks through
binary semaphores.

### What is hard here

- *Interleaving on two cores.* Every access to `g_actuator`, `xDataQueue` and
  `systemState` can fall between two of another task.
- *A mutex that is released in the middle.* ActuatorTask sleeps up to 10 s in a
  pulse with its mutex given; what it knew is stale when it takes it again.
- *A timeout that is ignored.* After a failed take the access and the give
  happen all the same.
- *Commands that take effect late.* The command queue is short and its commands
  take seconds, so effects are separated from the decisions behind them and
  commands are lost.
- *Time.* Debouncing, confirmations and deadlines that are set and reset in
  several places, passes that come late, a clock of 32 bits.
- *Start-up.* Interrupts, the event task, browsers and the tasks created so far run while
  `app_main` still creates what they use.
- *Framing.* A byte stream has no marks between packets; every branch must read exactly its own.
- *Reuse.* Slots and descriptors that are given back on many paths and used
  again at once.

Every hazard that was found is listed at its line in `PROJECT.json`, with the
properties that would notice it going wrong, or with the reason there is none. Where the
code does go wrong and a property excuses the case, the hazard's note says so.

### What makes each component correct

| component | correctness |
|---|---|
| ActuatorTask | it owns its mutex in its critical sections; `g_actuator` tells the truth about the pins; the siren is never latched; an override of the fan has a deadline and ends; the queue drains |
| events | no event is lost; a fire that lasts is answered soon and again and again; none is made up; the state shows it |
| ScalabilityTask | a vibration has its alert; the report tells of it and stops telling of it |
| SecurityTask | an opening is noticed, a closing is noticed and in bounded time; an alarm ends |
| web server, OLED | who polls is counted, who stops is counted out; no page is shown to nobody; the glass shows what it should, whole |
| broker | a slot has one owner; no descriptor leaks; no client hears another's stream; slots come back; what is published arrives; a handler stays in step with its stream |
| start-up | no task runs that uses a missing object untested; no early edge is lost; it ends |

## 2. The models

All modules write an action per step of the code between two points where
something else can happen. How fine that is depends on who looks.

### Actuator

*State.* `queue` is `xActuatorQueue`, `holder` the holder of `xActuatorMutex`,
`gpio` the levels of the four outputs (the fan relay is active-low, so its level
is the complement of its meaning), `on`, `manual` and `since` the fields of
`g_actuator`, the last as *never*, *recent* or *expired*. `actuator`, `monitor`
and `sensor` say where the three tasks are, `burst` what EmergencyTask has still
to post.

*ActuatorTask* is `Receive`, `Lock`, the writes of one case of the switch
(`WritePins`, then `WriteFields`, then `ClearManual` and `ClearSince` where the case
ends an override), `Pause` and `Resume` around a pulse, `Finish`, the copy of the
state it publishes (`SnapLock`, `SnapGive`, `Publish`) and the watchdog (`CheckLock`,
`Check`, `CheckGive`). The nine cases of the switch are the table `DriveOf`: what each
switches on, what off, and whether it releases the override. The undo at the end
of a pulse and the expiry of the override are drives too. *MonitoringTask* has a
step for each access (`ReadFan`, `MarkManual`, `StampManual`), because a timed take that
fails does not keep it from going on. *SensorTask* copies the fields.
`TimedTake` fails whenever the mutex is taken, which the code does not look at;
`Give` of a mutex another task holds fails an assertion, after which the chip
restarts (`Restart`). `Elapse` is the passing of the 30 s, allowed only where time of
that order really passes.

*Executor* is the abstract specification: the commands that found room, one at a time, in
order, each once, with outputs that move all at once and at four points only. The
refinement mapping is `queue` for its pending commands, `gpio` for its pins and
`Execution` for the command in execution. A command is *fetched* from its
receipt to its write of the pins, and in its *pulse* until the undo has written the pins or,
for an overridden fan, has been left out. The mutex, the fields, the snapshot, the
watchdog's test and all other tasks are stutters, posts that find the queue full too.

*Abstracted.* Durations are finite and otherwise arbitrary; what is published is
left out; several writes to pins in one case are one step, as nothing reads pins.

### Alarm

*State.* The air, the mailbox `data`, the three periodic tasks, `queue`
(`xEventQueue`), `bits` and `state`. Histories count for how long there has been a fire
(`hot`), or none (`cold`), and how long ago EmergencyTask received the event
(`heard`).

*Time* is in periods of 200 ms, those of SensorTask and SafetyTask. In a period each
has one pass, anywhere in it and in any order; MonitoringTask has one in `Beat`
periods, and its peek, change and overwrite may lie on both sides of the end of a period.
EmergencyTask dispatches the first `Rate` events it finds waiting at the start of a
period, and may dispatch more. In the code a dispatch takes 40 ms at worst: four
posts that wait 10 ms each for room in the command queue. The sensors of SecurityTask raise
one event of each kind in a period at most, as each has to be read at rest in between;
ScalabilityTask sleeps for 3 s after each of its events, of which `Pause` counts the periods that lie
within it whatever the phase (14 in the code), and `others.rest` those that have passed.

*Granularity.* Raising an event is three accesses (queue, bits, state) that nobody
reads together, hence one step; only the test of `systemState` before a warning and
its assignment are two steps (`DoorTest`, `DoorWarn`), since another alarm in between is
covered by the warning.

*Abstracted.* A temperature is normal, high, critical or a fault. A gas fault cannot
occur: it takes a level above 4096 and the 12 bits of the converter, scaled, stay
below 1001. The counters of emergencies and breaches are only printed.

### Vibration

*State.* The pin, the handler between setting `g_vib_isr_flag` and giving the semaphore, the
flag, the semaphore, ScalabilityTask (where it is, how long it has slept, how late it is), the
ages of `lastTick` and `last_ms`, and how far MonitoringTask is in its period. `silent` and
`unshown` are histories: for how long an edge that should have an alert, or a report, has had none.

*Actions.* `Rise`, `Give` and `Fall` are the sensor and its handler; `Taken`, `Raise`, `Wake`, `TimesOut`
and `Clear` the task. `Clear` is a step apart from the test before it, since an interrupt
comes in between. `Report` is the read of the flag by MonitoringTask. A period is 500 ms, in which the
50 ms of the handler's debounce have or have not passed: `Rise` leaves both open where that can be.

### Security

*State.* The pins, the debounce ages, the semaphores, `last_pir` and `last_door`, the ages of
`door_stable_since` and `door_open_since`, and the place of the task. A time stamp is
modelled by its age, `Never` standing for 0. `phase` is the time since the pass was
due; `vTaskDelayUntil` keeps the due times on their grid however late a pass is.

*Actions.* `Edge` moves a pin, running the handler on a rising edge. A pass is
`Wake`, `Pir`, `Door`, `Confirm` (FIX-07), `GiveUp` (FIX-35). They are four steps because
the pin is read anew in each and moves in between. `level` and `fate` are histories:
for how long the door has not moved and what became of its last opening.

### Presence

*State.* The clock `now` in seconds modulo `Wrap`, the time stamp of the last request, the
count, CleanupTask and its failed takes, the display. `Activity` is a request (its
timed take may fail, which changes nothing), `Cleanup` and `CleanupMisses` the pass of
CleanupTask, `Splash`, `Greet`, `WaitApp`, `Connected`, `Change` and `Rotate` the five states of
OledTask. OledTask looks ten times a second; in the model once or more in each.

### Display

Display EXTENDS Presence and gives every round of OledTask what it draws and sends. A screen
is the set of its texts: row, column (or centred) and the least and the greatest number of
characters that its format and the values in it can make. The glass has two halves, which a
transfer of the frame buffer fills from the controller's pointer on; at most `Faults` transfers end early,
after none or one of the halves, and the pointer stays where it is then. Other tasks' use of the I2C bus
is serialised by `xI2CMutex` and takes no part.

### Broker

*State.* What each descriptor stands for (`wire`), the slots, the count, and where the
listener and each handler are. `Accept`, `Register` or `Reject`, `Spawn` or `SpawnFails` are the
listener; `Receive`, `RecvFails` and `Leave` a handler, `Publish` the other tasks. `accept` uses the least
free descriptor, as lwIP does, so that descriptors are reused as early as they
can be. `Branch` is the comparison of a packet's first byte with the packet types, by
numbers, as it is done in the code. A section of `xBrokerMutex` is one step: nobody
looks at the slots without it.

*Abstracted.* The bytes of a packet after the first one, and topics.

### Wire

*State.* The packet a correct client is sending, the digits of its length that are still to come, how many
bytes of it the handler has read (`passed`), and what the handler believes: what it reads (`at`), how many
bytes of that are missing (`want`), the value of the length so far, `to_read`.

*Actions.* `Begin` reads a type, `Decode` a digit of the length, `Recv` as many bytes as have arrived; when
the last byte of a part is there, `Continue` goes on as the branch of the packet does. `RecvFails` is a
connection that ends or times out. Three reads of the code (the protocol name, the connect flags,
the packet identifier) are not looked at: after a time-out in them what follows is read
askew, and the model ends there (`astray`), as after the rest of an oversized payload.

*Abstracted.* What the bytes say. `SUBSCRIBE` and `UNSUBSCRIBE` are packets of other types: their branches cannot be reached.

### Startup

*State.* How far `app_main` is in `Order`, the sequence of its calls with those of the
functions it calls; the objects, handlers, tasks and semaphores that exist or are given; the access point and its
event; the task watchdog; what has failed. `Users` says which tasks hand an object to the kernel without a test for NULL, as
read in their bodies; where the code tests (interrupt handlers, `actuator_post`, `broker_publish`, the I2C helpers, both users of
`xClientMutex`) an object may be missing without harm.

*Actions.* One for each kind of call. `CreateObjects` creates the thirteen objects of the kernel, of which any that is in `Fragile`
may fail, and then looks at those that are asserted; `FailChecked` is a call whose result is checked by `ESP_ERROR_CHECK` or
`configASSERT` and restarts the chip, `FailTolerated` one that is logged at most, or not looked at: without `gpio_install_isr_service` no handler is added. Around them
`Edge` (an interrupt), `ApStarted` (the event task), `Begin` (a task's first run), `TakeEdge`. Every task has a
higher priority than `app_main`, so it goes on only when its tasks have run, but for one that may
be about to run on the other core. `RunOn` is the system after its start, where the model ends.

*External.* ESP-IDF starts the task watchdog with the 5 s of `sdkconfig` before `app_main`.

## 3. Runs

| run | configuration | expected | what it shows |
|---|---|---|---|
| `actuator` | queue of 1, event *overheat* | pass | safety and liveness of ActuatorTask and its neighbours, and that it implements `Executor` |
| `actuator_watch` | queue of 2, event *fire* | violation | a fan can run with no watchdog and no end |
| `alarm` | queue of 8, 3 periods per beat and pause, rate of 4 | pass | events are not lost, fires answered, none made up |
| `security` | ticks of 25 ms | pass | bounds on noticing a closing, an opening, and giving up |
| `security_motion` | motion sensor only | violation | a second motion raises nothing |
| `display` | clock that does not wrap, one failed transfer | pass | who polls is counted, who stops is dropped, the glass follows |
| `presence_rollover` | clock of 30 s that wraps | violation | a returning client is not counted after a rollover |
| `broker` | 3 connections, 2 slots, 3 descriptors | pass | ownership of slots and sockets, slots come back |
| `broker_subscribe` | the same | violation | no client is ever subscribed |
| `startup` | edges of three pins, four objects that may fail | pass | no task uses a missing object untested, no early edge is lost, the start ends |
| `vibration` | periods of 500 ms | pass | a vibration has its alert and its report |
| `wire` | base 4, arrays of 2, 3 and 5 bytes | pass | a handler stays in step with its stream |

Deadlock is checked in all of them but `wire`, where a handler ends with its connection.

### Bounds

*Actuator.* The code's queue has 8 places. With 1 it is full as often as it can be, and commands are
lost at every point of a burst. *overheat* posts timed commands for the fan and for the buzzer, and the
buttons add untimed ones and a buzzer pulse, so the writes, undos and releases all occur, in the order that a
burst and the buttons can give them. `ALL_CLEAR` is in the table but nothing posts it: no
task sends the event it belongs to. `actuator_watch` has room for two commands and bursts of four
(*fire*). The six theorems hold for every queue size and every set of events.

*Alarm.* The code has a queue of 12, a beat of 5, a pause of 14 and a rate of 5. The run has 8, 3, 3 and 4,
with noise alarms, doors and vibrations besides fires, and no gas: fewer
sources, less room and a slower consumer. The constants of the properties are tight for it:
with `Patience` 4, `Answer` 1, `Lag` 2, a rate of 3 or a beat of 2 the run fails. All five invariants are proved
for the numbers of the code and with all its sources.

*Security.* 25 ms are a tick: the debounce, the confirmation (2 ticks each) and the period (4)
are those of the code, the deadline is 10 (1200 in the code), and a pass may be 2 late. What
grows with the deadline is only how long a door can be open with nothing happening; the order of
the durations is that of the code, and every comparison has both outcomes. `DeadlineKept` holds for
all durations.

*Vibration.* Time-out, window and beat are those of the code in periods of 500 ms, and every task may be one
period late. The bounds of the properties are tight for this instance.

*Display.* Timeout and check are those of the code in seconds; the screens are shown as
long as in the code or 2 s, the six pages are those of the code. The clock has room for three timeouts; that
of `presence_rollover` goes round. One transfer fails at most: a pointer in either half, and a picture from each side of it,
are what a second one could add. Two halves stand for any place at which a transfer can end.

*Broker.* The code has 2 slots too. Three connections, one more than slots, and three
descriptors make slots and descriptors run out and be reused. Two packets per client are
enough to subscribe and disconnect.

*Wire.* The base of a length (128), the arrays for an identifier (32), a topic (64) and a payload (750) and the
chunks for what is thrown away (8 and 32) are 4, 2, 3, 5 and 3. The lengths of strings, payloads and other packets lie just below, at and just above
each of them, and those of packets on both sides of one, two and three digits: what the code does depends on these
comparisons only.

*Startup.* Edges come on the pins of one sensor of SecurityTask, on the vibration sensor and on one button: one for each task that takes
semaphores, and one that nobody takes. The two sensors of SecurityTask, and the two buttons, are treated alike.
The creation of four objects can fail, each alone and all together: one that is used in the first second, one that waits for a first event, one for a
first client, and one of the last assert. The proofs take all thirteen.

### Fairness

*Actuator.* Weak fairness of the tasks: each can run when nothing it waits for is
missing. Strong fairness of ActuatorTask's takes of its mutex: its priority,
`configMAX_PRIORITIES - 3`, is above that of the other users, FreeRTOS wakes the
waiter of the highest priority, and the others hold the mutex for a few instructions,
so a mutex that is free again and again is had. Strong fairness of `Elapse`: the rounds in
which ActuatorTask waits add up to 30 s. Nothing is assumed about buttons and events.

*Broker.* Weak fairness of the listener, of the end of a handler, and of `RecvFails`:
`SO_RCVTIMEO` ends a `recv` on which nothing arrives (FIX-09). A client sends finitely many
packets in the model; one that went on for ever would rightly keep its slot.

*Startup.* Weak fairness of `app_main`, of the restart after a failed check, of the event task, of a created task's first run and of
the task that takes a semaphore: the scheduler runs whatever is ready on one of two cores. Calls may
fail whenever they can; no call is assumed to succeed.

The other specifications have no fairness. Their bounded-time properties are
invariants over ages: `Tick` cannot leave a due step behind, which bounds how late a task may be.

### What the properties say

*Actuator.* `ActuatorOwnsItsSections`: whatever the unchecked timed takes do, the mutex is
ActuatorTask's exactly between its take and its give. `OutputsMatchPins`: `g_actuator`
is right about each output whenever ActuatorTask is not in a critical section.
`BuzzerOnlyInPulse`: the siren sounds only while a timed `BUZZER_ON` is executed.
`ManualHasDeadline`: as long as no timed take has failed, an override has its time stamp.
`OverrideEnds`: a stamped override ends, once the button is left alone, unless a timed take
fails: then a half-done release can take the stamp off an override that was just marked.
`Implements`: no interleaving with the mutex released, no failed take and no watchdog makes the pins move but by commands that
are executed whole, once and in order.

*Alarm.* `NoEventIsLost`, `FireIsAnswered` (a fire of more than a second has been received by
EmergencyTask within the last two periods, at any time while it lasts), `FireIsReal` (an
alert comes from a reading three periods old at most, even one that MonitoringTask
has put back), `AlarmIsShown` (a door's warning written over the alarm does not last).

*Vibration.* `VibrationIsAnswered`: the check at the end of the 3 s, which takes the semaphore and raises nothing, swallows no
edge that the window does not cover, nor does the debounce of the task. `ReportsAreTrue`: an edge is in a report of
MonitoringTask within a beat and the delays, unless a report a beat before had told of the vibration already, although the
flag can be cleared just after an edge has set it; and the flag does not outlive the vibration.

*Security.* `ClosedDoorIsCleared`: a closed door is known to be closed after the 50 ms and
two periods with their delays. `OpeningIsNoticed`: an opening can be missed in one
way only, when the debounce drops its edge because a glitch came within 50 ms before it; no later
edge follows then while the door stays open. `OpenDoorHasDeadline`: an alarm ends
30 s after it began, plus one pass; the exception is a door found open at the start, which
has no open time and is never given up.

*Presence, Display.* `SilentClientIsDropped`, `PollingClientIsCounted`, `LiveHasClient`. The last depends on
numbers: OledTask does not look at the count during the banner, and a client that left then would
not be noticed in LIVE, but the timeout of a client is longer than the screens before the rotation, the banner among them,
take together. A client that asked once, just after the start, is the one that comes nearest.
`GlassIsCurrent`: two rounds after a client came or went the glass says so, if its last transfer came through and
the pointer is at the top. One transfer that ends early shifts every later picture until another one does: the property says
what is true, with this exception. `TextsAreWhole`: no text is cut off at the right, where `oled_draw_str` drops what does not
fit, and none is written over another, for all values they can hold.

*Broker.* `OneOwner`, `SocketsAreOwned`, `StreamsAreApart`, `CountIsExact` over every way a handler or
its start can end, and `SlotComesBack`.

*Wire.* `HandlerIsInStep`: a handler that reads a type stands at the start of a packet, whatever the packets before were and
however they came in pieces, except after a payload longer than its buffer; and it never reads beyond the packet it is in. A length of four digits, which
MQTT allows, ends the connection and so puts nothing out of step.

*Startup.* `NothingUsesTheMissing`: the bodies of the tasks and the asserts of `create_rtos_objects` agree on what must exist. A task
that is handed NULL asserts in the kernel only when it uses the object, which for some is the first alarm, command or client; so every object that some task uses
untested has to be among the asserted ones, and it is; `xClientMutex`, which is not, is tested by its users. `EarlyEdgeIsKept` and `EarlyEdgeIsTaken` (FIX-26, FIX-27);
`StartUpEnds`, in particular the wait for the access point, whose event must not come before its handler is registered, and what is
tolerated does not keep the alarm tasks from being created; `WatchedTasksAreWatched`, although `init_watchdog` comes after the tasks that subscribe.

### Findings

Each is a run in which TLC finds the quoted sentence violated.

1. `actuator_watch`, MAIN 2086. Button 2 marks the override at once, its `FAN_ON` waits behind
   pulses of up to 10 s each; the watchdog releases the override first and the late
   `FAN_ON` runs the fan with nothing to stop it. The comment at MAIN 2082 says "permanent
   until toggled off or 30-s WDT".
2. `security_motion`, MAIN 1699. `last_pir` is assigned only after a rising edge, when the pin
   reads 1, so it stays 1 and the next motion is not an entry. `README.md:119` says that
   SecurityTask "Monitors PIR and door sensor for unauthorized access".
3. `presence_rollover`, WEB 76. The time stamp of a client that was dropped is kept; when the
   clock has come round, the client that returns looks as if it had never left, and is not
   counted in. WEB 41 says "0 = no client active, 1 = client actively polling /data endpoint".
4. `broker_subscribe`, MAIN 1339. The packet type is masked with `0xF0` and compared with `0x82`,
   so a SUBSCRIBE is skipped and nothing that is published reaches anybody. MAIN 41 says
   'CommTask publishes "online" every 2 s — keeps Flutter heartbeat alive'.

Disagreements between the code and its documents, met while modelling, that have no run of their own:

- `CONTROL_FLOW_DIAGRAM.md:325` says of `g_actuator` "All reads/writes guarded by xSemaphoreTake/Give", but a timed
  take that fails is followed by the access and the give (MAIN 2069, 1622); at 100 Hz the 5 ms of SensorTask are
  no tick at all. Actuator has these accesses, and its properties hold in spite of them or say what they cost.
- `HARDWARE_CONFIG_ANALYSIS.md:303` says "Door state only cleared after 50ms of stable LOW", but an edge that is pending
  when the door has just closed is handled by a branch that clears the door at once (MAIN 1718).
- `init_watchdog` asks for 30 s, but the task watchdog that `sdkconfig` starts keeps its 5 s: the second
  initialisation fails, which is only logged (Startup's `dog`).
- MAIN 1590 says that without the DS3231 the page shows "the clock is unavailable, not midnight"; that holds when its
  temperature cannot be read, but when only the read of the time fails (MAIN 1595, result not looked at) the time is
  midnight. Not modelled.
- CleanupTask is created without a look at the result (WEB 227): without it a client that stops asking
  stays counted.
- `gpio_install_isr_service` and the handlers are installed without a look at the result (MAIN 772-777): when the first fails, no door, motion or
  vibration is ever noticed and the start ends as if all were well. Startup lets it fail.
- The report of tasks has room for 14 (MAIN 298); with more of them `uxTaskGetSystemState` gives none.
- The log line of the watchdog takes `xBrokerMutex` with `xActuatorMutex` held (MAIN 2020). No task takes them the other way round,
  so this is an order to keep and no deadlock.

## 4. Proofs

| module | theorem | property |
|---|---|---|
| ActuatorProofs | `TypeCorrect` | `TypeOK` |
| | `MutexOwnership` | `ActuatorOwnsItsSections` |
| | `OutputsAgree` | `OutputsMatchPins` |
| | `SirenIsNeverLatched` | `BuzzerOnlyInPulse` |
| | `OverrideIsStamped` | `ManualHasDeadline` |
| | `Refines` | `Implements` |
| AlarmProofs | `TypeCorrect` | `TypeOK` |
| | `FiresAreReal` | `FireIsReal` |
| | `AlarmsAreShown` | `AlarmIsShown` |
| | `QueueHoldsAll` | `NoEventIsLost` |
| | `FiresAreAnswered` | `FireIsAnswered` |
| VibrationProofs | `TypeCorrect` | `TypeOK` |
| | `VibrationsAreAnswered` | `VibrationIsAnswered` |
| | `ReportsTellTheTruth` | `ReportsAreTrue` |
| SecurityProofs | `TypeCorrect` | `TypeOK` |
| | `DeadlineKept` | `OpenDoorHasDeadline` |
| | `OpeningsAreNoticed` | `OpeningIsNoticed` |
| | `ClosingsAreNoticed` | `ClosedDoorIsCleared` |
| BrokerProofs | `TypeCorrect` | `TypeOK` |
| | `SlotsHaveOneOwner` | `OneOwner` |
| | `NoSocketLeaks` | `SocketsAreOwned` |
| | `StreamsStayApart` | `StreamsAreApart` |
| | `ClientsAreCounted` | `CountIsExact` |
| WireProofs | `HandlersStayInStep` | `HandlerIsInStep` |
| StartupProofs | `TypeCorrect` | `TypeOK` |
| | `MissingIsUnused` | `NothingUsesTheMissing` |
| | `EarlyEdgesAreKept` | `EarlyEdgeIsKept` |
| | `TasksAreWatched` | `WatchedTasksAreWatched` |
| | `StartIsComplete` | the second and third part of `StartUpEnds` |
| DisplayProofs, of Presence | `TypeCorrect` | `TypeOK` |
| | `PollersAreCounted` | `PollingClientIsCounted` |
| | `SilentAreDropped` | `SilentClientIsDropped` |
| | `RotationHasClient` | `LiveHasClient` |
| DisplayProofs, of Display | `DisplayIsPresence` | `Spec` of Presence |
| | `GlassFollows` | `GlassIsCurrent` |
| | `TextsFit` | `TextsAreWhole` |

*Assumptions.* In Actuator a queue of at least one place and a set of known events. In Alarm positive sizes, and for
`FiresAreReal`, `AlarmsAreShown` and `FiresAreAnswered` a beat of at least three periods (five in the code; TLC finds `FireIsReal` violated with one and
with two). `QueueHoldsAll` and `FiresAreAnswered` assume `KeepsUp`: the rate is at least the alerts of a pass of SafetyTask, one event of each
sensor of SecurityTask and one more (5 of 5 in the code, whose rate it just meets), the queue has room for the rate, the alerts, all kinds of other events and one more (11 of 12), and beat and pause are two
periods at least. `FiresAreAnswered` assumes besides that the rate is at least two more than the kinds of other events (5 of 5). The rate of the
code is that of its worst case, in which the command queue is full for every post; with a slower EmergencyTask, or with one more source of events in the
same period, the bounds are gone: in the run, with a rate of 3, `FireIsAnswered` fails. In Vibration positive durations, a debounce and a time-out no longer than the window, and for
`ReportsTellTheTruth` a delay no longer than the time-out and a beat that, with its delay, is shorter than the window (1 s of 3 s in the code). In
Security positive durations, a period longer than the confirmation and than a delay. In
Broker some slots and descriptors, numbered, the slots finitely many. In Presence durations that
are shorter than the clock; the theorems after `TypeCorrect`, and `GlassFollows`, also assume that it does not wrap (`~Rollover`), and the run
`presence_rollover` shows that `PollingClientIsCounted` needs it. `RotationHasClient` and `GlassFollows` assume that the screens before the
rotation take less than the timeout together (`Boot + Ready + Banner < Timeout`, 7 s of 10 s in the code): where they take as long TLC finds `LiveHasClient` violated.

*ActuatorProofs.* `TypeInv` is `TypeOK` with one thing more, that a `BUZZER_ON` in the queue, in the
burst and in execution has a duration; lemma `DispatchType` shows it of every burst.
`ActuatorOwnsItsSections` is inductive with it: a take of the others needs a free mutex, a
give of theirs frees only their own. `OutputsMatchPins` is not inductive, as pins and
fields disagree between two writes: `PinsInv` says that before the second write the fields
*would* agree after it. For the siren, `BuzzerInv` ties the drive in progress to its
command and says where, with the siren on, ActuatorTask is: always on the way to the undo. For
the override, `DeadlineInv` says that, without a failed take, MonitoringTask holds the
mutex in its sections, hence the two writes of an update never meet those of another.
For `Refines`, `PulseInv` says that a pulse belongs to a command with a duration, and `SimulationStep` shows, action by action and with the
other invariants at hand, that a step of Actuator is a step of Executor under the mapping or leaves it alone.
A restart is the abstract `Reset`.

*AlarmProofs.* For `FireIsReal`, `RealInv` bounds the age of the fire behind each copy of a reading. `DataAge` is the bound for
the mailbox: a copy that MonitoringTask puts back is as old as its pass is long, and stays until SensorTask writes again. With a beat of three periods MonitoringTask
never copies what it has itself put back, so ages do not add up; with a shorter one they do.
For `AlarmIsShown`, `SeenInv` follows a fire through its first four periods: when a cooler reading can still be in the mailbox, and when in
the copy of MonitoringTask, which cannot bring it back after the third. `ShownInv` goes on from there: the state is an alarm or a warning
after the fourth, so that no door is to be a warning in the fifth and nothing covers the next alarm.
For `NoEventIsLost`, `QueueInv` bounds the queue by `Load`: what EmergencyTask still gets to in this period, what each source has
sent in it, and an event that can be left over. The rate covers a period in which either MonitoringTask or ScalabilityTask
speaks, not one in which both do; `Both` is the event left over from such a period, and it is gone when the next one can come, since both of
them have to wait two periods. While a fire waits to be raised nothing of SafetyTask is counted as sent (`Sent`), which gives the position of the
fire for `FireIsAnswered`: `HeardInv` says that a fire that has been raised in this period is answered already or has a place in
the queue of which everything before it is dispatched in the next. It builds on `SeenInv`, by which every peek finds the fire from the fourth period on.

*VibrationProofs.* `EdgeInv` says where an edge without an alert is kept, in the handler, the semaphore or ScalabilityTask about to raise
it, and counts the delays on its way. It needs `WindowInv`, while the task sleeps the last alert is as old as the sleep, so that the
check at its end finds no edge it would have to answer, and `SinceInv`, the debounce of the task is over when the window is: its branch
never drops an edge. For the report, `FlagInv` says that the flag is set from the alert to the end of the window and that its first report comes
within a beat; `UnshownInv` bounds how long an edge goes unreported by the place of the task; `CalmInv` bounds the age of the edge
behind a given semaphore, hence how long the flag outlives the last vibration.

*SecurityProofs.* The deadline needs three strengthenings: `Owned`, an alerted door has its open time;
`Punctual`, a pass is over `Late` after it was due; `Watched`, the open time is below
`Stuck` plus the time since it was last compared. Together with the types they are the inductive
invariant `Deadline`. For an opening, `Noticed` says that an edge that was taken is known or has its semaphore
still given, and `SeenSoon` that a given semaphore, or the last move of the door, is not older than the last look
at it. For a closing, `Cleared` bounds how long the door has been closed, first by the time since the last
look of the confirmation, then by the age of `door_stable_since` and the pass that started it.

*BrokerProofs.* `Held` says what the listener has in hand: before `Register` a descriptor no slot has, after it
the one of its slot, and both times a connection with no handler. `Owners` is `OneOwner` taken apart.
Neither these nor `SocketsAreOwned` and `StreamsAreApart` is inductive alone: that a handler's end closes no other's
socket takes that sockets are not shared, and that `accept` never reuses the descriptor of a slot in use takes that
every such descriptor is open (`ActiveOpen`). Together (`Sound`) they are, and the count follows with the
cardinality theorems.

*WireProofs.* Nothing in the handler says where in a packet it is; `StreamInv` says it for every place it can be at: `PlaceInv` gives, for each,
the types of packets it can be in, how many bytes have passed and what `to_read` then is, by the parts of the packet, and `LengthInv` says of the length that the digits
still to come, weighted, and the value so far make it up. `DigitsAmount` is the arithmetic behind it: four digits to any base amount to the number they
are of. `AfterTheString` and `AfterPayload` are the two points from which the branches of CONNECT and PUBLISH go on, for strings
and payloads that are longer than their arrays too.

*StartupProofs.* `app_main` runs a fixed sequence of calls, so the proofs rest on facts about the positions of calls in `Order`: `Calls` and
`Where` give them, and `Places` where the start goes on when the interrupts or the web server are left out. `StartInv` then says which objects exist by the place of
`app_main` (`ObjectsInv`: all of the kernel's before any handler, event or task, because `Asserted` is all of them), which tasks (`TasksInv`), when the
watchdog is on and whom it watches (`DogInv`), and what failed before a restart (`RestartInv`); the properties are read off from it.

*DisplayProofs, of Presence.* `Fresh` ties the history of the last request to the age of its time stamp and bounds the age of a
counted client by `Timeout` and what CleanupTask has slept and missed since. `Greeted` bounds the age of the last request by the screens shown
since, so that whoever the banner greets is still counted when it goes.

*DisplayProofs, of Display.* Every round of Display is one of OledTask in Presence, and everything else that happens leaves the glass alone: `DisplayIsPresence`,
by which the theorems about Presence are used here. `Current` says for each state of OledTask what a glass that got its last picture shows, and how
long ago the count can have changed without a round having seen it. For `TextsAreWhole`, `MiddleFits` and `ColumnFits` say when a text fits, by its position and
greatest length; `ScreensAreWhole` goes through the screens, and through the pairs of texts that share a row (`Apart`).

*Only model-checked.* The liveness properties (`QueueDrains`, `DispatchEnds`, `OverrideEnds`, `SlotComesBack`, `EarlyEdgeIsTaken` and the first part of
`StartUpEnds`): reasoning about fairness and ENABLED is out of the prover's reach. Every invariant that a passing run checks is proved. The runs that expect
a violation have none to prove.

## 5. Not modelled

- Reports (CommTask, PerformanceTask, the JSON of the web server): they format values read
  elsewhere. That they publish is in Broker.
- Hooks of the scheduler, the registers of the DS3231 and the scaling of the ADC: calls and conversions in
  sequence, with no control that depends on other tasks.
- The encoder of MQTT and `topic_matches`: they serve SUBSCRIBE and its subscribers, which the code cannot reach
  (`broker_subscribe`).
- The dashboard's poll loop: a page with one thread and one timer, and not part of the firmware; what the firmware sees of it are
  its requests, which Presence takes at any time. Its one hazard, a second loop after a disconnect, is listed.
- The expiry of the task watchdog.
- A held button: MonitoringTask polls levels, and the model lets any poll find any button
  pressed. The semaphores and flags the button interrupts set are never consumed.
- `EVENT_TYPE_SYSTEM_OK` has a case in EmergencyTask and no sender.

## 6. What could follow

1. The safety part of `OverrideEnds` and of `SlotComesBack`: from which states the override, or the slot, can still come back.
2. `KeepsUp` in terms of time: that the dispatch of an event ends within 40 ms is a fact about Actuator, and could be taken from
   there instead of a rate.
3. `Dashboard`: the fetch and timer chain of `connectWS`, `_doPoll`, `disconnectWS`. Property: one poll loop
   at most, none after a disconnect.
4. The composition of Security and Vibration with Alarm, in place of its abstract sources.
5. When the SUBSCRIBE branch of the broker can be reached: `topic_matches` and the encoder as functions, checked against the
   definitions of MQTT, and `pkt_id` modulo 2^16.
