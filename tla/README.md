# Clock 2 in TLA+

Clock 2 (`src/`) is an ESP32-S3 appliance that joins the UTC labels of a GNSS
receiver to its 1 PPS edges, keeps a UTC timebase and serves it over NTP.  This
directory holds TLA+ models of its firmware (`src/main/`) and of the W5500
Ethernet driver it ships with (`src/managed_components/`), the TLC
configurations that check them on small instances, and theorems that TLAPS
proves for every value of the constants.

Contents: the system and its parts, the modules, the runs, the proofs, the
findings, what is left out, and the plan.

## The system

### Who runs

The firmware runs under FreeRTOS on two cores, so two tasks interleave between
any two critical sections, not just at blocking calls.

| actor | code | touches |
|---|---|---|
| PPS interrupt | `pps.c` `pps_isr_handler` | PPS count and stamp, under `pps_lock` |
| UART driver's interrupt | ESP-IDF (external) | driver FIFO, ring buffer, event queue |
| main task | `main.c` loop: `timebase_poll`, `gps_uart_poll`, two log functions | everything of the timebase, the NMEA assembler |
| lwIP thread | `ntp_server.c` `ntp_receive_callback` | reads the timebase, writes the NTP counters |
| httpd task | `web_server.c` handlers, one at a time | reads all snapshots, writes the configuration |
| esp_timer task | `restart_timer_callback` | restarts the device |
| event-loop task | `ethernet.c` handlers | network state |
| oled-ui task | `oled_ui.c` | reads all snapshots, drives the display |
| `w5500_tsk` | `wiznet_mac_common.c` `emac_wiznet_task` | takes frames from the chip's ring, gives them to lwIP |
| ESP-IDF's Ethernet timer | `phy_wiznet_get_link`, every 2 s | link state; opens and closes the socket |
| capture interrupt | `pps_diagnostics.c` (optional) | capture ring of the path diagnostics |

The chip is shared by three of them: lwIP transmits, `w5500_tsk` receives, the
timer callback stops and starts; the SPI lock is held for one access at a time.

The main task is the only writer of the timebase.  Each shared structure has a
spin lock, each is copied out whole, and no operation holds two locks: what one
task reads of two structures, or of a structure and the timer, belongs to two
moments.

### Components

| component | state | operations | hard behaviour | what makes it correct |
|---|---|---|---|---|
| PPS capture (`pps.c`) | count (`uint32_t`), stamp | ISR; `pps_get_snapshot`; status and log | ISR delayed, edges missed, count wraps | a snapshot is one edge's count and stamp |
| UTC timebase (`timebase.c`) | validity, anchor second, anchor count and stamp, source, last update, last ZDA | `timebase_process_sentence`, `timebase_poll`, `timebase_get_snapshot` | labels late, corrupt, missing; edges missed; readers overtaken | never ahead of UTC, never backwards while valid, losses detected |
| GPS UART (`gps_uart.c`) | event queue, ring buffer, the poll's locals | `gps_uart_poll` | dropped events, overflow, flush and reset not atomic, unbounded read | a poll returns; arrival estimates are sound |
| NMEA assembly and status (`nmea_timing.c`) | line buffer and flags, GNSS status, delay statistics | byte and line processing, snapshot | CR, LF, both or neither; overlong and damaged lines; bytes lost in the middle | exactly the sent lines are handed on |
| NTP server (`ntp_server.c`) | counters, the response pbuf | receive callback | two snapshots per request straddle edges and losses | timestamps not ahead and in order, no leak, counted once |
| NTP time (`ntp_time.c`) | none | 32.32 conversion | era and fraction limits | exact, monotonic |
| configuration (`app_config.c`) | active and configured name, restart pending; NVS | init, save, snapshot | failed writes, power loss between steps | what is acknowledged survives |
| hostname validation (`hostname_validation.c`) | none | normalize | length and hyphen edges | accepts exactly the documented names |
| web server (`web_server.c`) | restart timer | pages, status, health, settings, restart | several snapshots per answer; restart against saves | an answer describes states the device was in |
| Ethernet (`ethernet.c`) | running, link, address | event handlers, start | event order | an address only with a link |
| OLED UI and display (`oled_ui*.c`, `oled_display.c`) | page, brightness, overlay, timers, debounce; availability | 20 ms loop, keys | overlay against brightness and power, display failure | never dark unless switched off, stops cleanly |
| start-up (`main.c`) | which services are up | the calls of `app_main`, reboots | services answer before the start is over; tolerated failures | the start completes; what is served is what is up |
| W5500 driver (`espressif__wiznet_common`, `espressif__w5500`) | ring pointers of both directions, `packets_remain`, `sock_started`, `link_status`, multicast count | RX task, transmit, start, stop, drain, flush, filters | two or three tasks on one chip; every access may fail; link flaps | frames pass undamaged, once, in order; no frame is slept over; a link that is up is served |
| PPS diagnostics (`pps_diagnostics.c`) | both edges, unwrapped capture counter, comparison statistics | record edge, capture callback, log | two interrupts in either order; the counter wraps | only edges of one pulse are compared |
| NTP path diagnostics (`ntp_path_diagnostics.c`) | last samples of requests and replies, sequence numbers | SPI read and write wrappers, capture of RX and TX | order is the only link between a sample and its request | a request is given its own sample |
| mDNS, web assets | - | start-up sequence, text | - | mDNS is a step of the start; assets are not modelled |

Interactions: interrupt -> `pps_get_snapshot` <- main task and readers; UART
driver -> queue -> main task -> NMEA assembler -> `timebase_process_sentence`;
NTP, web and OLED <- `timebase_get_snapshot`; web -> configuration -> NVS ->
restart.  Boot order (`main.c` 21-35): configuration, display, UART, PPS,
Ethernet, mDNS, NTP, web, OLED task; the loop starts last, so the UART queue
fills while the network is being started.

## The modules

| module | models | built on |
|---|---|---|
| `Timebase` | PPS interrupt, main loop's timebase part, readers | - |
| `UtcSource` | what a timebase promises its readers (abstract) | implemented by `Timebase` |
| `NtpServer` | one NTP request at a time in the lwIP thread | `Timebase` |
| `GpsUart` | `gps_uart_poll` against the UART driver | - |
| `NmeaLine` | line assembly | - |
| `NmeaFields` | number, coordinate, time and field parsers | - |
| `GpsStatus` | fix, position and delay statistics while lines are processed, and their snapshot | - |
| `Pps` | pin interrupt with both locks, interval statistics, hardware capture and its comparison | - |
| `Calendar` | `timebase_utc_to_unix`, `unix_to_utc`, RMC and ZDA dates | - |
| `NtpTime` | 32.32 conversion with its widths | - |
| `SettingsRequest` | receiving and parsing the body of a settings request | - |
| `AppConfig` | hostname in RAM and flash, settings handlers, restart | - |
| `Hostname` | `app_hostname_normalize` | - |
| `Ethernet` | the two network event handlers and the event queue | - |
| `Boot` | `app_main`, NTP callback and health page meanwhile, reboots | `Ethernet` |
| `OledUi` | the front panel task and the display's state | - |
| `WiznetSpi` | how an SPI access and a chip command can end | - |
| `WiznetRx` | RX task, link poll, start and stop, against the chip's ring | `WiznetSpi` |
| `WiznetTx` | transmit, start and stop, against the chip's sending | `WiznetSpi` |
| `W5500Filter` | multicast groups, their count and the block bit | `WiznetSpi` |
| `NtpPath` | attribution of samples by the NTP path diagnostics | - |
| `MCReceiver` | walks through `GpsUart`, `NmeaLine`, `NmeaFields`, `Calendar`, `NtpTime`, `Pps`, `GpsStatus` | these |
| `MCPanel` | walks through `OledUi`, `AppConfig`, `SettingsRequest`, `Hostname` | these |
| `MCWiznet` | walks through `WiznetRx`, `WiznetTx`, `W5500Filter`, `NtpPath` | these |
| other `MC...` | values of constants for TLC | their module |
| `TimebaseProofs` | theorems | `Timebase`, `Calendar` |
| `NtpProofs`, `NtpPathProofs` | theorems | `NtpServer`, `NtpPath` |
| `BootProofs` | theorems | `Ethernet`, `Boot` |
| `PanelProofs` | theorems | `AppConfig`, `Hostname`, `OledUi` |
| `FieldProofs` | theorems; lemmas on limits, quotients and induction | `NmeaFields` |
| `ReceiverProofs` | theorems | `GpsStatus`, `GpsUart`, `NtpTime`, `NmeaLine`, `Pps`, `FieldProofs` |
| `WiznetProofs` | theorems | `W5500Filter`, `WiznetRx`, `WiznetTx` |

Each is one step per operation, cut wherever another task can come between: at
every lock, every read of the timer, every library call that can fail.

**Timebase.**  `PpsIsr` is `pps_isr_handler` with the falling-edge and
diagnostic parts compiled out; the stamp may lie up to `IsrLatency` after the
edge, and `PpsMissed` is an edge whose interrupt never ran.  The main task goes
round `PollReadPps`, `PollReadNow`, `PollCheck` (`timebase_poll`), then
`UartQuiet`, `UartData` or `UartFlush` (`gps_uart_poll`, whose detail is in
`GpsUart`), then for each complete line `AssociateReadPps`, `AssociateReadNow`,
`AssociateCommit` (`timebase_process_sentence`).  It may stall for any time
between two steps.  A reader is `ReadPps`, `ReadNow`, `CopyState`
(`timebase_get_snapshot`).  A sentence carries a label and the tick at which it
is sent; a line that fails its checksum, its parse or its RMC status is
"corrupt", and a label may be wrong by the set `LabelErrors`.  The count is
kept unwrapped and `PpsDelta` takes differences modulo `CountMod`, which is the
number that unsigned subtraction yields.  GGA and unselected lines do not touch
the timebase and are left out, as are the accepted and rejected counters, which
nothing reads back.  Spurious extra edges are not modelled.  `edge`, `healthy`
and `lastServed` are history: no guard reads them.

**UtcSource.**  An offset that is added to the count of PPS edges: acquired,
corrected by one upwards, lost; every second served is the offset plus the
count of an edge that was captured, and is never earlier than one served before
in the same period.

**NtpServer.**  `Arrive` ... `Send` follow `ntp_receive_callback`; the snapshot
in the middle is the `Timebase` reader's three steps, and the request asks
twice, as the code does: before the receive timestamp and after the response
was allocated.  Its local failures (wrong length, allocation, a copy or a send
that fails) end the request at the statement where the code returns; the check
of the response's length cannot fail and is folded into the failure of `Send`.

**GpsUart.**  The driver is external: bytes go to a FIFO and a ring buffer,
events to a queue that drops them when it is full, and a ring buffer that is
full drops what does not fit.  `Dequeue` takes the event and the time;
`Read`, `ReadFails` are the chunked loop; `FlushInput` and `ResetQueue` are the
two calls between which the driver goes on.  A byte is its arrival time.  `own`
is history: the bytes an event was posted for.

**NmeaLine.**  `process_byte` by byte classes; a byte is its position on the
wire.  `wire` and `handed` are history.  The reference says which positions end a line,
which bytes are of it and when it arrived, as sets of positions and without an order
of computing them.  The arrival arithmetic is in `GpsUart`,
what a line means in `Timebase` and `Calendar`.

**NmeaFields.**  `get_field`, `copy_field` and the digit, decimal, coordinate and
time parsers, as operators on texts of ASCII codes: a parser returns the set of
its result, empty if it refuses.  Scales and limits are constants, smaller in the
run.  `text` grows one character at a time through all texts of some alphabets.

**GpsStatus.**  `TakeLine` is `process_line` with a selected line whose arrival was
estimated; `Touch` and `Store` are the two critical sections of `update_gps_status`,
`ReadPulse` and `RecordDelay` the rest.  A reader is `CopyStatus` and `ReadClock`.  Of a
line only what decides is kept (its type, whether it is intact and can be read, fix and
position); numbers are the line they come from, so that two lines can be told apart.
`pulses`, `told`, `exact` are history.

**Pps.**  `EnterHandler`, `StoreEdge`, `RecordEdge` are `pps_isr_handler` cut at
its two locks; `CaptureCallback` is the capture's own interrupt; `CopyEdges` and
`CompareCapture` are the two critical sections of `pps_diagnostics_log_latest`.
The handler runs up to `Latency` late, reads the pin's level after its time stamp,
and an edge while the interrupt is pending raises no second one.  Without the
capture it is the plain build.  The calibration of the counter is exact here; in
the code it has the uncertainty of the timer reads around it.  `pps.first`,
`captured`, `wrapped`, `late` are history.

**WiznetRx, WiznetTx.**  The ring is counted in units, a frame's header being one.
`TakeNotification`, `ReadStatus`, `ClearStatus`, then `ReadSize` ... `Release` for
each frame, `DrainPointer` and `DrainRelease` when its header is nonsense, `Test`
for `while (packets_remain)`; `CheckLink` ... `Close` are the link poll with
`emac_wiznet_start` and `emac_wiznet_stop`.  On the other side `Transmit` ...
`ReturnOk` are `emac_wiznet_transmit`, `FinishSend` is the chip, and the timer task
comes between.  Every SPI access may fail; a command may fail before or after it
took effect.  Reads of one register that feed the next access are one step with it.
The chip is external, and modelled as the driver uses it: RECV releases up to
`Sn_RX_RD`, each SEND sends what was written since the one before, CLOSE gives up
what is not sent.

**W5500Filter.**  lwIP joins and leaves groups and ignores the result; the driver
counts them in eight bits and blocks multicast at zero.

**NtpPath.**  `ReadRequest` and `WriteReply` are what the SPI wrapper recognises,
`Callback`, `SendReply`, `Return` are the lwIP thread in `ntp_receive_callback`,
`NoticeSendOk` and `PollSendOk` the two places that read SEND_OK.  Requests may be
lost in the mailbox and replies wait for an ARP answer.  Which bytes make a request
is not modelled.

**Calendar, NtpTime, Hostname** check pure code: the state only walks through
the inputs, and the references are written differently from the code (days
counted one by one; time added to time; the README's words about a hostname).

**AppConfig.**  `nvs_set_str` and `nvs_commit` can each fail, the power can go
between any two steps, and a value that was set and not committed may or may
not be in flash afterwards.  Requests that do not validate change nothing and
are left out.  `acknowledged` is history.

**SettingsRequest.**  `CheckLength`, `ReceivePiece` and `ParseBody` are the first half
of `settings_hostname_handler`: pieces of any size, a connection that fails between
them, and `parse_hostname_request` as operators on a cursor.  A body is a sequence of
character classes; `Edit` makes the client write a body up to two changes from a good
one.  The header test is left out: another content type is refused before anything.

**Ethernet.**  The driver and the DHCP client post, the event-loop task
handles, in order and later.  The driver's own handlers, which start and stop
the DHCP client, run for the same event and are part of the same step.  Nothing
calls `esp_eth_stop`, so `ETHERNET_EVENT_STOP` is never posted, and no handler
is registered for the loss of an address (`Expire` tells nobody).

**Boot.**  A step per call of `app_main`; `ntp_server_start` is two, because the
callback is live before the flag is set.  `ESP_ERROR_CHECK` and the restart
timer reboot.  What the timebase says is a free choice that only the loop makes;
`Timebase` says when it may be what.  A step of the health handler is one
snapshot.

**OledUi.**  `SampleKey0` ... `Delay` follow the loop of `oled_ui_task`; deadlines
are kept relative to the current poll, so time needs no bound.  The task may
fall `MaxStall` polls behind and then polls without delay.  Every display call
can fail.  Text and layout are left out: a frame is what it is of.

## What the runs check

`expect` is *pass* unless the table says *violation*.

| run | bounds | what it shows |
|---|---|---|
| `timebase_anchor` | 3 ticks per second, 9 ticks, every kind of sentence, labels late or corrupt, no reader, fair main task | the anchor never goes back, across losses; silence of PPS or labels is detected |
| `timebase_readers` | 8 ticks, one reader, correct labels | nothing served is ahead of UTC; `Timebase` implements `UtcSource` |
| `timebase_refusal` *violation* | | a healthy timebase refuses a reader (finding 1) |
| `timebase_late_label` *violation* | | an anchor one second behind (finding 2) |
| `ntp_reply` | 4 ticks per second, 9 ticks, ISR one tick late, one request | no timestamp is ahead of UTC; transmit not before receive unless an edge was missed in between; the request is counted once and no pbuf leaks |
| `uart_stale` *violation* | | events read older bytes than their own (finding 3) |
| `receiver` | UART: FIFO 3, ring 4, queue 2, chunk 2, 7 ticks, failing reads, fair main task; lines: streams of 6 bytes, lines of 2; calendar: 1970-2110 and the ends of eras; NTP time: 5 ticks per second, eras of 8 seconds; fields: texts of six alphabets, 4 to 9 characters; PPS: 13 ticks, three pulses, interrupts two ticks late, a counter of 8; status: two lines, two pulses, 4 ticks | no event promises missing bytes, estimates lie between a byte's arrival and the dequeuing of its event, every poll that takes an event returns; exactly the lines of the stream, at most one splice per gap; dates and days agree both ways; timestamps advance with the timer; positions, labels and fields read as written; widths, capture differences and intervals are of the pulses they claim; a fix and all that is shown with it are of one line, and delays from the pulse before it |
| `panel` | panel: 2 pages, short intervals, two polls behind; settings: three names; requests: bodies within two changes of a good one; names: up to 5 characters where 3 fit | panel, contrast and content follow the keys, it goes dark, a page is held after a key; RAM and flash agree unless a failed write was left behind; a request is read as it was written, whatever its pieces; names are accepted exactly as documented, and again at the next boot |
| `config_lost` *violation* | | an acknowledged name is gone after a restart (finding 4) |
| `boot` | two addresses, three waiting events, two reboots | link and address are shown right when no event waits; health page truthful; the start completes |
| `w5500` | receive: ring of 4, three frames, one failure, two link changes; transmit: ring of 4, five frames, one failure, three link changes; filter: three groups; path: four requests, a history of two | frames are received and sent undamaged, once and in order; without failures none is lost; no frame is slept over; a link that stays up is received from; ESP_OK means sent; joined groups are heard; a callback takes its own sample |
| `w5500_send` *violation* | two frames, no failure | a SEND is issued before the last one completed (finding 5) |

Why these bounds are enough.  The timebase's constants are scaled, keeping their
order: the association window lies inside a second, the PPS timeout is between
one and two seconds, the GNSS timeout and the ZDA preference are of a few
seconds, and a count of eight values is enough for a difference of counts to wrap.  Eight to ten
ticks hold an acquisition, a missed edge, a loss and a second acquisition.  One
reader stands for all, because readers change nothing that any other task reads
(and the theorem is for any number).  `GpsUart` needs a FIFO that holds more
than one event's bytes, a ring shorter than what two events announce and a
queue of two so that the third event is dropped.  `NmeaLine` needs a line that
overflows, two terminators and a gap: six bytes hold all three.  `NmeaFields` needs
every branch of a parser and results on both sides of each limit; its alphabets
reach the 60th minute, the pole, the antimeridian and the largest number.
`GpsStatus` needs a line that replaces another's fix, a reader between its two critical
sections, and a pulse between the arrival of a line and its processing.
`SettingsRequest` needs room for one character more than the name has, and for one less
than two edits can add.  `Pps`
needs a pulse that is served late, one that is missed and a counter that goes round
between two others.  `Ethernet` needs a link that goes down while an address is
under way, and comes up again: three events.  Two reboots are one more than any of
`Boot`'s properties can tell apart.  One NTP request is enough: the callback's locals
are new in each, and its counters are read by no guard.  `WiznetRx` needs a ring that
is full with two frames and wraps inside one, and a failure at each step in turn: one
failure per behaviour is allowed because the exceptions of its properties are named by
the state that one failure leaves behind.  `WiznetTx` needs a second frame behind one
that was given up, and a third in front of it: five frames.  `NtpPath` needs one more
request than its history holds, and one lost.

The modules `MCReceiver`, `MCPanel` and `MCWiznet` put components into one run that
share no state: a behaviour picks one and the others stay in a single initial state,
so that state spaces add up and are not multiplied.

`CHECK_DEADLOCK FALSE` stands where the model ends: at `MaxNow`, at `LastTick`, at the
last frame or at the end of the inputs.

### Fairness

- `Timebase`: `WF(MainStep)`; `GpsUart`: `WF(Works)`.  The main task has no
  lower-priority peer to wait for, waits at most 100 ms for an event
  (`gps_uart.c`) and takes locks that are held for a few instructions.  `Works`
  leaves out `ReadFails`: that a read fails is possible at any time and never
  promised, so a read that waits for bytes which are not there would count as
  stuck.
- `OledUi`: `WF(TaskStep)`.  The task has the lowest priority, but every other
  one blocks most of the time.
- `Boot`: `WF(AppMain)` and `WF(EventLoop)`: each call of `app_main` returns, and
  the event-loop task is scheduled.  Failures and restarts are bounded by
  `MaxReboots`: a device whose NVS fails at every start never gets anywhere.

- `WiznetRx`: `WF(RxTask)` and `WF(TimerTask)`: the driver's RX task is woken by its
  notification and its loop has no endless wait, and ESP-IDF's Ethernet timer polls the
  link for as long as the driver is started, which nothing ends.

In the walking modules each condition carries the guard `walk = ...`, which never
changes: it is the fairness of the component in the behaviours that picked it.

No fairness is assumed of the receiver, the interrupt, clients, the network or
the user.

## What is proved

Eight modules hold the proofs; the theorems listed in `PROJECT.json`:

| theorem | statement |
|---|---|
| `TimebaseProofs!TypeCorrect` | `Spec => []TypeOK` |
| `TimebaseProofs!NeverAheadOfUtc` | `HonestReceiver => (Spec => []NeverAhead)` |
| `TimebaseProofs!AnchorNeverBack` | `Spec => AnchorMonotone` |
| `TimebaseProofs!CalendarAlwaysExact` | `CalendarSpec => []CalendarExact`: the calendar of every day from 1970 to 9999 |
| `TimebaseProofs!TimebaseImplementsSource` | `HonestReceiver /\ Lifetime => (Spec => ImplementsSource)`: `Timebase` implements `UtcSource` |
| `NtpProofs!NtpImplementsTimebase` | `NtpSpec => Spec` |
| `NtpProofs!ReplyNeverAheadOfUtc` | `HonestReceiver => (NtpSpec => []ReplyNeverAhead)` |
| `NtpProofs!RequestsAlwaysSettled` | `NtpSpec => []RequestSettled`: each request is counted once and holds nothing at its end |
| `NtpProofs!RepliesAlwaysOrdered` | `HonestReceiver /\ Lifetime => (NtpSpec => []ReplyOrdered)` |
| `PanelProofs!ConfiguredAlwaysStored` | `ConfigSpec => []ConfiguredIsStored`: the configured name is what the next boot loads |
| `PanelProofs!PendingAlwaysExact` | `ConfigSpec => []PendingExact`: a restart is pending exactly when it changes the name |
| `PanelProofs!NamesAlwaysKept` | `HostnameSpec => []NamesKept` |
| `PanelProofs!RequestAlwaysRead` | `RequestSpec => []RequestRead`: the parser takes exactly the documented object |
| `PanelProofs!PanelAlwaysFollows`, `PanelShowsCurrent` | `UiSpec => []PanelFollows`, `[]ShowsCurrent` |
| `PanelProofs!PageAlwaysHeld` | `UiSpec => PageHeldAfterKey` |
| `BootProofs!LinkIsSettled`, `AddressIsShown` | `EthSpec => []LinkSettled`, `[]AddressShown` |
| `BootProofs!HealthIsTruthful` | `BootSpec => []HealthTruthful` |
| `ReceiverProofs!UnwrappedAlways` | `PpsSpec => []Unwrapped`: the unwrapped counter is the time of the capture |
| `ReceiverProofs!IntervalsAlwaysAddUp` | `PpsSpec => []IntervalsAddUp` |
| `ReceiverProofs!WidthAlwaysOfOnePulse` | `PpsSpec => []WidthOfOnePulse`: a width shown is that of one pulse |
| `ReceiverProofs!DeltasAlwaysOfOnePulse` | `PpsSpec => []DeltasOfOnePulse`: interrupt and capture are compared for the same pulse |
| `WiznetProofs!JoinedAlwaysHeard` | `FewGroups => (FilterSpec => []JoinedHeard)` |
| `WiznetProofs!WireAlwaysIntact` | `TxSpec => []WireIntact`: frames leave as they were passed, once and in order |
| `WiznetProofs!OkAlwaysMeansSent` | `TxSpec => []OkMeansSent`: ESP_OK only after the frame was sent |
| `WiznetProofs!FramesAlwaysInOrder` | `RxSpec => []InOrder`: frames reach the stack undamaged, once and in order |
| `WiznetProofs!NothingEverLost` | `RxSpec => []NothingLost`: none is left behind by a task at rest |
| `NtpPathProofs!SamplesAlwaysOwn` | `PathSpec => []OwnSamples`: a sample is that of its own request or reply |
| `ReceiverProofs!FixesOfOneLine`, `DelaysFromPulses` | `StatusSpec => []FixOfOneLine`, `[]DelaysFromPulse` |
| `ReceiverProofs!EventsAlwaysBacked` | `UartSpec => []EventsBacked`: the bytes that waiting events announce are in the ring |
| `ReceiverProofs!EstimateAlwaysBounded` | `UartSpec => EstimateBounded` |
| `ReceiverProofs!TimeAlwaysAdvances` | `NtpTimeSpec => Advances` |
| `FieldProofs!FieldsAlwaysRead` | `FieldSpec => []FieldsRead`: numbers, coordinates, times and fields are read as written |
| `ReceiverProofs!LinesAlwaysExact` | `LineSpec => []LinesExact`: exactly the lines of the stream, once, whole and in order |

They hold for every value of the constants within the named assumptions:

- `WindowAssumption`: the association window plus the interrupt's latency ends
  within the second.  Otherwise a label could be associated with the edge of an
  earlier second.  The code has 950 ms.
- `CountAssumption`: half the range of the count outlasts the PPS timeout, so
  that a stale difference is seen as negative and not as a large step forward.
- `HonestReceiver` (a hypothesis of four theorems): the receiver names no second
  before it begins.  A receiver that runs ahead takes the timebase with it.
- `Lifetime` (a hypothesis of two): fewer edges are counted than the count has
  values, so that the difference of a count and an earlier one is exact.  The code's
  32 bits last 136 years of uptime.  Without it, an anchor from one turn ago could be
  taken for one of this turn.
- `PpsAssumption`: pulses are longer than nothing and further apart than a pulse
  and the interrupt's latency; the match window is shorter than what remains.
- `FewGroups` (a hypothesis): there are fewer groups than the 8-bit count of the
  multicast filter tells apart.  With 256 the count would wrap to zero.
- `WiznetRxAssumption`, `WiznetTxAssumption`: a pointer wraps at a multiple of the size
  of the ring, and past it, and a frame fits in the ring.  The W5500 has 16 bits and
  the driver gives socket 0 all 16 KB; were the multiple not exact, the unit that a pointer names would
  jump as it wraps.  A frame on the receive side is at least its two units of header.
- `WidthAssumption`: a tick of the timer is no finer than the fraction of a time stamp,
  and a snapshot is much younger than an era.  Microseconds against 2^-32 s, and
  seconds against 136 years.
- `ScaleAssumption`: the scales of a decimal number and of minutes are powers of ten, and
  the least result is no multiple of `FixedScale`.  The code has 1000, 1000000 and -2^31.
  Were the least result a multiple, `parse_fixed_milli` would refuse it, because it
  compares the whole part with the greatest one.
- `RangeAssumption`: the calendar is counted in the years that the code takes, 1970 to
  9999.
- The others (`SizeAssumption`, `LineAssumption`, `PathAssumption`,
  `PeriodAssumption`, `StatusAssumption`, `LengthAssumption`, `RoomAssumption`) only say
  that sizes and periods are positive and that the GGA sentence is one of the types.  The bounds that stop the counters
  for TLC are constants like these: the theorems hold for each value of theirs.

*NeverAhead* is not inductive.  `IInv` adds what each task holds: every
snapshot is a past value of the PPS state and any two are ordered (`SnapshotInv`:
between two of them at least as many UTC seconds passed as edges were counted),
the clock lies in the second that runs (`ClockInv`), sentences in flight name
seconds that have begun (`LinesInv`), and a label inside the window names the
snapshot's second or an earlier one (`AssociationInv`).  From these a commit puts
the anchor at a second that had begun with its edge, and a reader that combines
an old PPS snapshot with a newer anchor gets a negative difference and is
refused.  For `UtcSource` two more facts are needed (`ServedInv`): a timebase that
is not valid has served nothing, and what a reader was served last is at most the
offset plus the count it holds, or will read next.  What it is served next is exactly
that sum, so it cannot be earlier; and while the timebase is valid a commit moves the
offset by nothing or by one second, because the label it accepts is the projected
second or the next one.  The proof of `NtpProofs` carries `IInv` over by the implementation and
adds where a timestamp may lie (`ReplyInv`), that the second snapshot of a request
is at least the first one's second plus the edges captured in between, if it was not
lost (`OrderInv`), and, for the counters, that a buffer is held exactly between
allocation and the end (`SettledInv`).  `AppConfig` adds what is staged and stored while
a save is under way (`SaveInv`).  `Ethernet` adds what waits: the last event of
each kind tells of the present state (`LinkInv`, `AddressInv`).  `Boot` adds that
what is started follows from where `app_main` is and that what a service has read
stays true (`OrderInv`, `ServiceInv`; `ServiceInv` also says that no reply is sent
by a server that is not shown as running).  `Pps` adds that the
counter handed on is the time of the last capture modulo its width, and that the
limits enclose every interval, from which the bounds of the sum follow by one
multiplication per step.  `W5500Filter` adds that the count is the number of groups
joined, as long as no join was refused.  `GpsStatus` adds that a line whose pulse was
copied has no other pulse between that one and itself (`PulseInv`), and that gps_state
tells of a line in the history, of the present one after the second critical section
(`TellInv`).

Each of the following adds, in the same way, what its property does not say.

- *Both rings of the W5500.*  The pointers of the chip wrap at 2^16 and address a smaller
  memory, so an order of frames cannot be stated of them.  The invariants say that
  positions exist that do not wrap: `at[i - 1]` to `at[i]` is the i-th frame in the
  ring, `id[i]` its number, positions and numbers increase, all of it is no longer than
  the ring, and the units of these positions hold the pieces of the frames.  Four lemmas
  connect them to the pointers: a sum of wrapped pointers is the wrapped sum (`Wraps`),
  the wrapped difference of two of them is the distance of the positions, when that is
  less than a turn (`DistanceIs`), and the units behind the last frame, or before the
  first, are not those of a frame in the ring (`UnitBehind`, `UnitBefore`).
- *`WiznetTx`.*  `RingInv`: unless a SEND failed to reach the chip, such positions exist
  for the SEND commands the chip has not finished, with the frame being written behind
  them.  A call that gives up leaves its SEND in flight, so there may be any number of
  them.  `ClaimInv` is for `OkMeansSent`: while every SEND was claimed, none is in flight
  when a call begins, and the bit that a call polls belongs to its own.
- *`WiznetRx`.*  `RxInv`: as long as the RX task has begun each frame where the chip was
  told it is, and the timer task has not drained the ring meanwhile (not `torn`),
  positions exist for the frames in the ring (`Layout`); a call that takes a frame
  stands at the first of them, and RX_RD is the pointer of the first or, until the RECV
  is issued, of the next (`Place`).  Without a failure or a link loss they are
  exactly the frames that were not delivered, and the task waits only when there is none
  or the RECV bit is set (`Calm`).
- *`NtpPath`.*  `RequestInv`: until one is overwritten, the frame history holds every
  sample that no callback took, and the requests in the mailbox are at least as late as
  the samples that wait for them, and exactly theirs if no request was lost.
  `ReplyInv`: every sample that began after the call in hand was entered is the sample
  of that call, so that the one found by its start is its own.
- *`GpsUart`.*  `BackedInv`: what the event in hand still has to read, and after it what
  the waiting events announce, is at most what the ring holds (`Fills` gives the running
  totals).  The events of a queue arrive at its end and leave at its head, so each step
  moves the totals by one size; no total over the whole queue has to be computed, and
  `EventsBacked` is stated with the same totals.  A reset of the ring before that of the
  queue is the one moment it does not hold.  `AgeInv`: the bytes in the ring are no younger
  than the event they belong to.
- *`Calendar`.*  The run counts through the years where something happens; the
  theorem is for every day of all years the code takes.  A date is `Before` of its year from
  March plus the day of that year; both formulas of the code, by eras and by months, are
  shown to be that (`DaysAre`, with a table of the months), a day later is one more
  (`DayCounted`), and the way back finds year, month and day again (`YearFound`,
  `MonthFound`).  The calendar on the wall counts leap years as a set: its cardinality is
  that of the multiples of 4, less those of 100, with those of 400 (`LeapYearsCounted`).
- *`NmeaLine`.*  `StreamInv`: after a CR the buffer waits, and holds the line that the CR
  ends, the only one not decided yet; otherwise it holds exactly what was
  received of the line that has not ended, or the discard flag is set and that is too
  long or no text, so that no end now makes it a line.  So a
  terminator hands on a line exactly where the reference sees one, and a bare CR with
  the time it came itself.  That a loss spoils at most one line is an injection: a line
  with bytes missing has a gap between two of its bytes, and no gap lies within two lines.
- *`Pps`.*  `WidthInv`: while no rising edge was served with the pin low, the last one is
  recorded within the handler's latency, or is in the handler's hands, or still due, and
  a falling edge that is recorded is of an earlier pulse or no later than its width and
  the latency.  `DeltaInv`: every stamp of a rising edge, recorded or copied by the
  logger, is within the latency of a pulse, and each capture at hand is of that pulse
  or at least `MinGap` from it, which is more than the match window takes for a pair.
- *`OledUi`.*  `UiInv`: between any two steps of a poll the panel is lit exactly when
  the user interface says so (`PanelInv`); an image that is not the one of the
  state is due to be drawn in this poll or the panel is dark (`ShownInv`); the
  rotation clock has not run longer than the time since the last key (`HeldInv`).
- *`NtpTime`.*  The snapshot is the edge of its second (`SnapshotInv`), so the time
  stamp is that of the timer whichever edge the snapshot is of.  A tick then moves the
  fraction, or carries into the second, or ends the era; in each case what the fraction's
  rounding loses is less than its unit.
- *`Hostname`.*  Normalisation keeps length, and each character is kept or lower-cased,
  so its result is accepted and left alone when it is normalised again.
- *`SettingsRequest`.*  The reference of `RequestRead` names the four quotes of the object
  and says what stands between them; the parser walks over the text with a cursor.
  `ExpectIs` and `StringEndIs` say which place each step of the walk finds, and that it
  finds no other, so the walk can be turned into the four quotes (`RequestReads`,
  `ReadsSays`) and back (`SaysReads`, `ReadsRequest`).  The invariant (`RequestInv`) is
  that the answer is that of the whole body, however it was received.  That a first
  character of a kind exists is no induction over the text here: among the parts of a
  finite set of positions that end at one of its members, one contains no other
  (`LeastMember`).

- *`NmeaFields`.*  The parsers walk over the digits and so does what is meant, so the
  theorem needs an induction over them.  The prover takes none that is stated for an
  operator; `SetInduction` states it for a set: one that holds 0, and with each natural
  number the next one, holds all of them, since there would be a least one that it
  does not hold (`LeastMember`, from the well-foundedness in `FiniteSetTheorems`).  With the set of places at which a walk has a value that
  it should have, each function that
  is defined by recursion is shown to take its steps (`NumberSteps`, `FractionSteps`,
  `CommaSteps`).  Then by induction: a number of k digits is less than 10^k
  (`NumberBounds`), and what the scaled digits add up to, with the scale that is left,
  encloses the fraction that is written (`FractionWithin`), so that it is that fraction
  cut off behind its scale.  A text has the form a parser takes exactly if the reference
  says so (`FixedForm`, `PlaceForm`, `UtcForm`).  For the rounding of a coordinate two
  errors are added, half a unit and the minutes cut off (`RoundingBound`).  A comma is
  told from the others by the number of those up to it (`CommaUnique`), and the walk
  finds the one with that number (`CommaNumberIs`).

The invariants are no properties of a run: each was found with TLC on the instances
of the runs, and is now a theorem.

Six properties are only model-checked: those of liveness under fairness
(`LossDetected`, `PollReturns`, `GoesDark`, `BootCompletes`, `RingEmptied`,
`UpMeansOpen`), which the prover does not do.  Every invariant and every action
property of a passing run, and the refinement, is a theorem.

## Findings

1. `timebase_get_snapshot` reads the timer before it copies the state
   (`timebase.c` 436-439).  A label accepted in between makes the GNSS age
   negative, and the read is refused although PPS and label are fresh.  README.md
   170 names only two reasons for an invalid timebase.
2. A UART event gets its time when the main task takes it out of the queue
   (`gps_uart.c` 110).  A sentence that waited past the next edge is associated
   with that edge, and a first label anchors the timebase one second behind, until
   the next label corrects it.  `timebase.h` 17 promises exact UTC at the edge.
3. When the driver drops an event (queue full, or discarded between
   `uart_flush_input` and `xQueueReset`), its bytes stay in the ring buffer and all
   later events read older bytes than their own, with their own time
   (`gps_uart.c` 112); `nmea_timing.c` 561 describes the estimate otherwise.
4. After a failed `nvs_commit` flash may hold the new name while `config_state`
   keeps the old one.  Saving the old name then compares equal, is acknowledged
   without a write (`app_config.c` 155), and the next boot loads the other name.

5. `emac_wiznet_transmit` gives up after its time is over or when the link is down
   (`wiznet_mac_common.c` 542) and leaves its SEND to the chip; the next call that finds
   room issues another.  The comment at 793-794 says that each SEND must complete before
   the next.

The code also does the following, which no text of the repository denies; the
properties name them as their exceptions, so that a run shows how far each reaches.

- A missed edge between the two snapshots of a request can put the transmit timestamp
  before the receive timestamp (`ReplyOrdered`).
- An address whose event was handled after the end of its link is shown until the link
  is back (`Ethernet`).
- After finding 5, ESP_OK is one frame early for every frame until the socket is closed,
  because the SEND bit polled is the one of the frame before (`OkMeansSent`).  A SEND
  that did not reach the chip makes the next one send two frames glued together
  (`WireIntact`).
- `emac_wiznet_stop` waits for a SEND bit up to a second although nothing is being sent
  (`AwaitSend`), and drains the ring while the RX task may be in the middle of a frame:
  old memory can then pass for frames, and a frame can stay behind (`InOrder`,
  `RingEmptied`).  A RECV that failed has the same effect.
- A CLOSE reported as failed, with the cable back by the next poll, leaves the link up
  and the socket closed until the next loss (`UpMeansOpen`).
- A join whose write of `Sn_MR` failed is not counted, but is left later (`JoinedHeard`).
- A request lost between driver and callback gives every later one the sample of an
  earlier request, and nothing brings them in step again; a stale SEND_OK may complete
  the next reply's sample early (`OwnSamples`, `NtpPath`).
- A rising edge served with the pin low again is recorded as a falling one
  (`WidthOfOnePulse`).
- Good lines of any type keep a fix on show: while RMC or ZDA arrive, even RMC with
  status V, the fix of the last legible GGA stays, and between the two critical sections
  the one from before a silence reappears (`FixOfOneLine`).
- Delay statistics count lines whose checksum is wrong (`nmea_timing.c` 435-470).
- What follows a NUL in the body of a settings request is not looked at
  (`web_server.c` 609-612).
- An altitude of 19 digits, the longest that its buffer holds, overflows the `int64_t` of
  `parse_fixed_milli` (`nmea_timing.c` 256); `NmeaFields` has exact integers there.

## What is not modelled

- Web assets, pages, JSON text, fonts, controller commands and framebuffer, log
  output: text, layout and pure I/O.
- Of the W5500 driver: construction and deletion, reset and identification, PHY speed,
  duplex and promiscuous mode, `set_all_multicast` and the poll timer that replaces the
  interrupt: start-up sequences, or not used by this program.
- Of the path diagnostics: recognition of frames byte by byte, statistics, logging, and
  the time stamp of the chip's interrupt.
- The SPI bus, ESP-IDF, lwIP, the chips and FreeRTOS: external, modelled as far as the
  code uses them.
- Checksums of NMEA sentences: a sentence is corrupt or carries a label (`Timebase`).
- The extra edge of a leap second (its aftermath, labels that stay one behind, is
  in `timebase_anchor`), and a first label far in the future.
- The status page's combination of snapshots, which is that of the health page over more
  of them.

## Plan

In the order of importance, the rest of the appliance only reports what the first of
these decide: `Timebase` with `UtcSource`, `NtpServer`, `GpsUart`, `AppConfig`; then
`NmeaLine`, `Calendar`, `NtpTime`, `Hostname`, `OledUi`, `Ethernet`, `Boot`; then the
W5500 driver, the path diagnostics, the PPS statistics, the field parsers, the GNSS
status and the settings request.  All of these are done.

What would come next:

1. The status handler on top of `Timebase`: its `valid`, second and ages belong to
   several moments.
2. `Timebase` with leap seconds, and with labels far in the future, after which
   every right label is "utc-backward".
3. A `Timebase` whose main task is `GpsUart`, so that the association delay and
   the arrival estimate meet in one model.
