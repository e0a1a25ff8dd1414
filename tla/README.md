# WiFi_WS_LIN_A1: verification development

This directory holds TLA+ modules of the firmware in `source/`, TLC
configurations that model-check them on small instances, and proofs checked by
TLAPS. The firmware runs FreeRTOS on a PSoC 6 board: it provisions itself into
a Wi-Fi network through a page on its own access point (SoftAP), and then
serves a control page with which a LIN flap actuator is calibrated, opened and
closed.

File abbreviations below: **L** = `source/LIN_actuator.c`,
**N** = `source/wifi_network_store.c`, **W** = `source/web_server.c`,
**D** = `source/display_status.c`, **H** = `source/html_web_page.h`.

Contents: 1 inventory · 2 how the parts interact · 3 modules and their
correspondence to the code · 4 runs, bounds, fairness · 5 proofs ·
6 where the code and its comments disagree · 7 modelling assumptions ·
8 what is not modelled · 9 plan.

## 1. Inventory

| Component | State it keeps | Operations | What is hard | What makes it correct | Module |
|---|---|---|---|---|---|
| LIN actuator state machine (L) | `lin_ctx`: state, pending request, learned flag, motion flag, last flap command, exchange timer, simulation counter | `lin_actuator_init`, `lin_actuator_task`, `lin_actuator_request_*` | requests of the HTTP worker between any two accesses of the task; answers that are missing, damaged or late | no motion before or during a calibration; a status is applied to the state it was asked for; motions are repeated | `LinActuator`, `LinControl` |
| LIN frame coding (L) | accumulator, FIFO | `lin_protected_id`, `lin_checksum_enhanced`, `lin_send_command_frame` | carries, parity taps | a standard receiver accepts every frame; the accumulator loses nothing | `LinFrame` |
| Persistent network store (N) | one record per flash page | init, save, mark used, list | loss of power in a write, eviction, counter wrap and renumbering | a bounded list ordered by use, without duplicates | `NetworkStore`, `NetworkList` |
| Flash layer of the store (N) | the pages, one page buffer for all callers | `get_store_geometry`, `slot_addr`, `write_record_to_slot` | two callers and one buffer; what is left of an interrupted write | a write touches its own page and leaves the old record, the new one or none | `FlashPages`, `SlotPages` |
| Modes (W) | `device_configured`, `reconfiguration_request`, countdown, task handle, button flags, credentials, radio, HTTP servers | `server_task`, `wifi_connect_task`, `softap_resource_handler`, button interrupt | four parties without a lock; blocking calls in the middle of a switch | the page of each mode is served; joins and presses take effect; attempts end | `Provisioning` |
| Event stream (W) | the one stream registered last | `process_sse_handler`, three-part write in `server_task` | a new browser replaces the stream while `server_task` writes to it | the registered browser gets whole updates; a lost one is forgotten | `EventStream` |
| mDNS (W) | responder flag, service slot, retry and announcement counters | start, stop, retry | partial failure of a registration; a switch between test and registration | flag and responder agree; a station in reach is advertised | `Mdns` |
| Wi-Fi scan (W) | result buffer, length, completion flag | `wifi_resource_handler`, `scan_callback` | the callback's thread against the handler's wait | the page lists its own scan and ends whole | `WifiScan` |
| Form parsing (W) | credential buffers | `url_decode`, `parse_wifi_credentials` | separators in values, 8-bit indices | the fields hold what was typed | `FormFields` |
| Pages (H) | the buttons of the control page | `sendCommand`, `setButtonsDisabled` | the wait between clicks is all that guards the request slot | a click is served | `ControlPath` |
| Display (D) | frame buffer, position of the controller | the `display_status_show_` functions | wrapping at full rows; several tasks on one buffer and bus; failed writes | what is shown is complete, and whole on the panel | `StatusText`, `OledText`, `OledScreen` |
| Start (`main.c`, W) | the parts that have started | `main`, `server_task` up to its loop | parts that do not start | the device serves a mode or stops for a part it needs | `Boot` |
| Board support, build files | generated | – | – | – | not modelled |

`PROJECT.json` lists the hazards of the code at their lines, with the
properties that would catch each one.

## 2. How the parts interact

`server_task` (lowest priority) is the main thread: it tries the known networks
of the store, then loops: button, mode switch or countdown, and, in the station
mode, `lin_actuator_task` and the event stream. A POST of the provisioning form
arrives in the thread of the HTTP server, which starts `wifi_connect_task`;
that task joins the network, saves it in the store, sets `device_configured`
and a countdown. When `server_task` has counted down it stops SoftAP, exchanges
the servers and enters the station mode. A POST to a configured device is a
request to the actuator instead. The button interrupt sets a flag that
`server_task`, and whichever task is inside `start_sta_mode`, take and turn into
a return to SoftAP. The HTTP thread also registers the event stream of a browser
and waits for a scan, whose results come from a thread of the connection manager.
All of these show screens on the display. They share global variables; no lock and no
queue protects them (the mDNS calls take the lock of the TCP/IP stack, the flash
operations a critical section).

## 3. Modules

### LinControl, LinActuator, MCLinActuator, LinActuatorProofs

`LinControl` is the abstract specification: the life of the flap as a user may
rely on it (calibrate closed, calibrate open, then drive). `LinActuator` is the
component; its variables carry the names of the fields of `lin_ctx`. The task is
split where its order of accesses to `pending_request` matters: the `switch`
that reads it (L 601) and the store that clears it (L 643) are two steps, with
the exchange of L 843-868 after them. `Request(r)` is the HTTP worker, enabled
between any two steps. `Responses` is the bus: any response out of
`SignatureBytes` and `FlagsBytes`, or one that is too short; in simulation mode
it is the response of the simulated actuator. `Simulation` is the compile-time
switch.

### LinFrame, LinFrameProofs

`ProtectedId` is L 285-305; the actions are the statements of
`lin_checksum_enhanced` that change the 16-bit accumulator and the frame that is
put in the FIFO. A receiver that follows the standard is part of the model: it takes the bytes of the
wire one at a time (`Receive`) and adds them in eight bits with the carry added back after every
byte, independently of how the sender sums. `ReceiverAccepts` is about what it ends with.

### NetworkList, NetworkStore, MCNetworkStore, NetworkStoreProofs

`NetworkList` is what the header comment of N promises: a
list ordered by use. `NetworkStore` is the flash: a page is a record or `Blank`; a write is an
erase and a programming of the page, each of which may fail, and power may go in
between. `compute_next_counter`, `find_slots` and the choice of N 559-567 are
the operators `IsNextCounter`, `LastOf`/`FirstOf`/`OldestOf` and `IsTarget`,
`renormalize_counters` is `RenormalizeNext`/`RenormalizeEnd`. The refinement
mapping is `wifi_store_get_known_networks`: `KnownNetworks`, the networks of the
records, and `UsedAfter`, their order by the counters. It counts the page that is erased
until its programming, so that a completed write is one step of the list.

### Provisioning, MCProvisioning, ProvisioningProofs

One module for the four parties, with the globals of W as variables. The
functions that run in both tasks (`start_sta_mode`,
`handle_runtime_force_provisioning`, `switch_to_provisioning_mode`,
`start_provisioning_softap`) are actions with the task as parameter; `pc[t]` is
where a task stands and `back[t]` is where the button's switch returns to. A
step ends where the code blocks (delay, connection manager, flash, server) or
where an access of another party matters.

| Step | Code |
|---|---|
| `TryKnown`, `BootJoined`, `BootInSoftAp`, `BootFallsBack` | start-up of `server_task` |
| `EnterSta`, `Check`, `ConnectSucceeds`/`Fails`/`Refused` | `start_sta_mode` |
| `PollRead`, `PollQuiet`, `PollPressed` | `handle_runtime_force_provisioning`: the load of the flag (W 1716) and its clearing (W 1717) are two steps |
| `SwitchDone`, `StopStation`, `Reset`, `StartSoftAp`, `SoftApFails`, `StartApServer` | `switch_to_provisioning_mode`, `start_provisioning_softap`, `start_ap_mode` |
| `StartReconfigure`, `StopApServer`, `RenewServer`, `EnterStation` | `reconfigure_http_server` and the mode change of the main loop |
| `Turn`, `ReadCountdown`, `CountdownVoid`, `CountdownRuns`, `CountDown`, `ShutDownAp`, `StopSoftAp` | the countdown of the main loop (W 1954-1967): test, load and store are steps of their own |
| `ConnectorJoined`, `ConnectorDone`, `ConnectorFailed` | end of `wifi_connect_task`; the stores of W 315 and 316 are two steps |
| `PostForm`, `ClearCredentials`, `FillCredentials`, `Start*` | `softap_resource_handler`, `parse_wifi_credentials`, `start_wifi_connect_task` |
| `Press`, `LinkLost` | the interrupt; the network |

The countdown is a plain `uint32_t` that W 1954, 1958 and 1960 name again: the build may load it each time or keep the
first value. `Loads` is that choice (`left` is what was loaded last), and the subtraction of W 1960 wraps at `Turns`, the range of
the counter in turns of the loop. The map in `PROJECT.json` gives the lines of every definition.

### ControlPath, MCControlPath, ControlPathProofs

The way of a command: `ControlPath` extends `LinActuator` with the script of the
control page (`Click`, and the buttons that stay disabled for `Cooldown` calls), the
POST handler (which takes a body for a command once the device is configured) and
the mode, reduced to the three values that decide whether commands are taken and
whether `lin_actuator_task` is called. `lin_ctx` survives a return to
provisioning. `carried`, `thisStay` and `waiting` are history variables: `waiting` is set by a click of the present stay
that finds nothing carried over, and taken back only by the `switch` of L 601 or the end of the stay, so that the service of an
earlier equal click does not count for this one.
`PathImplementsActuator` proves that the composition is a `LinActuator`.

### SlotPages, FlashPages, FlashPagesProofs

`FlashPages` is `write_record_to_slot` below `NetworkStore`: memory in cells, the
shared buffer (`Fill`, `Copy` cell by cell), the critical section (`Enter`, the erase,
the programming, its end), failures and loss of power, with the tests of
`get_store_geometry` and the 32-bit end of a block. `SlotPages` is what `NetworkStore` assumes of
it: slots that are cleared one at a time and take the record they were asked to
take. The refinement mapping `SlotsSeen` decodes each page. `exclusive`, chosen in the initial state,
says whether one task is in the store at a time, as `SlotPages` needs, or any number.

### EventStream (proofs in WebServerProofs)

The global `http_event_stream` between the HTTP thread (`Register`,
`EnableChunked`, `WriteHeader`: three accesses of the global) and `server_task`
(`BeginUpdate`, then for each part a write of whatever the global holds, and
`Forget` as a later step). `Leave` is a browser that goes; `StopStaServer` (W 1640-1642) and
`ForgetStation` (W 1592) are the return to provisioning by the tasks in `Switchers`. Between the two the global holds a
stream of the deleted server (`Stale`); when `wifi_connect_task` switches, `server_task` may write it (`WriteStale`), and what the
library returns then is left open.

### Mdns (proofs in WebServerProofs)

`start_sta_mdns_service` is split at the lock (`Checked`, then `RegisterHost` or
`RegistrationFails`). `service_sta_mdns_retry` is split wherever `wifi_connect_task` may stop the service meanwhile: the tests
(`ServiceTests`), the count of the turns, the announcement under the lock (`Reannounce`), and the decrement behind it, a load and a
store (`LoadRemaining`, `StoreRemaining`, W 649) that wraps a `uint8_t`. `responder` is what lwIP holds; `announced` counts
what it has sent since the start.

### WifiScan (proofs in WebServerProofs)

`scan_callback` appends a name in `Result`, and ends a scan in two steps, because the
flag is set before the static length is reset (W 932, 933) and the handler may go
on in between. The response is built as `append_text` does.

### FormFields (proofs in WebServerProofs)

The browser composes the body out of the form, one encoded character a step; then come `url_decode` and the
loops of `parse_wifi_credentials`, also one character a step, because the indices (eight bits wide) are the
point. Passwords and names are sequences of bytes of any length: the form has no `maxlength` and the code no test, so `buff_index`, an
`int8_t`, can pass 127 and goes on at -128 (`NextIndex`). In front of the buffer it reads anything (`Reads`), and the loop for the
password is left at once, because `buff_index < data_len` compares it as a large unsigned number (`PasswordContinues`). The history variable `starts` keeps where in the
body each character of the form begins.

### StatusText, OledText (proofs in DisplayProofs)

`StatusText` is `lin_actuator_get_http_status` and what `oled_prepare_status_text`
makes of it; `OledText` is `oled_draw_wrapped` one row at a time, and the screens with
their lines. A cell of a text is a letter, a space or a line end. A row of the frame buffer is
represented by the piece of a text that is drawn on it (which text, from where, how many cells), so that order
and completeness can be stated. Where a row starts and ends is what the loops of the source search for
(`FirstFrom`, `AfterLast`): each is stated by what it finds.

### OledScreen (proofs in DisplayProofs)

The same functions seen from the bus: drawing row by row into the shared frame
buffer, setting the address window, copying a chunk, sending it. Every step can
interleave with those of other tasks. The controller's position is a variable of
its own: a failed write leaves it in the middle of the window.

### Boot (proofs in DisplayProofs)

`main` and `server_task` up to its loop, one action for each part that may fail;
`broken` is the set of the parts that have. The module ends where the loop begins (`Stopped`): what a press does there depends on
SoftAP, which an aborted start-up may have left up, and is part of `Provisioning`.

### MCControlPath, MCNetworkStore, MCWebServer, MCDisplay

The instances for TLC that hold more than one of the modules above:

| Module | Holds |
|---|---|
| `MCControlPath` | `ControlPath`, `LinFrame` |
| `MCNetworkStore` | `NetworkStore` (a `NetworkList`), `FlashPages` (a `SlotPages`) with one task in the store and with two |
| `MCWebServer` | `EventStream`, `Mdns`, `WifiScan`, `FormFields` |
| `MCDisplay` | `Boot`, `OledScreen`, `OledText` on the display of the device |

The parts in one of them share no variable, so interleaving them would show
nothing that each of them does not show alone. The variable `focus` is chosen in the initial
state: the part it names takes steps, the others stay where they start. The state space is the
sum of those of the parts, and a property of a part is stated for the states in which
it has the focus.

## 4. Runs

| Run | Shows |
|---|---|
| `lin_actuator` | `MotionConsistent`, `LearnedMatchesState`, `FrameMatchesState`: three handlers that write different fields keep them in step; `ImplementsControl`: no order of requests and answers moves the flap before or during a calibration |
| `control_path` | `ClickTaken`: the page's wait keeps the one request slot from losing a click of the present stay in the station mode; `ClickServed`: the task takes that very click, not an equal one before it, or the device leaves the mode; `CalibrationResumes`: a calibration interrupted by a return to provisioning goes on and ends once the device is a station again, if the actuator reports its positions; `CommandRepeats`: as long as a state that drives the flap lasts in the station mode, its command goes out again and again; `ReceiverAccepts`, `HeaderDistance`, `AccumulatorBound`, `FoldPreserves` of the frames |
| `network_store` | `DistinctCounters`, `UniqueNetworks`, `AlwaysATarget`, `ImplementsList`, with failed operations and loss of power at every step; `ImplementsSlots`: with one task in the store at a time and every accepted geometry, the pages are slots; `OnePage`: with two tasks, a step still touches only the page its task was asked to write |
| `provisioning` | `ProvisioningServed`: no order of joins, presses, lost links and shutdowns takes SoftAP or its page from a device in the provisioning mode, except the one step described in section 6; `StationServed`: the station mode has its page; `GraceKept`: a countdown outlives its configuration only through one of the two unlocked pairs of accesses described in section 6 |
| `provisioning_live` | `JoinLeadsToStation`: a join leads to the station mode; `ButtonReturns`: a press that is not cleared unread leads to SoftAP, whichever task reads it; `AttemptsEnd`: every series of attempts ends |
| `web_server` | `StreamSafe`: a stream that failed is never written again; one whose server was deleted is not in the global outside of a switch, and is written only during a switch of `wifi_connect_task`; a browser that gets an update gets its header too, if maybe later. `NoTornUpdate`: no browser gets the parts of an update out of order; `StreamServed`: the registered browser gets complete updates again and again, and one that has left is forgotten. `Advertising`: flag and responder agree, and while the host is advertised no announcement is lost or doubled. `ScanListed`: the page lists the results of its own scan, as far as they fit, and ends whole. `FormTaken`: the fields hold what was entered, cut to the buffers (a name of 32 characters loses its last, a key of 64 hexadecimal digits too), unless a value has a separator in it; a command taken for a form leaves no credentials. The name arrives whatever the length of the form, the password if the 8-bit index comes to its end (`Fits`); no credential exceeds its buffer in any case. `AnsweredInTheEnd`: a station in reach is advertised, a request for the list is answered, every body is parsed to its end, also when the index wraps |
| `display` | `StartSafe`: the firmware stops exactly for the parts it cannot do without, nothing is used before it has started; `Starts`: the device comes to serve a mode. `ShownWhole`: whatever was drawn at the same time and whatever failed before, a screen shown alone is whole; `StatusRecovers`: the status comes back. `Legible`: whatever the texts, what is passed is drawn once and in order, words are split only if they are wider than a row, no row runs into the next; `ScreenComplete`: the lines of every screen fit, and the status shows the state |
| `lin_lost_request`, `lin_replace`, `provisioning_abort`, `provisioning_button`, `provisioning_post` | counterexamples, see section 6 |

`StreamSafe`, `StreamServed`, `Advertising`, `ScanListed`, `FormTaken`, `AnsweredInTheEnd`,
`Legible`, `ScreenComplete` and `StartSafe` are conjunctions of named
parts, defined and explained in the module of each component; the types of these
modules are among them. The type invariants of `ControlPath`, `LinFrame` and `OledScreen`, and the
invariants `SlotGuarded` and `BusInUse` of the first and the last, are proved (section 5) and not listed.

Bounds, and why they are enough:

- **LinActuator**: the signature byte is the expected one or 255; the flags byte is one of 0, 2, 3, 4, 5, 6: every value of the two masked bits, and neighbours outside the mask. The code compares the
  simulation counter with 3 and 6 only; it saturates at `SimulatedCap` = 6.
  Nothing else is bounded.
- **LinFrame**: all identifiers except 0x3D (section 7), four byte values chosen so
  that the sum has to be folded zero, one and two times, payloads up to
  `MaxLen` = 2. The properties are proved for every byte and payloads up to 8 bytes.
- **NetworkStore**: `Capacity` = 3 pages and four networks, so that evictions occur; two
  passwords; `MaxCounter` = 5, so that the counter wraps and renumbering
  occurs, also with a record that carries the largest counter. Names and
  passwords are symmetric.
- **Provisioning**: two networks, and one instance of `wifi_connect_task` beside `server_task` and the HTTP
  thread; the safety run and `provisioning_abort` start with up to two known networks (`LongBoot`), the others with up to one.
  `MaxTries` = 2 (6 in the code) still distinguishes the first attempt from the last; `Grace` = 2 turns
  distinguishes counting from ending, and `Turns` = 4 lets a counter wrap; `MaxServers` = 2 allows one forgotten
  server before memory ends. Two instances, which exist when the handle is forgotten by a switch while one runs, are in
  `MCProvisioningTwo.cfg` (one network, `MaxTries` = 1, symmetry; ten million states, about four minutes on four cores, so not among the runs)
  and in the theorems, which are for any number of instances. The liveness run has one network, since liveness is not stated by network.
- **ControlPath**: the bytes of `LinActuator`, `Cooldown` = 2 calls, the fewest that
  900 ms hold; the proofs are for every number from 2 on. `Simulation` is FALSE, as in the build; with the simulated actuator
  the same three liveness properties hold without any assumption about it (`MCControlPathSimulated.cfg`).
- **FlashPages**: 13 cells of memory, pages of 3 cells, records of 2 (so that a torn record
  and a rest of a page exist), a buffer of 4, two slots, two records; six reports of the flash
  driver, among them the wrong ones and a block that ends with the address space; the refinement and `OnePage` are proved for
  every geometry and any number of tasks.
- **EventStream**: two browsers, so that one registers while the update of the one before is in
  progress and fails; the safety properties are proved for any number.
- **Mdns**: the intervals and counts of the code, in turns of the loop.
- **WifiScan**: up to three results, names of up to three bytes in a buffer of six: the buffer is full with a line end, without one, and in
  the middle of a name. `PageSize` leaves room for the parts, as in the code. `ScanListed` is proved for every size.
- **FormFields**: the buffers of the code. Names of one character out of the six that the parser tells apart and of two
  out of three, and names and passwords as long as the buffers and one longer, also with a separator at the cut; digits
  of either case; forms whose last character has the index 126, 127 and 128, and far longer ones (a name of 130 characters), for which
  the index wraps. `FormTaken` is proved for all names and passwords.
- **OledText**: the sizes of the device, and what its callers pass: every status of the module, and names of 1, 16,
  17 and 31 characters with a gap at each place of a row, or with three spaces around its end. Both properties are proved for
  every size of the display and every name and status of the assumed form.
- **OledScreen**: `server_task` and one other task that shows one screen, two rows, one write that fails;
  `ShownWhole` is proved for any number of each.
- **Boot**: nothing is bounded; eight networks as in the code. `StartSafe` is proved for any number.

Fairness. `LinActuator` alone has none: `server_task` calls it in the station mode only (W 1898). `ControlPath` has weak fairness of
`CallStep`, which is enabled in the station mode, or to end a call that has begun: `server_task` loops for ever and every
thread of higher priority blocks. `Provisioning`: weak fairness of the steps of
`server_task` and of each `wifi_connect_task`, which FreeRTOS schedules for the
same reason; `EventStream`, `Mdns`, `WifiScan`, `FormFields`, `OledScreen` and `Boot` assume the same of
the threads in them. Four assumptions are about what lies outside `src/`: the actuator, asked again and again in the station mode, reports some time the
position that the calibration waits for (strong fairness of `LearnedReported`; the code has no timeout, and without this
assumption TLC refutes `CalibrationResumes`); the connection manager
reports the end of a scan it has started (weak fairness of the callback), a network gives an
address to a station that stays joined, and a registration with the responder that is tried again
and again succeeds some time (strong fairness of `RegisterHost`). A write to the display
ends, if only by its timeout of 10 ms, and the main loop shows the status in every turn. Otherwise nothing is assumed of users, networks or the LIN bus:
a request need not come, a network need not answer, and neither `ClickServed` nor `CommandRepeats` needs a response.
`CalibrationResumes` is stated under the condition that no new calibration is requested.

Deadlock is checked in every run. Where the firmware stops for good
(`PRINT_AND_ASSERT`), the modules have an explicit step `Halted`/`Stopped`, and
the end of a frame is `Sent`.

Every property of a passing run has a mutant (the conjunctions have one for most of their parts) in `PROJECT.json`: a plausible bug
in a modelled definition, under which TLC finds the property violated. The
mutated forms stand in the modules before the definitions they change, marked
"Mutant".

## 5. Proofs

All theorems hold for every value of the constants that satisfies the named
assumptions of the modules. No other assumption is used.

**LinActuatorProofs.** Type correctness first; then `Inv`, the conjunction of
`MotionConsistent`, `LearnedMatchesState` and `FrameMatchesState` with what
relates `pc` and `initialized` to `state`. It is inductive only together: a
motion request is accepted only in READY or a motion because the learned flag is
false elsewhere (`AcceptedOnlyWhenReady`), and an accepted status may change the
state only because the frame was sent for it. `Implementation` follows from
`Inv`: each action is a step of `LinControl` or leaves `Mode` alone.
Assumptions: `Simulation` is Boolean, the byte sets are subsets of 0..255.

**LinFrameProofs.** `AccumulatorAlwaysBounded`: after `i` bytes the sum is at most
255(i+1), hence far below 2^16 for `MaxLen` up to 8, so that the `% 2^16` of
`AddByte` changes nothing; the induction is over the steps of the loop, not
over data. `FoldCorrect`: a turn of the fold keeps the sum modulo 255 and makes
it smaller (`FoldArithmetic`), so that the loop, which has no bound in the code,
ends.

`TypeCorrect` adds that the checksum that is sent is a byte and the accumulator a 16-bit number.
`ReceiverTakesAll` is `ReceiverAccepts` for every payload, under `61 \notin RawIds`: the one identifier the
firmware never sends and for which the statement is false. Its invariant `Accounted` says that there are partial
sums of the frame, not reduced, such that after every byte the sender's 16-bit sum and the receiver's 8-bit one
agree with the partial sum modulo 255, and each is zero only if that is (`Alike`; without the second
half 0 and 255 would be confused). The sender's and the receiver's loop are two walks along the same sums, so nothing is
folded over the data. `HeadersApart` (`HeaderDistance`) argues over the eight bits of a header: two identifiers that
differ in one bit differ in a parity bit too.

**NetworkStoreProofs.** `StoreInvariant` is the inductive invariant. Besides
`DistinctCounters` and `UniqueNetworks` it needs three facts about a write in
progress: `Renormalizing`/`BetweenWrites` (pages not yet renumbered have
counters above the number of pages already done, so the next number meets no counter in
use), `Writing` (the record about to be programmed clashes with no other page)
and `TargetStillRight` (the slot chosen before the renumbering is still the right one
after it). `RankBounded` is the counting argument that keeps the new counters in
range; it uses the library's theorems on cardinality. `SaveNeverRefused` needs two pages or
more: with one page a record with the largest counter could never be replaced.
Assumptions: `Capacity >= 2`, `MaxCounter > Capacity`, `Blank` is no record.
`StoreIsList` is the refinement of `NetworkList` (`ImplementsList`). `ListInv` adds to the above that the list which counts the
erased page has distinct networks in a total order (`ListTotal`), that the slot chosen holds the network asked for, or nothing, or the
least recently used (`Chosen`), and that a write carries the record of the request, or in a renumbering puts a smaller counter into a record
without passing one that is still to be renumbered (`Rewriting`). Saving, marking and evicting are then one step of the list, a renumbering
is none, and a loss of power drops at most one network.

**FlashPagesProofs.** `StepsStayInOnePage` (`OnePage`), for any number of tasks: a step changes only cells of the page that a
task was asked to write. It rests on what `get_store_geometry` has tested: the arithmetic of `SlotAddr` keeps the pages of
an accepted block apart and below the end of the address space. `PagesAreSlots` (`ImplementsSlots`) needs `Orderly`, stated for one task in the store
at a time: the buffer holds as much of the record as has been copied (`Filled`), and the page is empty between erase and
programming (`Cleared`). `Filled` is what a second task destroys (section 6).
Assumptions: blocks of the flash lie in the address space and do not overlap, their sector is their page and holds a
record, and the region of the store ends inside the address space.

**ProvisioningProofs.** `IInv` = `TypeOK` and four parts: `Counting` (an
attempt is made only while attempts are left), `Modes` (which server runs in which mode and at which step
of the reconfiguration), `StartUp` (until SoftAP is up during
start-up there is no form and no attempt of a user, and no other task moves
SoftAP) and `Supply`. The parts hold each other up: that a
start-up reaches the main loop with SoftAP and its server up follows from
`StartUp`, that `EnterStation` finds the control server running follows from
`Modes`, that the types hold after a failed attempt from `Counting`. `Supply` is about the one server a request for the
station mode consumes: because a countdown may be overwritten, and a stale one may ask again, `Modes` would not be kept by itself;
`Supply` says that after start-up a device in provisioning mode has a server of SoftAP running, or a task
about to start one (`InStock`); likewise when the station mode is requested and its exchange has not begun; and two of them when `server_task`
already stands at the exchange though the mode was reset in the meantime (`TwoInStock`).
`AlwaysServed` is an action property and follows from the same lemmas: each shows, next to
`IInv'`, that what is served stays served (`Kept`), for every action but `StopSoftAp`. `GraceAlwaysKept` (`GraceKept`) has
the same shape: `GraceHeld` follows for each action but the two stores that overtake a reset, `CountDown` and `ConnectorDone`. The proof
has one lemma per party, with one case per
action. It holds for any number of known networks and connectors and any grace period below the range of the counter. Assumptions:
the tasks and networks are distinct from the "none" values, the numbers are positive.

**WebServerProofs, the stream.** `FailureActedOn` strengthens `FailedNotWritten`: a stream on which a write has failed
is in the global only while `server_task` stands before its assignment of NULL.
`AlwaysInStep` strengthens `NoTornUpdate`: what the registered stream has got agrees
with the part at which `server_task` stands, and a stream that was never open has got nothing. Both
need that a stream is registered once. `NeverStale` rests on `FreshStream`: the global holds a closed stream only during a switch, and
while `server_task` switches it does not stand before a write; `ServerTaskNeverWritesStale` draws the conclusion
under `Switchers \subseteq {"server_task"}`, where section 6 refutes it otherwise. `HeaderAlwaysFollows` rests on `HeaderKept`:
while the handler serves a stream the global is that stream or NULL, and a stream in the global has its header or is the one being served.
`AlwaysSafe` puts the four parts of `StreamSafe` together. For any number of browsers and either set of switchers.

**WebServerProofs, mDNS.** `AlwaysAgree`: `Advertising` (types, flag, counters, responder) with `Repeating`: while
the host is advertised and a turn stands between its tests and the decrement, there is something left to count, and what was loaded
is what is stored. A stop in between takes the flag down, and the decrement may then wrap to 255; that value is never read, because
W 635 is reached only with the flag up, and the next start sets it again. The accounting is claimed while the host is
advertised, which is all it is for. `ServerTaskAlwaysQuiet` proves
`QuietInProvisioning`, which section 6 refutes, under `Stoppers \subseteq {"server_task"}`:
the disagreement needs `wifi_connect_task`.

**WebServerProofs, the scan.** `AlwaysListed` is `ScanListed`. `ScanInv` is what handler and callback rely on without a
lock: the flag is down during a scan, and the handler waits; a position left over from the scan before (the flag is set
before it is reset) is met only with a blank buffer and before the first result; and when the flag is up the buffer holds as much of the
listing as fits, and a NUL. `TextIsListing` turns this into what the page shows; `Appended` is the arithmetic of
`append_text`. Assumption (`ScanSizesAssumption`): the page has room for its parts and a full buffer.

**WebServerProofs, the form.** `AlwaysTaken` is `FormTaken`. `FormInv` follows the body through its three passes: every piece
composed so far is the encoding of its character and begins where `starts` says (`Composed`); the decoded
buffer is a prefix of the form and `src` stands at the piece of the next character (`DecodedSoFar`); and `Parsing` ties
`buff_index`, as long as it has not wrapped, to the positions of the two values in the form and the copies to prefixes of the values. What the digits encode
is read back (`HexRoundTrip`, `EncodeRoundTrip`), so a step of `url_decode` undoes the step of the browser at the same place. Because
every loop is a sequence of steps, the proof needs no induction over data. `Parsing` claims the password only for values
without a separator (`Separated`): the others are the disagreement of section 6. A body that is a command is told apart by its
first character (`InCommand`). For a form that the index does not reach the end of (`~Fits`), `Parsing` keeps of the password only that it
fits its buffer. The name is claimed for every form, because it is cut before the index can wrap. For entries of any length, and all sizes of the
two buffers below the wrap (`SizesAssumption`).

**ControlPathProofs.** `PathImplementsActuator` first, which carries the invariant of
`LinActuatorProofs` over. `PathInv` counts: while a request of this stay waits, the buttons have more calls
to wait than the task needs to serve and clear it. With `Cooldown >= 2` this gives
`SlotAlwaysGuarded` and `ClickNeverLost`.

**DisplayProofs.** For `OledScreen`, `TypeCorrect` carries two parts with it: `Given` (what is drawn was asked for)
and `StartUp` (where the initialization stands; nobody draws before it). `BusAlwaysInUse` follows.
`AlwaysShownWhole` uses `InProgress`: a function that nothing disturbed has the
screen in the rows of the buffer it is through with, and the buffer in the rows
of the panel it is through with, the controller standing at the next. For any number of tasks, rows and errors.
For `Boot`, `AlwaysStartSafe` is `StartSafe`, with `StartedInOrder`: what comes later in the start finds what it
uses started, and no network is tried before the networks are read.

**DisplayProofs, the texts.** `AlwaysLegible` and `AlwaysScreenComplete`, for every size of the display and of the
buffers that `SizesAssumption` allows, every name and every status. The loops of `oled_draw_wrapped` are searches
for a position, stated with `CHOOSE`; that there is one to choose is the principle of the least element (`LeastOf`), which follows from
the library's theorem that inclusion is well-founded on finite sets, so that `FirstFromIs`, `AfterLastIs`, `RowEndIs` and
`TrimmedIs` say what each search finds in any text. `PieceIs` puts them together: a row gets a piece of the
text without a line end, and what is passed on either side of it is spaces and line ends.
The inductive invariant `TextInv` has, next to the parts of `Legible`:

- `Placed`: the rows that are used lie above `row` and hold no later text, and in the station mode the rows from
  `StatusStartRow` on are those of the status. `ReadingOrder` needs it, and so does a new status, which
  clears these rows and no others.
- `OnScreen`: a title, at most three lines that come from a line buffer, and in the station mode a status.
- `Budget`: line `k` ends above row `2k`. A line buffer holds at most two characters more than a row, so the
  second row of a line reaches its end; in the station mode every line fits on one row, so the status below row 4 leaves
  them alone. With eight rows no line is cut off, which `LinesSoFar` records.
- `StatusSoFar`: the first three rows of a status suffice for its first two lines. The first ends after the label
  "LIN State:" when the name of the state does not fit behind it, the second at the end of the line.

**What is assumed of a status.** `StatusesAssumption` says that the label and the name of the state fit on a row each, and so does
the line of the learned positions. TLC evaluates it for every status that the module can report (`HttpStatuses`).

**Model-checked only.** The liveness properties (`ClickServed`, `CalibrationResumes`, `CommandRepeats`, `JoinLeadsToStation`,
`ButtonReturns`, `AttemptsEnd`, `StreamServed`, `AnsweredInTheEnd`, `StatusRecovers`, `Starts`): liveness under fairness is outside
the prover. Every invariant and every action property of the passing
runs is proved.

## 6. Where the code and its comments disagree

Each run below has one property, which restates a line of the source, and TLC's
counterexample shows what the code does instead.

- `lin_lost_request`, **L 643**: the task clears whatever is pending, so a
  request stored between the `switch` and the clearing is never served. The
  functions say it is queued (L 878, 897, 916).
- `lin_replace`, **L 724**: a status during a motion rewrites the learned flag;
  once it is false the opposite motion is refused although the old one goes on being
  commanded. The message says "Repeating until replaced or calibration starts"
  (L 621, 635).
- `provisioning_abort`, **W 1854**: a press while the first of two known networks is tried starts SoftAP, and
  the loop over the known networks goes on with the second all the same,
  although "entering provisioning/AP mode" was announced (W 1105).
- `provisioning_button`, **W 1724**: a press between attempts with posted
  credentials is dropped because SoftAP is up; the call is commented "Allow
  provisioning button to interrupt STA connect attempts at any point" (W 1101).
- `provisioning_post`, **W 348**: a form posted during an attempt is accepted
  and no task tries it (comment at W 704-705).

Eleven more disagreements have a configuration each but are not among the runs.
`tlc -config <file>.cfg <module>` finds the counterexample:

- `MCControlPathQueued.cfg` (`ClickQueued`), **W 774**: from the join to the start of the station mode
  (1500 ms of grace and the exchange of the servers) commands are taken and nothing serves them; the page
  allows a click every 900 ms, and the second overwrites the first, which was "queued" (L 878).
- `MCWebServerKept.cfg` (`RegistrationKept`), **W 1918**: a failed write to the browser before forgets the
  browser that has registered meanwhile; it never gets an update (W 683, and the live updates of the repository's README).
- `MCWebServerAssert.cfg` (`HandlerAssertions`), **W 687**: the handler goes on with the global instead of its parameter;
  forgotten in between, its assertions (W 688, 693) stop the firmware.
- `MCWebServerQuiet.cfg` (`QuietInProvisioning`), **W 628**: the retry registers the host name after `wifi_connect_task` has returned
  to provisioning, which "should not advertise STA mDNS hostname" (W 1583).
- `MCWebServerForm.cfg` (`FormExtracted`), **W 251**: the body is decoded before it is split, so a name with `&` in it is cut
  there (W 239).
- `MCDisplayMoved.cfg` (`MovedWhenRequired`), **D 483**: a word that ends exactly at the edge of a row is moved to the next
  row when a space follows, though it is not "required" (D 436); an example is "SSID Conference-Floor 2".
- `MCDisplayStatus.cfg` (`StatusFits`), **D 768**: the status of a calibration that has just begun is cut off after four
  rows, although its wording is shortened "so it fits on the small display" (D 61).
- `MCNetworkStoreBuffer.cfg` (`ProgramsItsRecord`), **N 509**: the shared page buffer is filled outside the critical section, so a task
  preempted before it programs the record of the other (comment at N 515). Two tasks are in the store when the handle of a
  running `wifi_connect_task` was forgotten (W 1591), or when `server_task` marks a network after an aborted start-up.

- `MCProvisioningLost.cfg` (`PressKept`), **W 1717**: a press of the interrupt between the load of the flag and its clearing is
  cleared unread, although the button interrupts "at any point" (W 1101).
- `MCProvisioningGrace.cfg` (`GraceConfigured`), **W 1960**: a return to provisioning by `wifi_connect_task` clears the countdown
  (W 1589, "Reset provisioning state variables") between its load and its store in `server_task`, which puts it back; when it has run down SoftAP is stopped and the
  device goes to the station mode without a configuration. The stores of W 315 and 316 have the same gap for another
  `wifi_connect_task`.
- `MCWebServerStale.cfg` (`StaleNotWritten`), **W 1592**: `wifi_connect_task` deletes the server (W 1640) before it forgets the
  stream (same comment), and `server_task` writes the stream of the deleted server in between.

Two more behaviours are recorded as hazards only, since no comment of the code denies them.

- `server_task` asks for the station mode (W 1965) and then stops SoftAP (W 1966). If
  another task, inside `start_sta_mode`, returns the device to provisioning between the two,
  the stop hits the new SoftAP: the device is in the provisioning mode without
  SoftAP until the next press. `ProvisioningServed` is therefore stated as an action property that
  names this step as the only exception.
- A switch by the button that races with the exchange of servers finds the mode
  not yet at "station", so it does not stop the control server (W 1671). With an
  attempt that a late POST started, the device can then be in the station mode
  and unconfigured. `ProvisioningServed` and `StationServed` say what holds in
  spite of it.

## 7. Modelling assumptions

- The CRC of a record detects every torn page; a torn page is `Blank`.
- An erase sector of the flash is one page, as on the part of the board; a record fits in a page; the blocks the driver reports
  do not overlap, and the region of the store, which the linker places, ends in the address space
  (`BlocksAssumption`, `RegionAssumption`).
- The page of the networks has room for its parts and a full result buffer (`ScanSizesAssumption`, with the sizes of the code).
- `NetworkStore` has one caller at a time. What two callers do to the pages is `FlashPages`: they
  keep to their slots (`OnePage`), but may program each other's record (section 6), and
  then the properties of `NetworkStore` are not promised.
- In the LIN task the test at L 596 and the switch at L 601 are one step (argued in the module).
- Identifier 0x3D is left out of the instance of `LinFrame`: the firmware never sends it,
  and its protected form 0x7D is not what `lin_checksum_enhanced` compares with.
- `wifi_connect_state` and `last_wifi_fail_reason` are left out of
  `Provisioning`: they are reported and never decide a transition.
- The countdown is counted in turns of the loop; the code subtracts the delay of a turn.
- In `Provisioning` the start of the countdown, the clearing of the handle and the deletion of `wifi_connect_task`
  are one step: a POST in between sees what it would have seen before or after. Two rows of calls that undo the old mode are one step each:
  server, link and SoftAP in `StopStation`; the assignments and the second disconnect and stop in
  `Reset`, which meet a SoftAP that `StopStation` has taken down already.
- Interleavings are not restricted by priorities, so the model has more behaviours than
  the board.
- The pair of name and password is one value; half-filled credentials appear as `NoNetwork`.
- There is one HTTP worker thread. In `Provisioning` stopping a server does not wait for a handler, which allows more; in
  `EventStream` it does, because the server is deleted with its thread.
- A response stream is registered once; a write on NULL or on a connection that is gone fails, one on the stream of a
  deleted server returns anything and reaches no browser.
- In `Mdns` the interface object stays once the station has joined; the mode follows the start of the service, as in the main
  loop (at start-up it precedes it, when no other task has begun to switch).
- In `ControlPath` there is one control page, and it is not loaded again between two clicks; two calls of
  `lin_actuator_task` end within 900 ms.
- In `FormFields` the body is what the pages and their script send (`ValuesAssumption`): the names of the fields and the button
  need no encoding, and a command does not begin like the form. Names and passwords may have any length and any byte but 0; the decoded body
  fits the buffer of 2048 characters, and the body ends with a NUL, which `url_decode` relies on (it does not use `data_len`). `SizesAssumption`: the two buffers are
  small enough for a name to be cut before the index wraps (32 and 64 in the code).
- A failed write to the display may have arrived or not, and leaves the controller anywhere in what was sent.
- Names without line ends on the display; an address behind "IP " and the name of the host fit on a row each (`ArgumentsAssumption`).
- The display has eight rows of text or more, and a line buffer holds at most two characters more than a row (`SizesAssumption`,
  with the sizes of the code); the status has the form that section 5 describes (`StatusesAssumption`). That `Len` of a word
  of the source is a number (`StringsAssumption`) and that letter, space and line end are three different cells (`CellsAssumption`)
  is assumed because the prover knows neither.
- In `Boot` the heap suffices for the task and the scheduler (`main.c` 130 ignores the result).
- `PRINT_AND_ASSERT` stops the firmware (`halted`).
- A link may be lost at any time and comes back only by a join.
- The modes in `ControlPath` are those of `Provisioning` reduced to three values, with any change that
  `Provisioning` has between them.

## 8. Not modelled

- The glyph table of the display and the reversal of the bits of a glyph (D 299-375): constant data.
- Markup, styles and constant responses of the pages (H): no state. Of the script, the buttons and the
  POST are in `ControlPath`; the drawing of a received status is left out.
- Bit timing, UART registers and busy waits of the LIN driver: below the level of the
  frame. That a busy wait ends is a property of the hardware.
- The polled button (W 1738-1776) is never reached: `provisioning_button_init` enables button and
  interrupt together (W 1546-1547), or neither (`InterruptOnly` of `Boot`).
- The arithmetic of the CRC of a record (N): it is taken to detect what it is there for.
- Logging, getters, and the wording of messages no property is about.
- Board support, linker scripts, FreeRTOS and lwIP configuration: generated by the vendor's tools, constant, or
  registers written once before `main`.

## 9. Plan

Done, in this order: `LinActuator` (implements `LinControl`), `LinFrame`,
`NetworkStore` (implements `NetworkList`), `Provisioning`; then `EventStream`, `Mdns`,
`WifiScan`, `FormFields`, `OledText` and `OledScreen`, `Boot`, the composition `ControlPath`, and
`FlashPages` (implements `SlotPages`) below the store.

Left:

1. `DeviceMode`: an abstract specification of the modes, implemented by `Provisioning`.
2. `NetworkStore` with `Provisioning`: what is saved after a join against what was
   joined, with the overlap of savers that `FlashPages` shows to matter.
3. Theorems: the refinement of `DeviceMode`.
4. `ControlPath` with two control pages, for which the wait of the page guards nothing.
