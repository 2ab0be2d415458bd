# A TLA+ model of the training factory 24V

The repository holds the control of a model factory, twice. The PLC program
(`src/PLC_SCL_sources`, structured text) runs the five stations. The C++ library
`src/TxtGatewayPLC/TxtSmartFactoryLib` runs the same stations on four TXT
controllers that talk over MQTT, and drives the axes, the pan-tilt unit, the
camera and the NFC reader; the gateway program `TxtGatewayPLC/src/main.cpp` uses
it beside a PLC. This directory holds TLA+ specifications of both, the TLC
configurations that check them, and proofs.

Line numbers without a file are those of `src/PLC_SCL_sources/TP/Main.scl`.

## 1. Inventory

### 1.1 The PLC program

OB `Main` (7269) calls every program once per scan, in a fixed order. A program
is a function block with a step counter `li_StepCase` and a `CASE` over it; a
scan executes the branch of the current step. The programs exchange everything
through global data blocks; there are no locks, no messages and no interrupts
between them, except the encoder counting in OB30.

| Part | State of its own | Shared state it writes | What it does |
|---|---|---|---|
| `PRG_VGR_Ablauf` (1711) vacuum gripper robot | step | requests and reports in `gtyp_VGR`, its workpiece record, the order state | carries every workpiece: input shelf to warehouse, warehouse to oven, sorting bay to output shelf, bad parts to the reject position |
| `PRG_HBW_Ablauf` (4425) high-bay warehouse | step, slot in work, `lx_Storage` | answers in `gtyp_HBW`, rack records and storing times | fetches a container, offers it on its belt, takes it back; finds a free slot or the oldest part of a colour |
| `PRG_MPO_Ablauf` (5736) oven and saw | step | answers in `gtyp_MPO`, records of MPO and SLD, order state on error | opens the oven on request, processes the part, passes it on |
| `PRG_SLD_Ablauf` (6458) sorting line | step, colour, pulse count | `gtyp_SLD` | measures the colour and blows the part into a bay |
| `PRG_NFC` (5178) | step, timers | `x_NFC_Completed`, `x_Workpiece_NiO`, the id in the robot's record | dialogue with the NFC device: delete and identify, write |
| `PRG_Order` (1651), `PRG_DSO_Status` (6851), `PRG_Acknowledge` (1293) | step, time stamps, edges, 5 s timer | `x_HBW_Outsource` and its type, order state, error bits | dashboard orders, end of an order, acknowledgement |
| `PRG_DSI_Status` (1593) | – | – | displays the input shelf |
| `PRG_*_Set_Park_Position`, `PRG_*_Set_Positioning`, `PRG_SLD_Calibration_Color`, `PRG_SLD_Set_Counter_Values` | step | park bits, axes | operator functions; while their switch is on, the step chains are forced to step 0 |
| `FB_Axis` (585), `PRG_*_Axis_*`, OB30 with `FB_INC_DEC` | position, step | axis records | positioning, referencing, encoder counts |
| `PRG_SSC_*` (3207-4072) | step | `gtyp_SSC` | camera axes and lamps |

`IM/Main.scl` is the same program for another hardware configuration.

### 1.2 The C++ library and the gateway

Each TXT controller runs `fsmStep` in a loop; the receive thread of the MQTT
library calls its `request...` methods, which put requests into queues and flags
that the loop reads without a lock. `.cpp` and `.h` names below are those of the
library without the leading `Txt`.

| Part | State of its own | Interacts through | What it does |
|---|---|---|---|
| `VacuumGripperRobot` (`...Run.cpp`) | state, order, pickup and store state, three queues, working mode | messages to rack and processing station, reports to the dashboard | serves orders, deliveries, pick-ups and returned parts; reads and writes tags |
| `HighBayWarehouse` (`...Run.cpp`), `HighBayWarehouseStorage` | state, requests; records, file | `hbw/ack`, `hbw/fault` | brings containers, keeps the records of the slots in a file |
| `MultiProcessingStation`, `SortingLine` | state, requests | `mpo/ack`, `sld/ack`, faults | process, sort by colour |
| `FactoryProcessStorage` | history of each tag | robot | stages with time stamps, written to the tag |
| `Axis1RefSwitch`, `AxisNSwitch` | status, position | motor board | reference run, absolute moves, cantilever |
| `PanTiltUnit` and its controller | status, positions, one command | motor board, callers in other threads | moves the camera |
| `NfcDevice` | outcome and data of the last command | receive thread, main loop | reads, writes, deletes tags |
| `MqttFactoryClient` | connection, one lock | every thread | publishes, waits for the broker |
| `main.cpp` | start-up flags, LDR and camera settings | everything above | main loop, observers of camera, motion, environment sensor |

### 1.3 How they interact, and where it is hard

A handover is a dialogue of bits. To store, the robot raises `x_HBW_Storage`,
fetches the part and waits for `x_HBW_Container_Available`; it releases the part,
raises `x_HBW_Discards`, and lowers it again once the warehouse has moved on.
To outsource, `PRG_Order` raises `x_HBW_Outsource` if the robot is ready, the
warehouse and the robot start at the same time, the robot reports
`x_HBW_PickedUp`, and `PRG_Order` lowers the request when it sees the report in the same
scan as the warehouse. The oven is a dialogue of four more bits, the NFC reader
one of three. Workpiece records are copied from data block to data block beside
the parts and can get out of step with them.

What is hard: the order of the programs within a scan matters; step 0, reached
by an error, a setup switch or a restart, lowers some bits and leaves others;
30 s timers may run out in the scan of the awaited event; an error of one
station resets another one; some data blocks are retained over a power failure
and some are not; and a customer acts whenever he likes. The list, with lines, is
`hazards` in `PROJECT.json`.

On the C++ side the hazards are those of threads and messages: a request that
changes the order in work, a message for another order than the one the robot
thinks of, a crash between record, file and motion, a publication that blocks
the thread that would end it, an answer put together after the next command has
come, counters of the motor board read before they are valid.

What makes each part correct. PLC: the robot meets a container, and an open oven,
where it goes down, and finds or leaves a part there (`HandoversMeet`); the
records of rack and stations tell the truth (`RecordsTruthful`, `RecordsUnique`);
orders get the oldest part (`OldestFirst`), and are neither lost nor ended early
(`OrdersKept`, `OrderShipped`); a storage and an order never mix (`StorageAlone`);
reports are withdrawn only when noticed (`ReportsNoticed`); workpieces move in
single file (`SingleFile`). TXT factory: records (`RecordedOnce`, `RecordsTrue`,
`ForgetsOne`, `RackTrue`), handovers (`HandoverMeets`, `SortedLiesInBay`), the
life of an order (`LifeKept`, `ShippedAsOrdered`, `HistoryComplete`,
`OrdersServed`), deliveries and faults that end. Drivers: positions are true,
moves arrive and end, the cantilever is out only where it may be. Gateway: answers are
right and come, subscriptions return or the program ends, nobody starves.

## 2. The modules

| Module | Models |
|---|---|
| `DataBlocks` | PLC: the global data blocks and the plant |
| `VacuumGripper`, `HighBayWarehouse`, `ProcessingStation`, `SortingLine`, `NfcReader`, `OrderDesk` | PLC: one program each; one action per step (or chain of private steps); `...Program` is one call |
| `Factory`, `MCFactory` | PLC: OB1, the people, the restart, fairness, properties; small plants |
| `WorkpieceFlow` | PLC, abstract: workpieces move in single file |
| `TxtTypes`, `TxtPlant` | TXT: workpieces, orders, messages; MQTT queues, acknowledge button, the plant |
| `RackStorage` | TXT: the storage class with its file; `StorageSpec` is its own specification |
| `TxtWarehouse` | TXT: state machine and requests of the rack |
| `TxtRack`, `MCRack` | TXT: rack, an arbitrary robot, crashes |
| `TxtGripper`, `TxtGripperRun` | TXT: requests of the robot; its state machine |
| `TxtStations` | TXT: processing station and sorting line |
| `OrderLife` | TXT, abstract: what the dashboard may show of an order |
| `TxtFactory`, `MCTxt` | TXT: the four controllers, the people, properties |
| `TxtCalibration` | TXT: the calibration states of three controllers and the delivery station |
| `TxtAxis` | TXT: the lift of the rack and its cantilever |
| `TxtPanTilt`, `MCPanTilt` | TXT: pan-tilt unit and its controller |
| `TxtGateway` | gateway: threads, client lock, link, NFC commands |
| `FactoryProofs` | PLC: theorems and proofs about `Factory`; the second half is about normal operation |
| `TxtProofs`, `TxtLineProofs` | TXT: theorems and proofs about `TxtFactory`, whatever fails, and as long as nothing has failed |
| `RackProofs`, `AxisProofs`, `PanTiltProofs`, `CalibrationProofs`, `GatewayProofs` | C++: theorems and proofs, one module per component |

### 2.1 PLC

**State.** Every BOOL of a data block is a member of the set `bits` while TRUE
(`VgrBit`, `HbwBit`, ... name them). `vgr`, `hbw`, `mpo`, `sld`, `nfc`, `ord` are
the step counters; a chain of steps that only moves the station's own axes or
waits for its own timers has the number of its first step, and takes any number
of scans. `wp` has the workpiece record of each station, `rack` the records of
the slots. `act` is the slot counter pair, `bay` the robot's chosen sorting bay, `typ` the
ordered colour, `state` the order state, `button` a pressed order button.
`at` (where each workpiece is) and `cont` (where the container is) are the plant;
programs read them only through light barriers, and write them only through valves and belts.
Of storing times only the order matters, so `ts` is a rank.

**Steps.** `prg` names the program that OB1 calls next. One step of `Factory` is
one call; between two scans (`prg = "IO"`) the people act. So a bit raised
by one program is seen by the later ones in the same scan and by the earlier ones
in the next scan, as on the PLC.

**People.** A customer delivers, orders and fetches. `Discipline` says which rules he keeps:
`OneOrder` (orders only in `WAITING_FOR_ORDER`, the rule of the TXT variant),
`InStock`, `ClearShelf`. The operator toggles the switches in `Modes`: acknowledge, clear rack,
positioning, calibration, parking. Parking is one bit for the three stations' bits, which one edge raises (1473) and
only the first scan lowers. An order for a colour that is not in stock when the
warehouse never had a job would access `Rack_Workpiece[0,0]`, which stops the
CPU; `MayOrder` and `HbwFetch` leave that case out.

**Faults.** Constants allow the NFC device to stay silent, and each
monitored wait of the warehouse, the oven station and the sorting line to exceed its
30 s, also in the scan in which the awaited event happens. `MayRestart` lets the power fail between any two calls;
`Retained` and the action `Restart` follow the `NON_RETAIN` attributes
of the data blocks (retained: 1130, 1187, 1253, 1269; not: 1241, 1281, instance blocks from 6929 on) and the first-scan branches.

**Fairness** (`FairSpec`). `WF(Next)`: the PLC scans for ever. `SF` on each
station's change of step: a motion, timer or answer may take many scans but comes;
strong, because the station's call is enabled only in its turn of the scan.
Nothing is assumed of the people: a customer may never deliver, order or fetch.

### 2.2 TXT factory

**State.** `hbw`, `vgr`, `mpo`, `sld` are the `currentState` of the four
controllers; a state of the code in which several moments can be told apart by
another controller or a crash is split (`BRING_WP`, `SAVE_FETCHED`), and axis moves
within one state are one action, since an axis either arrives or ends the
program. Queues are sequences; boolean requests are members of `raised` or
`hbwFlag`. `flow` holds the states of the order, pickup and store in work. `wp`,
`filled`, `nextFetchPos` and `file` are the storage: the slots are
numbered in the order in which the loops visit them, and storage times are the order of
filling. A file that was being written at a crash is `torn` and cannot be loaded.
`cell`, `tray`, `at`, `tag` are the plant and the NFC tags.

**Steps.** One action for each state of `fsmStep` and each outcome in it; one
for each request method, which takes the next message of the controller's queue.
A flag and the queue it announces change in one action. The broker keeps the
order of the messages to each subscriber.

**People** order a colour, ask for a pick-up, for a workpiece at the output
to be stored, or for a working mode; bring and take workpieces; and press the acknowledge
button when a controller waits for it. Whoever acknowledges a fault of the oven or of
the sorting line has taken the part out.

**Timing** that the models rely on, as the factory does: the oven's feeder is
free when the robot brings a part, and the colour sensor is free when the
processing station sends the next one.

**Fairness.** Every controller runs on (its loop and its receive thread); people
empty the output station and acknowledge a fault sooner or later. Nothing makes them order or deliver.

### 2.3 Axes, pan-tilt unit, calibration

In `TxtAxis` and `TxtPanTilt` the motor board runs beside the program. Loops that poll every
10 ms are actions that may come at any time. Fairness: the polling loops run on, the board counts
unless something jams.

In `TxtAxis` program and board share a transfer area: what the program writes (motor, distance, counter reset)
reaches the board with `Send`, what the program sees (counter, the number of the finished command) is as
old as the last `Receive`, and in between `Pulse` moves the lift. So the motor may run on after the program has switched it
off, and the counter it reads after a loop may be old. `plan` is the list of moves that the running method of the rack
still has to make; `GetConv` and `PutConv` leave the cantilever out at the belt, as every caller wants it. A target may lie
beyond the end of the travel, and a push of the joystick moves up to `MaxJog` steps. `cut` remembers that a move was cut
short, by a stop, the switch or the end of the travel. A jam may free itself (`Free`) while
the loop it has held up is about to time out. The board runs a command once for each new number; its number is `taken` and `seen`.

In
`TxtCalibration` a position is the place it was read at and the joystick one of seven
positions, heard by every controller at once; fairness: the controllers' loops run on.

### 2.4 Gateway

`pc` says where each of the four threads is, `rx` and `job` what the receive thread does,
`lock` who has the client's lock and `camLock` who has the frame. `token` is the
publication under the lock, `asked` the answer that is owed for the last NFC command: what the reader
reported and who wants to know. Acknowledgements and callbacks share the receive thread: while it waits for the
client's lock in `connected`, no acknowledgement can come, and the publisher runs into its
timeout. A publisher that times out ends the whole program (`FORCE_EXIT_ON_TIMEOUT`, `MqttFactoryClient.cpp:31`): `Timeout`
is that end, and so is a command for the reader that comes while `pNfc` is still NULL. Nothing starts the program again in the
model. Commands may come as soon as the topics are subscribed, before the main loop runs; a command is accepted, begins (the
data of the last one are deleted) and ends in three steps. The reader may fail, and may write only some pages of a tag and report success (`torn`).
Pictures may fail to be encoded. Fairness: strong for main loop, camera, motion detection and the
subscription, which compete for locks that others take again and
again (the operating system grants a mutex to every waiter in the end); weak for
the rest, the timeout of a wait included. Clients take turns (`Brought`): one gives a command when
the answer to the one before has been published or is not coming. Losing the link is bounded by `MaxLosses`.

## 3. What is checked

| Run | Instance | Distinct states | Shows |
|---|---|---|---|
| `normal` | three workpieces (one red), three slots, two stored, no faults | 816 611 | handovers, records, oldest first, orders, single file |
| `orders` | two white, two slots, one stored, warehouse motions may fail; fair | 256 806 | every accepted order is shipped, or the warehouse stops in error |
| `resets` | one workpiece that comes back for ever, two slots; silent NFC device, oven and sorting errors, parking, acknowledging, clearing, power failures | 3 357 813 | handover with the warehouse under any reset |
| `records` | a white and a red workpiece, two slots, none stored; silent NFC device, power failures | 6 353 763 | ids and colours of the rack records (with clearing too, in 22 230 298 states, more than a run has time for) |
| `rack` | three workpieces, two slots, one crash, one acknowledgement | 319 883 | records in memory and file, answers |
| `txt_normal` | two workpieces, two slots, two orders | 168 952 | orders and deliveries from beginning to end |
| `txt_modes` | two workpieces, two slots, two requests out of pick-up, store and endless mode, one fault | 377 488 | handovers, records and faults |
| `txt_rescheduled` | one order, one fault | violated | the finding of 3.1 |
| `calibration` | three places, two cells, readings 0, 400, 900, 3500, two uses of the tag, five moves of the joystick | 715 768 | what is saved, who follows the joystick, cancelling |
| `axis` | travel 7, row at 5, belt at 2, dip 1, a jog of up to two steps, one stop, one jam | 1 588 247 | true position, cantilever, arrival, end of moves |
| `pantilt` | travel 3 and 2, two callers, two commands of at most two steps, one jam | 181 571 | true positions, ends of commands |
| `gateway` | writing, two clients, two commands, one lost link, one camera switch | 127 743 | answers, subscriptions, who is served |

**Why these bounds are enough.** Two slots suffice for an order and a storage to compete and
for a wrong slot to exist; the third slot and workpiece, of another colour, give
the search two candidates and a distractor. Two orders overlap in robot and
stations. One fault, crash, stop, jam or lost link at every moment is one at each
bad moment; the bound keeps a second one from hiding that the first is
survived. The travel of 7 has room for the switch, the belt, a row that the dips of the belt do not reach, and a jog from the row
to the end and beyond. One command to the reader suffices in `gateway`, since commands
differ only in their data: `write` has its own failure and may leave a torn tag; the theorems take all of them. `calibration`
has a reading that failed and one too large to be saved.

**Bounds that are not sizes.** `Discipline` (PLC) is a condition on the customer under which the
properties hold; what happens without it is in 3.2. `MaxRequests`, `MaxFaults`, `MaxCrashes`, `MaxQuits`, `MaxStops`,
`MaxJams`, `MaxCmds`, `MaxLosses`, `MaxSwitches`, `MaxTags` and `MaxJogs` only bound how often
something happens, and stand in the guards of the actions that count it.

Deadlock is checked in the PLC runs. In the TXT and gateway runs it is not:
when the bounded requests are used up, or a controller has ended, the system rests.

Each module has one type predicate. `TypeOK` of `Factory` and `TxtTypeOK` are proved; all of the C++ modules
(`RackTypeOK`, `TxtTypeOK`, `CalibTypeOK`, `AxisTypeOK`, `PtuTypeOK`, `GatewayTypeOK`) were checked on the
instances above by adding them to the configurations; they are no properties of the runs.

`OrderShipped` needs no assumption that the customer fetches because under
`OneOrder` and `ClearShelf` the shelf is free when he orders. `SingleFile` and `LifeKept` are refinements:
the first by the mapping `goal <- Errand`, which reads the errand of a part from the step
numbers and request bits; the second with the display itself as `board`. `StorageUsedWell` shows
that the rack uses its storage only as `StorageNext`, the specification proved about, allows.

**Mutants.** For each property of each passing run `PROJECT.json` names a
plausible slip of the code (a forgotten check, a test of the wrong bit, a record
cleared too late, another call order); TLC finds the property violated under it. The slips stand beside the
definition they replace and are used nowhere else.

### 3.1 A finding

`txt_rescheduled`: `TxtFactoryTypes.h:206` shows an order whose processing
failed as "PROCESSING FAULT, ORDER IS RESCHEDULED". The robot publishes that
state and forgets the order (`VacuumGripperRobotRun.cpp:227` and `536`); the
TODO at line 233 says what is missing.

### 3.2 What does not hold outside the stated conditions

PLC.
- Silent NFC device: a part rejected before its container arrives leaves the
  warehouse in step 180 with an empty container for the next storage
  (`ContainerFits`, `OldestFirst` fail later).
- Failing warehouse motions: the chain restarts and forgets its container; records
  of the part on the belt are wrong, `ReportsNoticed` fails, and after a reset the
  gripper may go down to an empty belt. The same happens when positioning stops the warehouse while it offers a
  container: 4464 leaves `x_HBW_Container_Available` TRUE.
- Errors of the oven station reset the robot with the part in its gripper, which falls.
  `PRG_NFC` is not reset with it: an answer it still awaits in step 50 (5284) completes the first
  dialogue of the next part, which is then stored under the id of the part before, with a colour of its own.
  `RecordsUnique` fails as soon as an oven error or a setup mode may reset the robot and parts of two
  colours arrive; with one workpiece it cannot be seen.
- A restart drops the part in the gripper; a part on the belt is unrecorded. `x_Discard_Ready` is
  retained, so the first order after it may find the oven "ready".
- Orders for a colour out of stock: the test for a failed search (4739) compares the counters
  with 4, which they never are; the slot of the last job is fetched.
- Orders while the last part lies on the shelf: 6893 ends "the" order when that part is taken.
- An order accepted in steps 500 to 580 is cleared by step 0 of the robot (1812).
- A delivery into a full rack waits for ever (4703), with the robot in step 880.

TXT factory.
- A fault message overwrites the order in work (`VacuumGripperRobot.h:336` to 356): with
  two orders and a fault `LifeKept` fails, and without their condition `NothingFailed` so would `ShippedAsOrdered`
  and, with three orders, `SortedLiesInBay`: the robot is sent to a bay for the first order, the sorting line reports a fault of the third, the robot
  takes from the bay of the third's colour the workpiece of the second, and the bay is empty when the second's turn
  comes (found by simulation with three workpieces in stock; `txt_modes` has two). `START_PRODUCE` does not
  lower the fault request, so a fault is reported twice.
- `TRANSPORT` of the processing station reports a lost part and goes on as if it had not
  (the `break` at 285 leaves only the loop).
- `PROCESSING_MILLING` is never stamped; `HistoryComplete` is about the other seven stages.
- Storing from the output takes the colour seen last as the type (817), and `PICKUP2DELIVERY` waits
  for ever when somebody empties the output.
- Thresholds learned by a calibration are in force before they are checked.
  The flags that end the calibration of a station are set again when used (922, 937), so
  the robot does not wait for the second one: `OneSteered` speaks of the first.

Drivers and gateway.
- After a move that was cut short (a jog to the end of the travel or to the switch, or a stop) pulses come after the
  counter is read, or the counter read is that of an older move: record and lift differ until the next
  reference run, and `PosTrue` speaks of the other moves. `moveAbs` only warns of a target beyond the end (107); the move
  is then stopped by the first look of its loop, or the program ends when the counter has got there. The models
  take the 16-bit command numbers not to wrap.
- A stop between two moves is not heeded by the next one: the lift may travel with the cantilever out (`CantileverFree` holds
  up to the first stop). `stop` of the rack is public, but nothing in the repository calls it.
- `executeCmd` tests `busy` without the lock and `run` reads the command without it: of two
  commands one may be lost although its caller was told TRUE. A pan-tilt move that times
  out leaves its motor on. `stop` is not implemented.
- An NFC outcome that arrives while the main loop publishes the last one is erased
  unanswered (752): `OutcomesAnswered` is about the others, and `AnswersRight` holds in spite of it. Clients that do not take
  turns get each other's answers. `writeTags` and `eraseTags` report success after a failed page (496, 246): the
  answer says what was reported, not what is on the tag.
- A connection that comes back during a publication ends the program: `connected` waits for the lock, so that the acknowledgement
  cannot come, and the timeout exits. An outcome that waits behind such a publication is never told.
- The first value of the brightness sensor is published, although a comment says it is discarded
  (`main.cpp:740`; line 738 clears `firstvalue` just before the test).
- A picture that the camera cannot encode leaves it locked for ever (`Camera.cpp:184`): `MotionServed` holds up to that.

## 4. What is proved

For every value of the constants that satisfies the named assumptions.

**`FactoryProofs`**, with all faults, switches and restarts allowed:

- `TypeCorrect`: `Spec => []TypeOK`. The inductive invariant is
  `TypeOK /\ SlotKnown`: the record written at the return of a container
  (step 250) goes to the slot `act`, which is a slot only because step 100
  cannot be passed without one. The lemmas go program by program; the search for
  the oldest part needs that a finite non-empty set of slots has a least
  element (`Least`, by the finite-set theorems), and `StampedType` that the
  ranks of storing times are numbers.
- `StorageOnItsOwn`, `RequestsExclude`: `StorageAlone`, and with it that storage and order are
  never requested together. The latter is not inductive: `PRG_Order` could
  raise an order beside a storage. `StorageAlone` is: while a storage is
  requested the robot is not ready for orders and is in the storage or reject procedure
  or about to clear the request.
- `MeetsContainer` (`GripperMeetsContainer`) and `NoticedBeforeWithdrawn`
  (`ReportsNoticed`), with a silent NFC device, errors of oven and sorting line, power failures and every
  switch but positioning. `HandInv` says what four bits mean in each pair of steps: an
  offered container is outside and the warehouse still in step 180, or stopped for good by the park
  switch; while the robot is between the offer and its report the container stays outside, because
  step 180 is left only on a report; a report that the warehouse has not answered was written in this
  scan, before the warehouse's call. Excluded are the two ways in which the code breaks it (3.2):
  failing warehouse motions and `Set_Pos_Activ`.
- `RecordedOnceEach` (`RecordsUnique`), with failures of reader, warehouse and sorting line, power failures, a
  rack cleared at any time and orders without rules. The record of a workpiece starts as a tag read by the robot (step 880
  or 50 to 580), is handed to the warehouse with the request and enters the rack when the container returns, or is dropped after a reject;
  any of them may be cut short. `RecordInv` says that the robot stores one workpiece at a time, that the record underway is
  the tag it read last, and that its workpiece is in no slot until the return writes it
  (`OneByOne`, `FreshUnlisted`, `HandRecord`, `DropRecord`, `ReturnRecord`); a workpiece not yet read is in no record at
  all (`Fresh`, `Unlisted`). That the answer of the reader belongs to the part in the gripper needs
  `ReaderTalk`. Excluded are what breaks it: a reset of the robot alone, on an error of the oven or by a setup
  switch, in the middle of the dialogue with the reader (3.2), and a workpiece delivered
  again while its old record still stands.

**`FactoryProofs`, second half**, assuming `Calm` (the conditions of the run `normal`: nothing fails, no power failure,
no setup switch, the customer keeps the three rules; any workpieces, colours, slots and stock, any of them delivered again):

- `MeetsPartner` (`HandoversMeet`), `RecordsTold` (`RecordsTruthful`), `FirstInFirstOut`
  (`OldestFirst`), `OrdersInForce` (`OrdersKept`).
- `FlowImplemented` (`SingleFile`): `Factory` implements `WorkpieceFlow`. `CourseTravel`, `CourseOrder` and
  `CourseBack` say how a leg is recognised; then each program's call is shown to be one leg into a free
  place or to leave places and goals alone.

All five rest on `NormalInv`. None of its parts is inductive alone, because the programs see each other only through bits:
- `Dialogues`: which steps of two programs go together. A request stands until it is served
  (`Job`), `ord = 20` exactly while `x_HBW_Outsource` is raised, and the oven waits in step 100 until
  the robot has reported. It needs `Places`: the robot leaves step 70 for the order only
  because no finished part is in a bay.
- `Places`: who holds a workpiece in which steps. That a step never carries two, or onto
  another, comes from here and from `Orders`.
- `Orders`: between oven and shelf there is one workpiece at most, and only while the state is
  `IN_PROCESS`; `WAITING_FOR_ORDER` and `SHIPPED` mean that no workpiece is on its way. Here the customer's
  rules enter.
- `RackRight`: every slot but the one in work is told truly; the slot chosen in step 50 or 60 is still the right
  one in step 100, because nobody else writes the rack and the order stands.
- `Records`: the register of the station that holds the part has its record; at the handover from
  warehouse to robot it moves in step 190, one scan after the part (hence the case of step 485).
`VgrCall` and `HbwCall` sum up one call of the two largest programs as a relation on steps, bits, places and records, so
that the lemmas about the invariant need not open the programs again.

**`RackProofs`**, first of the storage alone: `OneRecord`, `StorageSpec => []RecordedOnce`. The invariant adds that
memory and file are shelves. The file needs no clause of its own beyond `Distinct`, because it
is only ever a copy of the memory; a store keeps it because `StorageNext` stores
only what is not recorded. Then of the rack with its robot, messages and crashes (`RackSpec`):

- `RackUsesStorageWell` (`StorageUsedWell`): every step of the rack is a step of `StorageNext` or
  leaves the storage alone. With it `RackRecordsOnce` follows.
- `RecordsStayTrue` (`RecordsTrue`) and `RestartForgetsOne` (`ForgetsOne`).

They rest on `RackInv`. The robot's one request is in one place: under way, in the
rack's queue, in work, or answered (`OneRequest`), and about the workpiece in the gripper
(`RequestFits`). The word that ends a job comes once, while the rack waits for it, and
what it says is done by then (`OneClose`, `CloseTrue`): this is why `store` never writes a
record of a workpiece that is not in the container. A container that is out is empty on record (`SlotOut`); the
file is torn exactly while it is written, and else agrees with the memory but for the slot in
hand (`FileTrue`); a workpiece is in one container at most (`CellsTrue`). `ForgottenInv` adds that
the workpieces neither on record nor in hand are no more than the crashes: a crash turns the one in hand into such a one.

**`TxtProofs`**, of the four controllers, the people and their messages together (`TxtSpec`), whatever is
brought, asked for, misread, faulty or acknowledged, and in whatever order the rack was filled:

- `TheyMeet` (`HandoverMeets`): a robot that acts on `FETCHED` finds what it was told.
- `RecordsHold` (`RackTrue`): the records are true at every moment of every job.
- `TxtTypesKept`: all variables keep their types.

They rest on `HandoverInv`, which has four parts. `Types` is `TxtTypeOK` with the types of queues, messages and
requests, down to which codes go with which topic (`Letters`): without it no step could read a message.
`Talk` is about the messages between robot and rack only. `RackProofs` has a robot that does nothing but use the rack; here
the robot of `TxtGripperRun` has three more partners, and their messages mix with those of the rack in its queue. So the messages
are taken as sets, by what they are for (`Sent`, `Stores`, `Returns`, `Replies`), with at
most one of each in a queue (`EachOnce`); `Posting` and `Receiving` say what a publication and a reception do to
them, and every step that neither asks nor answers leaves `Talk` alone (`TalkKept`, `RestKept`).
What it says: one request at most, in one place, and only while the robot is in one of the three states in which it waits
(`OneRequest`); the answer is about what was asked (`StoreFits`, `FetchFits`, `AnswerFits`); the word that ends a job comes
once and is true (`OneClose`, `CloseTrue`). `Shelves`: the container of the last fetch is out and empty on record (`SlotOut`), every other
slot is as recorded and has its place in the order of filling (`RackExact`; otherwise the search for the oldest would
choose no slot), and a workpiece is in one container (`CellsTrue`). `InGripper`: the robot holds
one workpiece, and in the states after the identification it is the one whose tag it has read. The lemmas go by actor:
`RackKeeps`, `RobotKeeps`, `StationsKeep`, `PeopleKeep`.

**`TxtLineProofs`**, of the same factory as long as nothing has failed (`faults = 0`: no tag, colour or transport).
Failures stay possible in `TxtSpec`; the theorems speak of the time before the first. Orders, deliveries, pickups, changes of
mode and emptied outputs come at any moment, so that several orders are in the line at once:

- `RightOneShipped` (`ShippedAsOrdered`): the workpiece about to be shipped has the colour ordered, and its tag says processed.
- `WholeHistory` (`HistoryComplete`): its history names every stage that a controller stamps.
- `BayServes` (`SortedLiesInBay`): each sorted request that waits at the robot has a workpiece of its own in the bay it names.
- `StagesInOrder`: up to the first failure, every step is a step of `OrderLife` or leaves the dashboard alone. Hence
  `LifeFollowed` (`LifeKept`): with `MaxFaults = 0` the factory implements `OrderLife`.

They rest on `Sound`, which is `HandoverInv` and, while `faults = 0`, `LineInv`. Between the oven and
the bay nobody identifies a workpiece: the line takes the first of its queue for the one at its sensor, and the robot goes to the bay of the
colour that the report names. That message and workpiece belong together follows from their order alone. `LineInv` says why this is right. `RecordsHonest` and `FetchedAsWanted`: what the rack brings is what its record
says, and what was ordered. `Line` is the set of all requests from the oven to the robot, wherever they are
kept: in the oven, as a message, in the queue of the line, at its sensor, as a report, at the robot. No order and no workpiece is in two of
them (`LineRight`, `NoDouble`); `InTurn` says that the notices reach the line in the order of the workpieces, which needs that one
workpiece at most is at the sensor and one behind it; `InBays` that a request past the line names a workpiece in the bay of its colour. `OvenTalk`: the
robot has one request at the oven and waits for its answer. `Shown` relates all this to the dashboard, `HistoryTrue` to tags and histories.
TLC checked `LineInv` as an invariant of the constants of `txt_normal` before it was proved.

**`AxisProofs`**: `PositionTrue` (`PosTrue`) and `ArrivesWhereSent` (`Arrives`), for any travel, rows and jogs. The invariant
`TrackInv` says what the board may still do in each status, as long as no move was cut short. Between two moves the lift rests
and will still rest when the board takes what is written (`RestInv`); in a move the command is
either not taken, and the lift stands at the old position, or taken, and then `at` is the old
position and the pulses counted, which are no more than the distance (`DriveInv`, `Gone`); the program leaves its
loop only when it has seen the command finished, and then the counter it sees is the whole distance. That is why an old picture of
the board does no harm. In a reference run it matters that the lift rests until the board takes the command (`HomeInv`).
`CantileverKept` (`CantileverFree`) rests on `TrackInv` and on `FreeInv`, which describes the moves that are left, as long as
nobody has stopped the rack: the cantilever goes out only at a row or at the belt, the moves behind keep to that height
until it is taken in (`Place`), a plan that ends in IDLE or the calibration ends with it in (`Closes`), a reference run begins with it in
(`RefsSafe`), and what the rack leaves behind when it waits with the cantilever out is the height of the belt, which is where `getConv` begins.
Moves cut short do no harm here because only a jog can be cut short without a stop (`CutIsJog`), with the cantilever in, and the next composed
move begins with a reference run at which the lift rests (`SafeCut`, `CutRests`). That each composed move is a safe plan is shown move by
move (`FetchSafe`, `StoreSafe`, `HomeSafe`, `JogSafe`), that what is left of a safe plan is safe once (`TailSafe`). TLC checked `FreeInv` before it was proved.

**`PanTiltProofs`**: `StandsWhereItSays` (`PanTiltTrue`). While a motor runs, the place of the camera is the position
last written plus what was counted since the move began; `Found` says it for the reference run too,
which counts from an unknown place.

**`CalibrationProofs`**: `SavedInPlace` (`PlacesKept` with `Aimed`: the robot, and the crane, stand at the
place selected whenever a button can save it) and `OneJoystick` (`OneSteered` with `Waits`: while a
request to another station is on its way, or served, the robot waits in the state of that station).

**`GatewayProofs`**: `OutcomesKnown` (the outcome left for the main loop is one of its cases, and what is owed is owed
to a client) and `AnswersAreOwed` (`AnswersRight`). While a command is at the reader no other answer is
owed and the topic is its client's (`TopicStands`); an outcome that waits for the main loop is the
answer owed, put together as it would be now (`AnswerStands`), except while the main loop publishes one and is about
to clear it. Neither the reader that deletes its data nor a second outcome in that moment breaks it.

Assumptions: `PlantAssumption` (slots are distinct and not named like other
places, no workpiece is in two slots), `PeopleAssumption` (switches and rules are among those named),
`NoUidAssumption`, `RackConstants` (every workpiece has a colour, and none starts in two slots), `TxtConstants` (the same, and bounds that are numbers), `AxisConstants` (rows and belt lie within the travel, with room for the dip),
`PtuConstants` (the centre lies within the travel), `CalibConstants`, `GatewayConstants`. The runs evaluate them. In the models
themselves: clients of the reader take turns; command numbers of the motor board do not wrap; the program sees a switch at once, the
lift stops with its motor or at its distance, and the loops that call composed moves sleep longer than the board takes to take over
what was written (`Settled`).

**Only model-checked.** Every safety property of the passing runs is stated by a theorem, some under the assumptions named above.
Liveness under fairness is beyond the proof system: `OrderShipped`, `Answers`, `OrdersServed`, `DeliveriesEnd`, `FaultsEnd`,
`Cancels`, `MovesEnd`, `CommandsEnd`, `CallersReturn`, `OutcomesAnswered`, `Resubscribes`, `MotionServed`.

## 5. What is not modelled

- PLC: `FB_Axis` and encoder counting, setup motions, camera, lamps, cyclic state messages, histories
  other than the storing time, the timing of timers (only that they run out). The step
  chains see axes only through "position reached".
- PLC: "Fill the HBW-Rack" (4476 to 4579), a set-up by hand: within 60 s of the start a button writes nine fixed records
  into the rack. They are true only if somebody puts those workpieces there; the rack of `Init` may be taken for one filled so.
- The variant `IM` of the PLC program: the same chains for other hardware.
- C++: JSON text and time stamps of messages; displays, sounds and pictures; the periods
  of sensors; bytes and pages of tags (a tag has four contents, one of them "written in part"); the measuring of the environment
  sensor and the vendored libraries `bme680` and `bsec`; the file of histories,
  which nobody reads back; the horizontal axis, which runs the code of the vertical one; heights that a calibration of the rack
  saves (`TxtAxis` has fixed ones); the acknowledgement `TRANSPORT` of the processing station, which nobody heeds.
- Data races proper: flag and queue of a request change together, so the window in which
  `fsmStep` sees one of the two (`requestSLDsorted`, line 324; `reqOrder`, line 46) is not explored.
- Node-RED flows and dashboards: a customer who presses their buttons.

## 6. Beyond this

What would add most: what the orders of the TXT factory still keep after a failure (3.2 says what they do not);
`FB_Axis` composed with the pulse counting of OB30; the split of flag and queue in the requests of the robot.
