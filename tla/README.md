# Verification of the Elfin robot driver

TLA+ models, TLC runs and TLAPS proofs for the EtherCAT driver and the ROS 2
control stack of the Elfin robot arms. Paths are relative to `src/`.

## 1. The system

An Elfin arm has three joint modules (EtherCAT slaves 1 to 3, two axes each)
and an IO slave (4). One process talks to them: either the standalone driver
node or, normally, `controller_manager` with the hardware interface loaded as a
plugin. Above it, `elfin_basic_api` enables the robot and sends trajectories,
and a GUI calls its services.

| Component | State | Operations |
|---|---|---|
| **Joint module client** `elfin_ethercat_driver/src/elfin_ethercat_client.cpp` | none of its own: the RxPDO words it wrote (controlword, mode, target), the TxPDO words it reads (status word, position, error code), SDO objects of the drive | `setEnable`, `setDisable`, `recognizePoseCmd` (each run as a pthread), `clearPoseFault`, services enable, reset fault, open and close brake of one module |
| **Driver services** `elfin_ethercat_driver.cpp` | the list of clients | `enable_robot`, `disable_robot`, `clear_fault`, `recognize_position`, the state queries and a 100 ms status timer |
| **EtherCAT manager** `elfin_ethercat_manager.cpp` | the IO map, its mutex, the cycle thread, the stop flag; SOEM's global slave table | exchange every millisecond, `handleErrors`, byte access to the image, SDO access, start and stop of the bus |
| **IO client** `elfin_ethercat_io_client.cpp` | none | SDO sequences to slaves 3 and 4, results ignored |
| **Hardware interface** `elfin_ros_control/src/elfin_hardware_interface.cpp` | joint states and commands, lifecycle flags, position interface claimed/running | lifecycle callbacks, `read` (runs the driver's service callbacks with `spin_some`), `write`, command mode switch |
| **Simulated hardware interface** `elfin_hardware_onlyposition_interface.cpp` | joint states and commands | copies commands to states |
| **Basic API** `elfin_basic_api/src/elfin_basic_api.cpp` | controller name, velocity, frames | `enable_robot` (meant to stop controllers, check motion and alignment, enable, start the controller), `disable_robot`, velocity and links |
| **Teleoperation, motion API** `elfin_teleop_api.cpp`, `elfin_motion_api.cpp` | the goal being built, frames, speed | services and topics that send trajectory goals or ask move_group |
| **GUI** `elfin_basic_api/scripts/elfin_gui.py` | robot state, `node_lock` and four more locks | buttons, a thread behind a dialog, an IO timer, a 50 ms monitor thread |
| **SOEM: frames** `soem_ros2/SOEM/oshw/linux/nicdrv.c`, `soem/ethercatbase.c`, process data in `ethercatmain.c` | ring of frame indexes, receive buffers of two sockets | send and receive of datagrams and of process data |
| **SOEM: mailbox** `ethercatmain.c`, `ethercatcoe.c`, `ethercatfoe.c`, `ethercatsoe.c`, `ethercateoe.c` | counters, the error list, the kept EoE frame | SDO, PDO, object dictionary; files, IDNs, Ethernet frames |
| **SOEM: EEPROM** `ethercatmain.c` | byte cache of one slave, `eep_pdi` of each | read, write, look up sections |
| **SOEM: configuration** `ethercatconfig.c`, `ethercatdc.c` | the slave table | scan, mapping, clocks; state changes, recovery |

How they interact: clients and the cycle thread share the IO map under
`iomap_mutex_`, taken per byte by the clients and per exchange by the cycle
thread. Service callbacks of driver and clients run on one executor thread,
one at a time; each starts one pthread per module, joins them and polls status
words with a deadline. Within `controller_manager` that same thread is the
control loop: `read()` calls `spin_some`, so `write()` never runs while a
service does. The cycle thread and the services' SDO transfers meet in SOEM's
port: both read the same socket and store frames for each other. The GUI calls
the API node, whose callbacks run one at a time whatever its executor's threads,
and the driver; the API node sends goals to the trajectory controller, which
commands the hardware interface.

What is hard: the drives answer after arbitrary delays or not at all; the two
axes of a module are written and read one after the other; every sequence can
end by a timeout in the middle and leaves what it has written in the image; the
image changes under a read; SDO transfers fail without anyone noticing; ctrl-C
makes all waits fall through. Below, datagrams are lost, late and overtaken,
slaves repeat what was not acknowledged, and most of SOEM's calls go on with
what they have when a read fails. Above, a callback that waits for an answer
keeps the node from taking it, and motions are sent without waiting for them.
`PROJECT.json` lists each hazard at its line with
the property that covers it.

What makes each component correct:

- *client*: enabling does not make an axis move; the two axes come up together;
  whatever way a sequence ends, the image is left in a state from which the
  next one works;
- *driver services*: an answer is true of every module; every callback returns;
- *image*: what reads and commands can be made of while frames come and go;
- *manager*: slaves that drop out come back, working slaves are left alone,
  slave 4 stays in SAFE_OP, and the destructor returns and leaves INIT behind;
- *hardware interface*: joints are bound to their own axes, and no axis is sent
  where no controller sent it;
- *API*: every goal is gentle and as asked, every request is answered;
- *GUI*: the stop on button release always gets through, and nothing follows it;
- *SOEM frames*: a caller gets the answer to its own datagram, complete, and the
  working counter tells when one is missing;
- *SOEM mailbox*: what is reported as done is done; what is not wrong does not
  fail; every call ends;
- *SOEM EEPROM, configuration*: cached and decoded bytes are those of the EEPROM;
  the tree, the sizes, the image and the clocks agree with the bus there is.

## 2. Modules

| Module | Models | Proofs |
|---|---|---|
| `ElfinServo` | client sequences, their threads, the driver's and the modules' services, the drive (external), one write of the control loop | `ElfinServo_proofs` |
| `ProcessImage` | byte accesses to one output and one input word against the exchange | `Image_proofs` |
| `EcCycle` | the manager's start, supervision and destructor, the SOEM functions they call, AL states of the slaves (external) | `EcCycle_proofs` |
| `NicPort` | SOEM's port: indexes, buffers, two sockets, process data exchange | `NicPort_proofs` |
| `Mailbox` | sending to and receiving from a slave's mailbox, the error list | |
| `CoE` (extends `Mailbox`) | SDO, PDO and object dictionary services, a CiA 301 server (external) | |
| `ObjectService` | the abstract store of objects that `CoE` implements | |
| `BulkServices` (extends `Mailbox`) | FoE, SoE, EoE, a slave that offers them (external) | |
| `MailboxServices` | `CoE` and `BulkServices` over one mailbox | `MailboxServices_proofs` |
| `Eeprom` | cache, commands, control and decoding of the slaves' EEPROMs | `Eeprom_proofs` |
| `BusScan`, `BusMap`, `BusClock`, `Bus` | `ecx_config_init`, `ecx_config_map_group`, `ecx_configdc`, and the three in a row | `Image_proofs` |
| `HardwareInterface` | the ros2_control plugin and its simulated variant, with the resource manager and the drives (external) | `HardwareInterface_proofs` |
| `ElfinApi` | the API node's callbacks, with controller, move_group and kinematics (external) | |
| `ElfinGui` (extends `ElfinApi`) | the panel in front of it | `ElfinGui_proofs` |
| `MC...` | instances for TLC | |

### ElfinServo

State. Per axis `<<module, 1 or 2>>`: `ctl`, `mode`, `target` are the words in
the output image, `actual`, `drv`, `unposed` the words in the input image
(position, status word as CiA 402 state, error code 0x2000), `poseCmd` and
`poseSt` the SDO objects of the recognition. Per module: `pc`, `ax`, `back`, the
place of its thread, the axis it accesses next and where `clearPoseFault`
returns to. `svc` is the running callback with the job of its threads and the
modules it is about; `seen` and `off` what the current pass of a polling loop
has read; `reply` the last answer; `ok` is `rclcpp::ok()`. `copied` is the position
`setEnable` has read and not yet written, `caught` a history: the axes that moved
in between.

Actions. A thread's step is one access to one axis: reads and writes of the two
axes of a module are separate steps in the order of the code, including the
short-circuit evaluation of `isEnabled` and `isWarning`. Waits are a step that
passes, a step that starts over and a step that times out; deadlines are not
counted, a timeout is possible whenever the code tests for it and the condition
has just failed. `rclcpp::ok()` is looked at where the code does: at the head of
each test. A callback is `Request`, then fault check, threads, join and polling
passes; `recognizePosition` chains clear, disable and recognise. The polling
loop reads the modules in any order, which includes the code's. The functions
`setEnable` and `recognizePoseCmd` and the polling callbacks have ends without
a `return` (undefined behaviour when reached); the packages set no optimisation
level, the build simply returns, and the value is not used or, in the callbacks,
is the ROS return flag nobody reads. Requests with `data == false` change
nothing and are left out.

A drive sees a controlword, and the client a status word, whenever the drive
steps: all delays of bus and drive are behaviours. A step may also never come.
The drive is external; it follows the CiA 402 state machine to the extent the
client's sequences exercise it, and recognition may move the axis and may or may
not clear the error. With `SdoMayFail`, writes may get lost and reads return
anything, as `readSDO` does with its uninitialised variable.

`HwWrite` is `ElfinHWInterface::write` for one module: an operational module
gets any position a controller likes, any other the position that `read` found
just before, which an operational axis may have left since.

Controlwords are written in one step although the code writes two bytes:
`ProcessImage` (`SlaveSeesWholeWords`, theorem `LowByteAtomic`) is the reason
that is allowed. Torn targets and positions are not part of `ElfinServo`.

### ProcessImage

One output and one input word of one slave. `write`, `readInput` and
`readOutput` access one byte each under the mutex; `cycleWorker` exchanges the
image between any two of them, and the frame may get lost on its way out (the
slave takes nothing, the image keeps its inputs) or on its way back (the slave
has the outputs, the image keeps its inputs). The bounds checks in front of the
accesses end the process and are not modelled; the buffers of reads start with
any content, as the local arrays of the code do.

### EcCycle

State. Per slave, what it is: `on`, its station address `addr`, its AL state
`al` and error bit `err`, the request `ctrl` it has not handled, whether its
sync managers and FMMUs are programmed (`sm`, `fmmu`), and, as a history, whether
the last write of its FMMUs since it had power did not arrive (`missed`). Per slave, what the
master believes: `state` (`ec_slave[s].state`) and `islost`; `state0` is
`ec_slave[0].state`. The two threads: `pc` and `cur` are the cycle thread's
place in `handleErrors` and the SOEM function it is in, and the slave it is at
(`cur` is also the counter of `initSoem`'s loop, which ends before the thread
starts); `main` is the place of the thread that constructs and destroys the
manager; `stop` and `open` are `stop_flag_` and the socket. The numbers 3 and 4
of the code are `Drives` and `Io`.

Actions. One step per datagram that reads or changes an AL state:
`readstateAll` and `readstateEach` are the two halves of `ec_readstate`,
`handleErrors` the decision for one slave with its request, `reconfigInit` to
`reconfigFmmu` the stages of `ec_reconfig_slave`, `recheck` the second look,
`handleLost` and `readdress` the second half of the loop with
`ec_recover_slave`. `ec_statecheck` is a step that takes a result when the slave
is in the wanted state, has handled its request, or cannot be reached; with
`Unreliable`, at any time. `SAFE_OP + ACK` is the same number as
`SAFE_OP + ERROR`, so `handleErrors` does not change the state when it
acknowledges. INIT and PRE_OP OR to BOOT in a broadcast read, as in the code.
The statement that stores INIT for slave 0 and the broadcast are two steps of
the destructor, since the cycle thread uses the same field.

Slaves are external: they grant requests downwards, and upwards one state at a
time, PRE_OP to SAFE_OP only with sync managers, nothing but INIT and
acknowledgement while the error bit is set; an upward request may be refused.
They drop to SAFE_OP with the error bit, leave the bus, and come back with or
without a loss of power.

### NicPort

State. `stat`, `rxbuf` and `sock` are `rxbufstat`, the receive buffers and what
waits in the two sockets; `lastidx`, `redstate` and `txbuf` as in the code. A
datagram carries whose it is and which slaves have processed it, in order, and
no data. Per thread: what it has to take an answer for, the stack it reads, what
it has received, and the frame of somebody else it is about to store.

Actions follow `ecx_getindex`, `ecx_outframe_red` (with the dummy on the
secondary socket), `ecx_inframe`, `ecx_waitinframe_red` and `ecx_srconfirm`.
`ecx_inframe` is two steps when the frame belongs to another index, because the
owner looks at the status without `rx_mutex`. The cycle thread sends all
datagrams of a layout and takes their answers as
`ecx_receive_processdata_group` does, with the working counter and the variable
`first`. In both modes any frame, also a dummy or a frame sent again, may get
lost or come after its wait is over; the history `missed` says for which indexes
in use that has happened on a redundant port. The cut stays where it is during a
behaviour. Two assumptions are stated in the module: when the ring has come round
to an index its earlier frames are back or lost, and on a redundant port threads
take turns (with two at a time, a secondary frame that comes back before the
dummy is sent is thrown away).

### Mailbox, CoE, BulkServices, ObjectService

State. `at` is where the master is in `ecx_mbxsend` or `ecx_mbxreceive`, `pc` the
call it serves, `sm0` and `sm1` the messages in the slave's two sync managers,
`cnt` the mailbox counter, `elist` the error ring. A message is a record with
the fields its protocol looks at; data are sequences of byte numbers, so that
order, loss and padding can be seen.

Actions. Every datagram may be lost; a lost `ecx_mbxsend` is sent again until
its deadline, a lost reading of SM1 makes the master ask for a repeat, and
either may happen after the slave has acted. The slave answers in order, leaves
out a request whose counter it has just seen, and may be late. Services begin by
emptying SM1, send a request and treat what arrives as the code does: another
type or index is an unexpected frame, no answer ends some services and not
others (`ecx_SDOwrite` goes on with the next segment, `ecx_readOE` with the next
entry). `CoE` has expedited, normal and segmented transfers both ways with
toggle bits, sizes and the rule of the last seven bytes; `BulkServices` packet
and fragment numbers, final empty packets, busy answers, fragments left and
blocks of Ethernet frames.

`ObjectService` knows no messages: a call begins, a write reaches its object at
one moment, as a whole and at most once, possibly after its call has failed, and
a call that succeeds returns what is stored, as long as every request was
answered as expected. `CoE` declares `Service == INSTANCE ObjectService WITH`
its own state, and `Implements` is its specification. The module's liveness is
in `MailboxServices`.

### Eeprom

State. The cache (`esislave`, `esimap`, `esibuf`), `eep_pdi` of every slave, the
look-up under way with the bytes it still has to read, and for every slave the
words of its EEPROM, its interface registers and who has control.

A look-up is a walk over addresses, byte by byte, each of which is in the cache
or needs a command: take control, wait until not busy, clear errors, command,
wait, read four or eight bytes, with three tries for a refused command. What it
returns is decoded by operators for strings, FMMUs, sync managers and PDOs that
are written after `ecx_siistring` to `ecx_siiPDO`, and compared with what the
EEPROM was filled with. Reading and writing by position (`ecx_readeepromAP`,
`ecx_writeeepromAP`) take the same steps, but ask nobody for the control: the
model calls them only for a slave whose EEPROM the master holds.

### BusScan, BusMap, BusClock, Bus

The bus is a tree of slaves with kinds, ports and cables. `BusScan` addresses
them, reads identities over all slaves word by word and searches parents;
`BusMap` finds sizes, enables sync managers, places FMMUs bit by bit and closes
segments, one step per slave; `BusClock` latches wrapped times at the ports as a
frame runs through the tree, computes delays as the code does and starts pulses.
A bounded number of reads may fail anywhere; the code then counts zero and goes
on. Logical addresses, bits and times are numbers; every slave has a clock of its
own (`epoch`), which wraps at `2 * Half`. The FMMUs of a slave are a list without a
bound: the code checks `EC_MAXFMMU` nowhere, see section 4.

### HardwareInterface

State. The lifecycle, the slots of the joints with their client, axis, zero,
position and command, `first_pass_`, `initialized_`, the two position interface
flags, and the count, the target and the mode of every axis. Positions are in
counts; rounding is left out. Exceptions that leave the plugin end the
behaviour. Histories record the count at which a joint was last to be aligned
and whether it was commanded since.

### ElfinApi, ElfinGui

One callback runs at a time; a callback is as many steps as it has reads of the
arm's joints, loop turns and look-ups, since the arm, the parameters and other
programs go on meanwhile. Joint values lie on a grid. Any speed that is not negative
may be set, and the arm may be anywhere, also beyond its joint limits, where the
no-limit commands take it; a time that is divided by a speed of zero has no value. A
loop that never ends goes on to `MaxPoints` points and stays there (`Endless`). `enable_robot` ends in
`pc = "blocked"` at its first `future.get()` (and `disable_robot` likewise): the
answer is due in the callback group that waits. What the code does behind that
place cannot be reached. In `ElfinGui` the wx thread and the thread of a dialog
spin the panel's node one after the other under `node_lock`, as the IO timer
does.

## 3. Runs

| Run | Question | Instance |
|---|---|---|
| `servo_module` | `TypeOK`, `QuietWhenIdle`, `NoJump`, `PairedRise` under the control loop, with a fault and a shutdown | 1 module, 2 positions, 1 fault, the four robot services |
| `servo_robot` | `EnabledReplyTruthful`, `ClearLeavesDisarmed` | 2 modules (symmetric), 1 fault |
| `servo_live` | `ServiceAnswers`: callbacks return | 1 module, silent drives, failing SDOs, shutdown |
| `image_position` | `ReadMixesFrames`, `ReadsBackLastWrite`, `CommandFromLastWrite`, `SlaveSeesWholeWords` | words of 3 bytes, two with a carry between them, two that differ in the low byte only |
| `cycle_lossy` | `TypeOK`, `IoNotOperational`, `Undisturbed`, `OperationalMapped` with lost datagrams and late slaves | a drive and the IO slave, 2 drop-outs |
| `cycle_live` | `DrivesReturn`, `DestructorReturns` | the same, no datagram lost, 1 drop-out, the IO slave has outputs, so supervision runs in every cycle |
| `nic_port` | `IndexesKept`, `AnswerOwn`, `RedundantComplete`, `ShortIffMissing` | 3 indexes, cycle thread and one SDO caller, 2 slaves, single and redundant line cut anywhere, one frame with clocks or two without |
| `services` | `NoFalseAlarm`, `Implements`, `TransfersWhole`, `FramesWhole`, `RingKeepsNewest`, `CallsReturn` | every service, two calls in a row of one protocol, one lost datagram, one late answer or emergency |
| `eeprom` | `CacheHonest`, `SiiRight`, `ControlReturned` | 2 slaves, four and eight byte interfaces, eleven kinds of calls, two in a row, 3 faults |
| `api` | `GoalsSound`, `ReleasedMeansStopped`, `ReleaseStops`, `CallsReturn` | 2 joints with 5 values within the limits each, speeds 0, 1 and 2, no-limit steps beyond the limits, 2 inputs of operator and another program, colliding home or way home |
| `bus` | `ParentRight`, `SizesRight`, `ImageSound`, `ClocksAgree` | all chains of up to 3 of 8 kinds of slaves, plain and overlapping; all trees of up to 4, cabled by any port; a lost read; 5 slaves beyond the table's end |
| `hardware` | `AxesBound`, `NoLurch` | all yaml names for one and two modules, zeros on both sides of half a turn, up to 5 transitions and switches, 3 cycles, 2 moves by hand |

Bounds. Two positions are enough to tell "where it is" from "somewhere else".
`NoJump` is checked without lost positions and failing SDOs, which `NeverJumps`
covers for every value of the constants.
One module has all interleavings of its thread with drives and services; two
modules are needed where an answer speaks of all of them. One fault reaches
every place a fault can come in between; a second one in the same behaviour only
repeats it after `clear_fault`. Three bytes are the smallest word in which an
exchange can separate a first, a middle and a last byte. In
`EcCycle` a drive and the IO slave have every combination of one slave being
handled and another one being out of date. Two drop-outs let a slave fail while
another one, or itself, is being repaired. `DrivesReturn` is checked with one,
because it fails with a second one at the wrong moment: between the temporary
and the final address of `ec_recover_slave`, which leaves the slave at
`EC_TEMPNODE`. `OperationalMapped` is checked with two and every datagram free to
be lost: the only thing it excepts is the write of the FMMUs itself, whose result
`ec_reconfig_slave` ignores (section 4), and the time after the destructor's broadcast.
In `nic_port` two threads have every overlap, 3 indexes let the ring come
round within one exchange, and a leaked index is enough to exhaust it; two slaves
have a cut before, between and behind them, and any number of frames may be lost. In `services` a lost datagram at every place, before
or after the slave has acted, meets every state of a transfer of three segments;
sizes straddle every boundary of expedited, normal and segmented transfers, and
of packets, fragments and blocks. Answers of CoE calls are not late there: an
answer that comes after its call has ended is taken by the next call for the
same index, by the code's own test. In `eeprom` three faults are enough to use
up the retries of one datagram. In `bus`, three slaves have every pair of
neighbours of different kinds, bit and byte oriented, and four the smallest tree
with a split below a split. In `api` two inputs are a press and its release, or
one of them against another program. Every other bound is named in the module
that has it. Symmetry is used for safety only. `CHECK_DEADLOCK FALSE` stands only
where `rclcpp` may have shut down, or the manager is gone, or the bounded number
of calls and inputs is used up, after which nothing is left to do.

Fairness (`FairSpec`): callbacks and threads get scheduled (weak fairness of
their steps), and a deadline that is over is noticed (strong fairness of the
timeouts: the clock does not go backwards when a status word flickers). Nothing
is assumed of drives, SDO transfers or who calls a service. CLOCK_REALTIME set
back by hand is outside this assumption.
In `EcCycle` both threads get scheduled (weak fairness), a slave handles the
requests that reach it, and grants a request that it could grant over and over
(strong fairness: a slave that refuses for ever cannot be brought back by
anyone). Nobody has to plug a slave in or to destroy the manager, and
`DrivesReturn` speaks only of drives that answer.
In `MailboxServices` the program goes on, and so does the slave; a deadline
passes although the same message is received again and again, and a message that
is ready gets into SM1 at last (strong fairness of both: the clock runs on, and
the master cannot ask for repetitions that fast). In `ElfinGui` the executor and the threads of the panel go on, and a
thread that waits for `node_lock` gets it although the IO timer takes it again
and again (strong fairness: there is time between its periods); nothing is
assumed of operator, arm, move_group or the order in which requests are served.

## 4. Disagreements

Places where TLC shows that the code does not do what its messages, comments or
documents say. The properties named stand at the end of their modules; no run
checks them, since a run that passes must hold. Each is found violated within
seconds to two minutes on the instance given.

1. `disable_robot` (`elfin_ethercat_driver.cpp:714`): a module with exactly one
   operational axis counts as disabled and is not switched off, and the answer
   is "robot is disabled". `DisabledReplyTruthful`; one module, enable and
   disable, no fault.
2. `recognize_position` (`elfin_ethercat_driver.cpp:439`): the threads' results
   are discarded, the answer is "positions are recognized" after a timeout.
   `RecognizedReplyTruthful`; one module whose axis 1 has lost its position.
3. `readInput_unit` (`elfin_ethercat_client.cpp:125`): the mutex covers a byte,
   so positions can be torn (`ReadIsCurrent`, two bytes); likewise targets on
   the way out, where `CommandFromLastWrite` says exactly what can reach the
   drive: the low bytes of the new word with the high bytes of the old one. From
   -1 to 0 that is -256, -65536 or -16777216 counts for one cycle.
4. `ec_readstate`'s broadcast and `handleErrors` (`elfin_ethercat_manager.cpp:126`):
   when all slaves lost their power and are back, all report INIT, count as
   found and never get their addresses back. `DrivesReturn` with `N = 1`,
   `Io = 0`: one slave stands for all that lose power together.
5. `~EtherCatManager` (`elfin_ethercat_manager.cpp:207`): the cycle thread may
   overwrite the INIT the destructor is about to broadcast; the thread is joined
   after the socket is closed, not before. `DestructorRequestsInit` on
   `cycle_live.cfg`'s instance.
6. `handleErrors` (`elfin_ethercat_manager.cpp:74`): the branch that brings
   slave 4 back to SAFE_OP cannot be reached. `IoReturns`, only the IO slave
   volatile.
7. `setEnable` (`elfin_ethercat_client.cpp:640`): the copy of the position that is
   to keep an axis where it is may be stale when one axis of the module is still
   operational. `isEnabled` asks for both, so the copy is made; that axis may move
   between the read and the write, is switched off by 0x06 before it has gone
   back, and comes up with a target that is not where it is. `NoJumpAtAll` on
   `servo_module.cfg`'s instance, in about a minute.
8. `ecx_waitinframe_red` (`nicdrv.c:458`): when a frame of a redundant port is
   lost, the data is to be had "in an other try". The decision tree has no branch
   for a dummy that came back over the whole line while the primary frame did not
   (`primrx` is `RX_SEC`, `secrx` 0), so the dummy in the buffer is returned with
   the counter of a broadcast, as the answer to a datagram no slave has seen.
   `NeverTheDummy` on `nic_port.cfg`'s instance.
9. `enable_robot` and `disable_robot` of the API node block it for good
   (`elfin_basic_api.cpp:200`, `:259`): they wait for an answer that the callback
   group they run in would have to deliver. `NodeAnswers` on `api.cfg`'s instance.
10. The teleoperation loops (`elfin_teleop_api.cpp:171`, `:453`) need not end.
   `set_vel` is not checked (`elfin_basic_api.cpp:120`), and after zero a joint
   teleoperation and a homing append points that do not move until the memory is
   used up; so does a joint teleoperation, with points that go on and on, of a joint
   that a no-limit command took more than a step beyond the limit it is to move to,
   since only the distance to the limit is looked at. No release gets through
   then. `NodeAnswers` with `enable` and `disable` taken out of `MCOthers` and
   `MCServo`.

What the passing properties had to leave out says where the code is weaker than
one would wish; each exception is in the comment of its property:

- At speed zero nothing bounds how far a point of `cart_teleop` is from the one
  before, and the times of its points are undefined (`elfin_teleop_api.cpp:366`,
  a comparison with `cart_duration_`, which is infinite); so is the time of the one
  point `joint_teleop` sends for a joint at its limit. `GoalsSound` asks for
  rising times and short ways when the speed is positive. Negative speeds, which
  `set_vel` takes as well, are not modelled; with one, `home_teleop` sends a single
  point with a negative time.
- `ec_reconfig_slave` ignores whether FMMUs were written (`ethercatconfig.c:1592`), and
  `handleErrors` then makes the slave operational without them; the working counter
  stays short. `OperationalMapped` excepts a slave to which the write did not arrive
  (`missed`). After the destructor's broadcast, which may ask a slave in PRE_OP for
  SAFE_OP, another one can get there; the property ends with the broadcast.
- On a redundant port with a frame missed there are more such cases: with the
  dummy lost the answer on the secondary socket is dropped, and `ecx_srconfirm` has
  every slave execute the datagram a second time; with a cut line and the second
  half lost, half an answer is returned; a dummy that comes after its wait is taken
  for the frame sent again (`nicdrv.c:503-541`).
- A frame stored by another thread after its index was given back leaves that index
  received for good, and nothing in the code takes it back; when the ring has no
  empty one left, `ecx_getindex` gives out the next, in use or not
  (`nicdrv.c:233`).
- A working counter is taken at the wrong offset when the frame with the clocks
  is the lost one (`ethercatmain.c:1935`).
- `ecx_FOEwrite` takes a busy slave for success; `ecx_SoEread` and
  `ecx_SoEwrite` do not compare `fragmentsleft`; `ecx_SDOwrite` and
  `ecx_readOE` go on after an unanswered request; `ecx_readODlist` may miss a
  fragment; `ecx_EOEsend` does not end with mailboxes of less than one block.
- `ecx_EOEreadfragment` leaves out a fragment that does not fit the buffer and
  reports the shorter frame as received (`ethercateoe.c:609`); `ecx_EOErecv`
  takes every EoE message for a fragment, also a late answer to a request for
  the IP address.
- The EEPROM cache keeps zeros when all retries fail, and is not told of writes;
  `eep_pdi` changes although its datagram was lost.
- `ByteCount` is not reset between FMMUs, so with three data sync managers of a
  direction the second FMMU is too long; the last segment overflows when there
  are more than `EC_MAXIOSEGMENTS`; complete access does not correct unused
  types of SM2 and SM3.
- The loops that place FMMUs (`ethercatconfig.c:921`, `:1053`) are bounded by the sync
  managers (`EC_MAXSM`, eight) and not by `EC_MAXFMMU` (`ethercatmain.h:37`), four: a
  slave whose data areas need a fifth writes it behind the array. The slaves of `bus`
  need at most four.
- The port a slave is entered by is the one with the lowest stamp, compared as signed
  numbers (`ethercatdc.c:339`): wrong for a clock that passes 2^31 while the frame is
  behind its slave (`NoWrap`). Delays are wrong behind a split at a slave without a clock, or at one that is
  entered by another port than 0, since `ecx_parentport` tries the ports in the
  order 3, 1, 2, 0 in any case (`ethercatdc.c:219`); a lost read of a
  slave's time starts its pulses in the past.
- A service that `read` runs may take an axis out of position mode and back again before
  `write` looks at its mode (`elfin_hardware_interface.cpp:470`); if it was moved in
  between, the joint's command is still what it was, and the axis goes back. `NoLurch`
  compares with the last time `write` or an activation aligned the command.
- A joint that the yaml does not name goes with axis 2 of its module
  (`elfin_hardware_interface.cpp:482`), and zeros more than a turn and a half off
  are folded once only.

## 5. Proofs

`ElfinServo_proofs` proves, for any set of modules, positions, services and any
number of faults, from `ServoAssumption` (non-empty modules, home a position,
flags Boolean):

- `TypeCorrect`, and `ServoInvariant`: the inductive invariant `ServoInv`;
- from it `AlwaysQuietWhenIdle`, `NeverJumps` and `RisesPaired`.

The properties are not inductive. `NoJump` needs that the targets are the actual
positions on every rung (`TargetsSynced`), but for axes caught moving during the
copy, which survives a step because nobody
else writes targets while a service runs (`ThreadsOwned` keeps threads inside
their service, and `HwWrite` outside) and because an axis that moves moves to
its target. `PairedRise` needs that an axis found switched on stays so until the
last rung (`RungHeld`), which rests on its controlword, and so on the pairing of
the two axes' words (`WordsPaired`). `QuietWhenIdle` is `WordsPaired` and
`PoseConfined` at the place where all threads are done.

`Image_proofs` proves, for every width and every set of bytes and words,
`ImageInvariant` (the output word is the last word written, spliced with a write
in progress; the bytes read so far belong to frames received since) and from it
the four action properties, `SlaveSeesWholeWords` (`LowByteAtomic`) among them:
words that differ in the lowest byte only, as the controlwords do, are never
seen half written.

It also proves, for every tree of slaves and whatever is lost, that the search
of `ecx_config_init` finds each slave's parent (`ParentsRight`). A tree is any
numbering in which a frame passes the whole of one branch before the next, with
branches at different ports (`BusAssumption`). A slave has one open port more
than slaves hang on it (`Degree`), so what the search counts back to slave `a`
is how many more slaves hang on those from `a` on than there are (`Counted`, by
the least counterexample). Before the parent that is negative, since their
branches are complete, and at the parent it is not (`Found`). `ScanInv` carries
this through the scan: ports are read once, in the order of the slaves, and
neither mapping nor clocks touch them (`Keeps`).

`PulsesTogether`, there too: whatever the cycles, shifts and times, the first
pulse is a multiple of the cycle and the shift after zero (`Pulse`), for
`ecx_dcsync01` because its true cycle is a multiple of cycle 0 (`Cycles`).

`EcCycle_proofs` proves, for any number of slaves, any IO slave, any number of
drop-outs, with datagrams lost or not, `CycleTypeCorrect`, the inductive
invariant `CycleInvariant` and from it `IoStaysOut` and
`SupervisionDisturbsNot`. `Undisturbed` is not inductive: `handleErrors` acts on
states that may be seconds old. What holds is that a slave which was read below
OPERATIONAL (`Low`) stays there (`Sunk`) until this thread asks it to rise,
because every request that could raise it comes from this thread; that is
`ReadStill` for the slaves not yet come to and `Sunk` for the one being
reconfigured. A read state that leads to nothing but a request for OPERATIONAL
may be as old as it likes. `OperationalIsMapped` proves `OperationalMapped` from no
further assumption: with any datagrams lost, any number of drop-outs, slaves as late
as they like. Its invariant `MappingInv` says that a slave comes to SAFE_OP with sync
managers only, and follows a slave without FMMUs whose write was not tried in vain
(`Bare`): it is in SAFE_OP, or asked to be, only between the request of
`ec_reconfig_slave` and the write, and what the cycle thread has read of it for the
rest of the pass (`Ahead`) gives no reason to ask for OPERATIONAL (`Held`). A loss of
power between read and use does no harm, because it takes the address away.

The answers of the driver services need a second invariant, `AnswersInv`: how
far a service has got says what its modules were commanded (`OnCourse`), what a
polling pass has read so far still stands or is excused by a fault or by a
controlword under way (`SeenReads`), and how the drives of a module stand when
its thread is done (`SwitchedOn`, `ResetHeld`). It follows that the readings of
one pass, each of another moment, add up to the truth (`EnabledTruthful`), and
that `clear_fault` leaves every axis disarmed, the healthy ones included
(`ClearedIsDisarmed`).

`NicPort_proofs` proves, for any number of threads, slaves and buffers, any
layout of frames and whatever is lost or late, `PortInvariant`: an index in use
belongs to one place of one thread's stack, and every frame with it, in a socket,
in a thread's hand or in a buffer, carries the datagram now sent under it, or the
dummy's. From it follows `IndexesKept`; that a call finds an empty index while the
demand fits beside the leaked ones is a matter of counting: indexes in use are at
most the demand, since a thread other than the cycle thread holds one and the cycle
thread a layout. `RingInvariant` adds what is true of a redundant line (`Ring`): for
every place the line can be cut at and every point of `ecx_waitinframe_red`, which
side each frame comes back to and which slaves it has passed. With frames lost most
of that is gone, so it is stated for indexes not in `missed`; what is left for the
others is `Routed`: each frame anywhere has passed nothing, a half or the whole of the
line. From these follow `AnswerOwn` and `RedundantComplete`. The proofs rest on the
two assumptions of the module (section 2, NicPort): the invariants say nothing once an
index in use has been given out (`clean`), and on a redundant port threads take turns.
`ShortWhenMissing` proves `ShortIffMissing` for process data in one segment
(`OneSegment`: LRW, or LRD and LWR; the image of a few modules is far below the
limit of a datagram), with or without clocks and in both modes. `CountInv` says that
`wkc` is what the answers taken so far are worth, whole or half ones, `first`
included (`Tally`), which needs that a datagram keeps the command its segment was
sent with (`Made`). For more segments the sum over all of them stays with TLC.

`MailboxServices_proofs` proves four things. `ErrorsQueue`:
the ring of `ecx_pusherror` and `ecx_poperror` is a bounded queue; the invariant
is the ring without `%`, entry by entry. `FramesAreWhole`: Ethernet frames come
through the mailbox whole, for all sizes of mailbox, block, stamp and frames,
whatever is lost, repeated, late or refused. Its invariant `Frames` says of every
message on its way, in either direction, in a sync manager, a queue or a
buffer, that a fragment is a piece of the frame its number names, at the place
its offset says (`Messages`, `Piece`); of every receiver that it has a beginning
of one such frame (`Reading`, `Keeping`, `Hearing`); and of the sender that what
is left to send begins at a whole block (`Sending`). What a receiver appends
must then be the next piece, since the code compares the length it has with the
fragment's offset. `FramesAssumption` names what this needs of the surroundings:
frame numbers, 4 bits wide, do not come round; late answers to
`EOEsetIp` and `EOEgetIp` do not meet a receiver; and the buffer given to
`ecx_EOEreadfragment` holds a frame and its stamp. Section 4 says what happens otherwise.
`NoCallFails`: while no datagram is lost, no CoE call fails (`NoFalseAlarm`), for
all objects, mailbox sizes, programs and any number of emergency and error
messages at any moment. The invariant `Answering` says where the answer is: the
request is on its way or in SM0 and nothing but notices is in front of the
master, or the answer is in SM1 or the queue of the slave, behind notices and,
of a list, its other fragments (`Pending`, `Coming`). With it go the end the slave
has of a segmented transfer, byte for byte as many as the master has left and
with the toggle bit of the next request (`Uploading`, `Downloading`); that the next
request has another counter than the last, so that none is taken for a
repetition (`Counters`, `NotIgnored`); and that only a notice is ever asked for
again, so that no answer comes twice (`Repeats`): the code reads on at once after
a notice and takes an empty SM1 for a lost message. The hypothesis `Punctual`
asks that the counter takes more than one value, as the 3 bits of the header do;
that the slave answers in time and does not repeat a message in front of a newer
one; and that other services are not called in between. Without the second the
answer to a call that gave up is taken for the next one's.

`ServicesImplement` proves the refinement for the undisturbed case only; with lost
datagrams and repeats, the case in question, it is the run `services` that shows
`Implements`, with one of them. Under `Punctual`, and while no datagram
is lost, the specification of the mailbox services implements `ObjectService`
(`Implements`), for every dictionary, object, buffer and mailbox size. The invariant
`Truthful` adds to `Answering`, which says that an answer comes, what is in it. Of a
read, the master's buffer, the segment under way and what the slave still holds are
the object, in this order (`ReadOn`, `ReadTrue`); of a write, what the slave has, the
message brings and the master has left are all of the input, and the write is not
yet applied (`WriteTrue`); an answer to the last segment means that it is
(`ReplyTrue`). The fragments of an object list come in the order of the dictionary,
each in its place (`ListTrue`, `InOrder`), so that what `ecx_readODlist` keeps of them
is in order also when its buffer was full before the last. Padding a last
segment to seven bytes and taking the unused ones off again gives the segment back
(`PaddedFirst`). The step by which the slave applies a write is the service's `Carry`,
the step that ends a call its `Return`, every other step a stutter. `Strangers`
covers programs that call FoE, SoE and EoE: for them the service never leaves its
initial state. Besides `Punctual` the theorem has the hypothesis `Orderly`: writes
have at least one byte, the slave lists its dictionary by ascending index, and the
numbers of calls of all programs have a common bound, for the abstract `MaxCalls`.

`Eeprom_proofs` proves, for any number of slaves, EEPROM contents and calls, and
as long as one retry of each datagram is answered (`trouble`), that the cache is
honest (`CacheIsHonest`) and that control is given back (`ControlIsReturned`).
`Inv` says that the control is where `eep_pdi` says but during a hand-over
(`Owners`, `Held`), and that from the wait for a ready EEPROM on the only command
in progress is the look-up's own (`Lookup`); without that, a word asked for by a
call that gave up would be stored under another address.

`HardwareInterface_proofs` proves, for any robot, names, counts and zeros,
`AxesAreBound` and `NothingLurches`. Exactly one place in the yaml for every name
(`NamedOnce`) makes the joints' axes distinct (`OwnAxis`); from the first reading
on a joint nobody has commanded stays commanded to its home (`AlignedHome`),
through lifecycle transitions, mode switches and cycles, because `read` and
`write` use the same zero.

`ElfinGui_proofs` proves, for any buttons and other callers, `ReleaseLeavesStop`:
with no button held, each motion that is queued, asked for or sent has a stop
behind it, which the main thread cannot lose between queue and node
(`QueuedStop`, `AskedStop`, `SentStop`).
`GoalsAreSound` proves `GoalsSound` for any number of joints, limits, steps,
colliding configurations and callers, any speeds, zero included, and wherever the
arm is. The invariant `Working` says what a callback has made of its points so far:
they move smoothly from the seed to where `position_tmp` is (`End`), a joint
teleoperation only its joint and straight on towards the limit (`JointRun`,
`Straight`), a homing on the line from the seed to zero (`HomeWork`); no callback
begins with points of another. A joint teleoperation that goes away from its limit
(`Astray`) never comes to send anything, and that is all there is to say of it.
That one step of a homing moves no joint further than the speed is a fact about
integer division (`ScaledStep`).

Model-checked only, and why:

- `ServiceAnswers`, `DrivesReturn`, `DestructorReturns`, `CallsReturn` (twice),
  `ReleaseStops`: liveness, beyond the prover.
- `SiiRight`, `SizesRight`, `ImageSound`, and `DelayRight`, the first half of
  `ClocksAgree`: each compares what a loop of the code has summed up or decoded
  with a definition over the same data, a fold or a recursive function. The library's induction theorems need an
  operator as a parameter, which the provers cannot instantiate. `Counted` in
  `Image_proofs` and `Largest` in `ElfinGui_proofs` show the way round it, by
  the least counterexample (`Least`), for a statement about cardinalities or
  given data; what a recursive definition computes is still out of reach.
- `TransfersWhole`, and `Implements` when datagrams are lost: their invariants relate
  the bytes of a transfer of any length at both ends with all messages between them,
  those of calls that failed included, which the service has to tell from the
  answers by counter and toggle bit alone. Then `Implements` needs a bound on the
  losses: with as many in a row as the mailbox counter has values (7 in the code; TLC
  finds it with 2 and 2), a new request has the counter of the last one the slave
  took, and is ignored as its repetition.

## 6. Not modelled

- The brake services `open_brake_cb` and `close_brake_cb`
  (`elfin_ethercat_client.cpp:848-1118`). They run on the executor's thread, one channel
  after the other: where the status word shows neither a fault nor an enabled motor,
  they write mode 0xb by SDO and into the image, write 0x3023 or 0x3033, and read the
  drive's state until it answers, in two phases of at most 2 s each. When a channel
  fails, its mode is set back to 8 and the answer is false, with the brake of the
  channel before it as it was left; `open_brake_cb` leaves mode 0xb behind when it
  succeeds, until `setEnable` or `close_brake_cb` writes 8. The results of the SDO
  writes are ignored. `ElfinServo`'s properties are about drives on which no brake
  service is running.
- The IO client: SDO transfers whose results are ignored, nothing kept; the
  transfers themselves are `CoE`'s.
- The driver node, parameter checks of constructors and the read-only queries.
- What `enable_robot` of the API node does behind its first wait, which it never
  reaches.
- Display in the GUI, and its buttons for digital outputs.
- `trajectoryScaling`, unit conversion, inverse kinematics: floating point.
- Opening sockets, printing, ENI tables, SOEM's ports to other platforms and its test programs.
- MoveIt, the controller manager and the trajectory controller beyond what the
  code asks of them; URDF, launch files, message definitions.

## 7. Plan

1. `TransfersWhole` for FoE and SoE, on the lemmas of `Frames`; then the step that
   `CoE` and `ObjectService` share, on those of `Answering`.
2. The brake services with partial failure.
