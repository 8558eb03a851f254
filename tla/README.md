# Verification of Mu-Tegra

TLA+ models of the parts of the Mu-Tegra UEFI firmware (Tegra 3 tablets) that
keep state, take decisions or meet interrupts, model-checked with TLC and, where
a result should hold for every size, proved with TLAPS.

Paths below are relative to `src/Silicon/Nvidia/NvidiaPkg` unless they begin with
`src/`.  `PROJECT.json` maps each definition that models code to its lines.

## 1. The system

The firmware is a set of UEFI drivers, libraries and applications that run on one
processor.  Concurrency comes from task priority levels: application code runs at
`TPL_APPLICATION`, timer handlers and notification functions interrupt it at
`TPL_CALLBACK` or `TPL_NOTIFY`, interrupt handlers run at `TPL_HIGH_LEVEL`, and the
devices (keyboard controller, timers, microsecond counter) go on by themselves.
Calls that raise to `TPL_NOTIFY` for their whole body are atomic with respect to
all but interrupts.  The other source of hard behaviour is failure: any boot
service may fail, the machine may be reset between two variable writes, and
network peers answer as they like.

### Inventory

| Component | Source | State | Operations | What is hard |
|---|---|---|---|---|
| Keystroke queue | `Drivers/TegraKeyboardDxe/TegraKeyboardTextIn.c` 1-100 | `EFI_KEY_QUEUE`: buffer, head, tail | push, pop, emptiness test, reset | wrap of both indices, overflow |
| Keyboard driver protocols | `Drivers/TegraKeyboardDxe/*.c` | three queues, `NotifyList`, toggle state, events | ReadKeyStroke(Ex), Reset, SetState, RegisterKeyNotify, UnregisterKeyNotify, WaitForKey, the poll, the notify handler | a notification function calls the driver again; two TPLs fill and drain one queue |
| Keyboard driver binding | `Drivers/TegraKeyboardDxe/TegraKeyboard.c` | context, four events, timer, opened protocol, installed protocols | Start, Stop | each step may fail; events keep the address of the context |
| Keyboard controller access | `src/Platforms/Lenovo/VenusPkg/GPLLibrary/TegraKeyboardDeviceImplLib` | the KBC FIFO (hardware) | GetKeys | reading a register pops the FIFO; the controller scans on |
| Button services | `Drivers/GpioButtons/GpioButtons.c`, `Library/MsBootPolicyLib` | `gBsp`, button state, two key registrations | ButtonsInit, KeyNotify, the two queries, clear | a press between two calls; failure half-way |
| Priority boot and pre-boot checks | `Library/DeviceBootManagerLib` | retry count, two sensor flags, two boot requests | MsPreBootChecks, DeviceBootManagerPriorityBoot | two sensors share a retry count; flags of earlier rounds |
| Boot options and variable lock | `Library/MsBootOptionsLib`, `Library/DeviceBootManagerLib` | BootOrder, Boot####, BootNext, OsIndications, variable policies, MsBootNext | register defaults, lock at ReadyToBoot, boot completion | reset between two writes, failed writes, changes by an operating system |
| Timer protocol | `GPLDrivers/TegraTimerDxe` | TMR1, period, ticks, handler | RegisterHandler, Set/GetTimerPeriod, interrupt handler, ExitBootServices | the interrupt comes between two register accesses |
| Delay and performance counter | `GPLLibrary/TegraTimerLib` | a free-running 32-bit counter | MicroSecondDelay, conversions | wrap of the counter |
| DFCI settings request engine | `Applications/DfciMenu/DfciRequest.c` | response, HTTP status, logic state, NIC policies, TLS certificates in a variable | one request over every NIC with DHCP, retries and redirection | retries, timeouts, partial failure, reset in between |
| DFCI settings update | `Applications/DfciMenu/DfciUpdate.c` | mailbox variables, result code | build requests, apply the answer | one variable of several fails |
| DFCI menu, recovery driver, USB search | other files of `Applications/DfciMenu` | form state, package found | callbacks, USB search, reboot | status of the last handle wins |
| Front page | `Applications/FrontPage` | token and menu shown, `mFormMap`, form state, `mTerminateFrontPage`, `mResetRequired`, BootNext, OsIndications, password, variable policy | password prompt, menu, form loop, callbacks, the ways out | a callback takes back what another has asked for; the page may be left while the policy is off; a power cut between the variables |
| Early console | `Library/FrameBufferSerialPortLib` | cursor in memory behind the framebuffer | write, scroll | uninitialised cursor, wrapped lines |
| Early error records | `Library/MsWheaEarlyStorageLib` | a byte store with a checksum, in memory that outlives a reset | find a slot, add a record, write the header | the power is cut between two bytes; sizes in 8-bit arithmetic |
| System integrity policy | `Drivers/SystemIntegrityPolicyProvisioningDxe` | a file per file system | open, delete, create, write, close on each notification | a cut or a failure leaves no file or a short one |
| Boot sequence policy, memory map, secure boot keys, display, themes, PrePi, loader, SMBIOS, platform builds | see `PROJECT.json` | constant tables | one pass | nothing interleaves |

### How the components interact

- The keyboard controller fills its FIFO; `KeyboardTimerHandler` calls `GetKeys`,
  which hands each key to `PushEfikeyBufTail`; readers pop the queues, and
  `KeyNotifyProcessHandler` calls what was registered.  `KeyboardPath` composes the
  first three, `TegraKeyboard` models the rest, taking the queue as the FIFO that
  `KeyQueue` is proved to implement.
- `GpioButtons` registers two key notifications with the keyboard's protocol and
  publishes the button state; `MsBootPolicyLib` reads and clears it for
  `DeviceBootManagerPriorityBoot`, which BDS calls after `MsPreBootChecks`.
  `BootDecision` composes buttons, checks and priority boot.
- BDS registers the default options, signals ReadyToBoot before each attempt and
  reports the end of each; `BootVariables` runs this over any number of boots.
- The DFCI menu, the recovery driver and the shell application `DfciCheck429` start the
  same request engine, which hands each answer to the JSON update; the menu's USB
  search hands its file to the same update.  The update writes mailbox variables
  that the next boot reads, so the menu ends in a restart.  `DfciMenu` composes the
  callers, `DfciRequest` and `DfciUpdate`, with a reset at any step.
- Errors met before memory is up are kept in the early store; the report driver, which
  is not in the repository, empties it in the DXE phase.  BDS, or the front page it
  starts, connects the controllers: file systems appear, and the policy driver runs
  on each.  The front page ends in a reset or in a boot, and an operating system
  changes BootNext, OsIndications and the policy file for the next boot.
  `BootStages` composes `WheaStore`, `SiPolicy` and `FrontPage` over any number of
  boots, with a power cut at any step.
- The interrupt of TMR1 comes into the delay loop as into anything else;
  `TegraTimers` composes the two.

### Correctness, by component

- queue: a FIFO that forgets only its oldest entry; nothing duplicated, reordered;
- keyboard: no keystroke left without a handler, no registration skipped, a
  signalled WaitForKey means a readable key;
- binding: installed protocols are usable, failing starts and stops keep no device
  protocol open, the timer of a stopped context does not fire;
- buttons and checks: no boot on a bad reading, no shutdown without one, one press
  one request, the latest press kept, what is published is alive;
- boot variables: no duplicated default option, defaults restored, the lock
  complete;
- front page: settings are for a user who gave the password, a cell opens its own
  form, the variable policy is never off outside the page, a choice for the next
  boot is booted once, a reboot to the page arrives there;
- early records: an appended record is never changed, dropped or doubled, and a caller
  told so can rely on its record;
- policy file: whole after a pass without failures;
- timers: a stopped timer stays stopped; a delay away from the wrap of the counter is
  exact and ends, and one that is too short has its target behind the wrap;
- DFCI: a request that was accepted is not made again, the user's certificates and
  the network policy come back, the message to the user agrees with what was set.

## 2. Modules

| Module | Kind | Stands for |
|---|---|---|
| `KeyFifo` | abstract | what a key queue promises |
| `KeyQueue` | detailed | the ring buffer; implements `KeyFifo` |
| `KeyQueueProofs` | proofs | type correctness and the refinement of the ring, and the order of the keys from the controller to a reader, for every size |
| `KbcDevice` | component | the controller's FIFO and `GetKeys`, register read by register read |
| `KeyboardPath` | composition | `KbcDevice` into `KeyQueue` |
| `TegraKeyboard`, `MCTegraKeyboard` | component, instance | a started keyboard |
| `KeyboardProofs` | proofs | a started keyboard, for any queue length, keys and registrations |
| `KeyboardBinding` | component | Start and Stop |
| `BindingProofs` | proofs | the driver binding, for any number of starts |
| `PriorityBoot` | component | button driver, policy library, priority boot |
| `PreBootChecks` | component | the power and thermal loop |
| `BootDecision` | composition | `PreBootChecks` and `PriorityBoot` |
| `BootVariables` | component | default options, lock, completion, over many boots |
| `BootVariablesProofs` | proofs | its four invariants, for any number of option variables and boots |
| `BootDecisionProofs` | proofs | pre-boot checks and buttons, for any number of retries, presses and calls |
| `RecordLog` | abstract | what the store of early error records promises |
| `WheaStore` | detailed | the store, a header byte at a time; implements `RecordLog` |
| `SiPolicy` | component | the policy driver's pass over one file system |
| `FrontPage` | component | the settings application, from BDS to a reset or a boot |
| `BootStages` | composition | `WheaStore`, `SiPolicy` and `FrontPage`, boot after boot |
| `BootStagesProofs` | proofs | the store implements the log, for every capacity and set of records; the properties of the composition, for every set of options and limit |
| `TegraTimer` | component | the timer driver and TMR1 |
| `TegraDelay` | component | the delay loop and the counter |
| `TegraTimers` | composition | `TegraTimer` and `TegraDelay` |
| `TimerProofs` | proofs | the timer, for every set of handlers and periods; the delay loop, for every width of the counter |
| `SettingsRequest` | abstract | what a request for settings promises the server and the user |
| `DfciUpdate` | component | the elements of a JSON text and the mailboxes they set |
| `DfciRequest` | component | one network request: certificates, NICs, HTTP, main logic |
| `DfciMenu` | composition | who starts a request, the USB search, restart and reset; implements `SettingsRequest` |
| `DfciProofs` | proofs | types, certificates, accepted POSTs, NIC policies, messages, lifetimes and the refinement, for any number of NICs, tries and drives |

State and actions follow the code.  A function that runs at `TPL_NOTIFY` is one
action; a function that can be interrupted is one action per call it makes, with a
program counter `pc` that names the statement about to run.  Operators that the
properties do not look at (logging, drawing, device paths) are left out.

- **KeyQueue**: `buffer`, `head`, `tail` are the fields of `EFI_KEY_QUEUE`;
  `PushEfikeyBufTail`, `PopEfikeyBufHead`, `IsEfikeyBufEmpty` are its functions.
  The refinement mapping reads the slots from head to tail as a sequence.
- **KbcDevice**: `ReadFirstWord`, `ReadSecondWord` are the two turns of the loop
  over `i`; the second reads `KBC_KP_ENT0_0 + 4`, which is ENT1 again.
- **TegraKeyboard**: the two TPL_CALLBACK handlers are `PollDevice` and
  `HandlerPop`/`HandlerWalk`/`HandlerReturn`; between a call of a notification
  function and its return the function may make any call of the driver, except to
  unregister its own registration: `GetNextNode` then reads a freed record.
- **KeyboardBinding**: every step of Start that may fail is an action; contexts are
  numbered in the order they are allocated, so that an event can outlive its own.
- **PreBootChecks**: `pc` names the statement; the answers of the sensors and of the
  mitigation are inputs.
- **PriorityBoot**: BDS reads the buttons twice and clears them; `KeyNotify` may run
  between any two of the three.
- **BootVariables**: non-volatile variables survive `Reset`, which may come between
  the write of BootOrder and that of Boot####; `faulty` says whether writes of this
  machine may fail.
- **WheaStore**: the used part of the memory is counted in records and a checksum is
  the data it was computed from.  `WriteEntry` is the loop over the record's bytes,
  which a cut leaves `Blank` behind the used part; `toWrite` holds the parts of the
  header still to be written, and `HeaderByte` writes one of them.  `MaxSize`,
  `MaxDataCount` and the three bounds keep their 8 bits.
- **SiPolicy**: `siPc` is the call about to be made; each may fail.  The file is
  "absent", "part", "new" or "other".
- **FrontPage**: `pagePc` is the step of `UefiMain` or of a callback.  One action is the
  stretch between two choices of the user or of a service.  `formMap` and `topMenu` are
  the index columns of `mFormMap` and the cells made from them; `request` is the
  `ActionRequest` that the browser will act upon after the callback, which is when
  `MasterFrameNotifyCallback` may come in between.  `locks` is what `IsPostReadyToBoot`
  keeps in its static variables: "open" whenever its read fails, whatever the stage.
- **BootStages**: `stage` is "pei", "dxe" or "bds"; `Restart` forgets what is in memory
  and keeps the store, the file and the variables.
- **TegraTimer**: `ptv` is the enable bit and preset of the register; the
  interrupt handler may run between any two accesses of `SetTimerPeriod`.
- **TegraDelay**: the counter runs modulo `Modulus` (2^32 in the machine), and a
  bounded number of ticks passes between two reads: more than one, so that a read may
  step over a value, as it does when an interrupt comes in between.
- **DfciUpdate**: `table` is the response table `JsonLibParse` was given, `changed`
  whether an element has returned EFI_MEDIA_CHANGED; the three mailboxes are one
  flag, whether one of them holds a packet.
- **DfciRequest**: `pc` names the step.  One action is the stretch between two answers
  of something outside: a boot service that may fail, a timeout, a response.  Of
  a response the model keeps the status code, whether it has a Location, whose
  headers are held and whether the body held is this operation's or an older
  one's.  `nic` is `NicIndex + 1`.  `tls` is the certificate variable and
  `oldCertificate` is `mOldCertificateList`.
- **DfciMenu**: `StartRequest` is `IssueDfciNetworkRequest` of the menu and of the
  recovery driver, and the entry of `DfciCheck429`, which has no certificates to
  exchange and no message; `LocateDrives`, `TryDrive` and `EndOfDrives` are the loop
  of `FindUsbDriveWithDfciUpdate`; `RebootToFrontPage` and `Reset` forget the memory
  and keep the certificate variable.

## 3. Runs

| Run | Module | Bounds | Why they are enough |
|---|---|---|---|
| `keyboard_path` | `KeyboardPath` | 3 usable slots, a controller FIFO of 3 entries, 7 keys | both queues overflow and both indices wrap; keys are numbers, so any loss or reordering shows |
| `keyboard` | `MCTegraKeyboard` | 2 registrations, 1 function, queues of 2, 3 presses of plain, shifted and partial keys | queues overflow; a registration comes and goes while the list is walked |
| `binding` | `KeyboardBinding` | 3 starts | a failed start, a stop that fails and a restart fit in one behaviour |
| `boot_decision` | `BootDecision` | 4 retries, 3 presses, 3 calls | each sensor can fail, recover and fail again; a press can fall before, between and after the reads of two calls |
| `boot_variables` | `BootVariables` | option numbers 0..3 | both defaults, an option of an operating system and a free number; any number of boots |
| `boot_stages` | `BootStages` | 2 records in a store of 2 slots (182 bytes, header 8, record 54), 2 boot options, 2 attempts at the password | the store fills and a third record is refused; a choice replaces another before it is booted; the last attempt and one before it; any number of boots, cuts and visits of the page |
| `dfci` | `DfciMenu` | 2 NICs, 2 tries, 2 drives | a second NIC after a first that failed or succeeded, a retry that follows and one that is not left, a drive that follows another; a parse may set any number of packets and there is any number of requests, by any caller, with resets |
| `timers` | `TegraTimers` | counter modulo 6, delays to 5, horizon 6, 2 functions, periods 0..2, 2 missed, 2 ticks between two reads | every start of the counter, delays over its wrap and reads that step over a value of it; a timer turned off and on again with a late interrupt |

Each property of these runs has a mutant in `PROJECT.json`: an operator that stands
beside the definition it alters, with which TLC finds the property violated.

### What the properties say

- `ImplementsFifo`: each step of the ring is a step of the FIFO.  `ReadInOrder`: keys
  reach the reader in the order typed, though the controller loses some.
- `NoLostWakeup`: a keystroke in the notify queue always has its event signalled or
  its handler running.  `NothingOwedWhenDone`: when a walk ends, each registration
  that matched and stayed was called.  `WaitForKeyTruthful`: a signalled
  WaitForKey means that the next read finds a key, partial keys skipped.
  `NotifyDelivered`: a matching keystroke reaches the function, whatever readers do.
- `InstalledIsUsable`, `DeviceHeldWhileInUse`, `NoPollAfterStop`, `StartedIsPolled`: what
  failing starts and stops may leave behind.
- `NeverBootsOnBadReading`, `ShutdownIsJustified`, `Terminates`, `OnePressOneRequest`,
  `LatestPressKept`, `PublishedIsLive`: see the comments in the modules.
- `NoDuplicateDefaults`: of each default option BootOrder lists one variable, in one
  place, whatever reset or deactivation came between two registrations.
  `DefaultsRestored`, `LockIsComplete`, `LockedBootNextIsAbsent`.
- `ImplementsRecordLog`: each step of the store is a step of the abstract log, with a
  cut between any two bytes: what the reader accepts are the records that were
  added, in their order, and a caller that was told EFI_SUCCESS finds its own.
- `PolicyWhole`: after a pass none of whose calls failed the file is this firmware's
  policy and nothing else, whatever an earlier pass or an operating system left.
- `EnforcedOutsidePage`: the variable policy, turned off to set the secure boot keys,
  is on wherever anything but the page runs, though a failure, a cancelled dialog or
  another form may come after it was turned off, also after ReadyToBoot in forms that
  are open because the signal could not be read.
- `FullMenuIsAuthorised`: settings are shown to a user who gave the password in this
  very page, or when none was set, also where `GetAuthToken` fails with a token already
  obtained.  `EntryShowsItsForm`: each cell opens the form that it names, whichever
  entries were removed from either menu.
- `ChoiceIsBootedOnce`, `AskedPageComesNext`: BootNext never holds a choice that was
  booted, unless deleting it failed, and a granted reboot to the page comes before any operating system,
  though BootNext may have been chosen in another form of the same page.
- `DelayIsExact`: unless its end comes within the ticks of one iteration of the wrap,
  where the read that should end the loop may be one of the next turn.  `DelayEnds`,
  under the same condition and also for a target behind the wrap.  `EarlyOnlyAtWrap`:
  however often the counter wraps under a loop and whichever values it misses, a
  delay that is too short has its target behind the wrap, and is then none at all.
- `OffStaysOff`: a late interrupt does not turn the timer on again: not inside
  `SetTimerPeriod`, not after a period of 0, not after ExitBootServices.
- `CertificatesRestored`: a request that has ended leaves the TLS certificates it
  found, whatever step failed, unless reading or writing back the list failed.
  `AcceptedOnce`: a POST answered with 202 is not sent again, by the retries or over
  another NIC.  `NicRestored`: a NIC that was given DHCP has lost it at the end.
  `ImplementsRequest`: packets are written only of a stage whose POST the server has
  accepted in this very request, or of a file; no stage is accepted once some were;
  and the message to the user, the only one, agrees with what was written over both
  parses (`MessageIsTrue`, which follows).  `NothingFreedIsUsed`: the URL of a GET, a value of the POST's headers, is
  alive at each attempt, and no wait polls a protocol whose child is gone.
  `RequestEnds`: a request ends whatever the server answers.

### Where the code and its comments disagree

| Run | What TLC shows |
|---|---|
| `kbc_loss` | `GetKeys` takes words off the controller that no reader ever gets: ENT1 is read twice and the first reading is dropped |
| `binding_stop` | a successful Stop leaves events open whose context is freed: an else-if chain closes only the first |
| `dfci_response` | a GET without content is taken to have been answered by the body of an earlier operation: the comment says a response is required, the test finds one that is still held |
| `timer_called` | the handler compares the whole register with bit 31 and so never calls the registered function |

Met while modelling, without a run.  Those that a property over the model would
simply state to be false stand under `hazards` with a note; the others are here
only.

- keyboard: the notification function is called several times for one press when
  several registrations match (`TegraKeyboard.c:164` queues a copy for each);
  `KeyboardSetState` sets one bit of several; two callers of the same registration
  share one handle;
- boot: after a successful mitigation in the last round the machine is shut down
  without another power reading; `ButtonsInit` returns an error its header excludes; `UEFIShell = TRUE` overwrites
  what was read; a BootNext whose deletion failed is locked;
- timers: `GetTimerPeriod` answers 0 for a timer that runs; a delay whose target wraps
  returns at once, where `TegraTimerLib.c:29-32` promises a minimum; a delay whose target
  is among the last values before the wrap need not end: with a counter modulo 6, a
  delay of 5 from 0 may read 0, 2, 4, 0, 2, 4 and so on, since interrupts run between
  two reads (2^32 microseconds for each turn in the machine); `GetTimeInNanoSecond` divides by the counter's value where its
  frequency is meant;
- early records: only a read looks up the address of the buffer, so that a write or a
  clear that came first would go to address 0 (the writer in the repository reads
  first); a header whose checksum is wrong is rebuilt by the report driver only;
- front page and policy driver: `UefiMain` does not look at the result of
  `InitializeFrontPage`, nor the policy driver at that of `Delete`; the failure of either
  is an action of the models;
- front page: `IsPostReadyToBoot` (`FrontPageConfigAccess.c:43-51`) takes any error of its
  `GetVariable` for a boot before ReadyToBoot and keeps that.  The indicator's driver,
  `MuVarPolicyFoundationDxe`, is built (`NvidiaPkg.dsc.inc:528`) and is in no FDF of the
  repository, so the password and key forms stay open after ReadyToBoot in an image
  made from these.  A failed deletion of BootNext (`FrontPage.c:1498-1508`) is an ASSERT
  only: a release build boots the option and keeps it for the next boot;
- buttons: a press between the read of the state and its clearing is lost; after a failed
  `ButtonsInit` the key notification that stays registered writes through a freed `gBsp`;
- DFCI: a search whose last handle has no device path, or whose file has no
  information, ends with EFI_SUCCESS and a buffer that was never set; an HTTP child
  that cannot be configured stays on the image handle, and no other can be made;
  the EFI_NOT_FOUND of a URL that names no host is shown as "no updates"; after a
  reset in the middle of a request the DFCI certificate stays in place of the user's.
  Where there was no certificate before, the DFCI one stays also without a reset.

### Fairness

- `TegraKeyboard`: weak fairness of the dispatch of a signalled event and of the
  steps of the handler: the DXE core dispatches pending events whenever the TPL
  drops, and every notification function returns.  None of the readers or of the
  poll.
- `BootDecision`: weak fairness of the initialisation and of the checks: one thread
  runs them, and the cooling pause ends with its timer.  None of presses.
- `DfciMenu`: weak fairness of the steps of a request and of those of the USB search:
  one thread runs them to their end, and each of its waits has a timeout.  None of
  the callers, of the restart or of resets.
- `BootStages`: none; its properties are of safety, and a user may leave the page open.
- `TegraTimers`: weak fairness of the loop of a delay and of the oscillator, whose
  clock does not stop.  None of interrupts or callers.

### Deadlock

`CHECK_DEADLOCK FALSE` stands where a bound ends the behaviours (`MaxStarts`,
`MaxPress`, `MaxCalls`, `Horizon`) or where the code itself ends: a verdict of the
checks, a crash of a failed Start.  `dfci` and `boot_stages` check deadlock: a request, a
form or a boot can always go on or be reset.

## 4. Proofs

`KeyQueueProofs` (TLAPS), from `KeyMaxCount > 1` and `ZeroKey \in Key` only:

- `TypeCorrect`: `Spec => []TypeOK`.  `TypeOK` is inductive: the new head and tail are
  successors modulo `KeyMaxCount`.
- `Refinement`: `Spec => ImplementsFifo`.  The invariant is `TypeOK`; the argument is on
  the length `(tail - head) % KeyMaxCount` of the mapped sequence, one lemma for each
  of push into a queue with room, push into a full queue, pop and reset.  The
  arithmetic of the wrapped index is stated once and cited.

- `KeysComeInOrder`: `PathSpec => []ReadInOrder`, with `KeyNumbers` besides: for every size of ring and
  every depth of the controller's FIFO.  `PathInv` adds to `ReadInOrder` that what the
  controller holds is in order, too, and behind every key of the ring and the one
  read last (`Before`): so a key that `GetKeys` reports is behind whatever was pushed
  before, also the second of two words, which may come from another entry.
- `PathKeepsTheFifo`: the ring implements the FIFO inside this composition as well.

What TLC checks on a ring of three usable slots holds for every size, 256 in the
source included, and is what lets `TegraKeyboard` use a sequence for each queue.

`BootVariablesProofs`, from `BoundsAssumption`: `DefaultsListedOnce`, `DefaultsComeBack`,
`LockCoversTheOrder`, `NoLockedBootNext`.  The first two rest on `OrderInv`: BootOrder has a
number in one place only (`Distinct`), a default option has one variable (`OneOfEach`) and
an unlisted variable is no default unless it is the one under way, between the write
of the variable and that of the order (`NoOrphan`, `Writing`); and what registration has
passed is in the order (`Present`).  The other two rest on `LockInv`.  `Without`, the order
less some numbers, is a recursive function; what it keeps is shown for the shortest
order that would be a counterexample (`LeastExists`, `WithoutProperties`).

`BootDecisionProofs`, from `Retries \in Nat` only, about the composition of checks and
buttons (`DecisionSpec`): `BootsOnGoodReadings` and `ShutsDownOnBadReading`.  Neither
property is inductive: a verdict is made from the flags, not from the readings.  The
invariant `ChecksInv` adds that each flag always tells about the last reading of its
sensor (`FlagsFollowReadings`), that a verdict follows the flags, and that rounds and
retries add up, which bounds `RetryCount` from below.  `DecisionStep` shows that no step
of the composition is more than a step of the checks.  `ChecksRunDown` is what `Terminates` needs
besides fairness: a round takes five steps at most and spends a retry, so a verdict
comes within `6 * Retries + 7` steps (`StepsToVerdict`) even when the sensors take turns
in being bad.

Its second part is about the buttons, from no assumption at all on the bounds: `SettingsAskedOncePerPress`,
`LastPressPublished`, `ServicesPublishedLive`.  `InitProgress` says what each step of
`ButtonsInit` has established, `LivePressKept` that a live block holds the last press, and
`PressesCoverCalls` that a press of volume up that is stored and not yet read is one
more than the calls that have read one; between the first read and the clear the
stored press is already spent, and that is the case a test would hardly reach.

`DfciProofs`, from `RequestAssumption` and `MenuAssumption` for the types and the refinement,
and from no assumption on the number of NICs, tries and drives for the rest:

- `CertificatesComeBack`.  `CertificateInv` says at which steps the machine has its own
  certificates and nothing is saved (`Untouched`) and at which the saved list is theirs
  (`Saved`); only the four steps of the exchange lead from one to the other.
- `PostedOnce`.  `AcceptedInv`: once a POST was accepted, either `DoneProcessing` is set,
  which ends the loop over the NICs, or the answer is on its way to the main logic
  with a success and a 202 that nothing retries (`Settling`).
- `NicsComeBack`.  `NicInv`: no NIC but the one of this round has DHCP, and only between
  the head and the end of the round, where `DhcpRequested` knows of it.
- `MessagesAreTrue`.  `MessageInv` ties the message to the result code (`Concluded`), and
  the result code to what the one or two parses have written (`Written`).
- `WhatIsUsedIsAlive`.  `AliveInv`: the headers held when a request is tried again are
  those of its own method, the Location a GET reads is never freed, and a protocol
  that is kept has a child.
- `DfciTypes`.  `TypeInv` adds why no counter leaves its range: an attempt is made only
  with a try left, and the loop over the NICs begins at the first of a new list.
- `RequestsKeepTheirPromise`: `Spec => ImplementsRequest`.  Three steps are more than a
  stutter of the abstract request, besides its beginning and end: the attempt that is
  accepted, a packet, the message.  `AnswerInv` says why the packet is of an accepted
  stage: a POST answered with success and 202 was accepted, the main logic turns to the
  GET on nothing else, and the parse is of that GET's stage.  `MessageInv` gives the rest.
- `RequestsRunDown` is what `RequestEnds` needs besides fairness, for every number of NICs and
  tries.  Four natural numbers, compared in order, grow smaller with every step: the
  part of the request (before the NICs, a NIC, after them), the NICs left, the
  operations left of the four of two POSTs and two GETs, and the steps left of the
  operation, where each attempt spends a try.  One step leaves them as they are, the
  one to the next element of a response: the length of the response alone bounds it,
  and in the model all packets of a response after its first are one state.

`BootStagesProofs`, from `SizeAssumption` and `BlankAssumption` in its first part, about the
store: `StoreIsConsistent` and `StoreImplementsLog`.  The refinement mapping reads the slots up to ActiveRange.  The
invariant `StoreInv` says what is known before each part of an update: the record is
in the slot behind the used part before its sum is taken (`Underway`), ActiveRange is
the new or the old one depending on which bytes of the header are still to be
written, and the sum, once written, is that of the new header (`HeaderUnderway`).
That a record that fits has a slot of its own, with the 8-bit arithmetic of the sizes, is
the lemma `FitsSlot`.

Its second part, from the same and `OptionAssumption`, `AttemptsAssumption`, is about
`StagesSpec`.  A step of the composition is a step of one component or a restart of
all (`StagesStep`), which brings in the store's refinement (`StagesKeepTheLog`) and three
invariants:

- `SiInv` for `CleanPassLeavesPolicy`: what the file may be before each call of a pass
  that has been clean so far;
- `FlowInv` for `PolicyIsEnforced`, `GrantedPageComes`, `ChoiceIsSpent` and
  `SettingsNeedThePassword`: at which steps the policy may be
  off, and that it is on or a reset is then asked for (`PolicyOff`); that a granted
  reboot holds the page open only until the reset (`PageAsked`); whose token is held
  (`Authorised`);
- `MenuInv` for `CellsOpenTheirForms`: the indices in use grow from entry to entry in
  both columns of `mFormMap` (`MapOK`), which is what makes the search for a cell's index
  find the one entry the cell was made from.

`TimerProofs`, from `TimerAssumption`: `TimerStaysOff`.  The argument rests on what `timer_called` shows: the register never equals the word it is
compared with (`RegisterIsNeverActive`), so the interrupt handler writes nothing.

`DelaysAreExact`, from `DelayAssumption`, so for every width of the counter and any number of
ticks between two reads.  `DelayInv`: the last read was `skipped` ticks ago; while the
counter has not wrapped it is as far from the start of the delay as the time, and a
loop that goes on has not read past its target.  The counter is taken modulo its width
only in `ModOfSum`, whose proof compares the two quotients.

`EarlyDelaysWrap`, from the same.  `ReadInv`: the counter's value is that of the time of
its last read, and a loop whose target is behind the wrap has not gone on after its
first read.  A read that has reached a target in front of the wrap is at or after the
end of the delay, because two values of the counter are no further apart than the
times they were read at (`ModOfDifference`, `TargetFromStart`).

`KeyboardProofs`, from `CapacityAssumption`, `MaxPressAssumption` and `LinkAssumption` (the
head of a list is no record of it), about a started keyboard: `KeyboardTypes`, `WakeupsArrive`,
`NobodyIsSkipped`, `WaitForKeyIsTrue`.  `OwedInv` carries the third: a keystroke that is owed
to a registration is queued or in the handler's hand, the registration matches it, and
in the second case the walk has not passed the registration (`Ahead`).  Ahead is kept by
whatever a notification function does to the list: a new registration goes to the
end, a removed one moves those behind it without changing their order (`ListOK`: an
address belongs to one registration, and the walk stands on one of them).  `PushProperties`
says what a push into a full queue keeps and drops.

`BindingProofs`, from `MaxStartsAssumption` and `NoContextAssumption`, about the driver
binding: `UsersFindLiveContexts`, `DeviceIsGivenBack`, `StoppedIsNotPolled`,
`StartArmsTheTimer`.  `BindingInv` says what Start has set up before each of its steps
(`SetUp`), that no start runs while protocols are installed, because it holds the
device, and that a stopped context is freed for good.

Only model-checked:

- liveness (`NotifyDelivered`, `Terminates`, `RequestEnds`, `DelayEnds`): TLAPS does not reason
  about `ENABLED` or weak fairness.  For `Terminates` and `RequestEnds` the numbers that run down
  are proved, so what is left to TLC is that a step is possible and taken.

Every invariant, action property and refinement of a passing run is a theorem.

## 5. Not modelled

- Drawing, fonts, strings, constant tables (memory map, SMBIOS, certificates, themes),
  the loader and the build scripts: no state that a later step depends on.
- Front page: the texts of the forms (versions, secure boot state, title bar) and the
  message about a secure boot violation.  The form browser, the boot menu and
  the DFCI services are outside the repository and modelled from their use.
- Early records: `MsWheaEarlyStorageClear` and the report driver's own code; a clear that
  nobody calls and a driver of another repository.  Checksums that agree by chance.
- Policy file: the choice among several file systems; each has a file of its own.
- DFCI menu: the zero touch opt-in and opt-out, the registration of its form; the
  content of DFCI requests and packets, which the model needs only as applied or
  refused.
- Boot sequence policy: which device paths a platform lists is a table, and the two
  functions that keep state are in `PriorityBoot`.
- Early console: the cursor and the scrolling of a framebuffer.
- What a jump into an unloaded image or an access to freed memory does: not a state of
  this code; the models stop before it, and the hazards name the line.

## 6. Plan

Done: the keyboard path and driver, the binding, boot decision, boot variables, timers
and delay, DFCI, the stages of a boot with the early records, the policy file and the
front page, and the proofs above.  Left, in this order:

1. An abstract specification of the timer (a period, ticks owed) that `TegraTimer`
   implements.
2. The zero touch part of the DFCI menu, and its form inside `FrontPage`.
3. The early console, composed with `TegraDelay` (a newline waits), and the boot
   sequence policy.

New components share a run with what they interact with where they do, so that the
number of runs stays that of the questions asked.
