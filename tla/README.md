# Verification of the RT3000 product code

The repository builds the firmware of the H3C RT3000 (IPQ5000 with an RTL8367S
switch) on top of OpenWrt. Most of its files are OpenWrt, the kernel and vendor
packages; this directory is about the code the product adds to them. It holds
TLA+ modules that model that code, TLC configurations that check them on small
instances, and TLAPS proofs for every value of the constants. `PROJECT.json`
maps every definition to the source lines it stands for, names for each property
a plausible bug of the code that breaks it, and lists the hazards the properties
are aimed at.

Paths below are relative to the repository; `K/` stands for
`src/target/linux/ipq50xx/`, `R/` for `K/files/drivers/net/dsa/realtek/` and
`F/` for `src/package/firmware/`.

1. [Inventory](#1-inventory)
2. [Modules](#2-modules)
3. [What the runs check](#3-what-the-runs-check)
4. [What is proved](#4-what-is-proved)
5. [Findings](#5-findings)
6. [What is not modelled, and the plan](#6-what-is-not-modelled-and-the-plan)
7. [Running](#7-running)

## 1. Inventory

### Boot path

| Component | State | Operations | What is hard, what must hold | Module |
|---|---|---|---|---|
| **rt3bcwrite** `src/package/rt3bcwrite.c` | the selector and the OEM blob in two flash copies, mtd3 and mtd2 | `--set`, `--verify-only`, `--show`, with `--force-unequal`, `--reboot` | power cuts between erase and write, writes that land wrong, failed system calls, a second invocation. One copy must always be bootable; success must mean both copies hold the target; the blob must survive | `BootSelector` |
| **rt3slot** `src/package/rt3slot/files/rt3slot` | none of its own; reads the slots, writes through rt3bcwrite | `status`, `verify`, `oem`/`qsdk [--reboot]` | verify, write, verify again, reboot: each may fail or be interrupted. It must switch only to a slot that verified, and its report must decide the next boot | `SlotSwitch` |
| **rt3release** `src/package/rt3release/src/rt3release.c` | none; reads the manifest inside the rootfs and the payload volumes | `verify`, `verify-kernel`, `verify-rootfs`, `show`, `id` | lengths that come from the payload itself, padding, hashes that are not recorded | `ReleaseIdentity` |
| **sysupgrade** `K/base-files/lib/upgrade/h3c-qsdk.sh`, `platform.sh` | the UBI volumes of the running slot, the saved settings | remove all volumes, create and write kernel, rootfs, data, restore settings | power loss and errors in the middle, volumes still in use; success must mean a whole slot, and no two releases may boot mixed | `SlotUpgrade` |
| **boot slot mapping** `K/files/drivers/of/h3c_rt3000_bootargs.h`, patch 030 | the kernel command line | strip the old firmware's storage arguments, append and orient the image's | quotes, length limits, duplicates; the labels must follow the slot U-Boot booted | `BootSlot` |
| **MTD write guards** patches 425, 426, 428, 429 | names and write flags of the MTD partitions | validate the map, name the slots, clear write flags | they must agree with the boot arguments: exactly the booted slot is writable | `BootSlot` |

### Network path

| Component | State | Operations | What is hard, what must hold | Module |
|---|---|---|---|---|
| **known-unicast offload** `R/rtl8365mb.c` (`rtl8365mb_uc_*`), `R/rtl8367s_uc_offload.h` | `uc_members`, `uc_bridge`, `uc_fault`; in the chip isolation masks, learning, STP, filtering database and the L2 table | bridge join and leave, STP state, fast age, static FDB add, del, dump, VLAN filtering, fail_closed | dozens of register accesses per operation, each of which can fail, while the switch learns by itself. Frames must never pass between a member and a non-member | `UcOffload` |
| **FDB mirror** `R/rtl8367s_uc_fdb_sync.h`, the `fdb_sync` work of `R/rtl8365mb.c`, `K/files/include/linux/rt3000_fdb_domain.h`, patch 716 | snapshot, epoch, delayed work; the entries of the bridge | schedule, scan, trylock RTNL, recheck, confirm, announce, commit, teardown | two locks taken in both orders, hardware and software tables that change under the scan, owners of bridge entries | `FdbSync` |
| **register and table access** PHY access of `R/rtl8365mb.c`, `R/rtl8367s_uc_offload.h`, `R/realtek-mdio.c` | address, data and command registers of two engines, `map_lock` | PHY read and write, table read and write | polls that give up while the engine works on, half-filled registers; nobody may take another's answer or send another's data | `IndirectAccess` |
| **DSA master binding** `F/rt3000-c-dsa-master` | a lock directory, sysfs links | bind from hotplug and from init | two callers, a bounded wait, a killed holder, devices that come and go | `MasterBind` |
| **Wi-Fi defaults** `K/base-files/lib/rt3000/wifi-c.sh`, `20-rt3000-c-wifi`, `99-rt3000-wifi`, with netifd's detection and the boot script | `/etc/config/wireless`, staged UCI changes, a lock file | first boot and hotplug of a radio | one staging area for everybody, power cuts, radios that are late; the operator's settings must survive | `WifiDefaults` |

### Everything else

| Component | Why it has no module |
|---|---|
| RTL8367S bring-up, SerDes and CPU links, MIB counters, interrupts, age calibration (`R/rtl8365mb.c`) | upstream code, or fixed sequences of writes that run once or under one lock |
| tagger and identity probe (`K/files/net/dsa/tag_rtl8_4.c`, `rtl8367s_probe.c`) | upstream, no state; one read |
| port expander, paired LEDs | one probe that writes a fixed list; two GPIO writes under a mutex |
| MAC identity (`mac.sh`, `F/rt3000-c-mac-identity-ro`, `F/hwd-factory-mac`) | parsing of factory data, read once |
| NAND identification (patches 421 to 424, 427, 430, 431), `F/hwd-mtd-guard` | tables and conditions evaluated once; a reader |
| Wi-Fi calibration and patch 853 | copies of data; one store barrier, a matter of the memory model |
| boards of other vendors (`mi_dualboot.sh`, `yt9215.c`) | vendor code that does not run on the RT3000 |
| `rt3000ctl.py`, `src/scripts/rt3000-*` | laboratory and build tools outside the device |
| OpenWrt, the kernel, U-Boot, vendor drivers | third party; what the modules assume of them is marked external in `PROJECT.json` |

### How the parts interact

```
 rt3slot --verify--> rt3release          DSA / bridge (RTNL)        phylib
    |                                       | callbacks                |
    +--set/verify--> rt3bcwrite             v                          v
                        |               uc offload (uc_lock) --> register and table
                     mtd3, mtd2             ^   |                access (map_lock) --> switch
                        |                   |   +--schedule--> FDB mirror <--- L2 table
                     U-Boot                 +----- uc_lock -------+
                        |  slot, size                             | notifier (RTNL)
     boot slot mapping -> MTD guards                              v
                        |                                     bridge FDB
                  running QSDK --sysupgrade--> its own slot
                        |
                  hotplug, init --> master binding --> probe of the switch
                                --> Wi-Fi defaults --> /etc/config/wireless
```

In the boot half all parts meet in the two BOOTCONFIG copies, in the slots they
select, and in the label `rootfs`: the mapping gives it to the slot that booted,
rt3slot reads it to know which slot rt3release has just hashed. In the network
half the callbacks and the mirror share `uc_lock`, `uc_members`, `uc_fault` and
the epoch; everybody shares the engines behind `map_lock`.

## 2. Modules

| Module | What it is |
|---|---|
| `BootSelector` | rt3bcwrite, any number of invocations, power cuts |
| `DualCopy` | what the two copies promise the boot loader; `BootSelector` implements it |
| `ReleaseIdentity` | `rt3release verify` as operators, and what its verdict is to mean |
| `SlotSwitch` | rt3slot over `ReleaseIdentity` and `BootSelector` (INSTANCE), with the board around them |
| `SlotUpgrade` | sysupgrade of the QSDK slot, command by command |
| `BootSlot` | from U-Boot's arguments to the writable partitions |
| `UcOffload` | the offload, access by access, with the switch beside it |
| `PeerDomain` | what the offload promises the bridge; `UcOffload` implements it |
| `FdbSync` | the mirror with the switch, the bridge, the callbacks and the teardown |
| `IndirectAccess` | PHY and table accesses of several callers |
| `MasterBind` | the binding script, run by hotplug and init at once |
| `WifiDefaults` | detection, first boot, hotplug and the operator over one UCI configuration |
| `MC*` | the instances for TLC; the `.cfg` files give the constants |
| `*Proofs` | the theorems, one module for each of `BootSelector`, `SlotSwitch`, `UcOffload`, `FdbSync`, `IndirectAccess`, `MasterBind`, `WifiDefaults`; `SlotProofs` for `SlotUpgrade` and `BootSlot` |

A definition marked *mutated form* belongs to no specification: it is a bug that
could have been made in the code, kept beside the right definition.

### BootSelector

An erase block is a record: `ok` (the structure parses), `sel` (the selector
word) and `rest` (everything else in the block, in mtd2 the OEM blob). An
invocation is a process with a program counter; a step is one access to the
flash:

| Action | Code |
|---|---|
| `Start` | option parsing, `open_copy` on both devices |
| `Pre` (twice) | `read_struct` on mtd3 and mtd2 |
| `Decide` | `--verify-only`; the refusal of unequal copies; the shortcut when both hold the target |
| `Load`, `Erase`, `Head`, `Tail`, `Readback` | `transaction`: read and patch the live block, MEMERASE, `pwrite` of the first page, of the rest with `fsync`, read back and compare |
| `Post` (twice), `Confirm` | the final dual-copy confirmation |
| `Done`, `Reap` | the exit status or the reboot; the caller collects the status |
| `PowerCut` | every process is gone, the flash stays as it is |

Every system call can fail where the code checks it. A failed erase leaves the
block in any state, and a `pwrite` can land wrong without being reported: that is
what the readback is for. `hurt` records which invocations something failed for,
`base` the flash an invocation found, `wrote` the copies it began to erase; the
three are history, read by the properties and never by an action of `Spec`. The
CRC and the magic of a structure are abstracted to `ok`, so a damaged block that
still passes them by chance is not modelled. `--show` writes nothing.

`Exclusive` says whether the callers serialise the tool. The code takes no lock,
so the safety properties are stated and proved under `Exclusive`; rt3slot, which
runs one at a time, gives it.

### ReleaseIdentity and SlotSwitch

A payload is the sequence of blocks its volume yields; a hash is the content that
was hashed. `HashRegion` cuts at the length the FIT header or the manifest
declares, exactly as `hash_region` does (zero means to the end, a length beyond
the end is cut), and `Genuine` and `AsBuilt` say what a verdict should mean
without those lengths.

`SlotSwitch` runs that verdict on the slot the board has booted, because that is
the one rt3release reads, and `rt3bcwrite` step by step as an INSTANCE of
`BootSelector`, so power can be lost between any two flash accesses of a switch.
A session of rt3slot is `Begin`, `VerifyTarget` and `Depends` (every check of
`verify_oem` or `verify_qsdk`), `Set`, `SetDone`, `Check`, `CheckDone`, `Final`:
one action per command it runs and per status it reads. Around it are the other
things that touch the selector or a slot: rt3bcwrite by hand (`Manual`),
sysupgrade with any outcome (`Upgrade`), an installation from the OEM firmware or
the rescue page (`Install`), `PowerCut` and `Boot`. Sessions do not overlap (a
second rt3slot at the same time would run rt3bcwrite unserialised; see
`Exclusive` above). `ended`, `passed`, `sound` and `troubled` are history.

### SlotUpgrade

The volumes 0 to 3 of the slot hold a member of a file, settings, nothing or a
partial write. A file is what `tar` makes of it: kernel and root of a release, a
file cut short in the root, before it or in the kernel, kernel and root of another
board, a tar of something else, or no tar at all. `CheckImage` is
`h3c_qsdk_check_image`, which reads sizes, magics and the name of the
configuration; `Start` may bypass it (`sysupgrade -F`). One action per UBI command
of `h3c_qsdk_do_upgrade`: `Unblock`, `Remove` (an error is discarded, `stuck`
remembers it), `Make` (impossible for an id in use and for a member that the file
lacks), `Update` and `Write` (`ubiupdatevol` marks the volume first), `Keep`, and
the failures the script checks. Power can be lost at every step; `Boot`, `Select`,
`Configure` and `Rescue` are what happens between upgrades.

### BootSlot

A command line is a sequence of words; lengths count words. `Inherit` filters
what U-Boot hands over (or panics on an unbalanced quote), `AppendArgs` and
`StorageArgs` add the image's arguments (or panic when they do not fit), turning
the map so that the booted slot is `rootfs`; `Register` is the MTD core with the
guards of the C and D boards. Rows of the map other than the two slots (or the
single one) and the selector copies are one row `rest`; the geometry is that of
the boards, so a map with wrong extents is represented by the inherited one.

The images are the ten device trees with flash: the persistent ones of A, B, C and
D, the RAM images of A, B and D, the installers of C and D and the discovery image
of C. `Storage` and `Nodes` are read from the `.dts` files, the map of
`h3c,storage-bootargs` and, in a tree without it, its partition nodes, which the
MTD core takes when the command line has no `mtdparts` either. The bring-up image
of C (`ipq5000-rt3000-rtl8367s.dts`) has no flash node and no image here.

### UcOffload

The registers of the switch (`iso`, `learn`, `stp`, `efid`), its L2 table
(`lut`, `static`, `tag`), the driver's `fault`, `bridge`, `members`, and what DSA
knows (`linked`, `vlan`). A callback takes `uc_lock` at its start and drops it at
its end, so at most one runs; `pc`, `req`, `i`, `at` are its position. Every
register update (a write with the read that verifies it) and every table access
is a step of its own which may fail with or without having taken effect. Between
any two steps the switch itself may learn, move or age an address.

| Action | Code |
|---|---|
| `BridgeJoin`, `BridgeLeave`, `StpStateSet`, `FastAge`, `FdbAdd`, `FdbDel`, `FdbDump`, `VlanFiltering` | the guards and early returns of the `rtl8365mb_uc_*` callback of that name |
| `SetStp`, `SetLearning`, `SetEfid`, `EnableLearning` | one register update, in the order of join and leave |
| `FlushRead`, `FlushErase` | one READ and one WRITE of `rtl8365mb_uc_flush_port` |
| `PeerMatrix` | `rt3000_uc_program_peer_matrix`, one port |
| `UnwindIsolation`, `UnwindLearning` | the two writes of its fault path for one port |
| `FdbWrite`, `FdbLookup`, `DumpRead` | table accesses |
| `CloseIsolation`, `CloseLearning`, `CloseStp` | the three writes of `rtl8365mb_uc_fail_closed` for one port, each of which may be lost |
| `HwLearn`, `HwAge` | the switch (external) |

An address of the table stands for its MAC: the hash of the real table decides
the address, and no property depends on which one. What the bridge does
(`linked`, the order of its calls) is external and taken from how the driver is
called.

### FdbSync

The worker is modelled lock by lock: what it does while it holds `uc_lock` for a
long time (the scan and the confirmation of deletions) is one table read per
step; every other critical section is one step; between them anything may
happen. `UcFree` says that nobody is in such a section. `rtnl` names the holder of RTNL.
A DSA callback has three stages: it holds RTNL, it runs its critical section
under `uc_lock`, and then, outside `uc_lock`, queues or cancels the work.

| Action | Code |
|---|---|
| `BeginCallback`, `Enter`, `EnterFails`, `Post` | a DSA callback around `uc_lock` |
| `Run`, `Start`, `Read` | `rtl8365mb_uc_fdb_sync_work` up to the sorted snapshot |
| `Acquire`, `Recheck` | `rtnl_trylock` and the epoch test |
| `Confirm` | the second lookup of every deletion |
| `Add`, `AddChange`, `Del`, `DelChange` | `rt3000_uc_fdb_diff` and `_apply`: the guard looks at the entry, then the bridge changes it |
| `Commit`, `Unlock`, `Retry` | the commit, and the end of every path |
| `TeardownBegin`, `TeardownGate`, `TeardownFree` | `rtl8365mb_teardown` |
| `HwLearn`, `HwAge`, `SwLearn`, `SwRemove`, `UserAdd`, `OtherDriver` | switch, bridge, user and other drivers (external) |

The guard and the change it allows are under the bridge's `hash_lock`
(`HashFree`), and so is everybody else, with one exception: when a frame arrives
on another port than its entry says, `br_fdb_update` moves the entry without that
lock (`SwLearn`), which may be between the two (finding 4). `taken` (what others
have entered or moved since the scan began, but for that moment) and `absent`
(what the switch has been without since then) are history.

The epoch is a counter in the code and a flag here (`moved`): the worker only
asks whether it is still the value it read. `calm` is the switch that stops the
environment: once set, only what is already under way goes on; it exists so that
"in the end" can be said. With one switch there is one domain number, so its
allocation is left out.

### IndirectAccess

Each engine (PHY, table) has an address, a data and a result register and the
command it works on; the table engine also has the status of the last address it
found or stored (`hit`). PHY registers and VLANs are read and written by their
address. The address table is given no address but a key in the data (`lookup`,
`store`; age zero removes), or a place to search from (`scan`). A caller takes
`map_lock`, waits for the engine (`WaitIdle`), fills the registers in the order of
its code (`Address`, `Put`), gives the command, polls (`WaitDone`), reads the
status of an address once more (`Status`: without HIT it returns -ENOENT), reads
the result, unlocks. A register access may fail, and then leaves its register
unknown; a poll may give up at any time; the engine finishes when it likes
(`Finish`), also after its caller has gone, and may decline to store an address.
`Returned` is the value of `rtl8365mb_phy_ocp_write`, which is 0 in every case.
`seen` and `fate` are history: what the cells asked about held since the command,
and whether the engine carried it out or declined it.

### MasterBind

One process per invocation of the script, one action per look at sysfs:
`PollMaster`, `PollMdio` (the wait loop with its budget), `LockDir` (is there a
`/var/lock`?), `Contend` (mkdir), `Trap`, `AgainMaster`, `AgainMdio`, `Look`, `Write`, `Verify`, `Leave` (the EXIT
trap). `Signal` ends an invocation through its traps once they are set, and
without them before; `Kill` never runs them. `Change` and `KernelBinds` are the
devices and the kernel's deferred probing, `BootMakes` the boot script that makes
`/var/lock`, perhaps after the first hotplug event.

### WifiDefaults

`live` is what every UCI command sees, staged and committed together; `flash` is
`/etc/config/wireless`, and any commit publishes everything. `Add` is the hotplug
event; `Detect`, `Interface`, `Template` and `Publish` are the detection, whose
new section everybody sees grow: the radio, its interface, the network of the
template, the commit. `Boot` and `BootCommit` are the uci-defaults run, `Lock` to
`Exit` either script under the lock file, one group of UCI writes per step, with
`Abort` for failed commits and signals. `Look` passes over a radio that is absent,
has no section or no interface of mode `ap` (`wifi-c.sh:60`), and keeps the
settings of one that has its marker. `Operator` sets and commits one of `Wishes`:
a radio on or off, an AP or a station, a network of one's own or the one that is
there, the marked interface kept or replaced; `Concurrent` says whether also while
a script or the detection is about to write to that section. `PowerCut` loses what
is staged.

A section is four fields: the radio's switch, whether it has an AP, whose network
it carries, and the marker; it stands for a radio and its one interface (a second
interface of a radio is not modelled). The detection that an event runs may look
at every radio of the board; here it makes the section of the radio whose event it
is, which is the one that has none. `waived` is history: the radios that owe no
marker, because their event found no AP or the operator has removed it since.

## 3. What the runs check

| Run | Instance | Distinct states | Question |
|---|---|---|---|
| `selector` | 1 process, selectors {0, 1, all ones}, 2 block contents | 24,300 | `OneCopyValid`: no failure and no power cut leaves both copies unreadable; `SuccessMeansBoth`, `BlobPreserved`: success is never wrong and keeps the blob; `NoSpuriousFailure`: nothing else is refused; `ImplementsDualCopy` |
| `selector_status` | the same | | `StatusTellsWhatWasWritten`: exit codes mean what their table says (violated) |
| `slot_switch` | 1 session, 3 contents of the OEM slot, 9 of the QSDK slot, every repair by hand | 214,294 | `OnlyVerifiedSelected`: a switch aims only at what was verified; `PassDecidesNextBoot`: a PASS stays true until the selector is written again; `RefusedForAReason`; `SessionEnds` |
| `upgrade` | 2 releases, 10 files, 4 volumes, every set of busy ones, the check forced or not | 265,848 | `OkMeansWhole`: success means that both members of the file are in the volumes, as they are in the file; `NoMixedBoot`: no kernel boots with the root of another release, unless the old root could not be removed |
| `boot_slot` | every command line of up to 3 words, 3 appended ones, 10 images | 97,848 | `WritesTheBootedSlot`, `ProtectedStayReadOnly`: the booted slot and nothing else can be written; `KeptOrPanic`: no argument is cut |
| `offload` | 2 ports, 2 table addresses, 2 bridges | 1,224,559 | `NoStaleAddress`, `OnlyMembersForward`, `ConfiguredForMembers`, `AgreesWithBridge`, `FaultMeansClosed`, `FaultNeedsFailure`, `ImplementsPeerDomain`, `CallbackEnds` |
| `fdb_sync` | 2 ports, 1 address, entries pinned by a user, no failing notification | 1,223,354 | `NoFalseDelete`, `Covered`, `NoUseAfterFree`; `SyncAlive`: no path loses the next run; `TakeoverStands`: what others enter or move between the scan and the notification stays theirs |
| `fdb_rest` | 1 port, 2 addresses, 2 rows, notifications that fail in the middle of a snapshot | 439,470 | `TeardownEnds`; `Converges`: the bridge catches up, unless an application given up earlier has left an entry that is in no snapshot |
| `fdb_retry` | 1 port, 2 addresses, notifications that fail | | `RetryRepairs`: the retry after a failed notification repairs the bridge (violated) |
| `access` | 2 callers, 1 PHY register and 1 VLAN of 2 values, 1 address | 2,628,576 | `TypeOK` (with the lock dropped on every path), `ReadIsOwn`, `OnlyWhatWasAsked`, `EntryWritten` |
| `master_bind` | 2 hotplug events without wait, S19 with a wait of 2, `/var/lock` there or not yet | 288,663 | `OneWriter`, `StaleOnlyAfterKill`, `OkMeansBound`, `ReadyGetsBound` |
| `wifi` | 2 radios, the first-boot script, an operator with 3 wishes, power cuts | 458,472 | `MarkerMeansComplete`, `OperatorKept`, `LateRadioIsConfigured` |

Counts are of distinct states; those of `access` are after symmetry reduction.

Why the bounds are enough:

- `BootSelector`: a serialised invocation meets the others only through the
  flash, and `Init` starts from every flash with a readable copy, so one process
  that runs again and again covers every history. The two known slots and one
  other word are all the code distinguishes; two contents of `rest` tell "kept"
  from "changed". The proofs remove these bounds.
- `SlotSwitch`: sessions are serialised, so again one process is enough; the
  contents are the cases of the verification (as built, re-packed, kernel only,
  changed kernel, cut kernel, changed root, another board, does not boot, no UBI),
  two blocks long so that a cut differs from the whole. The proofs remove these
  bounds.
- `SlotUpgrade`: two releases make "mixed" possible; the files are one of each kind
  the check or a command treats differently; the history of a volume is in the
  volume. The proofs remove the bound on releases.
- `BootSlot`: three words hold a duplicate beside its original with something
  between them; the capacity of four words is reached from both sides. The proofs
  remove these bounds, lines of any length included.
- `UcOffload`: two ports have a member and a non-member, a flush that races with
  a move, two bridges that compete. Two addresses give a flush a cursor with
  something before and behind it. The proofs remove these bounds; that a pair of
  members goes on forwarding while a third port is cut off is only in the proofs.
- `FdbSync`: two ports and one address are the smallest instance with a move
  behind the cursor, and with one row of room the two rows of that address do not
  fit; two addresses are the smallest with two announcements of which the second
  fails, which is what `fdb_rest` and `fdb_retry` need. Rows of different addresses
  meet nowhere but in the limit, the sort and the abandoned application. The proofs
  of the safety properties remove these bounds; `Converges` is checked without a
  second port.
- `IndirectAccess`: two callers suffice for a late answer and a half-filled
  register; a PHY register, a VLAN and an address are one of each kind of access;
  the two engines share only the lock. Callers and values are
  interchangeable (`MCSymmetry`), and the run checks no liveness, so the reduction
  is sound. The proofs remove these bounds.
- `MasterBind`: the product starts two kinds of invocation; a wait of two seconds
  is one that is still running and one that has run out. The proofs remove these
  bounds for safety.
- `WifiDefaults`: the board has two radios. `Wishes` bounds what the operator may
  save to three choices for one of them: a network of one's own that is switched
  off, a station of one's own in place of the marked AP, and the network that is
  there switched on as it is (the stock, open one included). The proofs remove this
  bound for safety.

Three models really stop, and their configurations switch the deadlock check off:
`BootSlot` (up, refused or panicked), `FdbSync` (after a teardown, or once the
environment is calm and no port is bridged) and `MasterBind` (every invocation has
ended and the devices have settled). `TeardownEnds`, `Converges`, `SyncAlive` and
`ReadyGetsBound` say that they do not stop too early. In all others every state
has a successor.

### Fairness

- `UcOffload`: weak fairness of `Access`. The callback that holds `uc_lock` goes
  on; the switch may learn as often as it likes in between, and the flush ends
  because its cursor only moves forward.
- `FdbSync`: weak fairness of the work, which a kernel workqueue runs when its
  timer expires; strong fairness of callbacks and of the teardown, which wait for
  `uc_lock` while the worker takes and drops it again and again: a kernel mutex is
  handed to its waiter. The environment has no fairness at all.
- `SlotSwitch`: weak fairness of a session together with the rt3bcwrite it runs:
  both are running processes. Nothing makes anyone start one, and power may fail.
- `MasterBind`: weak fairness of each invocation's steps. Devices, kernel and
  signals have none.
- `WifiDefaults`: weak fairness of each started script and detection, and strong fairness of
  `Lock`: the lock is `flock`, whose waiters are served, while other scripts take
  and release it.

## 4. What is proved

Every invariant and action property of the passing runs is a theorem here; what
the runs check beyond them is liveness. The proofs are by induction over the
steps: an invariant holds in `Init`, every action keeps it, and it implies the
property. TLC checked the invariants first. Every theorem holds for all values of the
constants that satisfy the module's named assumptions; those assumptions are evaluated by the runs as well. Further
assumptions appear in the theorem itself (`ASSUME ... PROVE`).

| Module | Theorem | Establishes | Further assumption |
|---|---|---|---|
| `BootSelectorProofs` | `TypeCorrect` | type invariant | |
| | `NeverBricks`, `SuccessIsSound`, `SuccessKeepsBlob` | `OneCopyValid`, `SuccessMeansBoth`, `BlobPreserved` | `Exclusive` |
| | `FirstCopyFirst` | mtd2 is touched only after mtd3 holds the target | `Exclusive` |
| | `NothingElseFails` | `NoSpuriousFailure` | `Exclusive` |
| | `Refinement` | `ImplementsDualCopy` | `Exclusive` |
| | `NeverRepeats` | an invocation takes at most 17 steps and erases a copy at most once | |
| `SlotSwitchProofs` | `VerifiedOnly`, `ReportHolds`, `RefusalsExplained` | `OnlyVerifiedSelected`, `PassDecidesNextBoot`, `RefusedForAReason` | `Exclusive`, `Bytewise` |
| | `PassDelivered` | the boot after a PASS starts the system of the target slot | `Exclusive`, `Bytewise` |
| | `RunsTheWriter` | every behaviour of the board is one of `BootSelector` | |
| | `BoardNeverBricks`, `BoardKeepsPromise`, `BoardCanBoot` | over the life of the board: a copy is readable, `DualCopy` is obeyed, and with two whole slots the board starts | `Exclusive` |
| | `SessionsNeverRepeat` | a session takes at most 137 steps, none is taken back | |
| `SlotProofs` (`BootSlot`) | `BootedSlotWritable`, `ProtectedReadOnly`, `ArgumentsKept` | `WritesTheBootedSlot`, `ProtectedStayReadOnly`, `KeptOrPanic` | |
| | `FilterTwice`, `FilterPlaces` | the early filter changes nothing; the filter returns the words to be kept, each in its place | |
| `SlotProofs` (`SlotUpgrade`) | `TypeCorrect`, `WholeVolumes` | types; what is whole is old and stuck, or new | |
| | `SuccessIsWhole`, `OneReleaseBoots` | `OkMeansWhole`, `NoMixedBoot` | |
| `UcOffloadProofs` | `TypeCorrect`, `NoLeak`, `Configured`, `TableClean`, `FailsClosed`, `FaultIsEarned`, `BridgeAgreement` | types and the six invariants of the run | |
| | `Refinement` | `ImplementsPeerDomain` | |
| | `BoundedCallbacks` | a callback makes at most `6 * NPorts + 2 * LutSize + 3` accesses under `uc_lock` | |
| `FdbSyncProofs` | `TypeCorrect`, `FreedAtRest`, `WorkNeverLost`, `NothingFalselyDeleted`, `TakenIsKept` | types, `NoUseAfterFree`, `SyncAlive`, `NoFalseDelete`, `TakeoverStands` | |
| | `MirrorCovered` | `Covered` | `~NotifyFails` |
| | `BoundedRounds` | a round of the work only goes forward, over ports times addresses | |
| | `BoundedCancel` | behind the gate, the cancellation waits for two rounds at most | |
| `IndirectAccessProofs` | `TypeCorrect`, `ReadsOwn`, `TableWritten`, `CommandsAsked` | `TypeOK`, `ReadIsOwn`, `EntryWritten`, `OnlyWhatWasAsked` | |
| | `CommandsInOrder` | an engine finishes a command before it is given another | |
| `MasterBindProofs` | `TypeCorrect`, `BindWriteSerialized`, `LockLeftByKilledOnly`, `OkIsBound` | types, `OneWriter`, `StaleOnlyAfterKill`, `OkMeansBound` | |
| | `InvocationsEnd` | at most `2 * Limit + 12` steps, one write of the bind file, seven steps under the lock | |
| `WifiDefaultsProofs` | `TypeCorrect`, `MarkerComplete`, `MarkerFinal` | types, `MarkerMeansComplete`, `MarkedIsFinal` (once detection has finished the section) | |
| | `OperatorRespected` | `OperatorKept` | `~Concurrent` |
| | `SuccessIsStored` | an event whose script succeeds has left a marker for its radio in flash, unless it found no AP or the operator has taken the marked one away | |
| | `LockIsBrief` | whoever holds the lock gives it up after ten steps at most | |

What the assumptions mean: `Exclusive`, invocations of rt3bcwrite do not overlap;
`Bytewise`, the blocks of payloads and manifests are drawn from one set that has
the padding in it; `~NotifyFails`, the bridge never runs out of memory for an
entry (the run `fdb_retry` shows that `Covered` needs it); `~Concurrent`, the
operator does not save while a script holds the lock (finding 9).

### The inductive invariants

**BootSelector.** That a copy is readable after an erase follows from what the
tool learned several steps earlier. The invariant is `TypeOK /\ Safe`, where `Safe`
says what an invocation knows at each place: `Reading` (before it decides, what it
has parsed is what is on flash), `Writing` (while it works on mtd3, mtd2 is valid
and untouched; while it works on mtd2, mtd3 holds the target; its image is the
live block with the new selector), `Through` (from the second copy on, both hold
the target and the old rest), and `Alone` (nobody else exists, which is where
`Exclusive` enters: `Combine` then reduces each step to the process that takes
it). `NothingElseFails` adds `Faithful`: what it has written has landed unless
something failed, so the comparison cannot be what stops it.

**SlotSwitch** is proved over BootSelector's theorems, not over its steps again:
`W == INSTANCE BootSelectorProofs` brings them in, `W!Known` is the invariant of
the writer, and lemmas such as `StepFacts`, `StartFacts` and `ReapFacts` say once
what a step of the writer does for a session. On top, `Tied` links the stage of a
session to the invocation it waits for, `Proven` says that what was verified still
is in the slot, `Blameless` that nothing has come to stand against the session, and
`Decided` that the copies are those of the last PASS. Two lemmas about sequences
carry the identity check: `VerifiedIsGenuine` (an accepted payload holds what the
manifest records) and `BuiltVerifies` (a slot as built is accepted, whatever
padding lies behind it).

`RunsTheWriter` is the composition itself: whatever the board does, the variables
of the writer see a step of `BootSelector` or none. The one thing that needs an
invariant is the power cut, which resets an invocation nobody is running:
`Forgotten` says that there is nothing left in it to reset. With it the theorems
of `BootSelectorProofs` hold on the board as they stand, and `BoardNeverBricks`,
`BoardKeepsPromise` and `BoardCanBoot` follow without a look at a session.

**SlotUpgrade.** `Progress` (which volumes are already those of the image) and
`Removed` (what is still whole behind the removal cursor is stuck) make
`NoMixedBoot` inductive, `OkIsOver` keeps `OkMeansWhole` until the restart.

**BootSlot.** What a filtered line looks like is shown by induction over its words.
The predicate of the induction is a set of lines (`LineInduction`), because the
provers take no operator as a parameter; `FilterPass` shows first that the
recursive function in `Filter` exists, `FilterConcat` and `FilterKeeps` are its two
laws. From them `FilterTwice` (the pass of `early_init_dt_scan_chosen` before
`bootargs-append`, and the pass over the whole, are one pass) and `FilterOnce` (the
words of U-Boot's slot and size survive as they were). The invariant `BootInv`
then says what the line is at each stage, and `GuardedMap` what the guards make of
a map; the images are distinguished only there. The lines are assumed to be
sequences of words (`LineAssumption`), nothing else.

**UcOffload.** One invariant `Inv == TypeOK /\ Safe` for all properties:

- `Control`, `Checked`: which callback can be at which place, and what its entry
  checks still imply there (nobody else holds `uc_lock`);
- `Links`: DSA's view against the driver's, with the port in flight excepted;
- `Blocked`, `LearnInside`: the port that joins or leaves is blocked before
  anything else changes, and only members learn;
- `Mesh`, `Fenced`: isolation masks behind the loop index are the new ones, those
  before it the old ones, and in both cases stay inside the members and the port
  in flight: this is what makes `OnlyMembersForward` true in the middle of a loop;
- `Databases`, `Table`: a port's filtering database agrees with its membership, and
  table entries behind the flush cursor are not on the port, although the switch
  moves entries meanwhile (it cannot move one back to a port that does not learn);
- `Closing`, `Blame`: what fail_closed has done so far, and that it began with a
  failed access.

`Refinement` needs `Inv` to show that a join or leave that commits has no flow at
its port, and that every register write in between is a `Forward` or a stutter.

**FdbSync.** `Locks` (who holds RTNL), `Closed` (nothing is queued behind the
gate), `Bridged` (entries of the mirror are on ports of the bridge, which are the
members but for a port about to leave), `Snapshot` (while the epoch stands the
copy of the members is exact, no address has two rows, and what is on no member
now has been absent), `Looked` (a deletion that has been looked up again was
absent at some moment) and `Standing` (an entry that others have taken is the
mirror's only if it has just been announced on its own port; while a change is
under way the entry is nobody's by hand, and was not taken, or is already on the
port of the row). `Covered` has an invariant of its own, `Ledger`: while a
snapshot is applied the entries turn, address by address, from the old one to the
new one.

**IndirectAccess.** `Filled` (before the command the registers fill with what was
asked and the engine is idle), `Flying` (after it the engine works on exactly that
command, or has carried it out or declined it, and holds the answer), `Settled` (what is returned is the answer, or an
error), per caller, with `map_lock` making them exclusive.

**MasterBind, WifiDefaults.** A loser of the mkdir never owns the lock and so never
removes it (`HolderOwnsLock`); a section under change has no marker, and its
network is replaced before the marker is written (`Holds`); while the detection
makes a section nobody can take it for the template (`Growing`). `SuccessIsStored`
follows a radio through its event (`Follows`): once stored, its marker is in the
running settings too, so no later commit of anybody drops it.

**Bounds on time.** `NeverRepeats`, `SessionsNeverRepeat`, `BoundedCallbacks`,
`BoundedRounds`, `BoundedCancel`, `InvocationsEnd` and `LockIsBrief` define how many
steps are left, as a number between zero and a bound in the constants, and show
that every step of the process lowers it and no step of another raises it. For the
flush it counts the addresses the cursor has not passed, whatever the switch learns
behind it; for the scan the ports and addresses still to be read. These are the
safety halves of `SessionEnds`, `CallbackEnds`, `TeardownEnds` and of the waits for
the two locks: nothing is done for ever. That a step is always possible, and taken,
is the other half and stays with TLC.

### Model-checked only

- Liveness: `CallbackEnds`, `TeardownEnds`, `Converges`, `SessionEnds`,
  `ReadyGetsBound`, `LateRadioIsConfigured`. Liveness under fairness, and that an
  action is enabled, are out of the prover's reach. Of all but `Converges` and
  `ReadyGetsBound` the safety half is a theorem (above); the invocations that
  `ReadyGetsBound` waits for are shown to end.
- The two violated runs: a counterexample needs no proof.

## 5. Findings

Shown by a run:

1. **rt3bcwrite, exit codes** (`selector_status`). A failed second copy is
   reported as `r + 2` (`src/package/rt3bcwrite.c:427`). A failed erase of mtd2,
   which may have left anything there, yields 7; the table at line 75 documents 7
   as a mismatch of the first copy with the second untouched. In the run's trace
   mtd3 already holds the target and only mtd2 is erased. The other codes are
   shifted as well: 6, documented as a failed write of the second copy, comes from
   a failed read of mtd2 (line 254), before anything was written to it; an invalid
   mtd2 gives 5, the code of a failed write of the first copy; a mismatch of mtd2
   gives 9, which the table does not have. The final confirmation returns
   `EX_STRUCT` or `EX_IO`, documented as "nothing written", after both copies were
   rewritten.
2. **FDB mirror, retry** (`fdb_retry`). When a notification fails in the middle of
   a snapshot (`R/rtl8367s_uc_fdb_sync.h:160`), the entries announced before it are
   in no snapshot. If the switch loses one before the next scan, nothing deletes it
   from the bridge, and externally learned entries do not age. The comment at line
   132 keeps the old snapshot "for retry".

Met while modelling, in the models but with no run of their own:

3. **rt3bcwrite takes no lock.** Lines 36-37 promise that no path reports success
   unless both copies hold the target; two overlapping invocations can both report
   success for different targets. With `Exclusive = FALSE` the safety properties of
   `BootSelector` fail.
4. **FDB mirror, a frame between guard and change.** Patch 716 puts the guard under
   `hash_lock`, but the bridge moves an existing entry without that lock. An entry
   that a frame moves right after the guard has passed it is taken back or deleted
   by the mirror, until the next frame of that station. `TakeoverStands` says that
   this is the only moment at which that can happen.
5. **rt3release accepts a kernel alone.** A manifest without a root hash yields
   `PASS_KERNEL_ONLY` and exit status 0 (`rt3release.c:528-534`), while
   `rt3slot:47-48` says that verify "exits 0 only when BOTH" payloads match.
   `Genuine` is therefore stated over what the manifest records. The
   `MACHINE_MATCH=FAIL` of line 413 is never printed: the failure has returned
   before.
6. **sysupgrade, what it accepts.** The check reads the sizes of the members and
   their first bytes, so a file cut short in its root passes it; `-F` bypasses it,
   and the image of another board is written as well. Both are written with return
   value 0 and do not boot (`h3c-qsdk.sh:57-71`, `88-106`). `OkMeansWhole` therefore
   says that what is in the file is in the volumes, and not that it boots.
7. **sysupgrade, the old root.** The errors of `ubirmvol` are discarded. If the old
   root cannot be removed, the new kernel is written, `ubimkvol -n 1` fails because
   the id is in use, and the next start combines the new kernel with the old root.
   `NoMixedBoot` holds but for this case, which it names.
8. **sysupgrade and the selector.** The upgrade rewrites the slot it runs from and
   leaves the selector at it, so a failure after the removal leaves the selected
   slot unbootable until the rescue page is used. When the settings cannot be
   moved, the return value is 0 all the same (`h3c-qsdk.sh:96-106`).
9. **Wi-Fi defaults, the operator.** A section is judged before it is rewritten, and
   LuCI does not take the lock of the script: what the operator saves in that window
   is overwritten. `OperatorKept` holds for `Concurrent = FALSE` only.
10. **Wi-Fi defaults, half a section.** The detection makes its section set by set
    and takes no lock (`mac80211.sh:171-186`). The other radio's script may find an
    AP without a network, take it for the operator's and mark it "preserve": the
    radio stays off, and never gets the product's defaults. A half-made section that
    somebody else's commit has published is found by the next detection after a
    power cut, and never completed.
11. **Wi-Fi defaults, one commit.** The comment of `20-rt3000-c-wifi` stores marker
    and settings "in the same atomic UCI commit", but the detection and the boot
    script commit whatever is staged, without the lock, and power may be lost right
    after: a radio can be stored as enabled with its stock network and no marker,
    and the next event then takes it for the operator's own and preserves it.
    `MarkerMeansComplete` is the direction that holds.
12. **Wi-Fi defaults, radios on.** `99-rt3000-wifi:202-203` and its comment further
    down say that the radios stay disabled; `wifi-c.sh` sets `disabled=0`.
13. **PHY writes never fail.** `rtl8365mb_phy_ocp_write` returns 0 whatever it
    computed (`R/rtl8365mb.c:811`), so phylib takes a lost write for a success.
    `EntryWritten` is about table writes.

## 6. What is not modelled, and the plan

The lines the modules stand for are a small share of the repository, and will
stay one: nearly all of its source is OpenWrt's build system and tools, kernel
patches and drivers of other devices, the Realtek and Motorcomm vendor code and
register headers, none of which the product changes or, for the most part, runs.
Of the product's own state machines, those of the tables in section 1 that have a
module are modelled. Left out are:

- what runs once and in sequence (bring-up of the switch, expander, LEDs, MAC
  parsers, NAND identification, calibration data): there is no second order of
  events to check;
- upstream code the product only calls (the tagger, MIB counters and their
  poll, interrupts, phylink, VLAN programming): only its result appears, such as
  the reset switch, in which every port reaches the CPU alone, as the initial state
  of `UcOffload`;
- commands that change nothing (`--show`, `show`, `id`, `status`, and the checks of
  a file on the command line), hashing, formatting and parsing of text;
- the allocation of FDB domain numbers (`rtl8365mb_uc_domain_alloc`), which never
  reuses one, with its overflow guard;
- the path of `99-rt3000-wifi` for boards other than the C board, which runs once,
  alone;
- laboratory and build tools outside the device.

What could be added, in this order:

1. the bring-up of the offload (`rtl8365mb_uc_enable` and `rtl8365mb_setup`) as
   actions of `UcOffload`, each write failing, in place of its initial state;
2. several switches, and with them the domain numbers, in `FdbSync`;
3. `SlotUpgrade` as an INSTANCE below `SlotSwitch`, whose `Upgrade` now takes any
   outcome;
4. the gates of `rt3000ctl.py`, should they come to hold state.

## 7. Running

In this directory, for example:

```
tlc -workers 2 -config BootSelector.cfg MCBootSelector
tlc -workers 2 -config FdbSyncRest.cfg MCFdbSync
tlc -workers 2 -config SlotSwitch.cfg MCSlotSwitch
tlapm FdbSyncProofs.tla
tlapm SlotSwitchProofs.tla
```

Each run is its configuration and the `MC` module of the same model, as listed in
`PROJECT.json`. Every run ends within about three and a half minutes on two cores;
`offload`, `wifi` and `access` take longest. The eight proof modules have some 9,700
obligations and take about two minutes each at most.
