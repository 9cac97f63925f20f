------------------------------ MODULE BootSlot ------------------------------
(***************************************************************************)
(* From U-Boot's arguments to the writable MTD partitions of an H3C board. *)
(* early_init_dt_scan_chosen strips the storage arguments it inherits and  *)
(* appends the map of the image, turned so that the slot U-Boot booted is  *)
(* rootfs; the MTD core of the C and D boards then validates that map and  *)
(* decides which partitions can be written.  The argument text is a        *)
(* sequence of words; lengths count words.                                 *)
(***************************************************************************)
EXTENDS Integers, Sequences, FiniteSets

CONSTANTS
    Bootargs,     \* command lines U-Boot may hand over
    Appended,     \* bootargs-append values of the device trees
    Capacity      \* COMMAND_LINE_SIZE, in words

ASSUME CapacityAssumption == Capacity \in Nat \ {0}

VARIABLES
    image,      \* the image that was booted
    given,      \* its bootargs property, as U-Boot left it
    append,     \* its bootargs-append property
    cmdline,    \* the kernel's command line
    map,        \* rows of the mtdparts map in force
    parts,      \* registered partitions
    stage       \* "inherit", "append", "storage", "guard", "up", "panic", "refused"

bootVars == <<image, given, append, cmdline, map, parts, stage>>

----------------------------------------------------------------------------
(* Data *)

(* Words: an argument the kernel must keep, a storage argument of the old  *)
(* firmware, an unbalanced quote, the hand-over of U-Boot, and the storage *)
(* arguments of the image as one word.                                     *)
SlotWord == {"slot=low", "slot=high", "slot=bad"}
SizeWord == {"size=single", "size=slot", "size=bad"}
Word == {"ecc", "stale", "quote", "storage"} \cup SlotWord \cup SizeWord

ASSUME LineAssumption == Bootargs \subseteq Seq(Word) /\ Appended \subseteq Seq(Word)

(* The images with flash, by the device tree they are built with.          *)
Persistent == {"A", "B", "C", "D"}
Image == Persistent \cup {"A ram", "B ram", "C discovery", "C installer", "D ram", "D installer"}
BoardC == {"C", "C discovery", "C installer"}
BoardD == {"D", "D ram", "D installer"}
Installer == {"C installer", "D installer"}

(* A row of a map.  The bootconfig row stands for both copies, rest for    *)
(* every row but those and the system slots.                               *)
Row(extent, name, ro) == [extent |-> extent, name |-> name, ro |-> ro]
Slots == {"low", "high", "single"}
Around(bootconfigRo) == {Row("bootconfig", "bootconfig", bootconfigRo), Row("rest", "rest", TRUE)}

(* The map in h3c,storage-bootargs ...                                     *)
Storage(i) ==
    CASE i \in {"B", "B ram", "C"} ->
            Around(TRUE) \cup {Row("low", "oem_rootfs", TRUE), Row("high", "rootfs", FALSE)}
      [] i \in {"A", "A ram", "D"} ->
            Around(TRUE) \cup {Row("low", "rootfs", FALSE), Row("high", "oem_rootfs", TRUE)}
      [] i = "D ram" ->
            Around(TRUE) \cup {Row("low", "rootfs", TRUE), Row("high", "oem_rootfs", TRUE)}
      [] i = "D installer" ->
            Around(FALSE) \cup {Row("low", "rootfs", FALSE), Row("high", "oem_rootfs", TRUE)}

(* ... which two images of C do not have: they live on the mtdparts of the *)
(* old firmware, or on the partition nodes of their own tree.              *)
HasStorage(i) == i \notin {"C discovery", "C installer"}

Nodes(i) ==
    Around(i = "C discovery") \cup
        {Row("low", "rootfs", TRUE), Row("high", "rootfs_1", i = "C discovery")}

Inherited ==
    {Row("bootconfig", "bootconfig", FALSE), Row("rest", "rest", FALSE),
     Row("low", "rootfs", FALSE), Row("high", "rootfs_1", FALSE)}

----------------------------------------------------------------------------
(* The command line *)

Has(args, w) == \E k \in 1..Len(args) : args[k] = w

(* h3c_rt3000_filter_bootargs: one pass that copies what is to be kept.    *)
Stripped == {"stale", "storage"}

Filter(args) ==
    LET kept[n \in 0..Len(args)] ==
            IF n = 0 THEN <<>>
            ELSE IF args[n] \in Stripped THEN kept[n - 1]
            ELSE Append(kept[n - 1], args[n])
    IN  kept[Len(args)]

Balanced(args) == ~Has(args, "quote")
Fits(args) == Len(args) <= Capacity

(* The one word of a key; a repeated or unusable one counts as absent.     *)
Value(args, key) ==
    LET hits == {k \in 1..Len(args) : args[k] \in key}
    IN  IF \E k \in hits : hits = {k} THEN args[CHOOSE k \in hits : TRUE] ELSE "none"

BootSlotOf(args) ==
    CASE Value(args, SlotWord) = "slot=low" -> "low"
      [] Value(args, SlotWord) = "slot=high" -> "high"
      [] OTHER -> "none"

Single(args) == BootSlotOf(args) = "low" /\ Value(args, SizeWord) = "size=single"

Named(m, extent, name) == \E r \in m : r.extent = extent /\ r.name = name
OtherSlot(slot) == IF slot = "low" THEN "high" ELSE "low"

(* select_slot: labels and flags of the two slots change places when the   *)
(* booted one is oem_rootfs; anything unexpected keeps the map.            *)
SelectSlotLabel(m, slot) ==                                     \* mutated form
    IF Named(m, slot, "oem_rootfs") /\ Named(m, OtherSlot(slot), "rootfs")
    THEN {IF r.extent = slot THEN Row(slot, "rootfs", r.ro)
          ELSE IF r.extent = OtherSlot(slot) THEN Row(r.extent, "oem_rootfs", r.ro) ELSE r : r \in m}
    ELSE m

SelectSlot(m, slot) ==
    IF Named(m, slot, "oem_rootfs") /\ Named(m, OtherSlot(slot), "rootfs")
    THEN {IF r.extent \in {"low", "high"} THEN [r EXCEPT !.extent = OtherSlot(@)] ELSE r : r \in m}
    ELSE m

(* single_slot: both entries become one writable rootfs.                   *)
SingleSlot(m) ==
    IF \E s \in {"low", "high"} : Named(m, s, "rootfs") /\ Named(m, OtherSlot(s), "oem_rootfs")
    THEN {r \in m : r.extent \notin Slots} \cup {Row("single", "rootfs", FALSE)}
    ELSE m

(* Only a map the kernel attaches UBI from follows U-Boot.                 *)
Follows(i) == i \in Persistent

Oriented(i, args) ==
    IF ~Follows(i) THEN Storage(i)
    ELSE IF Single(args) THEN SingleSlot(Storage(i))
    ELSE IF BootSlotOf(args) # "none" THEN SelectSlot(Storage(i), BootSlotOf(args))
    ELSE Storage(i)

Panic == stage' = "panic" /\ UNCHANGED <<image, given, append, cmdline, map, parts>>

(* bootargs: filtered before they are copied, or copied and truncated.     *)
Inherit ==
    /\ stage = "inherit"
    /\ IF ~HasStorage(image)
       THEN /\ cmdline' = SubSeq(given, 1, IF Fits(given) THEN Len(given) ELSE Capacity)
            /\ stage' = "append"
            /\ UNCHANGED <<image, given, append, map, parts>>
       ELSE \/ /\ Balanced(given) /\ Fits(Filter(given))
               /\ cmdline' = Filter(given)
               /\ stage' = "append"
               /\ UNCHANGED <<image, given, append, map, parts>>
            \/ ~(Balanced(given) /\ Fits(Filter(given))) /\ Panic

(* bootargs-append.                                                        *)
AppendTruncated ==                                              \* mutated form
    /\ stage = "append"
    /\ LET all == cmdline \o append
       IN  cmdline' = SubSeq(all, 1, IF Fits(all) THEN Len(all) ELSE Capacity)
    /\ stage' = "storage"
    /\ UNCHANGED <<image, given, append, map, parts>>

AppendArgs ==
    /\ stage = "append"
    /\ LET all == cmdline \o append
       IN  IF Fits(all) \/ ~HasStorage(image)
           THEN /\ cmdline' = SubSeq(all, 1, IF Fits(all) THEN Len(all) ELSE Capacity)
                /\ stage' = "storage"
                /\ UNCHANGED <<image, given, append, map, parts>>
           ELSE Panic

(* storage_bootargs: the slot is read, the line filtered once more and the *)
(* map appended; without the property the inherited map remains in force,  *)
(* or there is none and the MTD core takes the nodes.                      *)
StorageArgs ==
    /\ stage = "storage"
    /\ IF ~HasStorage(image)
       THEN /\ map' = IF Has(cmdline, "stale") THEN Inherited ELSE Nodes(image)
            /\ stage' = "guard"
            /\ UNCHANGED <<image, given, append, cmdline, parts>>
       ELSE IF Balanced(cmdline) /\ Fits(Append(Filter(cmdline), "storage"))
       THEN /\ map' = Oriented(image, cmdline)
            /\ cmdline' = Append(Filter(cmdline), "storage")
            /\ stage' = "guard"
            /\ UNCHANGED <<image, given, append, parts>>
       ELSE Panic

----------------------------------------------------------------------------
(* The guards *)

Extents(m) == {r.extent : r \in m}
WholeMap(m) ==
    \/ Extents(m) = {"bootconfig", "rest", "low", "high"}
    \/ Extents(m) = {"bootconfig", "rest", "single"} /\ Named(m, "single", "rootfs")

(* rt3000_c_partition_map_valid: the extents only, and the safe set-up of  *)
(* the flash controller, which the discovery image does without.           *)
ValidC(m, i) == WholeMap(m) /\ i # "C discovery"

(* rt3000_c_named_slots: rootfs and oem_rootfs, or the single rootfs.      *)
NamedSlots(m) ==
    \/ \E s \in {"low", "high"} : Named(m, s, "rootfs") /\ Named(m, OtherSlot(s), "oem_rootfs")
    \/ Named(m, "single", "rootfs")

WindowOpen(m, r, i) ==                                          \* mutated form
    \/ r.extent \in Slots
    \/ i \in Installer /\ r.extent = "bootconfig"

WindowC(m, r, i) ==
    IF NamedSlots(m) /\ r.extent \in Slots
    THEN r.name = "rootfs"
    ELSE r.extent = "high" \/ (i \in Installer /\ r.extent = "bootconfig")

NameC(m, r) ==
    IF NamedSlots(m) \/ r.extent \notin {"low", "high"} THEN r.name
    ELSE IF r.extent = "low" THEN "rootfs" ELSE "rootfs_1"

(* hwd_partition_map_valid: extents, names and write flags.                *)
ShouldWrite(r, i) ==
    i # "D ram" /\ (r.name = "rootfs" \/ (i \in Installer /\ r.extent = "bootconfig"))

ValidD(m, i) ==
    /\ WholeMap(m)
    /\ \A r \in m :
          /\ r.extent \in {"low", "high"} => r.name \in {"rootfs", "oem_rootfs"}
          /\ r.extent \notin Slots => r.name = r.extent
          /\ ~r.ro <=> ShouldWrite(r, i)
    /\ \E r \in m : r.name = "rootfs" /\ \A q \in m : q.name = "rootfs" => q = r

(* add_mtd_partitions: all of a valid map, none of another; the boards A   *)
(* and B register what the map says.                                       *)
Partition(name, r, writable) == [extent |-> r.extent, name |-> name, writable |-> writable]

Guarded(m, i) ==
    CASE i \in BoardC -> {Partition(NameC(m, r), r, WindowC(m, r, i) /\ ~r.ro) : r \in m}
      [] i \in BoardD -> {Partition(r.name, r, ShouldWrite(r, i) /\ ~r.ro) : r \in m}
      [] OTHER -> {Partition(r.name, r, ~r.ro) : r \in m}

Accepts(m, i) == (i \in BoardC => ValidC(m, i)) /\ (i \in BoardD => ValidD(m, i))

Register ==
    /\ stage = "guard"
    /\ IF Accepts(map, image)
       THEN parts' = Guarded(map, image) /\ stage' = "up"
       ELSE stage' = "refused" /\ UNCHANGED parts
    /\ UNCHANGED <<image, given, append, cmdline, map>>

(* U-Boot starts an image with some hand-over.  The names keep clear of    *)
(* those of SlotUpgrade: SlotProofs extends both.                          *)
BootInit ==
    /\ image \in Image
    /\ given \in Bootargs
    /\ append \in Appended
    /\ cmdline = <<>> /\ map = {} /\ parts = {}
    /\ stage = "inherit"

BootNext == Inherit \/ AppendArgs \/ StorageArgs \/ Register

BootSpec == BootInit /\ [][BootNext]_bootVars

----------------------------------------------------------------------------
(* Properties *)

(* U-Boot's words on the whole line, each said once.                       *)
Said(w, key) ==
    LET all == given \o append
        hits == {k \in 1..Len(all) : all[k] \in key}
    IN  \E k \in hits : hits = {k} /\ all[k] = w

BootedSlot ==
    CASE Said("slot=low", SlotWord) /\ Said("size=single", SizeWord) -> "single"
      [] Said("slot=low", SlotWord) /\ ~Said("size=single", SizeWord) -> "low"
      [] Said("slot=high", SlotWord) -> "high"
      [] OTHER -> IF image \in {"A", "D"} THEN "low" ELSE "high"

WritableSlots == {p.extent : p \in {q \in parts : q.writable}} \cap Slots

(* "Linux attaches and writes the slot it actually booted": across command *)
(* line, map and guard, an installed image finds the slot U-Boot named     *)
(* once, else the one of its device tree, as its only writable slot and as *)
(* the only partition called rootfs; the other firmware stays read-only.   *)
WritesTheBootedSlot ==
    stage = "up" /\ image \in Persistent =>
        /\ WritableSlots = {BootedSlot}
        /\ {p.extent : p \in {q \in parts : q.name = "rootfs"}} = {BootedSlot}

(* On the C and D boards no image can write loader, calibration or both    *)
(* system slots, only an installer the selector, and a validation RAM      *)
(* image nothing, even on the all-writable map of the old firmware.        *)
ProtectedStayReadOnly ==
    image \in BoardC \cup BoardD =>
        /\ \A p, q \in parts : p.writable /\ q.writable =>
              (p.extent \in Slots /\ q.extent \in Slots => p = q)
        /\ \A p \in parts : p.writable =>
              /\ p.extent \in Slots \/ (p.extent = "bootconfig" /\ image \in Installer)
              /\ image # "D ram"

(* Where a line has the words that are to reach the kernel.                *)
KeptAt(line) == {k \in 1..Len(line) : line[k] \notin Stripped}

(* The arguments of the firmware that are not about storage (ECC layout,   *)
(* console, radio) all reach the kernel, in order, beside exactly one set  *)
(* of storage arguments and within COMMAND_LINE_SIZE, or the boot panics:   *)
(* nothing is truncated.                                                   *)
KeptOrPanic ==
    HasStorage(image) /\ stage \in {"guard", "up"} =>
        LET all == given \o append
        IN  /\ Fits(cmdline)
            /\ cmdline[Len(cmdline)] = "storage"
            /\ Len(cmdline) = Cardinality(KeptAt(all)) + 1
            /\ \A k \in KeptAt(all) :
                  cmdline[Cardinality(KeptAt(all) \cap 1..k)] = all[k]

=============================================================================
