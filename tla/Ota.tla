-------------------------------- MODULE Ota --------------------------------
(***************************************************************************)
(* The seamless A/B update: /bin/ota (applications/ota/ota.c), the verity  *)
(* slot activation in the device mapper (drivers/block/dm.c), the          *)
(* persistent UFS header and the boot LUNs (drivers/block/ufshcd.c), and   *)
(* the host's sideloader (scripts/host_ota.py), which writes the disk      *)
(* image from outside the machine.                                         *)
(*                                                                         *)
(* /dev/hdd holds a system and a vendor slice for each of two slots.  A    *)
(* slice is its data blocks and a three-level hash tree above them; the    *)
(* model follows two of its 1 KB blocks, the EROFS superblock (block 1)    *)
(* and the block of build.prop.  A hash is represented by what it is       *)
(* computed from, so a level of the tree is a function from these blocks   *)
(* to their contents.  The vbmeta descriptor of a slot names the root      *)
(* hashes it must have.                                                    *)
(*                                                                         *)
(* Writes to /dev/hdd go through the buffer cache, whose dirty list is     *)
(* written in the order the buffers were dirtied and synced at close, so a *)
(* power loss keeps a prefix of the writes: it is the power loss after     *)
(* that write.  The vbmeta and the header are written out before the call  *)
(* returns (vbmeta at the close, the header by the driver itself).         *)
(***************************************************************************)
EXTENDS Naturals

CONSTANTS
    MaxBuild,      \* builds an update may carry: 1..MaxBuild (0: as built)
    MaxSideloads,  \* bound on ota_pending_seq
    MaxCrashes,    \* bound on power losses
    Layouts,       \* where build.prop may lie, a subset of Places
    Overlap,       \* the host may sideload while an ota command runs
    ByHand         \* ufs boot-slot may name slot A while slot B is live

\* The block of build.prop is one of 1..63: among the 16 blocks activation
\* checks, past them but under the same level-0 block, or under another one.
Places == {"checked", "leaf", "apart"}

ASSUME OtaAssumption ==
    /\ MaxBuild \in Nat \ {0}
    /\ MaxSideloads \in Nat /\ MaxCrashes \in Nat
    /\ Layouts \subseteq Places /\ Layouts # {}
    /\ Overlap \in BOOLEAN /\ ByHand \in BOOLEAN

VARIABLES
    layout,  \* where build.prop lies on this machine's images
    slice,   \* /dev/hdd: slice[slot][partition]
    vbm,     \* the vbmeta of each boot LUN, None before it is seeded
    disk,    \* the UFS header on the medium
    hdr,     \* ufs_hdr, the kernel's copy
    dev,     \* dm_devs[0] and dm_devs[6]: the slot and root they map, or None
    up,      \* off, boot, on, or dead (no /system to mount)
    act,     \* the dm_activate_ota_slot in progress, or None
    job,     \* the ota command in progress, or None
    host,    \* host_ota.py
    crashes  \* how often the power was lost

persistent == <<layout, slice, vbm, crashes>>
vars == <<layout, slice, vbm, disk, hdr, dev, up, act, job, host, crashes>>

None == [none |-> TRUE]
Slots == {"a", "b"}
Other(s) == IF s = "a" THEN "b" ELSE "a"
Parts == {"system", "vendor"}
Blocks == {"super", "prop"}
Contents == 0 .. MaxBuild            \* for the superblock: 0 good, 1 flipped
Tree == [Blocks -> Contents]
Fresh == [b \in Blocks |-> 0]

Slice == [data : Tree, l0 : Tree, l1 : Tree, l2 : Tree, sb : Tree]
Uniform(t) == [data |-> t, l0 |-> t, l1 |-> t, l2 |-> t, sb |-> t]

Header == [lun : Slots, pending : 0 .. MaxSideloads, ack : 0 .. MaxSideloads,
           pslot : Slots \cup {"none", "refresh"}]
Header0 == [lun |-> "a", pending |-> 0, ack |-> 0, pslot |-> "none"]
Vbmeta == [bootable : BOOLEAN, root : [Parts -> Tree]]
Device == [slot : Slots, root : Tree]
NoDev == [p \in Parts |-> None]

\* No activation is in the kernel, which is not preempted.
Idle == act = None /\ up = "on"

\* Unless they may overlap, a command or a boot waits for the host to finish,
\* and for the poll of the exec that starts it.
Quiet == ~Overlap => /\ host.pc = "idle"
                     /\ up = "on" => disk.pending = hdr.ack

-----------------------------------------------------------------------------
(* What activation checks of a slice *)

\* The blocks that share b's level-0 hash block.
Group(b) == IF layout = "apart" THEN {b} ELSE Blocks
Checked == IF layout = "checked" THEN Blocks ELSE {"super"}

\* dm_verify_verity_block: the data hash in its level-0 block, that block's
\* hash in level 1, level 1's in level 2, and level 2's is the root.
BlockVerifies(q, b, root) ==
    /\ q.data[b] = q.l0[b]
    /\ \A c \in Group(b) : q.l1[c] = q.l0[c]
    /\ q.l2 = q.l1
    /\ root = q.l2

\* dm_setup_verity_slice, up to the replacement of the device.
Accepts(q, root) ==
    /\ q.sb = root
    /\ \A b \in Checked : BlockVerifies(q, b, root)

-----------------------------------------------------------------------------
(* The UFS header *)

\* ufs_set_active_boot_lun: also acknowledges the host's pending request.
SetBootLun(s) ==
    /\ hdr' = [hdr EXCEPT !.lun = s, !.ack = hdr.pending]
    /\ disk' = hdr'

\* ufs_load_or_init_persist_hdr: a pending sideload chooses the boot LUN.
Loaded(h) ==
    [h EXCEPT !.lun = IF h.pending # h.ack /\ h.pslot \in Slots
                      THEN h.pslot ELSE h.lun]

\* Mutant: the active slot taken from the boot LUN alone.
ActiveSlotByLun == hdr.lun

\* The DM_IOC_OTA_STATUS ioctl's active_slot.
ActiveSlot ==
    IF hdr.lun = "b" /\ dev["system"] # None /\ dev["system"].slot = "b"
    THEN "b" ELSE "a"

-----------------------------------------------------------------------------
(* Power *)

Init ==
    /\ layout \in Layouts
    /\ slice = [s \in Slots |-> [p \in Parts |-> Uniform(Fresh)]]
    /\ vbm = [s \in Slots |-> None]
    /\ disk = Header0
    /\ hdr = Header0
    /\ dev = NoDev
    /\ up = "off"
    /\ act = None
    /\ job = None
    /\ host = [pc |-> "idle", asked |-> 0]
    /\ crashes = 0

\* Power loss: the kernel's memory and the running command are gone.
Crash ==
    /\ up # "off"
    /\ crashes < MaxCrashes /\ crashes' = crashes + 1
    /\ up' = "off"
    /\ hdr' = Header0 /\ dev' = NoDev /\ act' = None /\ job' = None
    /\ UNCHANGED <<layout, slice, vbm, disk, host>>

\* The UFS probe reads the header and saves it (power_cycles++); then init()
\* calls dm_setup_verity_bin.
Boot ==
    /\ up = "off"
    /\ Quiet
    /\ up' = "boot"
    /\ hdr' = Loaded(disk)
    /\ disk' = hdr'
    /\ act' = [stage |-> "seedA", slot |-> "a", target |-> "a", rolled |-> FALSE]
    /\ UNCHANGED <<persistent, dev, job, host>>

-----------------------------------------------------------------------------
(* The slot activation, one action per access to the disk *)

Stage(s) == act' = [act EXCEPT !.stage = s]

\* dm_activate_ota_slot returns; dm_setup_verity_bin takes a rollback that
\* left /dev/dm-0 active for a success.
Return(ok) ==
    /\ act' = None
    /\ up' = IF up # "boot" THEN up
             ELSE IF ok \/ (act.target = "b" /\ dev["system"] # None)
             THEN "on" ELSE "dead"

\* dm_seed_ufs_vbmeta_if_needed: a vbmeta that is missing gets the roots the
\* slices were built with.  When slot A's is, A also becomes the boot LUN,
\* and slot B's vbmeta is written whatever it holds (reseed_b).
Seed(s) == vbm' = [vbm EXCEPT ![s] = [bootable |-> TRUE, root |-> [p \in Parts |-> Fresh]]]

SeedA ==
    /\ act # None /\ act.stage = "seedA"
    /\ IF vbm["a"] = None THEN Seed("a") /\ Stage("seedLun")
                          ELSE Stage("seedB") /\ UNCHANGED vbm
    /\ UNCHANGED <<layout, crashes, slice, disk, hdr, dev, up, job, host>>

SeedLun ==
    /\ act # None /\ act.stage = "seedLun"
    /\ SetBootLun("a")
    /\ Stage("reseedB")
    /\ UNCHANGED <<persistent, dev, up, job, host>>

\* Slot B's vbmeta, and the choice of the slot to boot.
SeedB ==
    /\ act # None /\ act.stage \in {"seedB", "reseedB"}
    /\ IF act.stage = "reseedB" \/ vbm["b"] = None THEN Seed("b") ELSE UNCHANGED vbm
    /\ act' = [act EXCEPT !.stage = "check", !.slot = hdr.lun, !.target = hdr.lun]
    /\ UNCHANGED <<layout, crashes, slice, disk, hdr, dev, up, job, host>>

\* Mutant: no rollback.
FailStays == Return(FALSE)

\* Slot B's failure rolls back to slot A, slot A's is final.
Fail == IF act.slot = "b" /\ ~act.rolled
        THEN Stage("condemn") /\ UNCHANGED up
        ELSE Return(FALSE)

CheckFlags ==
    /\ act # None /\ act.stage = "check"
    /\ IF vbm[act.slot].bootable THEN Stage("system") /\ UNCHANGED up ELSE Fail
    /\ UNCHANGED <<persistent, disk, hdr, dev, job, host>>

\* dm_setup_verity_slice, for the system slice and then the vendor slice.
SetupSlice ==
    /\ act # None /\ act.stage \in Parts
    /\ LET p == act.stage
           root == vbm[act.slot].root[p]
       IN IF Accepts(slice[act.slot][p], root)
          THEN /\ dev' = [dev EXCEPT ![p] = [slot |-> act.slot, root |-> root]]
               /\ Stage(IF p = "system" THEN "vendor" ELSE "lun")
               /\ UNCHANGED up
          ELSE Fail /\ UNCHANGED dev
    /\ UNCHANGED <<persistent, disk, hdr, job, host>>

\* Success: the flags of the vbmeta, of which the model keeps only whether
\* the slot is bootable, and the boot LUN.
Activated ==
    /\ act # None /\ act.stage = "lun"
    /\ vbm' = [vbm EXCEPT ![act.slot].bootable = TRUE]
    /\ SetBootLun(act.slot)
    /\ Return(~act.rolled)
    /\ UNCHANGED <<layout, crashes, slice, dev, job, host>>

\* rollback_to_a: slot B is marked UNBOOTABLE, the boot LUN becomes A, and
\* slot A is tried.
Condemn ==
    /\ act # None /\ act.stage = "condemn"
    /\ vbm' = [vbm EXCEPT !["b"].bootable = FALSE]
    /\ Stage("fallback")
    /\ UNCHANGED <<layout, crashes, slice, disk, hdr, dev, up, job, host>>

Fallback ==
    /\ act # None /\ act.stage = "fallback"
    /\ SetBootLun("a")
    /\ act' = [act EXCEPT !.stage = "check", !.slot = "a", !.rolled = TRUE]
    /\ UNCHANGED <<persistent, dev, up, job, host>>

Begin(s) == act' = [stage |-> "check", slot |-> s, target |-> s, rolled |-> FALSE]

-----------------------------------------------------------------------------
(* /bin/ota: one command at a time *)

Command(j) == Idle /\ Quiet /\ job = None /\ job' = j

\* cmd_apply: the target is the slot DM_IOC_OTA_STATUS does not call active.
\* The new build.prop holds a version above the rollback index of both slots'
\* vbmetas, so its content is in neither of them.  (Both slots carry a verity
\* superblock, so the baseline is never cloned.)
Apply ==
    /\ Idle
    /\ \E v \in {w \in 1 .. MaxBuild : \A s \in Slots, p \in Parts :
                                        vbm[s].root[p]["prop"] # w} :
          Command([pc |-> "data", cmd |-> "apply", slot |-> Other(ActiveSlot),
                   part |-> "system", block |-> "prop", content |-> v,
                   h |-> Fresh, root |-> [p \in Parts |-> Fresh]])
    /\ UNCHANGED <<persistent, disk, hdr, dev, up, act, host>>

\* cmd_repair_b: slot B gets slot A's superblock.
Repair ==
    /\ Command([pc |-> "data", cmd |-> "repair", slot |-> "b",
                part |-> "system", block |-> "super",
                content |-> slice["a"]["system"].data["super"],
                h |-> Fresh, root |-> [p \in Parts |-> Fresh]])
    /\ UNCHANGED <<persistent, disk, hdr, dev, up, act, host>>

\* cmd_corrupt_b flips bytes of slot B's superblock, then makes B the boot
\* LUN.  It is for testing the rollback, with slot A live.
Corrupt ==
    /\ \A p \in Parts : dev[p] # None /\ dev[p].slot = "a"
    /\ Command([pc |-> "bsg"])
    /\ slice' = [slice EXCEPT !["b"]["system"].data["super"] = 1 - @]
    /\ UNCHANGED <<layout, crashes, vbm, disk, hdr, dev, up, act, host>>

\* WRITE_ATTR of bBootLunID: neither activates the slot nor acknowledges.
WriteAttr(s) ==
    /\ hdr' = [hdr EXCEPT !.lun = s]
    /\ disk' = hdr'

\* The end of cmd_corrupt_b, or the command ufs boot-slot, which takes either
\* slot.
WriteBootLunAttr ==
    /\ Idle
    /\ \/ job # None /\ job.pc = "bsg" /\ WriteAttr("b")
       \/ /\ Quiet /\ job = None
          /\ \E s \in Slots :
                /\ s = "a" => ByHand \/ ActiveSlot = "a"
                /\ WriteAttr(s)
    /\ job' = None
    /\ UNCHANGED <<persistent, dev, up, act, host>>

\* update_verity_block_and_spine, one action per 1 KB write.  h is the block
\* just written, kept in the command's memory.
Write(field, t, next) ==
    /\ slice' = [slice EXCEPT ![job.slot][job.part][field] = t]
    /\ job' = [job EXCEPT !.pc = next, !.h = t]

WriteSpine ==
    /\ Idle /\ job # None
    /\ LET q == slice[job.slot][job.part]
       IN \/ /\ job.pc = "data"
             /\ Write("data", [q.data EXCEPT ![job.block] = job.content], "l0")
          \/ /\ job.pc = "l0"
             /\ Write("l0", [q.l0 EXCEPT ![job.block] = job.content], "l1")
          \/ /\ job.pc = "l1"
             /\ Write("l1", [b \in Blocks |-> IF b \in Group(job.block)
                                              THEN job.h[b] ELSE q.l1[b]], "l2")
          \/ /\ job.pc = "l2"
             /\ Write("l2", job.h, "sb")
          \/ /\ job.pc = "sb"
             /\ slice' = [slice EXCEPT ![job.slot][job.part].sb = job.h]
             /\ job' = [job EXCEPT !.root[job.part] = job.h,
                          !.part = "vendor",
                          !.pc = IF job.cmd = "apply" /\ job.part = "system"
                                 THEN "data" ELSE "vbmeta"]
    /\ UNCHANGED <<layout, crashes, vbm, disk, hdr, dev, up, act, host>>

\* write_vbmeta: apply writes a new descriptor, repair-b updates the flags and
\* the system root of the one it has read.
WriteVbmeta ==
    /\ Idle /\ job # None /\ job.pc = "vbmeta"
    /\ \/ /\ job.cmd = "apply"
          /\ vbm' = [vbm EXCEPT ![job.slot] = [bootable |-> TRUE, root |-> job.root]]
          /\ job' = [job EXCEPT !.pc = "rpmb"]
       \/ /\ job.cmd = "repair"
          /\ vbm' = [vbm EXCEPT !["b"].bootable = TRUE,
                                !["b"].root["system"] = job.root["system"]]
          /\ job' = None
    /\ UNCHANGED <<layout, crashes, slice, disk, hdr, dev, up, act, host>>

\* rpmb_record_rollback: the driver counts the write in the header and saves
\* it.  With --no-activate the command ends here.
RecordRollback ==
    /\ Idle /\ job # None /\ job.pc = "rpmb"
    /\ disk' = hdr
    /\ \/ job' = None
       \/ job' = [job EXCEPT !.pc = "switch"]
    /\ UNCHANGED <<persistent, hdr, dev, up, act, host>>

\* cmd_switch: DM_IOC_OTA_ACTIVATE, by itself or at the end of an apply.
Switch ==
    /\ Idle
    /\ \/ Quiet /\ job = None /\ \E s \in Slots : Begin(s)
       \/ job # None /\ job.pc = "switch" /\ Begin(job.slot)
    /\ job' = None
    /\ UNCHANGED <<persistent, disk, hdr, dev, up, host>>

-----------------------------------------------------------------------------
(* The host's sideloader, and how the kernel hears of it *)

\* cmd_sideload reads the header and builds both slices of the slot that is
\* not the boot LUN (which is the TARGET_SLOT of the package, if it names
\* one).  On a running machine it is run between commands, with the live slot
\* as boot LUN, unless they may overlap.
HostStart ==
    /\ host.pc = "idle"
    /\ IF Overlap THEN up = "on"
       ELSE up = "off" \/ (Idle /\ job = None /\ disk.lun = ActiveSlot)
    /\ disk.pending < MaxSideloads
    /\ \E v \in 1 .. MaxBuild, activate \in BOOLEAN :
          host' = [pc |-> "slices", asked |-> host.asked, hdr |-> disk,
                   slot |-> Other(disk.lun), tree |-> [Fresh EXCEPT !["prop"] = v],
                   activate |-> activate]
    /\ UNCHANGED <<persistent, disk, hdr, dev, up, act, job>>

HostSlices ==
    /\ host.pc = "slices"
    /\ slice' = [slice EXCEPT ![host.slot] = [p \in Parts |-> Uniform(host.tree)]]
    /\ host' = [host EXCEPT !.pc = "vbmeta"]
    /\ UNCHANGED <<layout, crashes, vbm, disk, hdr, dev, up, act, job>>

HostVbmeta ==
    /\ host.pc = "vbmeta"
    /\ vbm' = [vbm EXCEPT ![host.slot] = [bootable |-> TRUE,
                                          root |-> [p \in Parts |-> host.tree]]]
    /\ host' = [host EXCEPT !.pc = "header"]
    /\ UNCHANGED <<layout, crashes, slice, disk, hdr, dev, up, act, job>>

\* The header goes back as it was read, with the request in it.
HostHeader ==
    /\ host.pc = "header"
    /\ LET seq == host.hdr.pending + 1
       IN /\ disk' = [host.hdr EXCEPT
                        !.pending = seq,
                        !.pslot = IF host.activate THEN host.slot ELSE "refresh",
                        !.lun = IF host.activate THEN host.slot ELSE @]
          /\ host' = [pc |-> "idle", asked |-> seq]
    /\ UNCHANGED <<persistent, hdr, dev, up, act, job>>

\* Mutant: the request is not copied into ufs_hdr before the activation.
PollForgets ==
    /\ Idle
    /\ disk.pending # hdr.ack
    /\ disk.pslot \in Slots
    /\ Begin(disk.pslot)
    /\ UNCHANGED <<persistent, disk, hdr, dev, up, job, host>>

\* ufs_poll_external_ota, from any open or exec.
Poll ==
    /\ Idle
    /\ disk.pending # hdr.ack
    /\ \/ /\ disk.pslot \in Slots
          /\ hdr' = [hdr EXCEPT !.pending = disk.pending, !.pslot = disk.pslot]
          /\ Begin(disk.pslot)
          /\ UNCHANGED disk
       \/ /\ disk.pslot = "refresh"
          /\ hdr' = [hdr EXCEPT !.pending = disk.pending, !.pslot = disk.pslot,
                                !.ack = disk.pending]
          /\ disk' = hdr'
          /\ UNCHANGED act
    /\ UNCHANGED <<persistent, dev, up, job, host>>

-----------------------------------------------------------------------------
Activation == SeedA \/ SeedLun \/ SeedB \/ CheckFlags \/ SetupSlice \/ Activated
              \/ Condemn \/ Fallback
Updater == Apply \/ Repair \/ Corrupt \/ WriteBootLunAttr \/ WriteSpine
           \/ WriteVbmeta \/ RecordRollback \/ Switch
Host == HostStart \/ HostSlices \/ HostVbmeta \/ HostHeader
Next == Crash \/ Boot \/ Activation \/ Updater \/ Host \/ Poll

Spec == Init /\ [][Next]_vars

-----------------------------------------------------------------------------
(* Properties *)

\* The type of what outlives a step: the disk, the header's copy, the devices.
TypeOK ==
    /\ layout \in Layouts
    /\ slice \in [Slots -> [Parts -> Slice]]
    /\ vbm \in [Slots -> Vbmeta \cup {None}]
    /\ disk \in Header /\ hdr \in Header
    /\ dev \in [Parts -> Device \cup {None}]
    /\ up \in {"off", "boot", "on", "dead"}

\* The machine always comes up: wherever the power went during an apply, a
\* repair, a switch or a rollback, the boot LUN or the rollback from it finds
\* a slot that verifies, and /system and /vendor come from the same slot
\* (dm_setup_verity_bin, dm_activate_ota_slot).
ComesUp ==
    /\ up # "dead"
    /\ Idle => \E s \in Slots : \A p \in Parts : dev[p] # None /\ dev[p].slot = s

\* "Stages and applies live A/B OTA updates into the inactive slot" (ota.c):
\* what was verified when a slot went live verifies as long as it is live,
\* whatever is being written.
LiveIntact ==
    \A p \in Parts : dev[p] # None =>
        \A b \in Checked : BlockVerifies(slice[dev[p].slot][p], b, dev[p].root)

\* The request of a finished sideload is on the disk until the kernel has
\* acknowledged it (host_ota.py's ota_pending_seq, ufs_poll_external_ota).
SideloadKept == host.asked \in {disk.pending, disk.ack}
=============================================================================
