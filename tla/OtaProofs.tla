------------------------------- MODULE OtaProofs -------------------------------
(***************************************************************************)
(* Proofs about an update: that the machine always comes up, that the live *)
(* slot stays as it was verified, and that no sideload is forgotten, for   *)
(* any number of builds, sideloads and power losses and any layout of the  *)
(* hash tree, as long as no sideload overlaps a command and nobody makes   *)
(* slot A the boot LUN by hand while slot B is live.                       *)
(***************************************************************************)
EXTENDS Ota, TLAPS

-------------------------------------------------------------------------------
(* The inductive invariant. *)

(* The root hash that activation compares a slice with, once the vbmeta is seeded. *)
Root(s, p) == IF vbm[s] = None THEN Fresh ELSE vbm[s].root[p]

Bootable(s) == vbm[s] = None \/ vbm[s].bootable

(* The slice verifies, and an activation of slot s succeeds. *)
Sound(s, p) == Accepts(slice[s][p], Root(s, p))
Good(s) == Bootable(s) /\ \A p \in Parts : Sound(s, p)

(* Both devices map slot s. *)
Live(s) == \A p \in Parts : dev[p] # None /\ dev[p].slot = s

Seeding == {"seedA", "seedLun", "seedB", "reseedB"}
Stages == Seeding \cup {"check", "system", "vendor", "lun", "condemn", "fallback"}
Activations == [stage : Stages, slot : Slots, target : Slots, rolled : BOOLEAN]

Spine == {"data", "l0", "l1", "l2", "sb"}
Updates == [pc : Spine \cup {"vbmeta", "rpmb", "switch"}, cmd : {"apply", "repair"},
            slot : Slots, part : Parts, block : Blocks, content : Contents,
            h : Tree, root : [Parts -> Tree]]

Sideloads == [pc : {"slices", "vbmeta", "header"}, asked : 0 .. MaxSideloads,
              hdr : Header, slot : Slots, tree : Tree, activate : BOOLEAN]
NoSideload == [pc : {"idle"}, asked : 0 .. MaxSideloads]

(* Where the superblock is good: everywhere but in the data of slot B's system slice, which
   corrupt-b flips. *)
SuperInv ==
  /\ \A s \in Slots, p \in Parts :
       slice[s][p].l0["super"] = 0 /\ slice[s][p].l1["super"] = 0
  /\ \A p \in Parts : slice["a"][p].data["super"] = 0
  /\ slice["b"]["vendor"].data["super"] = 0
  /\ slice["b"]["system"].data["super"] \in {0, 1}

(* Slot A is never condemned, and a slot without vbmeta is as it was built, or sideloaded.  The vendor
   slice of slot A is touched only when its system slice has been given another root. *)
SlotInv ==
  /\ Bootable("a")
  /\ \A s \in Slots : vbm[s] = None /\ ~(host.pc = "vbmeta" /\ host.slot = s) => Good(s)
  /\ ~(host.pc = "vbmeta" /\ host.slot = "a") =>
       \/ slice["a"]["system"].sb # Root("a", "system")
       \/ Sound("a", "vendor")

(* A power loss now leaves a disk that boots. *)
BootInv == host.pc = "idle" => Good("a") \/ (disk.lun = "b" /\ Good("b"))

(* The header on the disk and the kernel's copy. *)
HeaderInv ==
  /\ disk.ack <= disk.pending
  /\ disk.pending # disk.ack /\ disk.pslot \in Slots => disk.lun = disk.pslot
  /\ up # "off" =>
       /\ hdr.ack <= hdr.pending /\ hdr.pending <= disk.pending
       /\ \/ disk = hdr
          \/ hdr.ack < disk.pending /\ (disk.pslot \notin Slots => disk.lun = hdr.lun)

(* A device maps what its slot's vbmeta names, and the slice verifies; without power there
   is none. *)
DevInv ==
  /\ up = "off" => dev = NoDev
  /\ \A p \in Parts, s \in Slots : dev[p] # None /\ dev[p].slot = s =>
       dev[p].root = Root(s, p) /\ Sound(s, p)

(* The machine runs from one slot, which DM_IOC_OTA_STATUS calls active. *)
Settled == up = "on" /\ (act # None => act.stage \in {"check", "system"} /\ ~act.rolled)
RunsFrom(s) ==
  /\ Live(s) /\ Bootable(s)
  /\ s = "b" => hdr.lun = "b"
  /\ disk.pending # hdr.ack /\ disk.pslot \in Slots => disk.lun # s
LiveInv ==
  /\ up = "on" => vbm["a"] # None /\ vbm["b"] # None
  /\ Settled => \E s \in Slots : RunsFrom(s)

(* The activation in progress. *)
ActInv == act # None =>
  /\ act \in Activations
  /\ up \in {"boot", "on"} /\ job = None /\ host.pc = "idle" /\ hdr.pending = disk.pending
  /\ act.stage \in Seeding => up = "boot" /\ dev = NoDev /\ hdr = disk /\ ~act.rolled
  /\ act.stage \in Seeding \ {"seedA"} => vbm["a"] # None
  /\ act.stage \in {"seedLun", "reseedB"} => Good("a")
  /\ act.stage = "reseedB" => hdr.lun = "a"
  /\ act.stage \notin Seeding =>
       /\ vbm["a"] # None /\ vbm["b"] # None
       /\ act.slot = IF act.rolled THEN "a" ELSE act.target
       /\ act.rolled => act.target = "b"
       /\ up = "boot" /\ act.target = "a" => Good("a")
  /\ act.stage \in {"condemn", "fallback"} => act.slot = "b" /\ ~act.rolled
  /\ act.rolled \/ act.stage \in {"condemn", "fallback"} => Good("a")
  /\ act.stage \in {"system", "vendor", "lun"} => \A s \in Slots : act.slot = s => Bootable(s)
  /\ act.stage \in {"vendor", "lun"} => dev["system"] # None /\ dev["system"].slot = act.slot
  /\ act.stage = "lun" => dev["vendor"] # None /\ dev["vendor"].slot = act.slot

(* The slice that update_verity_block_and_spine writes, up to the level it has reached. *)
SpineOk ==
  LET q == slice[job.slot][job.part]
  IN  /\ job.pc \in Spine \ {"data"} => q.data[job.block] = job.content
      /\ job.pc \in {"l1", "l2", "sb"} => q.l0[job.block] = job.content
      /\ job.pc \in {"l2", "sb"} => \A c \in Group(job.block) : q.l1[c] = q.l0[c]
      /\ job.pc = "sb" => q.l2 = q.l1
      /\ job.pc = "l1" => job.h = q.l0
      /\ job.pc = "l2" => job.h = q.l1
      /\ job.pc = "sb" => job.h = q.l2

(* apply writes the slot that is not live, and the system slice before the vendor slice. *)
Rebuilt(p) == Accepts(slice["a"][p], job.root[p])
ApplyOk(s) ==
  /\ job.block = "prop" /\ ~Live(s)
  /\ job.pc \in Spine \cup {"vbmeta"} => Root(s, "system")["prop"] # job.content
  /\ job.pc = "vbmeta" => job.part = "vendor"
  /\ s = "a" /\ job.part = "vendor" /\ job.pc \in Spine \cup {"vbmeta"} =>
       Rebuilt("system") /\ job.root["system"]["prop"] = job.content
  /\ s = "a" /\ job.pc = "vbmeta" => Rebuilt("vendor")

(* repair-b rewrites the system slice of slot B. *)
RepairOk ==
  /\ job.slot = "b" /\ job.block = "super" /\ job.content = 0
  /\ job.pc \in Spine \cup {"vbmeta"}
  /\ job.pc \in Spine => job.part = "system"
  /\ job.pc = "vbmeta" => job.root["system"] = slice["b"]["system"].sb

JobInv == job # None =>
  /\ up = "on" /\ act = None /\ host.pc = "idle" /\ disk = hdr /\ hdr.pending = hdr.ack
  /\ \/ job = [pc |-> "bsg"] /\ Live("a")
     \/ /\ job \in Updates /\ SpineOk
        /\ job.cmd = "apply" => \A s \in Slots : job.slot = s => ApplyOk(s)
        /\ job.cmd = "repair" => RepairOk

(* The sideload in progress, which writes the slot that is not the boot LUN. *)
HostInv ==
  /\ host \in Sideloads \cup NoSideload
  /\ host.asked = disk.pending
  /\ host.pc # "idle" =>
       /\ host \in Sideloads
       /\ act = None /\ job = None /\ up \in {"off", "on"}
       /\ up = "on" => disk.lun = hdr.lun /\ \A s \in Slots : disk.lun = s => Live(s)
       /\ host.slot = Other(disk.lun)
       /\ host.hdr.lun = disk.lun /\ host.hdr.pending = disk.pending
       /\ host.hdr.ack <= host.hdr.pending /\ disk.pending < MaxSideloads
       /\ host.tree["super"] = 0
       /\ disk.lun = "a" => Good("a")
       /\ host.pc = "vbmeta" => \A p \in Parts : slice[host.slot][p] = Uniform(host.tree)
       /\ host.pc = "header" /\ host.slot = "a" => Good("a")

IInv ==
  /\ TypeOK /\ up # "dead"
  /\ SuperInv /\ SlotInv /\ BootInv /\ HeaderInv /\ DevInv /\ LiveInv /\ ActInv /\ JobInv
  /\ HostInv

-------------------------------------------------------------------------------
(* Records and functions. *)

(* A device and a vbmeta are not None. *)
LEMMA NotNone ==
  /\ \A x, y : [slot |-> x, root |-> y] # None
  /\ \A x, y : [bootable |-> x, root |-> y] # None
BY DEF None

(* The slots, partitions and blocks by name. *)
LEMMA Names ==
  /\ "a" \in Slots /\ "b" \in Slots /\ "system" \in Parts /\ "vendor" \in Parts
  /\ "super" \in Blocks /\ "prop" \in Blocks
BY Zenon DEF Slots, Parts, Blocks

(* A tree with one block's content replaced is a tree, and a slice can be built from any. *)
LEMMA TreeFacts ==
  /\ 0 \in Contents /\ 1 \in Contents /\ Fresh \in Tree
  /\ \A t \in Tree, b \in Blocks, c \in Contents : [t EXCEPT ![b] = c] \in Tree
  /\ \A t \in Tree : Uniform(t) \in Slice
<1>1. 0 \in Contents /\ 1 \in Contents
  BY OtaAssumption DEF Contents
<1>2. Fresh \in Tree
  BY Zenon, <1>1 DEF Fresh, Tree
<1>3. \A t \in Tree, b \in Blocks, c \in Contents : [t EXCEPT ![b] = c] \in Tree
  BY Zenon DEF Tree
<1>4. \A t \in Tree : Uniform(t) \in Slice
  BY DEF Uniform, Slice
<1> QED BY Zenon, <1>1, <1>2, <1>3, <1>4

(* What a slice holds: the data blocks, three levels of hashes and the superblock's root. *)
LEMMA SliceTypes ==
  ASSUME NEW q \in Slice
  PROVE  q.data \in Tree /\ q.l0 \in Tree /\ q.l1 \in Tree /\ q.l2 \in Tree /\ q.sb \in Tree
BY DEF Slice

(* The fields of a slice of which one is written. *)
LEMMA SliceFields ==
  ASSUME NEW q \in Slice, NEW t \in Tree
  PROVE  /\ LET d == [q EXCEPT !["data"] = t]
            IN  d \in Slice /\ d.data = t /\ d.l0 = q.l0 /\ d.l1 = q.l1 /\ d.l2 = q.l2 /\ d.sb = q.sb
         /\ LET d == [q EXCEPT !["l0"] = t]
            IN  d \in Slice /\ d.data = q.data /\ d.l0 = t /\ d.l1 = q.l1 /\ d.l2 = q.l2 /\ d.sb = q.sb
         /\ LET d == [q EXCEPT !["l1"] = t]
            IN  d \in Slice /\ d.data = q.data /\ d.l0 = q.l0 /\ d.l1 = t /\ d.l2 = q.l2 /\ d.sb = q.sb
         /\ LET d == [q EXCEPT !["l2"] = t]
            IN  d \in Slice /\ d.data = q.data /\ d.l0 = q.l0 /\ d.l1 = q.l1 /\ d.l2 = t /\ d.sb = q.sb
         /\ LET d == [q EXCEPT !.sb = t]
            IN  d \in Slice /\ d.data = q.data /\ d.l0 = q.l0 /\ d.l1 = q.l1 /\ d.l2 = q.l2 /\ d.sb = t
<1>1. LET d == [q EXCEPT !["data"] = t]
      IN  d \in Slice /\ d.data = t /\ d.l0 = q.l0 /\ d.l1 = q.l1 /\ d.l2 = q.l2 /\ d.sb = q.sb
  BY DEF Slice
<1>2. LET d == [q EXCEPT !["l0"] = t]
      IN  d \in Slice /\ d.data = q.data /\ d.l0 = t /\ d.l1 = q.l1 /\ d.l2 = q.l2 /\ d.sb = q.sb
  BY DEF Slice
<1>3. LET d == [q EXCEPT !["l1"] = t]
      IN  d \in Slice /\ d.data = q.data /\ d.l0 = q.l0 /\ d.l1 = t /\ d.l2 = q.l2 /\ d.sb = q.sb
  BY DEF Slice
<1>4. LET d == [q EXCEPT !["l2"] = t]
      IN  d \in Slice /\ d.data = q.data /\ d.l0 = q.l0 /\ d.l1 = q.l1 /\ d.l2 = t /\ d.sb = q.sb
  BY DEF Slice
<1>5. LET d == [q EXCEPT !.sb = t]
      IN  d \in Slice /\ d.data = q.data /\ d.l0 = q.l0 /\ d.l1 = q.l1 /\ d.l2 = q.l2 /\ d.sb = t
  BY DEF Slice
<1> QED BY Zenon, <1>1, <1>2, <1>3, <1>4, <1>5

(* The header in a fresh image, and the devices before the first activation. *)
LEMMA HeaderFacts ==
  /\ Header0 \in Header /\ NoDev \in [Parts -> Device \cup {None}]
  /\ \A p \in Parts : NoDev[p] = None
<1>1. Header0 \in Header
  BY OtaAssumption DEF Header0, Header, Slots
<1>2. NoDev \in [Parts -> Device \cup {None}] /\ \A p \in Parts : NoDev[p] = None
  BY Zenon DEF NoDev
<1> QED BY Zenon, <1>1, <1>2

(* A slice that a step leaves alone verifies as before. *)
LEMMA SoundSame ==
  ASSUME NEW s, NEW p, layout' = layout, slice'[s][p] = slice[s][p], Root(s, p)' = Root(s, p)
  PROVE  Sound(s, p)' <=> Sound(s, p)
BY DEF Sound, Accepts, BlockVerifies, Checked, Group

(* A step that leaves the slices and the vbmetas alone. *)
LEMMA Frozen ==
  ASSUME layout' = layout, slice' = slice, vbm' = vbm
  PROVE  /\ \A s, p : Root(s, p)' = Root(s, p)
         /\ \A s, p : Sound(s, p)' <=> Sound(s, p)
         /\ \A s : Bootable(s)' <=> Bootable(s)
         /\ \A s : Good(s)' <=> Good(s)
         /\ SuperInv' <=> SuperInv
<1>1. \A s, p : Root(s, p)' = Root(s, p)
  BY Zenon DEF Root
<1>2. \A s, p : Sound(s, p)' <=> Sound(s, p)
  BY Zenon, <1>1, SoundSame
<1>3. \A s : Bootable(s)' <=> Bootable(s)
  BY Zenon DEF Bootable
<1>4. \A s : Good(s)' <=> Good(s)
  BY Zenon, <1>2, <1>3 DEF Good
<1>5. SuperInv' <=> SuperInv
  BY Zenon DEF SuperInv
<1> QED BY Zenon, <1>1, <1>2, <1>3, <1>4, <1>5

(* The devices stay sound while no slice, vbmeta or mapping changes. *)
LEMMA DevicesKept ==
  ASSUME DevInv, layout' = layout, slice' = slice, vbm' = vbm, dev' = dev, up' = up
  PROVE  DevInv'
<1>1. \A s, p : Root(s, p)' = Root(s, p) /\ (Sound(s, p)' <=> Sound(s, p))
  BY Zenon, Frozen
<1> QED BY Zenon, <1>1 DEF DevInv

(* A step of an activation or a command that writes neither a slice, a vbmeta nor the
   header keeps everything but what is said of that activation or command. *)
LEMMA NothingWritten ==
  ASSUME IInv, layout' = layout, slice' = slice, vbm' = vbm, disk' = disk, hdr' = hdr,
         dev' = dev, up' = up, host' = host
  PROVE  /\ TypeOK' /\ up' # "dead" /\ SuperInv' /\ SlotInv' /\ BootInv' /\ HeaderInv'
         /\ DevInv'
<1>1. TypeOK /\ SuperInv /\ SlotInv /\ BootInv /\ HeaderInv /\ DevInv /\ up # "dead"
  BY Zenon DEF IInv
<1>2. TypeOK' /\ up' # "dead"
  BY Zenon, <1>1 DEF TypeOK
<1>3. SuperInv' /\ SlotInv'
  BY Zenon, <1>1, Frozen DEF SlotInv
<1>4. BootInv'
  BY Zenon, <1>1, Frozen DEF BootInv
<1>5. HeaderInv'
  BY Zenon, <1>1 DEF HeaderInv
<1>6. DevInv'
  BY Zenon, <1>1, DevicesKept
<1> QED BY Zenon, <1>2, <1>3, <1>4, <1>5, <1>6

-------------------------------------------------------------------------------
(* Power. *)

(* A power loss leaves a disk that boots. *)
LEMMA CrashStep ==
  ASSUME IInv, Crash
  PROVE  IInv'
<1>1. /\ layout' = layout /\ slice' = slice /\ vbm' = vbm /\ disk' = disk /\ host' = host
      /\ up' = "off" /\ hdr' = Header0 /\ dev' = NoDev /\ act' = None /\ job' = None
  BY Zenon DEF Crash
<1>2. /\ TypeOK /\ SuperInv /\ SlotInv /\ BootInv /\ HeaderInv /\ HostInv
  BY Zenon DEF IInv
<1>3. TypeOK' /\ up' # "dead"
  BY Zenon, <1>1, <1>2, HeaderFacts DEF TypeOK
<1>4. SuperInv' /\ SlotInv' /\ BootInv'
  BY Zenon, <1>1, <1>2, Frozen DEF SlotInv, BootInv
<1>5. HeaderInv' /\ DevInv' /\ LiveInv' /\ ActInv' /\ JobInv'
  BY Zenon, <1>1, <1>2, HeaderFacts DEF HeaderInv, DevInv, LiveInv, Settled, ActInv, JobInv
<1>6. HostInv'
  BY Zenon, <1>1, <1>2, Frozen DEF HostInv
<1> QED BY Zenon, <1>3, <1>4, <1>5, <1>6 DEF IInv

(* The UFS probe saves the header it has read, and dm_setup_verity_bin begins. *)
LEMMA BootStep ==
  ASSUME IInv, Boot, ~Overlap
  PROVE  IInv'
<1>1. /\ layout' = layout /\ slice' = slice /\ vbm' = vbm /\ dev' = dev /\ job' = job /\ host' = host
      /\ up = "off" /\ up' = "boot" /\ hdr' = Loaded(disk) /\ disk' = hdr' /\ host.pc = "idle"
      /\ act' = [stage |-> "seedA", slot |-> "a", target |-> "a", rolled |-> FALSE]
  BY Zenon DEF Boot, Quiet, persistent
<1>2. /\ TypeOK /\ SuperInv /\ SlotInv /\ BootInv /\ HeaderInv /\ DevInv /\ ActInv /\ JobInv /\ HostInv
  BY Zenon DEF IInv
<1>3. Loaded(disk) = disk
  <2>1. disk \in Header
    BY Zenon, <1>2 DEF TypeOK
  <2>2. disk.pending # disk.ack /\ disk.pslot \in Slots => disk.lun = disk.pslot
    BY Zenon, <1>2 DEF HeaderInv
  <2> QED BY <2>1, <2>2 DEF Loaded, Header
<1>4. hdr' = disk /\ disk' = disk /\ job = None /\ dev = NoDev
  BY Zenon, <1>1, <1>2, <1>3 DEF JobInv, DevInv
<1>5. TypeOK' /\ up' # "dead"
  BY Zenon, <1>1, <1>2, <1>4 DEF TypeOK
<1>6. SuperInv' /\ SlotInv' /\ BootInv'
  BY Zenon, <1>1, <1>2, <1>4, Frozen DEF SlotInv, BootInv
<1>7. HeaderInv'
  BY <1>1, <1>2, <1>4 DEF HeaderInv, TypeOK, Header
<1>8. DevInv' /\ LiveInv' /\ JobInv'
  BY Zenon, <1>1, <1>4, HeaderFacts DEF DevInv, LiveInv, Settled, JobInv
<1>9. ActInv'
  <2>1. act' \in Activations
    BY <1>1 DEF Activations, Stages, Seeding, Slots
  <2>2. act'.stage = "seedA" /\ ~act'.rolled
    BY <1>1
  <2> QED BY Zenon, <1>1, <1>4, <2>1, <2>2 DEF ActInv, Seeding
<1>10. HostInv'
  BY Zenon, <1>1, <1>2, <1>4, Frozen DEF HostInv
<1> QED BY Zenon, <1>5, <1>6, <1>7, <1>8, <1>9, <1>10 DEF IInv

-------------------------------------------------------------------------------
(* The slot activation. *)

(* The fields of an activation in progress. *)
LEMMA ActivationTypes ==
  ASSUME NEW a \in Activations
  PROVE  /\ a.slot \in Slots /\ a.target \in Slots /\ a.rolled \in BOOLEAN /\ a.stage \in Stages
         /\ a # None
BY DEF Activations, None

(* An activation that goes on to another stage. *)
LEMMA StageSet ==
  ASSUME NEW a \in Activations, NEW s \in Stages, NEW d, d = [a EXCEPT !.stage = s]
  PROVE  /\ d \in Activations /\ d # None
         /\ d.stage = s /\ d.slot = a.slot /\ d.target = a.target /\ d.rolled = a.rolled
BY DEF Activations, None

(* ufs_set_active_boot_lun leaves a header with no request pending. *)
LEMMA BootLunSet ==
  ASSUME TypeOK, NEW s \in Slots, SetBootLun(s)
  PROVE  /\ hdr' \in Header /\ disk' = hdr'
         /\ hdr'.lun = s /\ hdr'.ack = hdr.pending /\ hdr'.pending = hdr.pending
         /\ hdr'.ack <= hdr'.pending
<1>1. hdr \in Header
  BY Zenon DEF TypeOK
<1>2. disk' = hdr' /\ hdr' = [hdr EXCEPT !.lun = s, !.ack = hdr.pending]
  BY Zenon DEF SetBootLun
<1>3. /\ hdr' \in Header /\ hdr'.lun = s
      /\ hdr'.ack = hdr.pending /\ hdr'.pending = hdr.pending
  BY <1>1, <1>2 DEF Header
<1>4. hdr.pending \in Nat
  BY <1>1 DEF Header
<1>5. hdr.pending <= hdr.pending
  BY <1>4
<1> QED BY Zenon, <1>2, <1>3, <1>5

(* dm_seed_ufs_vbmeta_if_needed writes the roots the slices were built with. *)
LEMMA SeedFacts ==
  ASSUME TypeOK, NEW s \in Slots, Seed(s), slice' = slice, layout' = layout
  PROVE  /\ vbm' \in [Slots -> Vbmeta \cup {None}] /\ vbm'[s] # None
         /\ \A r \in Slots : r # s => vbm'[r] = vbm[r]
         /\ \A r \in Slots, p \in Parts : r # s \/ vbm[s] = None =>
              Root(r, p)' = Root(r, p) /\ (Sound(r, p)' <=> Sound(r, p))
         /\ \A r \in Slots : r # s \/ vbm[s] = None =>
              (Bootable(r)' <=> Bootable(r)) /\ (Good(r)' <=> Good(r))
<1> DEFINE v == [bootable |-> TRUE, root |-> [p \in Parts |-> Fresh]]
<1>1. v \in Vbmeta /\ v # None /\ v.bootable = TRUE /\ \A p \in Parts : v.root[p] = Fresh
  BY TreeFacts, NotNone DEF Vbmeta
<1>2. vbm \in [Slots -> Vbmeta \cup {None}]
  BY Zenon DEF TypeOK
<1>3. vbm' = [vbm EXCEPT ![s] = v]
  BY Zenon DEF Seed
<1> HIDE DEF v
<1>4. /\ vbm' \in [Slots -> Vbmeta \cup {None}] /\ vbm'[s] = v
      /\ \A r \in Slots : r # s => vbm'[r] = vbm[r]
  BY Zenon, <1>1, <1>2, <1>3
<1>5. \A r \in Slots, p \in Parts : r # s \/ vbm[s] = None => Root(r, p)' = Root(r, p)
  BY Zenon, <1>1, <1>4 DEF Root
<1>6. \A r \in Slots, p \in Parts : r # s \/ vbm[s] = None => (Sound(r, p)' <=> Sound(r, p))
  BY Zenon, <1>5, SoundSame
<1>7. \A r \in Slots : r # s \/ vbm[s] = None => (Bootable(r)' <=> Bootable(r))
  BY Zenon, <1>1, <1>4 DEF Bootable
<1>8. \A r \in Slots : r # s \/ vbm[s] = None => (Good(r)' <=> Good(r))
  BY Zenon, <1>6, <1>7 DEF Good
<1> QED BY Zenon, <1>1, <1>4, <1>5, <1>6, <1>7, <1>8

(* What holds while the vbmetas are seeded: no device is up yet. *)
LEMMA SeedingFacts ==
  ASSUME IInv, act # None, act.stage \in Seeding
  PROVE  /\ TypeOK /\ SuperInv /\ SlotInv /\ BootInv /\ HeaderInv /\ DevInv /\ HostInv
         /\ act \in Activations /\ up = "boot" /\ job = None /\ host.pc = "idle"
         /\ dev = NoDev /\ hdr = disk /\ ~act.rolled
         /\ act.stage # "seedA" => vbm["a"] # None
         /\ act.stage \in {"seedLun", "reseedB"} => Good("a")
         /\ act.stage = "reseedB" => hdr.lun = "a"
<1>1. /\ TypeOK /\ SuperInv /\ SlotInv /\ BootInv /\ HeaderInv /\ DevInv /\ HostInv /\ ActInv
  BY Zenon DEF IInv
<1> QED BY Zenon, <1>1 DEF ActInv

(* A step of the seeding that keeps the header keeps what is said of the other parts. *)
LEMMA SeedKeeps ==
  ASSUME IInv, act # None, act.stage \in Seeding, layout' = layout, slice' = slice, dev' = dev,
         up' = up, job' = job, host' = host, disk' = disk, hdr' = hdr,
         vbm' \in [Slots -> Vbmeta \cup {None}], SlotInv', BootInv', ActInv', act' # None
  PROVE  IInv'
<1>1. /\ TypeOK /\ SuperInv /\ SlotInv /\ BootInv /\ HeaderInv /\ DevInv /\ HostInv
      /\ up = "boot" /\ job = None /\ host.pc = "idle" /\ dev = NoDev
  BY Zenon, SeedingFacts
<1>2. TypeOK' /\ up' # "dead"
  BY Zenon, <1>1 DEF TypeOK
<1>3. SuperInv' /\ HeaderInv'
  BY Zenon, <1>1 DEF SuperInv, HeaderInv
<1>4. DevInv' /\ LiveInv' /\ JobInv' /\ HostInv'
  BY Zenon, <1>1, HeaderFacts DEF DevInv, LiveInv, Settled, JobInv, HostInv
<1> QED BY Zenon, <1>2, <1>3, <1>4 DEF IInv

(* Slot A's vbmeta is written when it has none. *)
LEMMA SeedAStep ==
  ASSUME IInv, SeedA
  PROVE  IInv'
<1>1. /\ layout' = layout /\ slice' = slice /\ dev' = dev /\ up' = up /\ job' = job /\ host' = host
      /\ hdr' = hdr /\ disk' = disk /\ act # None /\ act.stage = "seedA"
      /\ \/ vbm["a"] = None /\ Seed("a") /\ act' = [act EXCEPT !.stage = "seedLun"]
         \/ vbm["a"] # None /\ vbm' = vbm /\ act' = [act EXCEPT !.stage = "seedB"]
  BY Zenon DEF SeedA, Stage
<1>2. "seedA" \in Seeding /\ "seedB" \in Seeding /\ "seedLun" \in Seeding /\ Seeding \subseteq Stages
  BY Zenon DEF Seeding, Stages
<1>3. /\ TypeOK /\ SlotInv /\ BootInv /\ act \in Activations /\ up = "boot" /\ job = None
      /\ host.pc = "idle" /\ dev = NoDev /\ hdr = disk /\ ~act.rolled
  BY Zenon, <1>1, <1>2, SeedingFacts
<1>4. CASE vbm["a"] = None
  <2>1. Seed("a") /\ act' = [act EXCEPT !.stage = "seedLun"]
    BY Zenon, <1>1, <1>4
  <2>2. act' \in Activations /\ act' # None /\ act'.stage = "seedLun" /\ ~act'.rolled
    <3>1. "seedLun" \in Stages
      BY Zenon, <1>2
    <3> QED BY <1>3, <2>1, <3>1, StageSet
  <2>3. /\ vbm' \in [Slots -> Vbmeta \cup {None}] /\ vbm'["a"] # None /\ vbm'["b"] = vbm["b"]
        /\ \A r \in Slots, p \in Parts : Root(r, p)' = Root(r, p) /\ (Sound(r, p)' <=> Sound(r, p))
        /\ \A r \in Slots : (Bootable(r)' <=> Bootable(r)) /\ (Good(r)' <=> Good(r))
    BY Zenon, <1>1, <1>3, <1>4, <2>1, Names, SeedFacts
  <2>4. Good("a")'
    BY Zenon, <1>3, <1>4, <2>3, Names DEF SlotInv
  <2>5. SlotInv'
    <3>1. \A s \in Slots : vbm'[s] = None => Good(s)'
      BY Zenon, <1>3, <2>3 DEF SlotInv, Slots
    <3>2. slice'["a"]["system"].sb # Root("a", "system")' \/ Sound("a", "vendor")'
      BY Zenon, <2>4, Names DEF Good
    <3> QED BY Zenon, <2>4, <3>1, <3>2 DEF SlotInv, Good
  <2>6. BootInv'
    BY Zenon, <2>4 DEF BootInv
  <2>7. ActInv'
    BY Zenon, <1>1, <1>3, <2>2, <2>3, <2>4 DEF ActInv, Seeding
  <2> QED BY Zenon, <1>1, <1>2, <2>2, <2>3, <2>5, <2>6, <2>7, SeedKeeps
<1>5. CASE vbm["a"] # None
  <2>1. vbm' = vbm /\ act' = [act EXCEPT !.stage = "seedB"]
    BY Zenon, <1>1, <1>5
  <2>2. act' \in Activations /\ act' # None /\ act'.stage = "seedB" /\ ~act'.rolled
    <3>1. "seedB" \in Stages
      BY Zenon, <1>2
    <3> QED BY <1>3, <2>1, <3>1, StageSet
  <2>3. SlotInv' /\ BootInv'
    BY Zenon, <1>1, <2>1, NothingWritten
  <2>4. ActInv'
    BY Zenon, <1>1, <1>3, <1>5, <2>1, <2>2 DEF ActInv, Seeding
  <2>5. vbm' \in [Slots -> Vbmeta \cup {None}]
    BY Zenon, <1>3, <2>1 DEF TypeOK
  <2> QED BY Zenon, <1>1, <1>2, <2>2, <2>3, <2>4, <2>5, SeedKeeps
<1> QED BY Zenon, <1>4, <1>5

(* Slot A, whose vbmeta was just written, becomes the boot LUN. *)
LEMMA SeedLunStep ==
  ASSUME IInv, SeedLun
  PROVE  IInv'
<1>1. /\ layout' = layout /\ slice' = slice /\ vbm' = vbm /\ dev' = dev /\ up' = up /\ job' = job
      /\ host' = host /\ act # None /\ act.stage = "seedLun" /\ SetBootLun("a")
      /\ act' = [act EXCEPT !.stage = "reseedB"]
  BY Zenon DEF SeedLun, Stage, persistent
<1>2. "seedLun" \in Seeding /\ "reseedB" \in Seeding /\ "reseedB" \in Stages
  BY Zenon DEF Seeding, Stages
<1>3. /\ TypeOK /\ SuperInv /\ SlotInv /\ BootInv /\ HeaderInv /\ DevInv /\ HostInv
      /\ act \in Activations /\ up = "boot" /\ job = None
      /\ host.pc = "idle" /\ dev = NoDev /\ hdr = disk /\ ~act.rolled /\ vbm["a"] # None /\ Good("a")
  BY Zenon, <1>1, <1>2, SeedingFacts
<1>4. act' \in Activations /\ act' # None /\ act'.stage = "reseedB" /\ ~act'.rolled
  BY <1>1, <1>2, <1>3, StageSet
<1>5. /\ hdr' \in Header /\ disk' = hdr' /\ hdr'.lun = "a" /\ hdr'.ack = hdr.pending
      /\ hdr'.pending = hdr.pending /\ hdr'.ack <= hdr'.pending
  BY Zenon, <1>1, <1>3, Names, BootLunSet
<1>6. TypeOK' /\ up' # "dead"
  BY Zenon, <1>1, <1>3, <1>5 DEF TypeOK
<1>7. SuperInv' /\ SlotInv' /\ Good("a")'
  BY Zenon, <1>1, <1>3, Frozen DEF SlotInv
<1>8. BootInv' /\ DevInv'
  BY Zenon, <1>1, <1>3, <1>7, HeaderFacts DEF BootInv, DevInv
<1>9. HeaderInv'
  <2>1. hdr.pending \in Nat
    BY <1>3 DEF TypeOK, Header
  <2> QED BY <1>5, <2>1 DEF HeaderInv
<1>10. LiveInv' /\ JobInv' /\ HostInv'
  BY Zenon, <1>1, <1>3, <1>5 DEF LiveInv, Settled, JobInv, HostInv
<1>11. ActInv'
  BY Zenon, <1>1, <1>3, <1>4, <1>5, <1>7 DEF ActInv, Seeding
<1> QED BY Zenon, <1>6, <1>7, <1>8, <1>9, <1>10, <1>11 DEF IInv

(* Slot B's vbmeta is written when it has none, or when slot A's was: then slot A, which is
   good, is the boot LUN.  The slot to boot is chosen. *)
LEMMA SeedBStep ==
  ASSUME IInv, SeedB
  PROVE  IInv'
<1>1. /\ layout' = layout /\ slice' = slice /\ dev' = dev /\ up' = up /\ job' = job /\ host' = host
      /\ hdr' = hdr /\ disk' = disk /\ act # None /\ act.stage \in {"seedB", "reseedB"}
      /\ act' = [act EXCEPT !.stage = "check", !.slot = hdr.lun, !.target = hdr.lun]
      /\ IF act.stage = "reseedB" \/ vbm["b"] = None THEN Seed("b") ELSE vbm' = vbm
  BY Zenon DEF SeedB
<1>2. act.stage \in Seeding
  BY Zenon, <1>1 DEF Seeding
<1>3. /\ TypeOK /\ SlotInv /\ BootInv /\ act \in Activations /\ up = "boot" /\ job = None
      /\ host.pc = "idle" /\ dev = NoDev /\ hdr = disk /\ ~act.rolled /\ vbm["a"] # None
      /\ act.stage = "reseedB" => Good("a") /\ hdr.lun = "a"
  BY Zenon, <1>1, <1>2, SeedingFacts
<1>4. /\ act' \in Activations /\ act' # None /\ act'.stage = "check" /\ ~act'.rolled
      /\ act'.slot = hdr.lun /\ act'.target = hdr.lun
  <2>1. hdr.lun \in Slots
    BY <1>3 DEF TypeOK, Header
  <2> QED BY <1>1, <1>3, <2>1 DEF Activations, Stages, None
<1>5. /\ vbm' \in [Slots -> Vbmeta \cup {None}] /\ vbm'["b"] # None /\ vbm'["a"] = vbm["a"]
      /\ Root("a", "system")' = Root("a", "system")
      /\ (Sound("a", "vendor")' <=> Sound("a", "vendor"))
      /\ (Bootable("a")' <=> Bootable("a")) /\ (Good("a")' <=> Good("a"))
      /\ act.stage # "reseedB" => (Good("b")' <=> Good("b"))
  <2>1. CASE act.stage = "reseedB" \/ vbm["b"] = None
    <3>1. Seed("b") /\ "a" # "b"
      BY Zenon, <1>1, <2>1
    <3> QED BY Zenon, <1>1, <1>3, <2>1, <3>1, Names, SeedFacts
  <2>2. CASE act.stage # "reseedB" /\ vbm["b"] # None
    BY Zenon, <1>1, <1>3, <2>2, Names, Frozen DEF TypeOK
  <2> QED BY Zenon, <2>1, <2>2
<1>6. SlotInv'
  <2>1. slice'["a"]["system"].sb # Root("a", "system")' \/ Sound("a", "vendor")'
    BY Zenon, <1>1, <1>3, <1>5 DEF SlotInv
  <2> QED BY Zenon, <1>3, <1>5, <2>1 DEF SlotInv, Slots
<1>7. BootInv'
  BY Zenon, <1>1, <1>3, <1>5 DEF BootInv
<1>8. ActInv'
  BY Zenon, <1>1, <1>3, <1>4, <1>5, <1>7, Names DEF ActInv, BootInv, Seeding
<1> QED BY Zenon, <1>1, <1>2, <1>4, <1>5, <1>6, <1>7, <1>8, SeedKeeps

(* The activation of slot B fails: slot A is good, and the rollback begins. *)
LEMMA FailB ==
  ASSUME IInv, act # None, act.stage \in {"check", "system", "vendor"}, Fail,
         layout' = layout, slice' = slice, vbm' = vbm, disk' = disk, hdr' = hdr, dev' = dev,
         job' = job, host' = host, act.slot = "b", ~Good("b")
  PROVE  IInv'
<1>2. /\ TypeOK /\ SuperInv /\ SlotInv /\ BootInv /\ HeaderInv /\ DevInv /\ LiveInv /\ ActInv
      /\ JobInv /\ HostInv /\ up # "dead"
  BY Zenon DEF IInv
<1>3. /\ act \in Activations /\ up \in {"boot", "on"} /\ job = None /\ host.pc = "idle"
      /\ hdr.pending = disk.pending /\ vbm["a"] # None /\ vbm["b"] # None
      /\ act.slot = IF act.rolled THEN "a" ELSE act.target
  BY Zenon, <1>2 DEF ActInv, Seeding
<1>4. ~act.rolled /\ Good("a") /\ act.target = "b"
  BY Zenon, <1>2, <1>3 DEF BootInv
<1>5. act' = [act EXCEPT !.stage = "condemn"] /\ up' = up
  BY Zenon, <1>4 DEF Fail, Stage
<1>6. /\ act' \in Activations /\ act' # None /\ act'.stage = "condemn" /\ act'.slot = "b"
      /\ ~act'.rolled /\ act'.target = "b"
  <2>1. "condemn" \in Stages
    BY Zenon DEF Stages
  <2> QED BY <1>3, <1>4, <1>5, <2>1, StageSet
<1>8. /\ TypeOK' /\ up' # "dead" /\ SuperInv' /\ SlotInv' /\ BootInv' /\ HeaderInv'
      /\ DevInv'
  BY Zenon, <1>5, NothingWritten
<1>9. LiveInv' /\ JobInv'
  BY Zenon, <1>2, <1>3, <1>5, <1>6 DEF LiveInv, Settled, JobInv
<1>10. ActInv'
  BY Zenon, <1>3, <1>4, <1>5, <1>6, Frozen DEF ActInv, Seeding
<1>11. HostInv'
  BY Zenon, <1>2, <1>3 DEF HostInv
<1> QED BY Zenon, <1>8, <1>9, <1>10, <1>11 DEF IInv

(* An activation of slot A that fails was asked for while the machine ran, before any
   device was replaced. *)
LEMMA FailA ==
  ASSUME IInv, act # None, act.stage = "system", Fail,
         layout' = layout, slice' = slice, vbm' = vbm, disk' = disk, hdr' = hdr, dev' = dev,
         job' = job, host' = host, act.slot = "a", ~Good("a")
  PROVE  IInv'
<1>2. /\ TypeOK /\ SuperInv /\ SlotInv /\ BootInv /\ HeaderInv /\ DevInv /\ LiveInv /\ ActInv
      /\ JobInv /\ HostInv /\ up # "dead"
  BY Zenon DEF IInv
<1>3. /\ act \in Activations /\ up \in {"boot", "on"} /\ job = None /\ host.pc = "idle"
      /\ act.slot = IF act.rolled THEN "a" ELSE act.target
      /\ up = "boot" /\ act.target = "a" => Good("a")
      /\ act.rolled => Good("a")
  BY Zenon, <1>2 DEF ActInv, Seeding
<1>4. ~act.rolled /\ act.target = "a" /\ up = "on"
  BY Zenon, <1>3
<1>5. act' = None /\ up' = "on"
  BY Zenon, <1>4 DEF Fail, Return
<1>7. /\ TypeOK' /\ up' # "dead" /\ SuperInv' /\ SlotInv' /\ BootInv' /\ HeaderInv'
      /\ DevInv'
  BY Zenon, <1>4, <1>5, NothingWritten
<1>8. LiveInv'
  <2>1. Settled
    BY Zenon, <1>4 DEF Settled
  <2> QED BY Zenon, <1>2, <1>4, <1>5, <2>1, Frozen DEF LiveInv, RunsFrom, Live
<1>9. JobInv' /\ ActInv' /\ HostInv'
  BY Zenon, <1>2, <1>3, <1>4, <1>5 DEF JobInv, ActInv, HostInv
<1> QED BY Zenon, <1>7, <1>8, <1>9 DEF IInv

(* dm_activate_ota_slot refuses a slot whose vbmeta is flagged UNBOOTABLE. *)
LEMMA CheckFlagsStep ==
  ASSUME IInv, CheckFlags
  PROVE  IInv'
<1>1. /\ layout' = layout /\ slice' = slice /\ vbm' = vbm /\ disk' = disk /\ hdr' = hdr
      /\ dev' = dev /\ job' = job /\ host' = host /\ act # None /\ act.stage = "check"
      /\ IF vbm[act.slot].bootable THEN Stage("system") /\ up' = up ELSE Fail
  BY Zenon DEF CheckFlags, persistent
<1>2. /\ TypeOK /\ SuperInv /\ SlotInv /\ BootInv /\ HeaderInv /\ DevInv /\ LiveInv /\ ActInv
      /\ JobInv /\ HostInv /\ up # "dead"
  BY Zenon DEF IInv
<1>3. /\ act \in Activations /\ up \in {"boot", "on"} /\ job = None /\ host.pc = "idle"
      /\ hdr.pending = disk.pending /\ vbm["a"] # None /\ vbm["b"] # None
      /\ act.slot = IF act.rolled THEN "a" ELSE act.target
      /\ act.rolled => act.target = "b"
      /\ up = "boot" /\ act.target = "a" => Good("a")
      /\ act.rolled => Good("a")
  BY Zenon, <1>1, <1>2 DEF ActInv, Seeding
<1>4. vbm["a"] # None /\ vbm["a"].bootable /\ act.slot \in {"a", "b"}
  BY Zenon, <1>2, <1>3, ActivationTypes DEF SlotInv, Bootable, Slots
<1>5. CASE ~vbm[act.slot].bootable
  <2>1. act.slot = "b" /\ ~Good("b") /\ Fail
    BY Zenon, <1>1, <1>3, <1>4, <1>5 DEF Good, Bootable
  <2> QED BY Zenon, <1>1, <2>1, FailB
<1>6. CASE vbm[act.slot].bootable
  <2>1. act' = [act EXCEPT !.stage = "system"] /\ up' = up
    BY Zenon, <1>1, <1>6 DEF Stage
  <2>2. /\ act' \in Activations /\ act' # None /\ act'.stage = "system" /\ act'.slot = act.slot
        /\ act'.rolled = act.rolled /\ act'.target = act.target
    <3>1. "system" \in Stages
      BY Zenon DEF Stages
    <3> QED BY <1>3, <2>1, <3>1, StageSet
  <2>4. /\ TypeOK' /\ up' # "dead" /\ SuperInv' /\ SlotInv' /\ BootInv' /\ HeaderInv'
        /\ DevInv'
    BY Zenon, <1>1, <2>1, NothingWritten
  <2>5. LiveInv'
    <3>1. Settled' => Settled
      BY Zenon, <1>1, <2>1, <2>2 DEF Settled
    <3> QED BY Zenon, <1>1, <1>2, <2>1, <3>1, Frozen DEF LiveInv, RunsFrom, Live
  <2>6. ActInv'
    <3>1. \A s \in Slots : act'.slot = s => Bootable(s)'
      BY Zenon, <1>1, <1>6, <2>2 DEF Bootable
    <3> QED BY Zenon, <1>1, <1>3, <2>1, <2>2, <3>1, Frozen DEF ActInv, Seeding
  <2>7. JobInv' /\ HostInv'
    BY Zenon, <1>1, <1>2, <1>3, <2>1 DEF JobInv, HostInv
  <2> QED BY Zenon, <2>4, <2>5, <2>6, <2>7 DEF IInv
<1> QED BY Zenon, <1>5, <1>6

(* dm_setup_verity_slice accepts the slice: the device now maps the slot being activated. *)
LEMMA SetupAccepted ==
  ASSUME IInv, SetupSlice, NEW p \in Parts, act.stage = p, NEW s \in Slots, act.slot = s, Sound(s, p)
  PROVE  IInv'
<1>1. /\ layout' = layout /\ slice' = slice /\ vbm' = vbm /\ disk' = disk /\ hdr' = hdr
      /\ job' = job /\ host' = host /\ act # None
      /\ IF Accepts(slice[s][p], vbm[s].root[p])
         THEN /\ dev' = [dev EXCEPT ![p] = [slot |-> s, root |-> vbm[s].root[p]]]
              /\ act' = [act EXCEPT !.stage = IF p = "system" THEN "vendor" ELSE "lun"]
              /\ up' = up
         ELSE TRUE
  BY Zenon DEF SetupSlice, persistent, Stage
<1>2. /\ TypeOK /\ SuperInv /\ SlotInv /\ BootInv /\ HeaderInv /\ DevInv /\ LiveInv /\ ActInv
      /\ JobInv /\ HostInv /\ up # "dead"
  BY Zenon DEF IInv
<1>3. /\ act \in Activations /\ up \in {"boot", "on"} /\ job = None /\ host.pc = "idle"
      /\ hdr.pending = disk.pending /\ vbm["a"] # None /\ vbm["b"] # None /\ Bootable(s)
      /\ act.slot = IF act.rolled THEN "a" ELSE act.target
      /\ act.rolled => act.target = "b"
      /\ up = "boot" /\ act.target = "a" => Good("a")
      /\ act.rolled => Good("a")
      /\ p = "vendor" => dev["system"] # None /\ dev["system"].slot = s
  <2>1. p \in {"system", "vendor"}
    BY Zenon DEF Parts
  <2> QED BY Zenon, <1>1, <1>2, <2>1 DEF ActInv, Seeding
<1>4. vbm[s] # None /\ vbm[s] \in Vbmeta /\ Root(s, p) = vbm[s].root[p]
  BY Zenon, <1>2, <1>3 DEF SlotInv, Root, Slots, TypeOK
<1>5. Root(s, p) \in Tree
  BY <1>4 DEF Vbmeta
<1> DEFINE d == [slot |-> s, root |-> Root(s, p)]
<1>6. d \in Device /\ d # None /\ d.slot = s /\ d.root = Root(s, p)
  BY <1>5, NotNone DEF Device
<1>7. /\ dev' = [dev EXCEPT ![p] = d] /\ up' = up
      /\ act' = [act EXCEPT !.stage = IF p = "system" THEN "vendor" ELSE "lun"]
  BY Zenon, <1>1, <1>4 DEF Sound
<1> HIDE DEF d
<1>8. /\ dev' \in [Parts -> Device \cup {None}]
      /\ dev'[p] # None /\ dev'[p].slot = s /\ dev'[p].root = Root(s, p)
      /\ \A o \in Parts : o # p => dev'[o] = dev[o]
  BY Zenon, <1>2, <1>6, <1>7 DEF TypeOK
<1>9. /\ act' \in Activations /\ act' # None /\ act'.slot = s /\ act'.rolled = act.rolled
      /\ act'.target = act.target
      /\ p = "system" => act'.stage = "vendor"
      /\ p = "vendor" => act'.stage = "lun"
  <2>1. CASE p = "system"
    <3>1. act' = [act EXCEPT !.stage = "vendor"] /\ "vendor" \in Stages
      BY Zenon, <1>7, <2>1 DEF Stages
    <3> QED BY <1>3, <2>1, <3>1, StageSet
  <2>2. CASE p = "vendor"
    <3>1. act' = [act EXCEPT !.stage = "lun"] /\ "lun" \in Stages
      BY Zenon, <1>7, <2>2 DEF Stages
    <3> QED BY <1>3, <2>2, <3>1, StageSet
  <2> QED BY Zenon, <2>1, <2>2 DEF Parts
<1>10. TypeOK' /\ up' # "dead"
  BY Zenon, <1>1, <1>2, <1>7, <1>8 DEF TypeOK
<1>11. SuperInv' /\ SlotInv'
  BY Zenon, <1>1, <1>2, Frozen DEF SlotInv
<1>12. BootInv' /\ HeaderInv'
  BY Zenon, <1>1, <1>2, <1>7, Frozen DEF BootInv, HeaderInv
<1>13. DevInv'
  <2>1. up' # "off"
    BY Zenon, <1>3, <1>7
  <2>2. ASSUME NEW o \in Parts, NEW r \in Slots, dev'[o] # None, dev'[o].slot = r
        PROVE  dev'[o].root = Root(r, o)' /\ Sound(r, o)'
    <3>1. Root(r, o)' = Root(r, o) /\ (Sound(r, o)' <=> Sound(r, o))
      BY Zenon, <1>1, Frozen
    <3>2. CASE o = p
      BY Zenon, <1>8, <2>2, <3>1, <3>2
    <3>3. CASE o # p
      BY ZenonT(40), <1>2, <1>8, <2>2, <3>1, <3>3 DEF DevInv
    <3> QED BY Zenon, <3>2, <3>3
  <2> QED BY Zenon, <2>1, <2>2 DEF DevInv
<1>14. LiveInv' /\ JobInv' /\ HostInv'
  <2>1. act'.stage \in {"vendor", "lun"}
    BY Zenon, <1>9 DEF Parts
  <2>2. ~Settled'
    BY Zenon, <1>9, <2>1 DEF Settled
  <2> QED BY Zenon, <1>1, <1>2, <1>3, <1>7, <2>2 DEF LiveInv, JobInv, HostInv
<1>15. ActInv'
  <2>1. Bootable(s)' /\ (Good("a")' <=> Good("a")) /\ vbm'["a"] # None /\ vbm'["b"] # None
    BY Zenon, <1>1, <1>3, Frozen
  <2>2. \A r \in Slots : act'.slot = r => Bootable(r)'
    BY Zenon, <1>9, <2>1
  <2>3. CASE p = "system"
    BY Zenon, <1>1, <1>3, <1>7, <1>8, <1>9, <2>1, <2>2, <2>3 DEF ActInv, Seeding
  <2>4. CASE p = "vendor"
    <3>1. dev'["system"] # None /\ dev'["system"].slot = s
      BY Zenon, <1>3, <1>8, <2>4, Names
    <3>2. act'.stage = "lun" /\ act'.stage \notin Seeding
      BY Zenon, <1>9, <2>4 DEF Seeding
    <3> QED BY ZenonT(40), <1>1, <1>3, <1>7, <1>8, <1>9, <2>1, <2>2, <2>4, <3>1, <3>2 DEF ActInv
  <2> QED BY Zenon, <2>3, <2>4 DEF Parts
<1> QED BY Zenon, <1>10, <1>11, <1>12, <1>13, <1>14, <1>15 DEF IInv

(* dm_setup_verity_slice maps a slice that verifies and fails the slot otherwise. *)
LEMMA SetupSliceStep ==
  ASSUME IInv, SetupSlice
  PROVE  IInv'
<1>1. act # None /\ act.stage \in Parts
  BY Zenon DEF SetupSlice
<1>2. SlotInv /\ DevInv /\ ActInv
  BY Zenon DEF IInv
<1>3. PICK p \in Parts : act.stage = p
  BY Zenon, <1>1
<1>4. p \in {"system", "vendor"}
  BY Zenon DEF Parts
<1>5. /\ act \in Activations /\ vbm["a"] # None /\ vbm["b"] # None
      /\ act.rolled => Good("a")
      /\ act.slot = IF act.rolled THEN "a" ELSE act.target
      /\ p = "vendor" => dev["system"] # None /\ dev["system"].slot = act.slot
      /\ host.pc = "idle"
  BY Zenon, <1>1, <1>2, <1>3, <1>4 DEF ActInv, Seeding
<1>6. PICK s \in Slots : act.slot = s
  BY Zenon, <1>5, ActivationTypes
<1>7. CASE Sound(s, p)
  BY Zenon, <1>3, <1>6, <1>7, SetupAccepted
<1>8. CASE ~Sound(s, p)
  <2>1. Root(s, p) = vbm[s].root[p]
    BY Zenon, <1>2, <1>5 DEF SlotInv, Root, Slots
  <2>2. /\ layout' = layout /\ slice' = slice /\ vbm' = vbm /\ disk' = disk /\ hdr' = hdr
        /\ job' = job /\ host' = host /\ dev' = dev /\ Fail
    <3>1. ~Accepts(slice[s][p], vbm[s].root[p])
      BY Zenon, <1>8, <2>1 DEF Sound
    <3> QED BY Zenon, <1>3, <1>6, <3>1 DEF SetupSlice, persistent
  <2>3. ~Good(s)
    BY Zenon, <1>8 DEF Good
  <2>4. CASE s = "b"
    BY Zenon, <1>1, <1>3, <1>4, <1>6, <2>2, <2>3, <2>4, FailB
  <2>5. CASE s = "a"
    <3>1. p = "system"
      <4>1. SUFFICES ASSUME p = "vendor" PROVE FALSE
        BY Zenon, <1>4
      <4>2. Sound("a", "system") /\ ~Sound("a", "vendor")
        BY Zenon, <1>2, <1>5, <1>6, <1>8, <2>5, <4>1, Names DEF DevInv
      <4>3. slice["a"]["system"].sb = Root("a", "system")
        BY Zenon, <4>2 DEF Sound, Accepts
      <4> QED BY Zenon, <1>2, <1>5, <4>2, <4>3 DEF SlotInv
    <3> QED BY Zenon, <1>1, <1>3, <1>6, <2>2, <2>3, <2>5, <3>1, FailA
  <2> QED BY Zenon, <2>4, <2>5 DEF Slots
<1> QED BY Zenon, <1>7, <1>8

(* dm_activate_ota_slot succeeds: the flags and the boot LUN are written. *)
LEMMA ActivatedStep ==
  ASSUME IInv, Activated
  PROVE  IInv'
<1>1. /\ layout' = layout /\ slice' = slice /\ dev' = dev /\ job' = job /\ host' = host
      /\ act # None /\ act.stage = "lun" /\ vbm' = [vbm EXCEPT ![act.slot].bootable = TRUE]
      /\ SetBootLun(act.slot) /\ act' = None
      /\ up' = IF up # "boot" THEN up
               ELSE IF ~act.rolled \/ (act.target = "b" /\ dev["system"] # None)
               THEN "on" ELSE "dead"
  BY Zenon DEF Activated, Return
<1>2. /\ TypeOK /\ SuperInv /\ SlotInv /\ BootInv /\ HeaderInv /\ DevInv /\ LiveInv /\ ActInv
      /\ JobInv /\ HostInv
  BY Zenon DEF IInv
<1>3. /\ act \in Activations /\ up \in {"boot", "on"} /\ job = None /\ host.pc = "idle"
      /\ hdr.pending = disk.pending /\ vbm["a"] # None /\ vbm["b"] # None
      /\ act.rolled => act.target = "b"
      /\ \A s \in Slots : act.slot = s => Bootable(s)
      /\ dev["system"] # None /\ dev["system"].slot = act.slot
      /\ dev["vendor"] # None /\ dev["vendor"].slot = act.slot
  BY Zenon, <1>1, <1>2 DEF ActInv, Seeding
<1>4. PICK s \in Slots : act.slot = s
  BY Zenon, <1>3, ActivationTypes
<1>5. Bootable(s) /\ up' = "on"
  BY Zenon, <1>1, <1>3, <1>4
<1>6. vbm' = vbm
  <2>1. vbm[s] # None /\ vbm \in [Slots -> Vbmeta \cup {None}]
    BY Zenon, <1>2, <1>3 DEF TypeOK, SlotInv, Slots
  <2>2. vbm[s] \in Vbmeta /\ vbm[s].bootable
    BY Zenon, <1>5, <2>1 DEF Bootable
  <2>3. [vbm[s] EXCEPT !.bootable = TRUE] = vbm[s]
    BY <2>2 DEF Vbmeta
  <2>4. vbm' = [vbm EXCEPT ![s] = [vbm[s] EXCEPT !.bootable = TRUE]]
    BY <1>1, <1>4
  <2> QED BY Zenon, <2>1, <2>3, <2>4
<1>7. /\ hdr' \in Header /\ disk' = hdr' /\ hdr'.lun = s
      /\ hdr'.ack = hdr.pending /\ hdr'.pending = hdr.pending /\ hdr'.ack <= hdr'.pending
  BY Zenon, <1>1, <1>2, <1>4, BootLunSet
<1>8. \A p \in Parts : Sound(s, p) /\ dev[p] # None /\ dev[p].slot = s
  BY Zenon, <1>2, <1>3, <1>4 DEF DevInv, Parts
<1>9. TypeOK' /\ up' # "dead"
  BY Zenon, <1>1, <1>2, <1>5, <1>6, <1>7 DEF TypeOK
<1>10. SuperInv' /\ SlotInv'
  BY Zenon, <1>1, <1>2, <1>6, Frozen DEF SlotInv
<1>11. BootInv'
  <2>1. Good(s)'
    BY Zenon, <1>1, <1>5, <1>6, <1>8, Frozen DEF Good
  <2> QED BY Zenon, <1>7, <2>1 DEF BootInv, Slots
<1>12. HeaderInv'
  <2>1. disk'.pending = disk'.ack /\ disk'.ack <= disk'.pending /\ hdr'.pending <= disk'.pending
    BY Zenon, <1>7
  <2> QED BY Zenon, <1>7, <2>1 DEF HeaderInv
<1>13. DevInv'
  <2>1. \A r, p : Root(r, p)' = Root(r, p) /\ (Sound(r, p)' <=> Sound(r, p))
    BY Zenon, <1>1, <1>6, Frozen
  <2> QED BY Zenon, <1>1, <1>2, <1>5, <2>1 DEF DevInv
<1>14. LiveInv'
  <2>1. RunsFrom(s)'
    BY Zenon, <1>1, <1>5, <1>6, <1>7, <1>8, Frozen DEF RunsFrom, Live
  <2> QED BY Zenon, <1>3, <1>6, <2>1 DEF LiveInv
<1>15. ActInv' /\ JobInv' /\ HostInv'
  BY Zenon, <1>1, <1>2, <1>3, <1>7 DEF ActInv, JobInv, HostInv
<1> QED BY Zenon, <1>9, <1>10, <1>11, <1>12, <1>13, <1>14, <1>15 DEF IInv

(* rollback_to_a flags slot B UNBOOTABLE. *)
LEMMA CondemnStep ==
  ASSUME IInv, Condemn
  PROVE  IInv'
<1>1. /\ layout' = layout /\ slice' = slice /\ dev' = dev /\ job' = job /\ host' = host
      /\ disk' = disk /\ hdr' = hdr /\ up' = up
      /\ act # None /\ act.stage = "condemn" /\ vbm' = [vbm EXCEPT !["b"].bootable = FALSE]
      /\ act' = [act EXCEPT !.stage = "fallback"]
  BY Zenon DEF Condemn, Stage
<1>2. /\ TypeOK /\ SuperInv /\ SlotInv /\ BootInv /\ HeaderInv /\ DevInv /\ LiveInv /\ ActInv
      /\ JobInv /\ HostInv /\ up # "dead"
  BY Zenon DEF IInv
<1>3. /\ act \in Activations /\ up \in {"boot", "on"} /\ job = None /\ host.pc = "idle"
      /\ hdr.pending = disk.pending /\ vbm["a"] # None /\ vbm["b"] # None /\ Good("a")
      /\ act.slot = "b" /\ act.target = "b" /\ ~act.rolled
  BY Zenon, <1>1, <1>2 DEF ActInv, Seeding
<1>4. /\ act' \in Activations /\ act' # None /\ act'.stage = "fallback" /\ act'.slot = "b"
      /\ ~act'.rolled /\ act'.target = "b"
  <2>1. "fallback" \in Stages
    BY Zenon DEF Stages
  <2> QED BY <1>1, <1>3, <2>1, StageSet
<1>5. /\ vbm' \in [Slots -> Vbmeta \cup {None}] /\ vbm'["a"] = vbm["a"]
      /\ vbm'["b"] # None /\ \A p \in Parts : vbm'["b"].root[p] = vbm["b"].root[p]
  <2>1. vbm["b"] \in Vbmeta /\ vbm \in [Slots -> Vbmeta \cup {None}]
    BY Zenon, <1>2, <1>3, Names DEF TypeOK
  <2> DEFINE v == [vbm["b"] EXCEPT !.bootable = FALSE]
  <2>2. v \in Vbmeta /\ v.root = vbm["b"].root
    BY <2>1 DEF Vbmeta
  <2>3. \A w \in Vbmeta : w # None
    BY DEF Vbmeta, None
  <2>4. vbm' = [vbm EXCEPT !["b"] = v]
    BY <1>1
  <2> HIDE DEF v
  <2> QED BY Zenon, <2>1, <2>2, <2>3, <2>4, Names
<1>6. \A s \in Slots, p \in Parts : Root(s, p)' = Root(s, p) /\ (Sound(s, p)' <=> Sound(s, p))
  <2>1. \A s \in Slots, p \in Parts : Root(s, p)' = Root(s, p)
    BY Zenon, <1>3, <1>5 DEF Root, Slots
  <2> QED BY Zenon, <1>1, <2>1, SoundSame
<1>7. Bootable("a")' /\ Good("a")'
  BY Zenon, <1>2, <1>3, <1>5, <1>6, Names DEF Bootable, Good
<1>8. TypeOK'
  BY Zenon, <1>1, <1>2, <1>5 DEF TypeOK
<1>9. SuperInv' /\ HeaderInv' /\ BootInv'
  BY Zenon, <1>1, <1>2, <1>7 DEF SuperInv, HeaderInv, BootInv
<1>10. SlotInv'
  <2>1. vbm'["a"] # None
    BY Zenon, <1>2, <1>3, <1>5 DEF SlotInv
  <2>2. slice'["a"]["system"].sb # Root("a", "system")' \/ Sound("a", "vendor")'
    BY Zenon, <1>1, <1>2, <1>3, <1>6, Names DEF SlotInv
  <2> QED BY Zenon, <1>5, <1>7, <2>1, <2>2 DEF SlotInv, Slots
<1>11. DevInv'
  BY Zenon, <1>1, <1>2, <1>6 DEF DevInv
<1>12. LiveInv' /\ JobInv' /\ HostInv'
  BY Zenon, <1>1, <1>2, <1>3, <1>4, <1>5 DEF LiveInv, Settled, JobInv, HostInv
<1>13. ActInv'
  BY Zenon, <1>1, <1>3, <1>4, <1>5, <1>7 DEF ActInv, Seeding
<1> QED BY Zenon, <1>1, <1>2, <1>8, <1>9, <1>10, <1>11, <1>12, <1>13 DEF IInv

(* rollback_to_a makes slot A the boot LUN and tries it. *)
LEMMA FallbackStep ==
  ASSUME IInv, Fallback
  PROVE  IInv'
<1>1. /\ layout' = layout /\ slice' = slice /\ vbm' = vbm /\ dev' = dev /\ job' = job /\ host' = host
      /\ up' = up /\ act # None /\ act.stage = "fallback" /\ SetBootLun("a")
      /\ act' = [act EXCEPT !.stage = "check", !.slot = "a", !.rolled = TRUE]
  BY Zenon DEF Fallback, persistent
<1>2. /\ TypeOK /\ SuperInv /\ SlotInv /\ BootInv /\ HeaderInv /\ DevInv /\ LiveInv /\ ActInv
      /\ JobInv /\ HostInv /\ up # "dead"
  BY Zenon DEF IInv
<1>3. /\ act \in Activations /\ up \in {"boot", "on"} /\ job = None /\ host.pc = "idle"
      /\ hdr.pending = disk.pending /\ vbm["a"] # None /\ vbm["b"] # None /\ Good("a") /\ act.target = "b"
  BY Zenon, <1>1, <1>2 DEF ActInv, Seeding
<1>4. /\ act' \in Activations /\ act' # None /\ act'.stage = "check" /\ act'.slot = "a"
      /\ act'.rolled /\ act'.target = "b"
  BY <1>1, <1>3 DEF Activations, Stages, Slots, None
<1>5. /\ hdr' \in Header /\ disk' = hdr' /\ hdr'.lun = "a"
      /\ hdr'.ack = hdr.pending /\ hdr'.pending = hdr.pending /\ hdr'.ack <= hdr'.pending
  BY Zenon, <1>1, <1>2, Names, BootLunSet
<1>6. TypeOK'
  BY Zenon, <1>1, <1>2, <1>5 DEF TypeOK
<1>7. SuperInv' /\ SlotInv'
  BY Zenon, <1>1, <1>2, Frozen DEF SlotInv
<1>8. BootInv' /\ DevInv'
  <2>1. BootInv'
    BY Zenon, <1>1, <1>2, <1>3, Frozen DEF BootInv
  <2> QED BY Zenon, <1>1, <1>2, <2>1, DevicesKept
<1>9. HeaderInv'
  <2>1. disk'.pending = disk'.ack /\ disk'.ack <= disk'.pending /\ hdr'.pending <= disk'.pending
    BY Zenon, <1>5
  <2> QED BY Zenon, <1>5, <2>1 DEF HeaderInv
<1>10. LiveInv' /\ JobInv' /\ HostInv'
  BY Zenon, <1>1, <1>2, <1>3, <1>4, <1>5 DEF LiveInv, Settled, JobInv, HostInv
<1>11. ActInv'
  BY Zenon, <1>1, <1>3, <1>4, <1>5, Frozen DEF ActInv, Seeding
<1> QED BY Zenon, <1>1, <1>2, <1>6, <1>7, <1>8, <1>9, <1>10, <1>11 DEF IInv

-------------------------------------------------------------------------------
(* The commands. *)

(* The slot the machine runs from: the one the status ioctl calls active, and good. *)
LEMMA RunningSlot ==
  ASSUME IInv, NEW s \in Slots, RunsFrom(s)
  PROVE  /\ ActiveSlot = s /\ Good(s) /\ Live(s) /\ ~Live(Other(s))
         /\ \A p \in Parts : dev[p] # None /\ dev[p].slot = s
<1>1. DevInv
  BY Zenon DEF IInv
<1>2. /\ Live(s) /\ Bootable(s) /\ (s = "b" => hdr.lun = "b")
      /\ \A p \in Parts : dev[p] # None /\ dev[p].slot = s
  BY Zenon DEF RunsFrom, Live
<1>3. ActiveSlot = s
  BY Zenon, <1>2, Names DEF ActiveSlot, Slots
<1>4. Good(s)
  BY Zenon, <1>1, <1>2 DEF Good, DevInv
<1>5. ~Live(Other(s))
  BY Zenon, <1>2, Names DEF Live, Other, Slots
<1> QED BY Zenon, <1>2, <1>3, <1>4, <1>5

(* Between two commands, with the host silent, the header is the one on the disk. *)
LEMMA HeaderSynced ==
  ASSUME IInv, Idle, Quiet, ~Overlap
  PROVE  disk = hdr /\ hdr.pending = hdr.ack /\ host.pc = "idle"
<1>1. host.pc = "idle" /\ disk.pending = hdr.ack /\ up = "on"
  BY Zenon DEF Quiet, Idle
<1>2. TypeOK /\ HeaderInv
  BY Zenon DEF IInv
<1>3. /\ hdr.ack <= hdr.pending /\ hdr.pending <= disk.pending
      /\ disk = hdr \/ hdr.ack < disk.pending
  BY Zenon, <1>1, <1>2 DEF HeaderInv
<1>4. hdr.pending \in Nat /\ hdr.ack \in Nat /\ disk.pending \in Nat
  BY <1>2 DEF TypeOK, Header
<1> QED BY <1>1, <1>3, <1>4

(* The command that has just been started, or that goes on to its next step, with nothing
   written. *)
LEMMA JobStarts ==
  ASSUME IInv, Idle, JobInv',
         layout' = layout, slice' = slice, vbm' = vbm, disk' = disk, hdr' = hdr,
         dev' = dev, up' = up, act' = act, host' = host, host.pc = "idle"
  PROVE  IInv'
<1>1. /\ TypeOK' /\ up' # "dead" /\ SuperInv' /\ SlotInv' /\ BootInv' /\ HeaderInv'
      /\ DevInv'
  BY Zenon, NothingWritten
<1>2. LiveInv /\ HostInv /\ act = None
  BY Zenon DEF IInv, Idle
<1>3. LiveInv'
  BY Zenon, <1>2, Frozen DEF LiveInv, Settled, RunsFrom, Live
<1>4. ActInv' /\ HostInv'
  BY Zenon, <1>2 DEF ActInv, HostInv
<1> QED BY Zenon, <1>1, <1>3, <1>4 DEF IInv

(* What a command starts with. *)
LEMMA UpdateTypes ==
  ASSUME NEW c \in {"apply", "repair"}, NEW s \in Slots, NEW b \in Blocks, NEW v \in Contents, NEW d,
         d = [pc |-> "data", cmd |-> c, slot |-> s, part |-> "system", block |-> b, content |-> v,
              h |-> Fresh, root |-> [p \in Parts |-> Fresh]]
  PROVE  /\ d \in Updates /\ d # None /\ d.pc = "data" /\ d.cmd = c /\ d.slot = s
         /\ d.part = "system" /\ d.block = b /\ d.content = v
<1>1. [p \in Parts |-> Fresh] \in [Parts -> Tree]
  BY Zenon, TreeFacts
<1>2. d \in Updates
  BY <1>1, TreeFacts, Names DEF Updates, Spine
<1>3. d # None
  BY DEF None
<1> QED BY <1>2, <1>3

(* cmd_apply begins, on the slot the status ioctl does not call active. *)
LEMMA ApplyStep ==
  ASSUME IInv, Apply, ~Overlap
  PROVE  IInv'
<1>1. /\ layout' = layout /\ slice' = slice /\ vbm' = vbm /\ disk' = disk /\ hdr' = hdr
      /\ dev' = dev /\ up' = up /\ act' = act /\ host' = host /\ Idle /\ Quiet
  BY Zenon DEF Apply, Command, persistent
<1>2. PICK v \in 1 .. MaxBuild :
        /\ \A s \in Slots, p \in Parts : vbm[s].root[p]["prop"] # v
        /\ job' = [pc |-> "data", cmd |-> "apply", slot |-> Other(ActiveSlot),
                   part |-> "system", block |-> "prop", content |-> v,
                   h |-> Fresh, root |-> [p \in Parts |-> Fresh]]
  BY Zenon DEF Apply, Command
<1>3. v \in Contents
  BY <1>2, OtaAssumption DEF Contents
<1>4. LiveInv /\ SlotInv
  BY Zenon DEF IInv
<1>5. PICK s \in Slots : RunsFrom(s)
  BY Zenon, <1>1, <1>4 DEF LiveInv, Settled, Idle
<1>6. ActiveSlot = s /\ ~Live(Other(s)) /\ Other(s) \in Slots
  BY Zenon, <1>5, RunningSlot, Names DEF Other
<1>7. /\ job' \in Updates /\ job' # None /\ job'.pc = "data" /\ job'.cmd = "apply"
      /\ job'.slot = Other(s) /\ job'.part = "system" /\ job'.block = "prop" /\ job'.content = v
  BY <1>2, <1>3, <1>6, Names, UpdateTypes
<1>8. disk = hdr /\ hdr.pending = hdr.ack /\ host.pc = "idle"
  BY Zenon, <1>1, HeaderSynced
<1>9. JobInv'
  <2>1. SpineOk'
    BY Zenon, <1>7 DEF SpineOk
  <2>2. ASSUME NEW t \in Slots, job'.slot = t
        PROVE  ApplyOk(t)'
    <3>1. t = Other(s)
      BY Zenon, <1>7, <2>2
    <3>2. ~Live(t)'
      <4>1. ~Live(t)
        BY Zenon, <1>6, <3>1
      <4> QED BY Zenon, <1>1, <4>1 DEF Live
    <3>3. Root(t, "system")' = vbm[t].root["system"]
      <4>1. vbm[t] # None
        BY Zenon, <1>1, <1>4 DEF LiveInv, SlotInv, Idle, Slots
      <4> QED BY Zenon, <1>1, <4>1 DEF Root
    <3> QED BY Zenon, <1>2, <1>7, <3>2, <3>3, Names DEF ApplyOk
  <2> QED BY Zenon, <1>1, <1>7, <1>8, <2>1, <2>2 DEF JobInv, Idle
<1> QED BY Zenon, <1>1, <1>8, <1>9, JobStarts

(* cmd_repair_b begins. *)
LEMMA RepairStep ==
  ASSUME IInv, Repair, ~Overlap
  PROVE  IInv'
<1>1. /\ layout' = layout /\ slice' = slice /\ vbm' = vbm /\ disk' = disk /\ hdr' = hdr
      /\ dev' = dev /\ up' = up /\ act' = act /\ host' = host /\ Idle /\ Quiet
      /\ job' = [pc |-> "data", cmd |-> "repair", slot |-> "b",
                 part |-> "system", block |-> "super",
                 content |-> slice["a"]["system"].data["super"],
                 h |-> Fresh, root |-> [p \in Parts |-> Fresh]]
  BY Zenon DEF Repair, Command, persistent
<1>2. slice["a"]["system"].data["super"] = 0
  BY Zenon, Names DEF IInv, SuperInv
<1>3. /\ job' \in Updates /\ job' # None /\ job'.pc = "data" /\ job'.cmd = "repair"
      /\ job'.slot = "b" /\ job'.part = "system" /\ job'.block = "super" /\ job'.content = 0
  BY <1>1, <1>2, Names, TreeFacts, UpdateTypes
<1>4. disk = hdr /\ hdr.pending = hdr.ack /\ host.pc = "idle"
  BY Zenon, <1>1, HeaderSynced
<1>5. SpineOk' /\ RepairOk'
  BY Zenon, <1>3 DEF SpineOk, RepairOk, Spine
<1>6. JobInv'
  BY Zenon, <1>1, <1>3, <1>4, <1>5 DEF JobInv, Idle
<1> QED BY Zenon, <1>1, <1>4, <1>6, JobStarts

(* A write to a slice of the slot that is not live. *)
LEMMA StagedWrite ==
  ASSUME IInv, NEW s \in Slots, RunsFrom(s), NEW t \in Slots, t # s, NEW o \in Parts,
         NEW q \in Slice, slice' = [slice EXCEPT ![t][o] = q],
         q.l0["super"] = 0, q.l1["super"] = 0,
         q.data["super"] = 0 \/ (t = "b" /\ o = "system" /\ q.data["super"] = 1),
         t = "a" => \/ o = "system" /\ q.sb # Root("a", "system")
                    \/ o = "system" /\ q.sb = slice["a"]["system"].sb
                    \/ o = "vendor" /\ slice["a"]["system"].sb # Root("a", "system"),
         layout' = layout, vbm' = vbm, disk' = disk, hdr' = hdr, dev' = dev, up' = up,
         act' = act, host' = host, act = None, up = "on", host.pc = "idle", disk = hdr, JobInv'
  PROVE  IInv'
<1>1. /\ TypeOK /\ SuperInv /\ SlotInv /\ BootInv /\ HeaderInv /\ DevInv /\ LiveInv /\ HostInv
  BY Zenon DEF IInv
<1>2. /\ slice' \in [Slots -> [Parts -> Slice]] /\ slice'[t][o] = q
      /\ \A r \in Slots, p \in Parts : r # t \/ p # o => slice'[r][p] = slice[r][p]
  BY Zenon, <1>1 DEF TypeOK
<1>3. /\ \A r, p : Root(r, p)' = Root(r, p)
      /\ \A r : Bootable(r)' <=> Bootable(r)
  BY Zenon DEF Root, Bootable
<1>4. \A r \in Slots, p \in Parts : r # t \/ p # o => (Sound(r, p)' <=> Sound(r, p))
  BY Zenon, <1>2, <1>3, SoundSame
<1>5. Good(s) /\ \A p \in Parts : dev[p] # None /\ dev[p].slot = s
  BY Zenon, RunningSlot
<1>6. Good(s)' /\ \A p \in Parts : Sound(s, p)'
  BY Zenon, <1>3, <1>4, <1>5 DEF Good
<1>7. TypeOK' /\ up' # "dead"
  BY Zenon, <1>1, <1>2 DEF TypeOK
<1>8. SuperInv'
  <2>1. /\ \A r \in Slots, p \in Parts :
             slice[r][p].l0["super"] = 0 /\ slice[r][p].l1["super"] = 0
        /\ \A p \in Parts : slice["a"][p].data["super"] = 0
        /\ slice["b"]["vendor"].data["super"] = 0
        /\ slice["b"]["system"].data["super"] \in {0, 1}
    BY Zenon, <1>1 DEF SuperInv
  <2>2. \A r \in Slots, p \in Parts : slice'[r][p].l0["super"] = 0 /\ slice'[r][p].l1["super"] = 0
    <3> TAKE r \in Slots, p \in Parts
    <3>1. CASE r = t /\ p = o
      BY Zenon, <1>2, <3>1
    <3>2. CASE r # t \/ p # o
      <4>1. slice'[r][p] = slice[r][p]
        BY Zenon, <1>2, <3>2
      <4> QED BY ZenonT(40), <2>1, <4>1
    <3> QED BY Zenon, <3>1, <3>2
  <2>3. \A p \in Parts : slice'["a"][p].data["super"] = 0
    <3> TAKE p \in Parts
    <3>1. CASE t = "a" /\ p = o
      BY Zenon, <1>2, <3>1
    <3>2. CASE t # "a" \/ p # o
      <4>1. slice'["a"][p] = slice["a"][p]
        BY Zenon, <1>2, <3>2, Names
      <4> QED BY Zenon, <2>1, <4>1
    <3> QED BY Zenon, <3>1, <3>2
  <2>4. slice'["b"]["vendor"].data["super"] = 0
    BY Zenon, <1>2, <2>1, Names
  <2>5. slice'["b"]["system"].data["super"] \in {0, 1}
    BY Zenon, <1>2, <2>1, Names
  <2> QED BY Zenon, <2>2, <2>3, <2>4, <2>5 DEF SuperInv
<1>9. SlotInv'
  <2>1. vbm["a"] # None /\ vbm["b"] # None
    BY Zenon, <1>1 DEF LiveInv, SlotInv
  <2>2. slice["a"]["system"].sb # Root("a", "system") \/ Sound("a", "vendor")
    BY Zenon, <1>1 DEF SlotInv
  <2>3. slice'["a"]["system"].sb # Root("a", "system") \/ Sound("a", "vendor")'
    <3>1. CASE t = "b"
      BY Zenon, <1>2, <1>4, <2>2, <3>1, Names
    <3>2. CASE t = "a" /\ o = "system"
      <4>1. slice'["a"]["system"] = q /\ (Sound("a", "vendor")' <=> Sound("a", "vendor"))
        BY Zenon, <1>2, <1>4, <3>2, Names
      <4> QED BY Zenon, <2>2, <3>2, <4>1
    <3>3. CASE t = "a" /\ o = "vendor"
      BY Zenon, <1>2, <3>3, Names
    <3> QED BY Zenon, <3>1, <3>2, <3>3 DEF Slots, Parts
  <2> QED BY Zenon, <1>1, <1>3, <2>1, <2>3 DEF SlotInv, Slots
<1>10. BootInv' /\ HeaderInv'
  BY Zenon, <1>1, <1>6 DEF BootInv, HeaderInv, RunsFrom, Slots
<1>11. DevInv'
  BY Zenon, <1>1, <1>3, <1>5, <1>6 DEF DevInv
<1>12. LiveInv'
  <2>1. RunsFrom(s)'
    BY Zenon, <1>3 DEF RunsFrom, Live
  <2> QED BY Zenon, <1>1, <2>1 DEF LiveInv
<1>13. ActInv' /\ HostInv'
  BY Zenon, <1>1 DEF ActInv, HostInv
<1> QED BY Zenon, <1>7, <1>8, <1>9, <1>10, <1>11, <1>12, <1>13 DEF IInv

(* cmd_corrupt_b flips slot B's superblock, with slot A live. *)
LEMMA CorruptStep ==
  ASSUME IInv, Corrupt, ~Overlap
  PROVE  IInv'
<1>1. /\ layout' = layout /\ vbm' = vbm /\ disk' = disk /\ hdr' = hdr
      /\ dev' = dev /\ up' = up /\ act' = act /\ host' = host /\ Idle /\ Quiet
      /\ job' = [pc |-> "bsg"] /\ \A p \in Parts : dev[p] # None /\ dev[p].slot = "a"
  BY Zenon DEF Corrupt, Command
<1>2. TypeOK /\ SuperInv /\ LiveInv
  BY Zenon DEF IInv
<1>3. disk = hdr /\ hdr.pending = hdr.ack /\ host.pc = "idle" /\ act = None /\ up = "on"
  BY Zenon, <1>1, HeaderSynced DEF Idle
<1>4. PICK s \in Slots : RunsFrom(s)
  BY Zenon, <1>2, <1>3 DEF LiveInv, Settled
<1>5. s = "a" /\ Live("a")
  BY Zenon, <1>1, <1>4, Names DEF RunsFrom, Live
<1> DEFINE p0 == slice["b"]["system"]
           t == [p0.data EXCEPT !["super"] = 1 - p0.data["super"]]
           q == [p0 EXCEPT !["data"] = t]
<1>6. p0 \in Slice /\ p0.data \in Tree /\ p0.data["super"] \in {0, 1}
  <2>1. p0 \in Slice /\ p0.data["super"] \in {0, 1}
    BY Zenon, <1>2, Names DEF TypeOK, SuperInv
  <2> QED BY Zenon, <2>1, SliceTypes
<1>7. 1 - p0.data["super"] \in {0, 1}
  BY <1>6
<1>8. t \in Tree /\ t["super"] \in {0, 1}
  <2>1. t \in Tree
    BY Zenon, <1>6, <1>7, TreeFacts, Names
  <2> QED BY Zenon, <1>6, <1>7, <2>1, Names DEF Tree
<1>9. slice' = [slice EXCEPT !["b"]["system"] = q]
  BY DEF Corrupt
<1>10. q \in Slice /\ q.data = t /\ q.l0 = p0.l0 /\ q.l1 = p0.l1
  BY Zenon, <1>6, <1>8, SliceFields
<1>11. p0.l0["super"] = 0 /\ p0.l1["super"] = 0
  BY Zenon, <1>2, Names DEF SuperInv
<1>12. JobInv'
  <2>1. Live("a")'
    BY Zenon, <1>1, <1>5 DEF Live
  <2> QED BY Zenon, <1>1, <1>3, <2>1 DEF JobInv
<1> HIDE DEF p0, t, q
<1> QED BY Zenon, <1>1, <1>3, <1>4, <1>5, <1>8, <1>9, <1>10, <1>11, <1>12, Names, StagedWrite

(* The boot LUN is set while slot s runs, to slot B or to s: slot A is there to roll back to,
   or the boot LUN stays with the slot that runs. *)
LEMMA BootLunWritten ==
  ASSUME IInv, NEW s \in Slots, RunsFrom(s), NEW t \in Slots, WriteAttr(t), s = "b" => t = "b",
         act = None, up = "on", host.pc = "idle", disk = hdr, hdr.pending = hdr.ack, job' = None,
         layout' = layout, slice' = slice, vbm' = vbm, dev' = dev, up' = up, act' = act, host' = host
  PROVE  IInv'
<1>1. /\ TypeOK /\ SuperInv /\ SlotInv /\ BootInv /\ HeaderInv /\ DevInv /\ LiveInv /\ HostInv
  BY Zenon DEF IInv
<1>2. Good(s)
  BY Zenon, RunningSlot
<1>3. hdr' = [hdr EXCEPT !.lun = t] /\ disk' = hdr'
  BY Zenon DEF WriteAttr
<1>4. /\ hdr' \in Header /\ hdr'.lun = t /\ hdr'.pending = hdr.pending /\ hdr'.ack = hdr.ack
      /\ hdr'.pslot = hdr.pslot
  BY <1>1, <1>3 DEF TypeOK, Header
<1>5. TypeOK' /\ up' # "dead"
  BY Zenon, <1>1, <1>3, <1>4 DEF TypeOK
<1>6. SuperInv' /\ SlotInv'
  BY Zenon, <1>1, Frozen DEF SlotInv
<1>7. BootInv' /\ DevInv'
  <2>1. /\ \A r, p : Root(r, p)' = Root(r, p) /\ (Sound(r, p)' <=> Sound(r, p))
        /\ Good(s)'
    BY Zenon, <1>2, Frozen
  <2>2. Good("a")' \/ (disk'.lun = "b" /\ Good("b")')
    BY Zenon, <1>3, <1>4, <2>1 DEF Slots
  <2>3. BootInv'
    BY Zenon, <2>2 DEF BootInv
  <2> QED BY Zenon, <1>1, <2>1, <2>3 DEF DevInv
<1>8. HeaderInv'
  BY Zenon, <1>1, <1>3, <1>4 DEF HeaderInv
<1>9. LiveInv'
  <2>1. RunsFrom(s)'
    BY Zenon, <1>3, <1>4, Frozen DEF RunsFrom, Live
  <2> QED BY Zenon, <1>1, <2>1 DEF LiveInv
<1>10. ActInv' /\ JobInv' /\ HostInv'
  BY Zenon, <1>1, <1>3, <1>4 DEF ActInv, JobInv, HostInv
<1> QED BY Zenon, <1>5, <1>6, <1>7, <1>8, <1>9, <1>10 DEF IInv

(* The boot LUN is written by cmd_corrupt_b, with slot A live, or by ufs boot-slot. *)
LEMMA WriteBootLunAttrStep ==
  ASSUME IInv, WriteBootLunAttr, ~Overlap, ~ByHand
  PROVE  IInv'
<1>1. /\ layout' = layout /\ slice' = slice /\ vbm' = vbm /\ dev' = dev /\ up' = up /\ act' = act
      /\ host' = host /\ Idle /\ job' = None /\ act = None /\ up = "on"
      /\ \/ job # None /\ job.pc = "bsg" /\ WriteAttr("b")
         \/ Quiet /\ \E t \in Slots : (t = "a" => ActiveSlot = "a") /\ WriteAttr(t)
  BY Zenon DEF WriteBootLunAttr, persistent, Idle
<1>2. LiveInv /\ JobInv
  BY Zenon DEF IInv
<1>3. PICK s \in Slots : RunsFrom(s)
  BY Zenon, <1>1, <1>2 DEF LiveInv, Settled
<1>4. CASE job # None /\ job.pc = "bsg" /\ WriteAttr("b")
  <2>1. \A u \in Updates : u.pc # "bsg"
    BY DEF Updates, Spine
  <2>2. disk = hdr /\ hdr.pending = hdr.ack /\ host.pc = "idle"
    BY Zenon, <1>2, <1>4, <2>1 DEF JobInv
  <2> QED BY Zenon, <1>1, <1>3, <1>4, <2>2, Names, BootLunWritten
<1>5. CASE Quiet /\ \E t \in Slots : (t = "a" => ActiveSlot = "a") /\ WriteAttr(t)
  <2>1. PICK t \in Slots : (t = "a" => ActiveSlot = "a") /\ WriteAttr(t)
    BY Zenon, <1>5
  <2>2. disk = hdr /\ hdr.pending = hdr.ack /\ host.pc = "idle"
    BY Zenon, <1>1, <1>5, HeaderSynced
  <2>3. s = "b" => t = "b"
    BY Zenon, <1>3, <2>1, RunningSlot DEF Slots
  <2> QED BY Zenon, <1>1, <1>3, <2>1, <2>2, <2>3, BootLunWritten
<1> QED BY Zenon, <1>1, <1>4, <1>5

(* rpmb_record_rollback saves the kernel's header, which is the one on the disk. *)
LEMMA RecordRollbackStep ==
  ASSUME IInv, RecordRollback
  PROVE  IInv'
<1>1. /\ layout' = layout /\ slice' = slice /\ vbm' = vbm /\ hdr' = hdr /\ dev' = dev /\ up' = up
      /\ act' = act /\ host' = host /\ Idle /\ job # None /\ job.pc = "rpmb" /\ disk' = hdr
      /\ job' = None \/ job' = [job EXCEPT !.pc = "switch"]
  BY Zenon DEF RecordRollback, persistent
<1>2. JobInv
  BY Zenon DEF IInv
<1>3. [pc |-> "bsg"].pc # "rpmb"
  OBVIOUS
<1>4. /\ disk = hdr /\ hdr.pending = hdr.ack /\ host.pc = "idle" /\ act = None /\ up = "on"
      /\ job \in Updates
      /\ job.cmd = "apply" => \A s \in Slots : job.slot = s => ApplyOk(s)
      /\ job.cmd = "repair" => RepairOk
  BY Zenon, <1>1, <1>2, <1>3 DEF JobInv
<1>5. CASE job' = None
  BY Zenon, <1>1, <1>4, <1>5, JobStarts DEF JobInv
<1>6. CASE job' = [job EXCEPT !.pc = "switch"]
  <2>1. /\ job' \in Updates /\ job' # None /\ job'.pc = "switch" /\ job'.cmd = job.cmd
        /\ job'.slot = job.slot /\ job'.block = job.block
    BY <1>4, <1>6 DEF Updates, None
  <2>2. job.cmd # "repair"
    BY Zenon, <1>1, <1>4 DEF RepairOk, Spine
  <2>3. SpineOk'
    BY Zenon, <2>1 DEF SpineOk, Spine
  <2>4. ASSUME NEW s \in Slots, job'.slot = s, job'.cmd = "apply"
        PROVE  ApplyOk(s)'
    <3>1. ApplyOk(s)
      BY Zenon, <1>4, <2>1, <2>4
    <3>2. job.block = "prop" /\ ~Live(s)'
      BY Zenon, <1>1, <3>1 DEF ApplyOk, Live
    <3> QED BY Zenon, <2>1, <3>2 DEF ApplyOk, Spine
  <2>5. JobInv'
    BY Zenon, <1>1, <1>4, <2>1, <2>2, <2>3, <2>4 DEF JobInv
  <2> QED BY Zenon, <1>1, <1>4, <2>5, JobStarts
<1> QED BY Zenon, <1>1, <1>5, <1>6

(* DM_IOC_OTA_ACTIVATE, from cmd_switch or at the end of an apply. *)
LEMMA SwitchStep ==
  ASSUME IInv, Switch, ~Overlap
  PROVE  IInv'
<1>1. /\ layout' = layout /\ slice' = slice /\ vbm' = vbm /\ disk' = disk /\ hdr' = hdr
      /\ dev' = dev /\ up' = up /\ host' = host /\ Idle /\ job' = None
      /\ \/ Quiet /\ job = None /\ \E s \in Slots : Begin(s)
         \/ job # None /\ job.pc = "switch" /\ Begin(job.slot)
  BY Zenon DEF Switch, persistent
<1>2. JobInv /\ LiveInv /\ HostInv /\ ActInv
  BY Zenon DEF IInv
<1>3. [pc |-> "bsg"].pc # "switch"
  OBVIOUS
<1>4. \A u \in Updates : u.slot \in Slots
  BY DEF Updates
<1>5. /\ \E s \in Slots : Begin(s)
      /\ hdr.pending = disk.pending /\ host.pc = "idle" /\ act = None /\ up = "on"
  <2>1. CASE Quiet /\ job = None /\ \E s \in Slots : Begin(s)
    BY Zenon, <1>1, <2>1, HeaderSynced DEF Idle
  <2>2. CASE job # None /\ job.pc = "switch" /\ Begin(job.slot)
    BY Zenon, <1>1, <1>2, <1>3, <1>4, <2>2 DEF JobInv
  <2> QED BY Zenon, <1>1, <2>1, <2>2
<1>6. PICK s \in Slots : act' = [stage |-> "check", slot |-> s, target |-> s, rolled |-> FALSE]
  BY Zenon, <1>5 DEF Begin
<1>7. /\ act' \in Activations /\ act' # None /\ act'.stage = "check" /\ act'.slot = s
      /\ act'.target = s /\ ~act'.rolled
  BY <1>6 DEF Activations, Stages, None
<1>8. /\ TypeOK' /\ up' # "dead" /\ SuperInv' /\ SlotInv' /\ BootInv' /\ HeaderInv'
      /\ DevInv'
  BY Zenon, <1>1, NothingWritten
<1>9. LiveInv'
  <2>1. Settled
    BY Zenon, <1>5 DEF Settled
  <2> QED BY Zenon, <1>1, <1>2, <2>1, Frozen DEF LiveInv, RunsFrom, Live
<1>10. ActInv'
  <2>1. vbm'["a"] # None /\ vbm'["b"] # None
    BY Zenon, <1>1, <1>2, <1>5 DEF LiveInv
  <2> QED BY Zenon, <1>1, <1>5, <1>7, <2>1 DEF ActInv, Seeding
<1>11. JobInv' /\ HostInv'
  BY Zenon, <1>1, <1>2, <1>5 DEF JobInv, HostInv
<1> QED BY Zenon, <1>8, <1>9, <1>10, <1>11 DEF IInv

-------------------------------------------------------------------------------
(* update_verity_block_and_spine. *)

(* The fields of an apply or a repair in progress. *)
LEMMA UpdateFields ==
  ASSUME NEW u \in Updates
  PROVE  /\ u.cmd \in {"apply", "repair"} /\ u.slot \in Slots /\ u.part \in Parts
         /\ u.block \in Blocks /\ u.content \in Contents /\ u.h \in Tree
         /\ u.root \in [Parts -> Tree] /\ u.pc # "bsg" /\ u # None
BY DEF Updates, Spine, None

(* The command in progress, once its first write is due. *)
LEMMA Updating ==
  ASSUME IInv, job # None, job.pc # "bsg"
  PROVE  /\ disk = hdr /\ hdr.pending = hdr.ack /\ host.pc = "idle" /\ act = None /\ up = "on"
         /\ job \in Updates /\ SpineOk
         /\ job.cmd = "apply" => \A s \in Slots : job.slot = s => ApplyOk(s)
         /\ job.cmd = "repair" => RepairOk
         /\ \E s \in Slots : RunsFrom(s)
<1>1. JobInv /\ LiveInv
  BY Zenon DEF IInv
<1>2. [pc |-> "bsg"].pc = "bsg"
  OBVIOUS
<1>3. /\ disk = hdr /\ hdr.pending = hdr.ack /\ host.pc = "idle" /\ act = None /\ up = "on"
      /\ job \in Updates /\ SpineOk
      /\ job.cmd = "apply" => \A s \in Slots : job.slot = s => ApplyOk(s)
      /\ job.cmd = "repair" => RepairOk
  BY Zenon, <1>1, <1>2 DEF JobInv
<1>4. \E s \in Slots : RunsFrom(s)
  BY Zenon, <1>1, <1>3 DEF LiveInv, Settled
<1> QED BY Zenon, <1>3, <1>4

(* A block of the slice is written, below its superblock. *)
LEMMA SpineBlock ==
  ASSUME IInv, job # None, job.pc \in Spine, NEW t \in Slots, job.slot = t,
         NEW o \in Parts, job.part = o,
         NEW q \in Slice, slice' = [slice EXCEPT ![t][o] = q],
         q.l0["super"] = 0, q.l1["super"] = 0,
         q.data["super"] \in {0, slice[t][o].data["super"]}, q.sb = slice[t][o].sb,
         job.cmd = "repair" /\ Sound(t, o) => q = slice[t][o],
         layout' = layout, vbm' = vbm, disk' = disk, hdr' = hdr, dev' = dev, up' = up,
         act' = act, host' = host,
         job' \in Updates, job'.pc \in Spine, job'.cmd = job.cmd, job'.slot = t, job'.part = o,
         job'.block = job.block, job'.content = job.content, job'.root = job.root, SpineOk'
  PROVE  IInv'
<1>1. /\ TypeOK /\ SuperInv /\ DevInv /\ LiveInv
  BY Zenon DEF IInv
<1>2. job.pc # "bsg"
  BY Zenon DEF Spine
<1>3. /\ disk = hdr /\ hdr.pending = hdr.ack /\ host.pc = "idle" /\ act = None /\ up = "on"
      /\ job \in Updates /\ job.cmd \in {"apply", "repair"}
      /\ job.cmd = "apply" => ApplyOk(t)
      /\ job.cmd = "repair" => RepairOk
  BY Zenon, <1>2, Updating, UpdateFields
<1>4. PICK s \in Slots : RunsFrom(s)
  BY Zenon, <1>2, Updating
<1>5. /\ slice' \in [Slots -> [Parts -> Slice]] /\ slice'[t][o] = q
      /\ \A r \in Slots, p \in Parts : r # t \/ p # o => slice'[r][p] = slice[r][p]
  BY Zenon, <1>1 DEF TypeOK
<1>6. /\ \A r, p : Root(r, p)' = Root(r, p)
      /\ \A r : Live(r)' <=> Live(r)
  BY Zenon DEF Root, Live
<1>7. JobInv'
  <2>1. job.cmd = "apply" => ApplyOk(t)'
    <3> HAVE job.cmd = "apply"
    <3>1. ApplyOk(t)
      BY Zenon, <1>3
    <3>2. job.block = "prop" /\ ~Live(t)' /\ Root(t, "system")'["prop"] # job.content
      BY Zenon, <1>6, <3>1 DEF ApplyOk
    <3>3. ASSUME t = "a", o = "vendor"
          PROVE  Rebuilt("system")' /\ job.root["system"]["prop"] = job.content
      <4>1. Rebuilt("system") /\ job.root["system"]["prop"] = job.content
        BY Zenon, <3>1, <3>3 DEF ApplyOk
      <4>2. slice'["a"]["system"] = slice["a"]["system"]
        BY Zenon, <1>5, <3>3, Names
      <4>3. Rebuilt("system")'
        BY <4>1, <4>2 DEF Rebuilt, Accepts, BlockVerifies, Checked, Group
      <4> QED BY Zenon, <4>1, <4>3
    <3>4. job'.pc # "vbmeta"
      BY Zenon DEF Spine
    <3> QED BY Zenon, <3>2, <3>3, <3>4 DEF ApplyOk
  <2>2. job.cmd = "repair" => RepairOk'
    BY Zenon, <1>3 DEF RepairOk, Spine
  <2>3. job' # None
    BY Zenon, UpdateFields
  <2> QED BY Zenon, <1>3, <2>1, <2>2, <2>3 DEF JobInv
<1>8. CASE t # s
  <2>1. q.data["super"] = 0 \/ (t = "b" /\ o = "system" /\ q.data["super"] = 1)
    BY Zenon, <1>1 DEF SuperInv, Slots, Parts
  <2>2. t = "a" => \/ o = "system" /\ q.sb # Root("a", "system")
                   \/ o = "system" /\ q.sb = slice["a"]["system"].sb
                   \/ o = "vendor" /\ slice["a"]["system"].sb # Root("a", "system")
    <3>1. SUFFICES ASSUME t = "a", o = "vendor"
                   PROVE  slice["a"]["system"].sb # Root("a", "system")
      BY Zenon DEF Parts
    <3>2. ApplyOk("a")
      BY Zenon, <1>3, <3>1 DEF RepairOk
    <3>3. /\ Rebuilt("system") /\ job.root["system"]["prop"] = job.content
          /\ Root("a", "system")["prop"] # job.content
      BY Zenon, <3>1, <3>2 DEF ApplyOk
    <3> QED BY Zenon, <3>3 DEF Rebuilt, Accepts
  <2> QED BY Zenon, <1>3, <1>4, <1>7, <1>8, <2>1, <2>2, StagedWrite
<1>9. CASE t = s
  <2>1. Live(t) /\ Sound(t, o)
    BY Zenon, <1>1, <1>4, <1>9, RunningSlot DEF DevInv
  <2>2. job.cmd = "repair"
    BY Zenon, <1>3, <2>1 DEF ApplyOk
  <2>3. slice' = slice
    <3>1. q = slice[t][o]
      BY Zenon, <2>1, <2>2
    <3> QED BY Zenon, <1>1, <3>1 DEF TypeOK
  <2> QED BY Zenon, <1>3, <1>7, <2>3, JobStarts DEF Idle
<1> QED BY Zenon, <1>8, <1>9

(* What every write of update_verity_block_and_spine finds and leaves alone. *)
LEMMA SpineFrame ==
  ASSUME IInv, WriteSpine
  PROVE  /\ layout' = layout /\ vbm' = vbm /\ disk' = disk /\ hdr' = hdr /\ dev' = dev /\ up' = up
         /\ act' = act /\ host' = host /\ job # None /\ job.pc \in Spine
         /\ job \in Updates /\ SpineOk
         /\ job.cmd = "repair" => job.block = "super" /\ job.content = 0
         /\ job.cmd = "apply" => job.block = "prop"
         /\ job.slot \in Slots /\ job.part \in Parts /\ slice[job.slot][job.part] \in Slice
         /\ slice[job.slot][job.part].l0["super"] = 0 /\ slice[job.slot][job.part].l1["super"] = 0
<1>1. /\ layout' = layout /\ vbm' = vbm /\ disk' = disk /\ hdr' = hdr /\ dev' = dev /\ up' = up
      /\ act' = act /\ host' = host /\ job # None /\ job.pc \in Spine
  BY Zenon DEF WriteSpine, Spine
<1>2. job.pc # "bsg"
  BY Zenon, <1>1 DEF Spine
<1>3. /\ job \in Updates /\ SpineOk
      /\ job.cmd = "apply" => \A s \in Slots : job.slot = s => ApplyOk(s)
      /\ job.cmd = "repair" => RepairOk
  BY Zenon, <1>1, <1>2, Updating
<1>4. job.slot \in Slots /\ job.part \in Parts
  BY Zenon, <1>3, UpdateFields
<1>5. /\ job.cmd = "repair" => job.block = "super" /\ job.content = 0
      /\ job.cmd = "apply" => job.block = "prop"
  BY Zenon, <1>3, <1>4 DEF RepairOk, ApplyOk
<1>6. TypeOK /\ SuperInv
  BY Zenon DEF IInv
<1>7. slice[job.slot][job.part] \in Slice
  BY Zenon, <1>4, <1>6 DEF TypeOK
<1>8. slice[job.slot][job.part].l0["super"] = 0 /\ slice[job.slot][job.part].l1["super"] = 0
  BY Zenon, <1>4, <1>6 DEF SuperInv
<1> QED BY Zenon, <1>1, <1>3, <1>4, <1>5, <1>7, <1>8

(* The data block. *)
LEMMA WriteData ==
  ASSUME IInv, WriteSpine, job.pc = "data"
  PROVE  IInv'
<1> DEFINE t == job.slot
           o == job.part
           p0 == slice[t][o]
           x == [p0.data EXCEPT ![job.block] = job.content]
           q == [p0 EXCEPT !["data"] = x]
<1>1. /\ layout' = layout /\ vbm' = vbm /\ disk' = disk /\ hdr' = hdr /\ dev' = dev /\ up' = up
      /\ act' = act /\ host' = host /\ job # None /\ job.pc \in Spine
      /\ job \in Updates /\ SpineOk
      /\ job.cmd = "repair" => job.block = "super" /\ job.content = 0
      /\ job.cmd = "apply" => job.block = "prop"
      /\ t \in Slots /\ o \in Parts /\ p0 \in Slice
      /\ p0.l0["super"] = 0 /\ p0.l1["super"] = 0
  BY Zenon, SpineFrame
<1>2. /\ slice' = [slice EXCEPT ![t][o]["data"] = x]
      /\ job' = [job EXCEPT !.pc = "l0", !.h = x]
  BY Zenon DEF WriteSpine, Write
<1>3. /\ job.cmd \in {"apply", "repair"} /\ job.block \in Blocks /\ job.content \in Contents
      /\ job.h \in Tree
  BY Zenon, <1>1, UpdateFields
<1>4. p0.data \in Tree /\ p0.l0 \in Tree /\ p0.l1 \in Tree /\ p0.l2 \in Tree
  BY Zenon, <1>1, SliceTypes
<1>5. x \in Tree
  BY Zenon, <1>3, <1>4, TreeFacts
<1>6. /\ q \in Slice /\ q.data = x
      /\ q.l0 = p0.l0 /\ q.l1 = p0.l1 /\ q.l2 = p0.l2 /\ q.sb = p0.sb
  BY Zenon, <1>1, <1>5, SliceFields
<1>7. slice' = [slice EXCEPT ![t][o] = q]
  BY <1>2
<1>8. /\ job' \in Updates /\ job'.pc = "l0" /\ job'.h = x /\ job'.cmd = job.cmd /\ job'.slot = t
      /\ job'.part = o /\ job'.block = job.block /\ job'.content = job.content
      /\ job'.root = job.root
  <2>1. "l0" \in Spine
    BY Zenon DEF Spine
  <2> HIDE DEF t, o, p0, x, q
  <2> QED BY <1>1, <1>2, <1>5, <2>1 DEF Updates, t, o
<1>9. slice'[t][o] = q
  <2>1. slice \in [Slots -> [Parts -> Slice]]
    BY Zenon DEF IInv, TypeOK
  <2> QED BY Zenon, <1>1, <1>6, <1>7, <2>1
<1>10. q.l0["super"] = 0 /\ q.l1["super"] = 0 /\ q.data["super"] \in {0, p0.data["super"]}
  <2>1. x["super"] \in {0, p0.data["super"]}
    BY Zenon, <1>1, <1>3, <1>4, Names DEF Tree
  <2> QED BY Zenon, <1>1, <1>6, <2>1
<1>11. ASSUME job.cmd = "repair", Sound(t, o)
       PROVE  q = p0
  <2>1. p0.data["super"] = p0.l0["super"]
    BY Zenon, <1>11 DEF Sound, Accepts, BlockVerifies, Checked, Blocks
  <2>2. x = p0.data
    BY Zenon, <1>1, <1>4, <1>11, <2>1, Names DEF Tree
  <2> QED BY <1>1, <2>2 DEF Slice
<1>12. SpineOk'
  <2>1. x[job.block] = job.content
    BY Zenon, <1>3, <1>4 DEF Tree
  <2> HIDE DEF t, o, p0, x, q
  <2> QED BY Zenon, <1>6, <1>8, <1>9, <2>1 DEF SpineOk, Spine
<1> HIDE DEF t, o, p0, x, q
<1>13. job'.pc \in Spine
  BY Zenon, <1>8 DEF Spine
<1> QED BY Zenon, <1>1, <1>6, <1>7, <1>8, <1>10, <1>11, <1>12, <1>13, SpineBlock DEF p0, t, o

(* The level-0 hash block. *)
LEMMA WriteL0 ==
  ASSUME IInv, WriteSpine, job.pc = "l0"
  PROVE  IInv'
<1> DEFINE t == job.slot
           o == job.part
           p0 == slice[t][o]
           x == [p0.l0 EXCEPT ![job.block] = job.content]
           q == [p0 EXCEPT !["l0"] = x]
<1>1. /\ layout' = layout /\ vbm' = vbm /\ disk' = disk /\ hdr' = hdr /\ dev' = dev /\ up' = up
      /\ act' = act /\ host' = host /\ job # None /\ job.pc \in Spine
      /\ job \in Updates /\ SpineOk
      /\ job.cmd = "repair" => job.block = "super" /\ job.content = 0
      /\ job.cmd = "apply" => job.block = "prop"
      /\ t \in Slots /\ o \in Parts /\ p0 \in Slice
      /\ p0.l0["super"] = 0 /\ p0.l1["super"] = 0
  BY Zenon, SpineFrame
<1>2. /\ slice' = [slice EXCEPT ![t][o]["l0"] = x]
      /\ job' = [job EXCEPT !.pc = "l1", !.h = x]
  BY Zenon DEF WriteSpine, Write
<1>3. /\ job.cmd \in {"apply", "repair"} /\ job.block \in Blocks /\ job.content \in Contents
      /\ job.h \in Tree
  BY Zenon, <1>1, UpdateFields
<1>4. p0.data \in Tree /\ p0.l0 \in Tree /\ p0.l1 \in Tree /\ p0.l2 \in Tree
  BY Zenon, <1>1, SliceTypes
<1>5. x \in Tree
  BY Zenon, <1>3, <1>4, TreeFacts
<1>6. /\ q \in Slice /\ q.l0 = x
      /\ q.data = p0.data /\ q.l1 = p0.l1 /\ q.l2 = p0.l2 /\ q.sb = p0.sb
  BY Zenon, <1>1, <1>5, SliceFields
<1>7. slice' = [slice EXCEPT ![t][o] = q]
  BY <1>2
<1>8. /\ job' \in Updates /\ job'.pc = "l1" /\ job'.h = x /\ job'.cmd = job.cmd /\ job'.slot = t
      /\ job'.part = o /\ job'.block = job.block /\ job'.content = job.content
      /\ job'.root = job.root
  <2>1. "l1" \in Spine
    BY Zenon DEF Spine
  <2> HIDE DEF t, o, p0, x, q
  <2> QED BY <1>1, <1>2, <1>5, <2>1 DEF Updates, t, o
<1>9. slice'[t][o] = q
  <2>1. slice \in [Slots -> [Parts -> Slice]]
    BY Zenon DEF IInv, TypeOK
  <2> QED BY Zenon, <1>1, <1>6, <1>7, <2>1
<1>10. q.l0["super"] = 0 /\ q.l1["super"] = 0 /\ q.data["super"] \in {0, p0.data["super"]}
  <2>1. x["super"] = 0
    BY Zenon, <1>1, <1>3, <1>4, Names DEF Tree
  <2> QED BY Zenon, <1>1, <1>6, <2>1
<1>11. ASSUME job.cmd = "repair", Sound(t, o)
       PROVE  q = p0
  <2>1. x = p0.l0
    BY Zenon, <1>1, <1>4, <1>11, Names DEF Tree
  <2> QED BY <1>1, <2>1 DEF Slice
<1>12. SpineOk'
  <2>1. x[job.block] = job.content
    BY Zenon, <1>3, <1>4 DEF Tree
  <2>2. p0.data[job.block] = job.content
    BY Zenon, <1>1 DEF SpineOk, Spine
  <2> HIDE DEF t, o, p0, x, q
  <2>3. q.data[job.block] = job.content /\ q.l0[job.block] = job.content
    BY Zenon, <1>6, <2>1, <2>2
  <2>4. slice'[job'.slot][job'.part] = q /\ job'.h = q.l0
    BY Zenon, <1>6, <1>8, <1>9
  <2> QED BY Zenon, <1>8, <2>3, <2>4 DEF SpineOk, Spine
<1> HIDE DEF t, o, p0, x, q
<1>13. job'.pc \in Spine
  BY Zenon, <1>8 DEF Spine
<1> QED BY Zenon, <1>1, <1>6, <1>7, <1>8, <1>10, <1>11, <1>12, <1>13, SpineBlock DEF p0, t, o

(* The level-1 hash block. *)
LEMMA WriteL1 ==
  ASSUME IInv, WriteSpine, job.pc = "l1"
  PROVE  IInv'
<1> DEFINE t == job.slot
           o == job.part
           p0 == slice[t][o]
           x == [b \in Blocks |-> IF b \in Group(job.block) THEN job.h[b] ELSE p0.l1[b]]
           q == [p0 EXCEPT !["l1"] = x]
<1>1. /\ layout' = layout /\ vbm' = vbm /\ disk' = disk /\ hdr' = hdr /\ dev' = dev /\ up' = up
      /\ act' = act /\ host' = host /\ job # None /\ job.pc \in Spine
      /\ job \in Updates /\ SpineOk
      /\ job.cmd = "repair" => job.block = "super" /\ job.content = 0
      /\ job.cmd = "apply" => job.block = "prop"
      /\ t \in Slots /\ o \in Parts /\ p0 \in Slice
      /\ p0.l0["super"] = 0 /\ p0.l1["super"] = 0
  BY Zenon, SpineFrame
<1>2. /\ slice' = [slice EXCEPT ![t][o]["l1"] = x]
      /\ job' = [job EXCEPT !.pc = "l2", !.h = x]
  BY Zenon DEF WriteSpine, Write
<1>3. /\ job.cmd \in {"apply", "repair"} /\ job.block \in Blocks /\ job.content \in Contents
      /\ job.h \in Tree
  BY Zenon, <1>1, UpdateFields
<1>4. p0.data \in Tree /\ p0.l0 \in Tree /\ p0.l1 \in Tree /\ p0.l2 \in Tree
  BY Zenon, <1>1, SliceTypes
<1>5. x \in Tree
  BY Zenon, <1>3, <1>4 DEF Tree
<1>6. /\ q \in Slice /\ q.l1 = x
      /\ q.data = p0.data /\ q.l0 = p0.l0 /\ q.l2 = p0.l2 /\ q.sb = p0.sb
  BY Zenon, <1>1, <1>5, SliceFields
<1>7. slice' = [slice EXCEPT ![t][o] = q]
  BY <1>2
<1>8. /\ job' \in Updates /\ job'.pc = "l2" /\ job'.h = x /\ job'.cmd = job.cmd /\ job'.slot = t
      /\ job'.part = o /\ job'.block = job.block /\ job'.content = job.content
      /\ job'.root = job.root
  <2>1. "l2" \in Spine
    BY Zenon DEF Spine
  <2> HIDE DEF t, o, p0, x, q
  <2> QED BY <1>1, <1>2, <1>5, <2>1 DEF Updates, t, o
<1>9. slice'[t][o] = q
  <2>1. slice \in [Slots -> [Parts -> Slice]]
    BY Zenon DEF IInv, TypeOK
  <2> QED BY Zenon, <1>1, <1>6, <1>7, <2>1
<1>h. job.h = p0.l0
  BY Zenon, <1>1 DEF SpineOk
<1>10. q.l0["super"] = 0 /\ q.l1["super"] = 0 /\ q.data["super"] \in {0, p0.data["super"]}
  <2>1. x["super"] = 0
    BY Zenon, <1>1, <1>h, Names
  <2> QED BY Zenon, <1>1, <1>6, <2>1
<1>11. ASSUME job.cmd = "repair", Sound(t, o)
       PROVE  q = p0
  <2>1. \A c \in Group("super") : p0.l1[c] = p0.l0[c]
    BY Zenon, <1>11 DEF Sound, Accepts, BlockVerifies, Checked, Blocks
  <2>2. \A b \in Blocks : x[b] = p0.l1[b]
    BY Zenon, <1>1, <1>11, <1>h, <2>1
  <2>3. x = p0.l1
    BY Zenon, <1>4, <1>5, <2>2 DEF Tree
  <2> QED BY <1>1, <2>3 DEF Slice
<1>12. SpineOk'
  <2>1. p0.data[job.block] = job.content /\ p0.l0[job.block] = job.content
    BY Zenon, <1>1 DEF SpineOk, Spine
  <2>2. \A c \in Group(job.block) : c \in Blocks
    BY Zenon, <1>3 DEF Group
  <2>3. \A c \in Group(job.block) : x[c] = p0.l0[c]
    BY Zenon, <1>h, <2>2
  <2> HIDE DEF t, o, p0, x, q
  <2> QED BY ZenonT(40), <1>1, <1>6, <1>8, <1>9, <2>1, <2>3 DEF SpineOk, Spine, Group
<1> HIDE DEF t, o, p0, x, q
<1>13. job'.pc \in Spine
  BY Zenon, <1>8 DEF Spine
<1> QED BY Zenon, <1>1, <1>6, <1>7, <1>8, <1>10, <1>11, <1>12, <1>13, SpineBlock DEF p0, t, o

(* The level-2 hash block. *)
LEMMA WriteL2 ==
  ASSUME IInv, WriteSpine, job.pc = "l2"
  PROVE  IInv'
<1> DEFINE t == job.slot
           o == job.part
           p0 == slice[t][o]
           x == job.h
           q == [p0 EXCEPT !["l2"] = x]
<1>1. /\ layout' = layout /\ vbm' = vbm /\ disk' = disk /\ hdr' = hdr /\ dev' = dev /\ up' = up
      /\ act' = act /\ host' = host /\ job # None /\ job.pc \in Spine
      /\ job \in Updates /\ SpineOk
      /\ job.cmd = "repair" => job.block = "super" /\ job.content = 0
      /\ job.cmd = "apply" => job.block = "prop"
      /\ t \in Slots /\ o \in Parts /\ p0 \in Slice
      /\ p0.l0["super"] = 0 /\ p0.l1["super"] = 0
  BY Zenon, SpineFrame
<1>2. /\ slice' = [slice EXCEPT ![t][o]["l2"] = x]
      /\ job' = [job EXCEPT !.pc = "sb", !.h = x]
  BY Zenon DEF WriteSpine, Write
<1>3. /\ job.cmd \in {"apply", "repair"} /\ job.block \in Blocks /\ job.content \in Contents
      /\ job.h \in Tree
  BY Zenon, <1>1, UpdateFields
<1>4. p0.data \in Tree /\ p0.l0 \in Tree /\ p0.l1 \in Tree /\ p0.l2 \in Tree
  BY Zenon, <1>1, SliceTypes
<1>5. x \in Tree
  BY Zenon, <1>3
<1>6. /\ q \in Slice /\ q.l2 = x
      /\ q.data = p0.data /\ q.l0 = p0.l0 /\ q.l1 = p0.l1 /\ q.sb = p0.sb
  BY Zenon, <1>1, <1>5, SliceFields
<1>7. slice' = [slice EXCEPT ![t][o] = q]
  BY <1>2
<1>8. /\ job' \in Updates /\ job'.pc = "sb" /\ job'.h = x /\ job'.cmd = job.cmd /\ job'.slot = t
      /\ job'.part = o /\ job'.block = job.block /\ job'.content = job.content
      /\ job'.root = job.root
  <2>1. "sb" \in Spine
    BY Zenon DEF Spine
  <2> HIDE DEF t, o, p0, x, q
  <2> QED BY <1>1, <1>2, <1>5, <2>1 DEF Updates, t, o
<1>9. slice'[t][o] = q
  <2>1. slice \in [Slots -> [Parts -> Slice]]
    BY Zenon DEF IInv, TypeOK
  <2> QED BY Zenon, <1>1, <1>6, <1>7, <2>1
<1>h. job.h = p0.l1
  BY Zenon, <1>1 DEF SpineOk
<1>10. q.l0["super"] = 0 /\ q.l1["super"] = 0 /\ q.data["super"] \in {0, p0.data["super"]}
  BY Zenon, <1>1, <1>6
<1>11. ASSUME job.cmd = "repair", Sound(t, o)
       PROVE  q = p0
  <2>1. p0.l2 = p0.l1
    BY Zenon, <1>11 DEF Sound, Accepts, BlockVerifies, Checked, Blocks
  <2> QED BY <1>1, <1>h, <2>1 DEF Slice
<1>12. SpineOk'
  <2>1. /\ p0.data[job.block] = job.content /\ p0.l0[job.block] = job.content
        /\ \A c \in Group(job.block) : p0.l1[c] = p0.l0[c]
    BY Zenon, <1>1 DEF SpineOk, Spine
  <2> HIDE DEF t, o, p0, x, q
  <2>2. slice'[job'.slot][job'.part] = q /\ job'.h = q.l2 /\ q.l2 = q.l1
    BY Zenon, <1>6, <1>8, <1>9, <1>h DEF x
  <2>3. /\ q.data[job.block] = job.content /\ q.l0[job.block] = job.content
        /\ \A c \in Group(job.block) : q.l1[c] = q.l0[c]
    BY Zenon, <1>6, <2>1
  <2>4. Group(job.block)' = Group(job.block)
    BY <1>1, <1>8 DEF Group
  <2> QED BY Zenon, <1>8, <2>2, <2>3, <2>4 DEF SpineOk, Spine
<1> HIDE DEF t, o, p0, x, q
<1>13. job'.pc \in Spine
  BY Zenon, <1>8 DEF Spine
<1> QED BY Zenon, <1>1, <1>6, <1>7, <1>8, <1>10, <1>11, <1>12, <1>13, SpineBlock DEF p0, t, o

(* A slice whose spine has been rewritten from build.prop up verifies against its root. *)
LEMMA SpineRebuilt ==
  ASSUME NEW q, q.data["super"] = 0, q.l0["super"] = 0, q.l1["super"] = 0,
         q.data["prop"] = q.l0["prop"], \A c \in Group("prop") : q.l1[c] = q.l0[c],
         q.l2 = q.l1, q.sb = q.l2
  PROVE  Accepts(q, q.sb)
<1>1. \A b \in Blocks : q.data[b] = q.l0[b]
  BY Zenon DEF Blocks
<1>2. \A b \in Blocks : \A c \in Group(b) : q.l1[c] = q.l0[c]
  BY Zenon DEF Group, Blocks
<1>3. \A b \in Checked : b \in Blocks
  BY Zenon DEF Checked, Blocks
<1> QED BY Zenon, <1>1, <1>2, <1>3 DEF Accepts, BlockVerifies

(* The verity superblock, the last write to a slice. *)
LEMMA WriteSb ==
  ASSUME IInv, WriteSpine, job.pc = "sb"
  PROVE  IInv'
<1>0. PICK t \in Slots, o \in Parts : job.slot = t /\ job.part = o
  BY Zenon, SpineFrame
<1> DEFINE p0 == slice[t][o]
           x == job.h
           q == [p0 EXCEPT !.sb = x]
<1>1. /\ layout' = layout /\ vbm' = vbm /\ disk' = disk /\ hdr' = hdr /\ dev' = dev /\ up' = up
      /\ act' = act /\ host' = host /\ job # None
      /\ job \in Updates /\ SpineOk
      /\ job.cmd = "repair" => job.block = "super" /\ job.content = 0
      /\ job.cmd = "apply" => job.block = "prop"
      /\ t \in Slots /\ o \in Parts /\ p0 \in Slice
      /\ p0.l0["super"] = 0 /\ p0.l1["super"] = 0
  BY Zenon, <1>0, SpineFrame
<1>2. /\ slice' = [slice EXCEPT ![t][o].sb = x]
      /\ job' = [job EXCEPT !.root[o] = x, !.part = "vendor",
                            !.pc = IF job.cmd = "apply" /\ o = "system" THEN "data" ELSE "vbmeta"]
  BY Zenon, <1>0 DEF WriteSpine
<1>3. job.cmd \in {"apply", "repair"} /\ x \in Tree /\ job.root \in [Parts -> Tree]
  BY Zenon, <1>1, UpdateFields
<1>4. /\ q \in Slice /\ q.sb = x /\ q.data = p0.data /\ q.l0 = p0.l0 /\ q.l1 = p0.l1
      /\ q.l2 = p0.l2
  BY ZenonT(40), <1>1, <1>3, SliceFields
<1>5. slice' = [slice EXCEPT ![t][o] = q]
  BY <1>2
<1>6. /\ p0.data[job.block] = job.content /\ p0.l0[job.block] = job.content
      /\ \A c \in Group(job.block) : p0.l1[c] = p0.l0[c]
      /\ p0.l2 = p0.l1 /\ x = p0.l2
  BY Zenon, <1>1, <1>0 DEF SpineOk, Spine
<1>7. /\ TypeOK /\ SuperInv /\ DevInv
      /\ disk = hdr /\ hdr.pending = hdr.ack /\ host.pc = "idle" /\ act = None /\ up = "on"
      /\ job.cmd = "apply" => ApplyOk(t)
      /\ job.cmd = "repair" => RepairOk
      /\ \E s \in Slots : RunsFrom(s)
  BY Zenon, <1>1, <1>0, Updating DEF IInv
<1> HIDE DEF p0, x, q
<1>8. /\ job' \in Updates /\ job'.cmd = job.cmd /\ job'.slot = t /\ job'.part = "vendor"
      /\ job'.block = job.block /\ job'.content = job.content
      /\ job'.root = [job.root EXCEPT ![o] = x]
      /\ job'.pc = IF job.cmd = "apply" /\ o = "system" THEN "data" ELSE "vbmeta"
  <2>1. [job.root EXCEPT ![o] = x] \in [Parts -> Tree]
    BY Zenon, <1>1, <1>3
  <2>2. job' = [job EXCEPT !.root = [job.root EXCEPT ![o] = x], !.part = "vendor",
                           !.pc = IF job.cmd = "apply" /\ o = "system" THEN "data" ELSE "vbmeta"]
    BY <1>1, <1>2, <1>0 DEF Updates
  <2> DEFINE w == [job.root EXCEPT ![o] = x]
             n == IF job.cmd = "apply" /\ o = "system" THEN "data" ELSE "vbmeta"
  <2>3. n \in Spine \cup {"vbmeta", "rpmb", "switch"} /\ "vendor" \in Parts
    BY Zenon DEF Spine, Parts
  <2> HIDE DEF w, n
  <2>4. job' = [job EXCEPT !.root = w, !.part = "vendor", !.pc = n] /\ w \in [Parts -> Tree]
    BY Zenon, <2>1, <2>2 DEF w, n
  <2>5. /\ job' \in Updates /\ job'.cmd = job.cmd /\ job'.slot = job.slot /\ job'.part = "vendor"
        /\ job'.block = job.block /\ job'.content = job.content /\ job'.root = w /\ job'.pc = n
    BY <1>1, <2>3, <2>4 DEF Updates
  <2> QED BY Zenon, <1>0, <2>5 DEF w, n
<1>9. /\ job'.root[o] = x /\ \A p \in Parts : p # o => job'.root[p] = job.root[p]
      /\ job'.pc \in {"data", "vbmeta"}
  BY Zenon, <1>1, <1>3, <1>8
<1>10. /\ slice'[t][o] = q
       /\ \A r \in Slots, p \in Parts : r # t \/ p # o => slice'[r][p] = slice[r][p]
  BY Zenon, <1>1, <1>4, <1>5, <1>7 DEF TypeOK
<1>11. /\ \A r, p : Root(r, p)' = Root(r, p)
       /\ \A r : Live(r)' <=> Live(r)
  BY Zenon, <1>1 DEF Root, Live
<1>12. job.cmd = "apply" => x["prop"] = job.content /\ Root(t, "system")["prop"] # job.content
  <2> HAVE job.cmd = "apply"
  <2>1. "prop" \in Group(job.block) /\ job.block = "prop"
    BY Zenon, <1>1, Names DEF Group
  <2>2. ApplyOk(t)
    BY Zenon, <1>7
  <2> QED BY Zenon, <1>6, <2>1, <2>2 DEF ApplyOk, Spine
<1>13. job.cmd = "apply" => ApplyOk(t)'
  <2> HAVE job.cmd = "apply"
  <2>1. ApplyOk(t)
    BY Zenon, <1>7
  <2>2. job.block = "prop" /\ ~Live(t)' /\ Root(t, "system")'["prop"] # job.content
    BY Zenon, <1>11, <1>12, <2>1 DEF ApplyOk
  <2>3. ASSUME t = "a"
        PROVE  Rebuilt(o)'
    <3>1. p0.data["super"] = 0
      BY Zenon, <1>1, <1>7, <2>3 DEF SuperInv, p0
    <3>2. Accepts(q, q.sb)
      <4>1. /\ q.data["super"] = 0 /\ q.l0["super"] = 0 /\ q.l1["super"] = 0
            /\ q.data["prop"] = q.l0["prop"] /\ \A c \in Group("prop") : q.l1[c] = q.l0[c]
            /\ q.l2 = q.l1 /\ q.sb = q.l2
        BY Zenon, <1>1, <1>4, <1>6, <2>2, <3>1
      <4> QED BY Zenon, <4>1, SpineRebuilt
    <3>3. slice'["a"][o] = q /\ job'.root[o] = q.sb
      BY Zenon, <1>4, <1>9, <1>10, <2>3
    <3> QED BY <1>1, <3>2, <3>3 DEF Rebuilt, Accepts, BlockVerifies, Checked, Group
  <2>4. ASSUME t = "a"
        PROVE  Rebuilt("system")' /\ job'.root["system"]["prop"] = job.content
    <3>1. CASE o = "system"
      BY Zenon, <1>9, <1>12, <2>3, <2>4, <3>1
    <3>2. CASE o = "vendor"
      <4>1. Rebuilt("system") /\ job.root["system"]["prop"] = job.content
        BY Zenon, <1>0, <2>1, <2>4, <3>2 DEF ApplyOk, Spine
      <4>2. slice'["a"]["system"] = slice["a"]["system"] /\ job'.root["system"] = job.root["system"]
        BY Zenon, <1>9, <1>10, <2>4, <3>2, Names
      <4>3. Rebuilt("system")'
        BY <1>1, <4>1, <4>2 DEF Rebuilt, Accepts, BlockVerifies, Checked, Group
      <4> QED BY Zenon, <4>1, <4>2, <4>3
    <3> QED BY Zenon, <1>1, <3>1, <3>2 DEF Parts
  <2>5. job'.pc = "vbmeta" => o = "vendor"
    BY Zenon, <1>1, <1>8 DEF Parts
  <2> QED BY Zenon, <1>8, <2>2, <2>3, <2>4, <2>5 DEF ApplyOk
<1>14. job.cmd = "repair" => RepairOk'
  <2> HAVE job.cmd = "repair"
  <2>1. t = "b" /\ o = "system" /\ job.block = "super" /\ job.content = 0
    BY Zenon, <1>0, <1>7 DEF RepairOk, Spine
  <2>2. slice'["b"]["system"].sb = job'.root["system"]
    BY Zenon, <1>4, <1>9, <1>10, <2>1
  <2>3. job'.pc = "vbmeta"
    BY Zenon, <1>8
  <2> QED BY Zenon, <1>8, <2>1, <2>2, <2>3 DEF RepairOk, Spine
<1>15. JobInv'
  <2>1. SpineOk'
    BY Zenon, <1>9 DEF SpineOk, Spine
  <2>2. job' # None
    BY Zenon, <1>8, UpdateFields
  <2> QED BY Zenon, <1>1, <1>7, <1>8, <1>13, <1>14, <2>1, <2>2 DEF JobInv
<1>16. PICK s \in Slots : RunsFrom(s)
  BY Zenon, <1>7
<1>17. CASE t # s
  <2>1. q.data["super"] = 0 \/ (t = "b" /\ o = "system" /\ q.data["super"] = 1)
    BY ZenonT(40), <1>1, <1>4, <1>7 DEF SuperInv, Slots, Parts, p0
  <2>2. t = "a" => \/ o = "system" /\ q.sb # Root("a", "system")
                   \/ o = "system" /\ q.sb = slice["a"]["system"].sb
                   \/ o = "vendor" /\ slice["a"]["system"].sb # Root("a", "system")
    <3> HAVE t = "a"
    <3>1. job.cmd = "apply"
      BY Zenon, <1>0, <1>3, <1>7 DEF RepairOk
    <3>2. CASE o = "system"
      BY Zenon, <1>4, <1>12, <3>1, <3>2
    <3>3. CASE o = "vendor"
      <4>1. Rebuilt("system") /\ job.root["system"]["prop"] = job.content
        BY Zenon, <1>0, <1>7, <3>1, <3>3 DEF ApplyOk, Spine
      <4> QED BY Zenon, <1>12, <3>1, <3>3, <4>1 DEF Rebuilt, Accepts
    <3> QED BY Zenon, <1>1, <3>2, <3>3 DEF Parts
  <2> QED BY Zenon, <1>1, <1>4, <1>5, <1>7, <1>15, <1>16, <1>17, <2>1, <2>2, StagedWrite
<1>18. CASE t = s
  <2>1. Live(t) /\ Sound(t, o)
    BY Zenon, <1>1, <1>7, <1>16, <1>18, RunningSlot DEF DevInv
  <2>2. job.cmd = "repair"
    BY Zenon, <1>3, <1>7, <2>1 DEF ApplyOk
  <2>3. p0.sb = x
    BY Zenon, <1>6, <2>1 DEF Sound, Accepts, BlockVerifies, Checked, Blocks, p0
  <2>4. q = p0
    BY <1>1, <2>3 DEF Slice, q
  <2>5. slice' = slice
    BY Zenon, <1>1, <1>5, <1>7, <2>4 DEF TypeOK, p0
  <2> QED BY Zenon, <1>1, <1>7, <1>15, <2>5, JobStarts DEF Idle
<1> QED BY Zenon, <1>17, <1>18

(* update_verity_block_and_spine, whichever of its five writes is due. *)
LEMMA WriteSpineStep ==
  ASSUME IInv, WriteSpine
  PROVE  IInv'
<1>1. job.pc \in Spine
  BY Zenon, SpineFrame
<1> QED BY Zenon, <1>1, WriteData, WriteL0, WriteL1, WriteL2, WriteSb DEF Spine

-------------------------------------------------------------------------------
(* write_vbmeta. *)

(* A new vbmeta for the slot that is not live. *)
LEMMA StagedVbmeta ==
  ASSUME IInv, NEW s \in Slots, RunsFrom(s), NEW t \in Slots, t # s,
         NEW v \in Vbmeta, vbm' = [vbm EXCEPT ![t] = v],
         t = "a" => v.bootable /\ Accepts(slice["a"]["vendor"], v.root["vendor"]),
         layout' = layout, slice' = slice, disk' = disk, hdr' = hdr, dev' = dev, up' = up,
         act' = act, host' = host, act = None, up = "on", host.pc = "idle", disk = hdr, JobInv'
  PROVE  IInv'
<1>1. /\ TypeOK /\ SuperInv /\ SlotInv /\ BootInv /\ HeaderInv /\ DevInv /\ LiveInv /\ HostInv
  BY Zenon DEF IInv
<1>2. v # None
  BY DEF Vbmeta, None
<1>3. /\ vbm' \in [Slots -> Vbmeta \cup {None}] /\ vbm'[t] = v
      /\ \A r \in Slots : r # t => vbm'[r] = vbm[r]
  BY Zenon, <1>1 DEF TypeOK
<1>4. \A r \in Slots : r # t =>
        /\ Bootable(r)' <=> Bootable(r)
        /\ \A p : Root(r, p)' = Root(r, p)
  BY Zenon, <1>3 DEF Root, Bootable
<1>5. \A r \in Slots : r # t => \A p \in Parts : Sound(r, p)' <=> Sound(r, p)
  BY Zenon, <1>4, SoundSame
<1>6. Good(s) /\ \A p \in Parts : dev[p] # None /\ dev[p].slot = s
  BY Zenon, RunningSlot
<1>7. Bootable(s)' /\ Good(s)' /\ \A p \in Parts : Sound(s, p)' /\ Root(s, p)' = Root(s, p)
  BY Zenon, <1>4, <1>5, <1>6 DEF Good
<1>8. vbm'["a"] # None /\ vbm'["b"] # None
  <2>1. vbm["a"] # None /\ vbm["b"] # None
    BY Zenon, <1>1 DEF LiveInv, SlotInv
  <2> QED BY Zenon, <1>2, <1>3, <2>1, Names
<1>9. TypeOK' /\ up' # "dead" /\ SuperInv'
  <2>1. TypeOK' /\ up' # "dead"
    BY Zenon, <1>1, <1>3 DEF TypeOK
  <2> QED BY Zenon, <1>1, <1>3, <2>1 DEF SuperInv
<1>10. SlotInv'
  <2>1. CASE t = "a"
    <3>1. Bootable("a")'
      BY Zenon, <1>3, <2>1 DEF Bootable
    <3>2. Root("a", "vendor")' = v.root["vendor"]
      BY Zenon, <1>2, <1>3, <2>1 DEF Root
    <3>3. Sound("a", "vendor")'
      BY <2>1, <3>2 DEF Sound, Accepts, BlockVerifies, Checked, Group
    <3> QED BY Zenon, <1>8, <3>1, <3>3 DEF SlotInv, Slots
  <2>2. CASE t = "b"
    <3>1. /\ Bootable("a")' /\ Root("a", "system")' = Root("a", "system")
          /\ Sound("a", "vendor")' <=> Sound("a", "vendor")
      BY Zenon, <1>1, <1>4, <1>5, <2>2, Names DEF SlotInv
    <3>2. slice'["a"]["system"].sb # Root("a", "system")' \/ Sound("a", "vendor")'
      BY Zenon, <1>1, <3>1 DEF SlotInv
    <3> QED BY Zenon, <1>8, <3>1, <3>2 DEF SlotInv, Slots
  <2> QED BY Zenon, <2>1, <2>2 DEF Slots
<1>11. BootInv' /\ HeaderInv'
  BY Zenon, <1>1, <1>7 DEF BootInv, HeaderInv, RunsFrom, Slots
<1>12. DevInv'
  BY Zenon, <1>1, <1>6, <1>7 DEF DevInv
<1>13. LiveInv'
  <2>1. RunsFrom(s)'
    BY Zenon, <1>7 DEF RunsFrom, Live
  <2> QED BY Zenon, <1>8, <2>1 DEF LiveInv
<1>14. ActInv' /\ HostInv'
  BY Zenon, <1>1 DEF ActInv, HostInv
<1> QED BY Zenon, <1>9, <1>10, <1>11, <1>12, <1>13, <1>14 DEF IInv

(* write_vbmeta at the end of an apply: the new roots are those of the rebuilt slices. *)
LEMMA ApplyVbmeta ==
  ASSUME IInv, WriteVbmeta, job.cmd = "apply"
  PROVE  IInv'
<1>1. /\ layout' = layout /\ slice' = slice /\ disk' = disk /\ hdr' = hdr /\ dev' = dev /\ up' = up
      /\ act' = act /\ host' = host /\ job # None /\ job.pc = "vbmeta"
      /\ vbm' = [vbm EXCEPT ![job.slot] = [bootable |-> TRUE, root |-> job.root]]
      /\ job' = [job EXCEPT !.pc = "rpmb"]
  BY Zenon DEF WriteVbmeta
<1>2. /\ disk = hdr /\ hdr.pending = hdr.ack /\ host.pc = "idle" /\ act = None /\ up = "on"
      /\ job \in Updates
      /\ \A r \in Slots : job.slot = r => ApplyOk(r)
      /\ \E s \in Slots : RunsFrom(s)
  BY Zenon, <1>1, Updating
<1>3. PICK t \in Slots : job.slot = t
  BY Zenon, <1>2, UpdateFields
<1>4. PICK s \in Slots : RunsFrom(s)
  BY Zenon, <1>2
<1>5. ApplyOk(t) /\ t # s
  BY Zenon, <1>2, <1>3, <1>4, RunningSlot DEF ApplyOk
<1> DEFINE v == [bootable |-> TRUE, root |-> job.root]
<1>6. v \in Vbmeta /\ v.bootable /\ v.root = job.root
  BY <1>2, UpdateFields DEF Vbmeta
<1>7. t = "a" => Accepts(slice["a"]["vendor"], v.root["vendor"])
  <2> HAVE t = "a"
  <2>1. Rebuilt("vendor")
    BY Zenon, <1>1, <1>5 DEF ApplyOk
  <2> HIDE DEF v
  <2> QED BY Zenon, <1>6, <2>1 DEF Rebuilt
<1>8. /\ job' \in Updates /\ job' # None /\ job'.pc = "rpmb" /\ job'.cmd = "apply" /\ job'.slot = t
      /\ job'.block = job.block
  BY <1>1, <1>2, <1>3 DEF Updates, None
<1>9. JobInv'
  <2>1. SpineOk'
    BY Zenon, <1>8 DEF SpineOk, Spine
  <2>2. job.block = "prop" /\ ~Live(t)'
    BY Zenon, <1>1, <1>5 DEF ApplyOk, Live
  <2>3. ApplyOk(t)'
    BY Zenon, <1>8, <2>2 DEF ApplyOk, Spine
  <2> QED BY Zenon, <1>1, <1>2, <1>8, <2>1, <2>3 DEF JobInv
<1>10. vbm' = [vbm EXCEPT ![t] = v]
  BY Zenon, <1>1, <1>3
<1> HIDE DEF v
<1> QED BY Zenon, <1>1, <1>2, <1>4, <1>5, <1>6, <1>7, <1>9, <1>10, StagedVbmeta

(* write_vbmeta with the flags and the system root of a descriptor changed. *)
LEMMA VbmetaUpdated ==
  ASSUME NEW e \in Vbmeta, NEW x \in Tree
  PROVE  [e EXCEPT !.bootable = TRUE, !.root["system"] = x]
           = [bootable |-> TRUE, root |-> [e.root EXCEPT !["system"] = x]]
<1>1. \A u, w \in Vbmeta : u.bootable = w.bootable /\ u.root = w.root => u = w
  BY DEF Vbmeta
<1> DEFINE y == [e.root EXCEPT !["system"] = x]
           d == [e EXCEPT !.bootable = TRUE]
           v == [bootable |-> TRUE, root |-> y]
<1>2. e.root \in [Parts -> Tree]
  BY DEF Vbmeta
<1>3. y \in [Parts -> Tree]
  BY Zenon, <1>2
<1>4. d \in Vbmeta /\ d.bootable = TRUE /\ d.root = e.root
  BY DEF Vbmeta
<1>5. [e EXCEPT !.bootable = TRUE, !.root["system"] = x] = [d EXCEPT !.root = [d.root EXCEPT !["system"] = x]]
  OBVIOUS
<1> HIDE DEF y, d
<1>6. v \in Vbmeta /\ v.bootable = TRUE /\ v.root = y
  BY <1>3 DEF Vbmeta
<1>7. LET z == [d EXCEPT !.root = y] IN z \in Vbmeta /\ z.bootable = TRUE /\ z.root = y
  BY <1>3, <1>4 DEF Vbmeta
<1>8. [d EXCEPT !.root = y] = v
  BY Zenon, <1>1, <1>6, <1>7
<1> QED BY Zenon, <1>4, <1>5, <1>8 DEF y

(* write_vbmeta at the end of repair-b: slot B's system root is that of its superblock. *)
LEMMA RepairVbmeta ==
  ASSUME IInv, WriteVbmeta, job.cmd = "repair"
  PROVE  IInv'
<1>1. /\ layout' = layout /\ slice' = slice /\ disk' = disk /\ hdr' = hdr /\ dev' = dev /\ up' = up
      /\ act' = act /\ host' = host /\ job # None /\ job.pc = "vbmeta"
      /\ vbm' = [vbm EXCEPT !["b"].bootable = TRUE,
                            !["b"].root["system"] = job.root["system"]]
      /\ job' = None
  BY Zenon DEF WriteVbmeta
<1>2. /\ disk = hdr /\ hdr.pending = hdr.ack /\ host.pc = "idle" /\ act = None /\ up = "on"
      /\ job \in Updates /\ RepairOk /\ \E s \in Slots : RunsFrom(s)
  BY Zenon, <1>1, Updating
<1>3. PICK s \in Slots : RunsFrom(s)
  BY Zenon, <1>2
<1>4. vbm \in [Slots -> Vbmeta \cup {None}] /\ vbm["a"] # None /\ vbm["b"] # None /\ vbm["b"] \in Vbmeta /\ DevInv
  BY Zenon, <1>2, Names DEF IInv, TypeOK, LiveInv
<1> DEFINE w == [vbm["b"].root EXCEPT !["system"] = job.root["system"]]
           v == [bootable |-> TRUE, root |-> w]
<1>5. vbm["b"].root \in [Parts -> Tree] /\ vbm["b"].bootable \in BOOLEAN
  BY <1>4 DEF Vbmeta
<1>6. w \in [Parts -> Tree]
  <2>1. job.root["system"] \in Tree
    BY Zenon, <1>2, UpdateFields, Names
  <2> QED BY Zenon, <1>5, <2>1
<1>7. vbm' = [vbm EXCEPT !["b"] = v]
  <2>1. vbm' = [vbm EXCEPT !["b"] = [vbm["b"] EXCEPT !.bootable = TRUE, !.root["system"] = job.root["system"]]]
    BY <1>1
  <2>2. job.root["system"] \in Tree
    BY Zenon, <1>2, UpdateFields, Names
  <2> QED BY Zenon, <1>4, <2>1, <2>2, VbmetaUpdated
<1>8. JobInv'
  BY Zenon, <1>1 DEF JobInv
<1>9. CASE s = "a"
  <2>1. v \in Vbmeta
    BY <1>6 DEF Vbmeta
  <2> HIDE DEF v
  <2> QED BY Zenon, <1>1, <1>2, <1>3, <1>7, <1>8, <1>9, <2>1, Names, StagedVbmeta
<1>10. CASE s = "b"
  <2>1. Bootable("b") /\ Sound("b", "system")
    BY Zenon, <1>3, <1>4, <1>10, RunningSlot, Names DEF DevInv, RunsFrom
  <2>2. job.root["system"] = vbm["b"].root["system"]
    BY Zenon, <1>1, <1>2, <1>4, <2>1 DEF RepairOk, Sound, Accepts, Root
  <2>3. w = vbm["b"].root
    BY Zenon, <1>5, <2>2
  <2>4. vbm["b"].bootable = TRUE
    BY Zenon, <1>4, <1>5, <2>1 DEF Bootable
  <2>5. v = vbm["b"]
    <3> HIDE DEF w
    <3> QED BY <1>4, <2>3, <2>4 DEF Vbmeta
  <2>6. vbm' = vbm
    <3> HIDE DEF v
    <3> QED BY Zenon, <1>4, <1>7, <2>5
  <2> QED BY Zenon, <1>1, <1>2, <1>8, <2>6, JobStarts DEF Idle
<1> QED BY Zenon, <1>9, <1>10 DEF Slots

(* write_vbmeta, for either command. *)
LEMMA WriteVbmetaStep ==
  ASSUME IInv, WriteVbmeta
  PROVE  IInv'
<1>1. job.cmd \in {"apply", "repair"}
  BY Zenon DEF WriteVbmeta
<1> QED BY Zenon, <1>1, ApplyVbmeta, RepairVbmeta

-------------------------------------------------------------------------------
(* The host's sideloader. *)

(* The fields of a sideload in progress. *)
LEMMA SideloadFields ==
  ASSUME NEW h \in Sideloads
  PROVE  /\ h.hdr \in Header /\ h.slot \in Slots /\ h.tree \in Tree /\ h.activate \in BOOLEAN
         /\ h.asked \in 0 .. MaxSideloads /\ h.pc # "idle"
BY DEF Sideloads

(* cmd_sideload begins, with the machine off or between two commands. *)
LEMMA HostStartStep ==
  ASSUME IInv, HostStart, ~Overlap
  PROVE  IInv'
<1>1. /\ layout' = layout /\ slice' = slice /\ vbm' = vbm /\ disk' = disk /\ hdr' = hdr
      /\ dev' = dev /\ up' = up /\ act' = act /\ job' = job
      /\ host.pc = "idle" /\ disk.pending < MaxSideloads
      /\ up = "off" \/ (Idle /\ job = None /\ disk.lun = ActiveSlot)
  BY Zenon DEF HostStart, persistent
<1>2. PICK v \in 1 .. MaxBuild, activate \in BOOLEAN :
        host' = [pc |-> "slices", asked |-> host.asked, hdr |-> disk,
                 slot |-> Other(disk.lun), tree |-> [Fresh EXCEPT !["prop"] = v],
                 activate |-> activate]
  BY Zenon DEF HostStart
<1>3. /\ TypeOK /\ SlotInv /\ BootInv /\ HeaderInv /\ LiveInv /\ ActInv /\ JobInv /\ HostInv
  BY Zenon DEF IInv
<1>4. /\ disk \in Header /\ disk.lun \in Slots /\ host.asked \in 0 .. MaxSideloads
      /\ host.asked = disk.pending
  <2>1. disk \in Header /\ host \in Sideloads \cup NoSideload /\ host.asked = disk.pending
    BY Zenon, <1>3 DEF TypeOK, HostInv
  <2> QED BY <2>1 DEF Header, Sideloads, NoSideload
<1>5. LET x == [Fresh EXCEPT !["prop"] = v] IN x \in Tree /\ x["super"] = 0
  <2>1. v \in Contents
    BY OtaAssumption DEF Contents
  <2> QED BY Zenon, <2>1, TreeFacts, Names DEF Fresh, Tree
<1> DEFINE x == [Fresh EXCEPT !["prop"] = v]
           c == Other(disk.lun)
<1>6. c \in Slots
  BY Zenon, Names DEF Other
<1> HIDE DEF x, c
<1>7. /\ host' \in Sideloads /\ host'.pc = "slices" /\ host'.asked = host.asked /\ host'.hdr = disk
      /\ host'.slot = Other(disk.lun) /\ host'.tree["super"] = 0
  <2>1. host' = [pc |-> "slices", asked |-> host.asked, hdr |-> disk, slot |-> c, tree |-> x,
                 activate |-> activate]
    BY Zenon, <1>2 DEF c, x
  <2>2. x \in Tree /\ x["super"] = 0
    BY Zenon, <1>5 DEF x
  <2>3. /\ host'.pc = "slices" /\ host'.asked = host.asked /\ host'.hdr = disk
        /\ host'.slot = c /\ host'.tree = x
    BY <2>1
  <2>4. host' \in Sideloads
    BY Zenon, <1>4, <1>6, <2>1, <2>2 DEF Sideloads
  <2> QED BY Zenon, <2>2, <2>3, <2>4 DEF c
<1>8. up # "off" => up = "on" /\ act = None /\ job = None
  BY Zenon, <1>1 DEF Idle
<1>9. up = "off" => act = None /\ job = None
  BY Zenon, <1>3 DEF ActInv, JobInv
<1>10. up = "on" => /\ disk.lun = hdr.lun
                    /\ \A s \in Slots : disk.lun = s => Live(s) /\ Good(s)
  <2> HAVE up = "on"
  <2>1. PICK s \in Slots : RunsFrom(s)
    BY Zenon, <1>3, <1>8 DEF LiveInv, Settled
  <2>2. disk.lun = s /\ Live(s) /\ Good(s)
    BY Zenon, <1>1, <2>1, RunningSlot
  <2>3. disk = hdr \/ disk.lun = hdr.lun \/ disk.pslot \in Slots
    BY Zenon, <1>3 DEF HeaderInv
  <2>4. disk = hdr \/ disk.lun = hdr.lun \/ disk.pending = hdr.ack
    BY Zenon, <2>1, <2>2, <2>3 DEF RunsFrom
  <2>5. disk.pending = hdr.ack => disk = hdr
    <3>1. disk.pending \in Nat /\ hdr.ack \in Nat
      BY <1>3 DEF TypeOK, Header
    <3>2. ~(hdr.ack < disk.pending) => disk = hdr
      BY Zenon, <1>3 DEF HeaderInv
    <3> QED BY <3>1, <3>2
  <2> QED BY Zenon, <2>2, <2>4, <2>5
<1>11. disk.lun = "a" => Good("a")
  BY Zenon, <1>1, <1>3, <1>8, <1>10, Names DEF BootInv
<1>12. TypeOK' /\ up' # "dead" /\ SuperInv' /\ HeaderInv'
  BY Zenon, <1>1, <1>3 DEF TypeOK, IInv, SuperInv, HeaderInv
<1>13. SlotInv' /\ BootInv'
  BY Zenon, <1>1, <1>3, <1>7, Frozen DEF SlotInv, BootInv
<1>14. DevInv'
  BY Zenon, <1>1, DevicesKept DEF IInv
<1>15. LiveInv'
  BY Zenon, <1>1, <1>3, Frozen DEF LiveInv, Settled, RunsFrom, Live
<1>16. ActInv' /\ JobInv'
  BY Zenon, <1>1, <1>8, <1>9 DEF ActInv, JobInv
<1>17. HostInv'
  <2>1. disk.ack <= disk.pending
    BY Zenon, <1>3 DEF HeaderInv
  <2>2. up' = "on" => \A s \in Slots : disk'.lun = s => Live(s)'
    BY Zenon, <1>1, <1>10 DEF Live
  <2>3. disk'.lun = "a" => Good("a")'
    BY Zenon, <1>1, <1>11, Frozen
  <2>4. up \in {"off", "on"} /\ act = None /\ job = None
    BY Zenon, <1>8, <1>9
  <2> QED BY Zenon, <1>1, <1>4, <1>7, <1>10, <2>1, <2>2, <2>3, <2>4 DEF HostInv
<1> QED BY Zenon, <1>12, <1>13, <1>14, <1>15, <1>16, <1>17 DEF IInv

(* What the steps of a sideload find, and that no device maps the slot it writes. *)
LEMMA Sideloading ==
  ASSUME IInv, host.pc # "idle"
  PROVE  /\ host \in Sideloads /\ host.asked = disk.pending
         /\ act = None /\ job = None /\ up \in {"off", "on"}
         /\ up = "on" => disk.lun = hdr.lun /\ \A s \in Slots : disk.lun = s => Live(s)
         /\ host.slot = Other(disk.lun) /\ host.slot # disk.lun
         /\ host.hdr.lun = disk.lun /\ host.hdr.pending = disk.pending
         /\ host.hdr.ack <= host.hdr.pending /\ disk.pending < MaxSideloads
         /\ host.tree["super"] = 0
         /\ up = "on" => vbm["a"] # None /\ vbm["b"] # None
         /\ disk.lun = "a" => Good("a")
         /\ \A p \in Parts : dev[p] # None => dev[p].slot # host.slot
         /\ up = "on" => \A s \in Slots : RunsFrom(s) => s # host.slot
<1>1. TypeOK /\ LiveInv /\ DevInv /\ HostInv
  BY Zenon DEF IInv
<1>2. /\ host \in Sideloads /\ host.asked = disk.pending
      /\ act = None /\ job = None /\ up \in {"off", "on"}
      /\ up = "on" => disk.lun = hdr.lun /\ \A s \in Slots : disk.lun = s => Live(s)
      /\ host.slot = Other(disk.lun)
      /\ host.hdr.lun = disk.lun /\ host.hdr.pending = disk.pending
      /\ host.hdr.ack <= host.hdr.pending /\ disk.pending < MaxSideloads
      /\ host.tree["super"] = 0
      /\ up = "on" => vbm["a"] # None /\ vbm["b"] # None
      /\ disk.lun = "a" => Good("a")
  BY Zenon, <1>1 DEF HostInv, LiveInv
<1>3. disk.lun \in Slots
  BY <1>1 DEF TypeOK, Header
<1>4. host.slot # disk.lun
  BY Zenon, <1>2, <1>3 DEF Other, Slots
<1>5. \A p \in Parts : dev[p] # None => dev[p].slot # host.slot
  <2>1. CASE up = "off"
    BY Zenon, <1>1, <2>1, HeaderFacts DEF DevInv
  <2>2. CASE up = "on"
    BY Zenon, <1>2, <1>3, <1>4, <2>2 DEF Live
  <2> QED BY Zenon, <1>2, <2>1, <2>2
<1>6. up = "on" => \A s \in Slots : RunsFrom(s) => s # host.slot
  BY Zenon, <1>5, Names DEF RunsFrom, Live
<1> QED BY Zenon, <1>2, <1>4, <1>5, <1>6

(* A sideload in progress leaves the machine as it is, but for the slot it writes. *)
LEMMA SideloadGoesOn ==
  ASSUME IInv, host.pc # "idle", SlotInv', SuperInv', HostInv', host'.pc # "idle",
         layout' = layout, disk' = disk, hdr' = hdr, dev' = dev, up' = up, act' = act, job' = job,
         slice' \in [Slots -> [Parts -> Slice]], vbm' \in [Slots -> Vbmeta \cup {None}],
         \A r \in Slots : r # host.slot =>
           vbm'[r] = vbm[r] /\ \A p \in Parts : slice'[r][p] = slice[r][p],
         up = "on" => vbm'["a"] # None /\ vbm'["b"] # None
  PROVE  IInv'
<1>1. TypeOK /\ HeaderInv /\ DevInv /\ LiveInv /\ up # "dead"
  BY Zenon DEF IInv
<1>2. /\ act = None /\ job = None /\ up \in {"off", "on"}
      /\ \A p \in Parts : dev[p] # None => dev[p].slot # host.slot
      /\ up = "on" => \A s \in Slots : RunsFrom(s) => s # host.slot
  BY Zenon, Sideloading
<1>3. \A r \in Slots : r # host.slot =>
        /\ Bootable(r)' <=> Bootable(r)
        /\ \A p : Root(r, p)' = Root(r, p)
  BY Zenon DEF Root, Bootable
<1>4. \A r \in Slots : r # host.slot => \A p \in Parts : Sound(r, p)' <=> Sound(r, p)
  BY Zenon, <1>3, SoundSame
<1>5. TypeOK' /\ up' # "dead" /\ BootInv' /\ HeaderInv'
  BY Zenon, <1>1 DEF TypeOK, BootInv, HeaderInv
<1>6. DevInv'
  <2>1. ASSUME NEW p \in Parts, NEW s \in Slots, dev[p] # None, dev[p].slot = s
        PROVE  dev[p].root = Root(s, p)' /\ Sound(s, p)'
    <3>1. s # host.slot
      BY Zenon, <1>2, <2>1
    <3>2. dev[p].root = Root(s, p) /\ Sound(s, p)
      BY Zenon, <1>1, <2>1 DEF DevInv
    <3> QED BY Zenon, <1>3, <1>4, <3>1, <3>2
  <2> QED BY Zenon, <1>1, <2>1 DEF DevInv
<1>7. LiveInv'
  <2>1. ASSUME Settled'
        PROVE  \E s \in Slots : RunsFrom(s)'
    <3>1. PICK s \in Slots : RunsFrom(s)
      BY Zenon, <1>1, <2>1 DEF LiveInv, Settled
    <3>2. Bootable(s)' <=> Bootable(s)
      BY Zenon, <1>2, <1>3, <2>1, <3>1 DEF Settled
    <3> QED BY Zenon, <3>1, <3>2 DEF RunsFrom, Live
  <2> QED BY Zenon, <2>1 DEF LiveInv
<1>8. ActInv' /\ JobInv'
  BY Zenon, <1>2 DEF ActInv, JobInv
<1> QED BY Zenon, <1>5, <1>6, <1>7, <1>8 DEF IInv

(* A slice built from a tree verifies against that tree. *)
LEMMA UniformAccepted ==
  ASSUME NEW x
  PROVE  LET q == Uniform(x)
         IN  q.data = x /\ q.l0 = x /\ q.l1 = x /\ q.l2 = x /\ q.sb = x /\ Accepts(q, x)
<1>1. LET q == Uniform(x) IN q.data = x /\ q.l0 = x /\ q.l1 = x /\ q.l2 = x /\ q.sb = x
  BY DEF Uniform
<1> QED BY Zenon, <1>1 DEF Accepts, BlockVerifies

(* cmd_sideload writes both slices of the slot that is not the boot LUN. *)
LEMMA HostSlicesStep ==
  ASSUME IInv, HostSlices
  PROVE  IInv'
<1>1. /\ layout' = layout /\ vbm' = vbm /\ disk' = disk /\ hdr' = hdr /\ dev' = dev /\ up' = up
      /\ act' = act /\ job' = job /\ host.pc = "slices"
      /\ slice' = [slice EXCEPT ![host.slot] = [p \in Parts |-> Uniform(host.tree)]]
      /\ host' = [host EXCEPT !.pc = "vbmeta"]
  BY Zenon DEF HostSlices
<1>2. /\ host \in Sideloads /\ host.asked = disk.pending
      /\ act = None /\ job = None /\ up \in {"off", "on"}
      /\ up = "on" => disk.lun = hdr.lun /\ \A s \in Slots : disk.lun = s => Live(s)
      /\ host.slot = Other(disk.lun) /\ host.slot # disk.lun
      /\ host.hdr.lun = disk.lun /\ host.hdr.pending = disk.pending
      /\ host.hdr.ack <= host.hdr.pending /\ disk.pending < MaxSideloads
      /\ host.tree["super"] = 0
      /\ up = "on" => vbm["a"] # None /\ vbm["b"] # None
      /\ disk.lun = "a" => Good("a")
  BY Zenon, <1>1, Sideloading
<1>3. TypeOK /\ SuperInv /\ SlotInv
  BY Zenon DEF IInv
<1>4. host.slot \in Slots /\ host.tree \in Tree /\ Uniform(host.tree) \in Slice
  BY Zenon, <1>2, SideloadFields, TreeFacts
<1>5. /\ slice' \in [Slots -> [Parts -> Slice]]
      /\ \A p \in Parts : slice'[host.slot][p] = Uniform(host.tree)
      /\ \A r \in Slots : r # host.slot => slice'[r] = slice[r]
  BY Zenon, <1>1, <1>3, <1>4 DEF TypeOK
<1>6. /\ host' \in Sideloads /\ host'.pc = "vbmeta" /\ host'.asked = host.asked
      /\ host'.hdr = host.hdr /\ host'.slot = host.slot /\ host'.tree = host.tree
  BY <1>1, <1>2 DEF Sideloads
<1>7. /\ \A r, p : Root(r, p)' = Root(r, p)
      /\ \A r : Bootable(r)' <=> Bootable(r)
      /\ \A r : Live(r)' <=> Live(r)
  BY Zenon, <1>1 DEF Root, Bootable, Live
<1>8. \A r \in Slots : r # host.slot =>
        /\ \A p \in Parts : Sound(r, p)' <=> Sound(r, p)
        /\ Good(r)' <=> Good(r)
  BY Zenon, <1>1, <1>5, <1>7, SoundSame DEF Good
<1>9. SuperInv'
  <2>1. \A p \in Parts : LET q == slice'[host.slot][p]
                         IN  q.data["super"] = 0 /\ q.l0["super"] = 0 /\ q.l1["super"] = 0
    <3> TAKE p \in Parts
    <3>1. slice'[host.slot][p] = Uniform(host.tree)
      BY Zenon, <1>5
    <3>2. LET q == Uniform(host.tree)
          IN  q.data["super"] = 0 /\ q.l0["super"] = 0 /\ q.l1["super"] = 0
      BY Zenon, <1>2, UniformAccepted
    <3> QED BY Zenon, <3>1, <3>2
  <2>2. \A s \in Slots, p \in Parts : slice'[s][p].l0["super"] = 0 /\ slice'[s][p].l1["super"] = 0
    <3> TAKE s \in Slots, p \in Parts
    <3>1. CASE s = host.slot
      BY <2>1, <3>1
    <3>2. CASE s # host.slot
      <4>1. slice'[s] = slice[s]
        BY Zenon, <1>5, <3>2
      <4>2. slice[s][p].l0["super"] = 0 /\ slice[s][p].l1["super"] = 0
        BY Zenon, <1>3 DEF SuperInv
      <4> QED BY <4>1, <4>2
    <3> QED BY Zenon, <3>1, <3>2
  <2>3. \A p \in Parts : slice'["a"][p].data["super"] = 0
    BY Zenon, <1>3, <1>5, <2>1, Names DEF SuperInv
  <2>4. slice'["b"]["vendor"].data["super"] = 0 /\ slice'["b"]["system"].data["super"] \in {0, 1}
    BY Zenon, <1>3, <1>5, <2>1, Names DEF SuperInv
  <2> QED BY Zenon, <2>2, <2>3, <2>4 DEF SuperInv
<1>10. SlotInv'
  <2>1. /\ Bootable("a")'
        /\ \A s \in Slots : vbm'[s] = None /\ ~(host'.pc = "vbmeta" /\ host'.slot = s) => Good(s)'
    BY Zenon, <1>1, <1>3, <1>6, <1>7, <1>8 DEF SlotInv
  <2>2. CASE host.slot = "a"
    BY Zenon, <1>6, <2>1, <2>2 DEF SlotInv
  <2>3. CASE host.slot # "a"
    <3>1. slice'["a"] = slice["a"] /\ (Sound("a", "vendor")' <=> Sound("a", "vendor"))
      BY Zenon, <1>5, <1>8, <2>3, Names
    <3>2. slice["a"]["system"].sb # Root("a", "system") \/ Sound("a", "vendor")
      BY Zenon, <1>1, <1>3 DEF SlotInv
    <3> QED BY Zenon, <1>7, <2>1, <3>1, <3>2 DEF SlotInv
  <2> QED BY Zenon, <2>2, <2>3
<1>11. HostInv'
  <2>1. disk'.lun = "a" => Good("a")'
    BY Zenon, <1>1, <1>2, <1>8, Names
  <2>2. \A p \in Parts : slice'[host'.slot][p] = Uniform(host'.tree)
    BY Zenon, <1>5, <1>6
  <2>3. up' = "on" => \A s \in Slots : disk'.lun = s => Live(s)'
    BY Zenon, <1>1, <1>2, <1>7
  <2> QED BY Zenon, <1>1, <1>2, <1>6, <2>1, <2>2, <2>3 DEF HostInv
<1>12. vbm' \in [Slots -> Vbmeta \cup {None}]
  BY Zenon, <1>1, <1>3 DEF TypeOK
<1> QED BY Zenon, <1>1, <1>2, <1>5, <1>6, <1>9, <1>10, <1>11, <1>12, SideloadGoesOn

(* cmd_sideload writes that slot's vbmeta. *)
LEMMA HostVbmetaStep ==
  ASSUME IInv, HostVbmeta
  PROVE  IInv'
<1> DEFINE v == [bootable |-> TRUE, root |-> [p \in Parts |-> host.tree]]
<1>1. /\ layout' = layout /\ slice' = slice /\ disk' = disk /\ hdr' = hdr /\ dev' = dev /\ up' = up
      /\ act' = act /\ job' = job /\ host.pc = "vbmeta"
      /\ vbm' = [vbm EXCEPT ![host.slot] = v]
      /\ host' = [host EXCEPT !.pc = "header"]
  BY Zenon DEF HostVbmeta
<1>2. /\ host \in Sideloads /\ host.asked = disk.pending
      /\ act = None /\ job = None /\ up \in {"off", "on"}
      /\ up = "on" => disk.lun = hdr.lun /\ \A s \in Slots : disk.lun = s => Live(s)
      /\ host.slot = Other(disk.lun) /\ host.slot # disk.lun
      /\ host.hdr.lun = disk.lun /\ host.hdr.pending = disk.pending
      /\ host.hdr.ack <= host.hdr.pending /\ disk.pending < MaxSideloads
      /\ host.tree["super"] = 0
      /\ up = "on" => vbm["a"] # None /\ vbm["b"] # None
      /\ disk.lun = "a" => Good("a")
  BY Zenon, <1>1, Sideloading
<1>3. /\ TypeOK /\ SuperInv /\ SlotInv /\ \A p \in Parts : slice[host.slot][p] = Uniform(host.tree)
  BY Zenon, <1>1 DEF IInv, HostInv
<1>4. host.slot \in Slots /\ host.tree \in Tree
  BY Zenon, <1>2, SideloadFields
<1>5. v \in Vbmeta /\ v # None /\ v.bootable /\ \A p \in Parts : v.root[p] = host.tree
  BY <1>4, NotNone DEF Vbmeta
<1> HIDE DEF v
<1>6. /\ vbm' \in [Slots -> Vbmeta \cup {None}] /\ vbm'[host.slot] = v
      /\ \A r \in Slots : r # host.slot => vbm'[r] = vbm[r]
  BY Zenon, <1>1, <1>3, <1>4, <1>5 DEF TypeOK
<1>7. /\ host' \in Sideloads /\ host'.pc = "header" /\ host'.asked = host.asked
      /\ host'.hdr = host.hdr /\ host'.slot = host.slot /\ host'.tree = host.tree
  BY <1>1, <1>2 DEF Sideloads
<1>8. PICK t \in Slots : host.slot = t
  BY Zenon, <1>4
<1>9. Good(t)'
  <2>1. Bootable(t)' /\ \A p \in Parts : Root(t, p)' = host.tree
    BY Zenon, <1>5, <1>6, <1>8 DEF Bootable, Root
  <2>2. ASSUME NEW p \in Parts
        PROVE  Sound(t, p)'
    <3>1. slice[t][p] = Uniform(host.tree) /\ Accepts(Uniform(host.tree), host.tree)
      BY Zenon, <1>3, <1>8, UniformAccepted
    <3>2. Accepts(slice[t][p], Root(t, p)')
      BY Zenon, <2>1, <3>1
    <3> QED BY <1>1, <3>2 DEF Sound, Accepts, BlockVerifies, Checked, Group
  <2> QED BY Zenon, <2>1, <2>2 DEF Good
<1>10. \A r \in Slots : r # t =>
        /\ Bootable(r)' <=> Bootable(r)
        /\ \A p : Root(r, p)' = Root(r, p)
  BY Zenon, <1>6, <1>8 DEF Root, Bootable
<1>11. \A r \in Slots : r # t =>
        /\ \A p \in Parts : Sound(r, p)' <=> Sound(r, p)
        /\ Good(r)' <=> Good(r)
  BY Zenon, <1>1, <1>10, SoundSame DEF Good
<1>12. up = "on" => vbm'["a"] # None /\ vbm'["b"] # None
  BY Zenon, <1>2, <1>5, <1>6, Names
<1>13. SuperInv'
  BY Zenon, <1>1, <1>3 DEF SuperInv
<1>14. SlotInv'
  <2>1. \A s \in Slots : vbm'[s] = None => Good(s)'
    BY Zenon, <1>3, <1>5, <1>6, <1>8, <1>11 DEF SlotInv
  <2>2. CASE t = "a"
    BY Zenon, <1>9, <2>1, <2>2, Names DEF SlotInv, Good
  <2>3. CASE t # "a"
    <3>1. /\ Bootable("a")' /\ Root("a", "system")' = Root("a", "system")
          /\ Sound("a", "vendor")' <=> Sound("a", "vendor")
      BY Zenon, <1>3, <1>10, <1>11, <2>3, Names DEF SlotInv
    <3>2. slice["a"]["system"].sb # Root("a", "system") \/ Sound("a", "vendor")
      BY Zenon, <1>3, <1>8, <2>3 DEF SlotInv
    <3> QED BY Zenon, <1>1, <2>1, <3>1, <3>2 DEF SlotInv
  <2> QED BY Zenon, <2>2, <2>3
<1>15. HostInv'
  <2>1. disk'.lun = "a" => Good("a")'
    BY Zenon, <1>1, <1>2, <1>8, <1>11, Names
  <2>2. host'.slot = "a" => Good("a")'
    BY Zenon, <1>7, <1>8, <1>9
  <2>3. up' = "on" => \A s \in Slots : disk'.lun = s => Live(s)'
    BY Zenon, <1>1, <1>2 DEF Live
  <2> QED BY Zenon, <1>1, <1>2, <1>7, <1>12, <2>1, <2>2, <2>3 DEF HostInv
<1>16. slice' \in [Slots -> [Parts -> Slice]]
  BY Zenon, <1>1, <1>3 DEF TypeOK
<1> QED BY Zenon, <1>1, <1>6, <1>7, <1>12, <1>13, <1>14, <1>15, <1>16, SideloadGoesOn

(* cmd_sideload writes the header back, with its request in it. *)
LEMMA HostHeaderStep ==
  ASSUME IInv, HostHeader
  PROVE  IInv'
<1>1. /\ layout' = layout /\ slice' = slice /\ vbm' = vbm /\ hdr' = hdr /\ dev' = dev /\ up' = up
      /\ act' = act /\ job' = job /\ host.pc = "header"
      /\ disk' = [host.hdr EXCEPT
                    !.pending = host.hdr.pending + 1,
                    !.pslot = IF host.activate THEN host.slot ELSE "refresh",
                    !.lun = IF host.activate THEN host.slot ELSE @]
      /\ host' = [pc |-> "idle", asked |-> host.hdr.pending + 1]
  BY Zenon DEF HostHeader, persistent
<1>2. /\ host \in Sideloads
      /\ act = None /\ job = None /\ up \in {"off", "on"}
      /\ up = "on" => disk.lun = hdr.lun /\ \A s \in Slots : disk.lun = s => Live(s)
      /\ host.slot = Other(disk.lun) /\ host.slot # disk.lun
      /\ host.hdr.lun = disk.lun /\ host.hdr.pending = disk.pending
      /\ host.hdr.ack <= host.hdr.pending /\ disk.pending < MaxSideloads
      /\ disk.lun = "a" => Good("a")
      /\ up = "on" => \A s \in Slots : RunsFrom(s) => s # host.slot
  BY Zenon, <1>1, Sideloading
<1>3. /\ TypeOK /\ SuperInv /\ SlotInv /\ HeaderInv /\ DevInv /\ LiveInv /\ up # "dead"
      /\ host.slot = "a" => Good("a")
  BY Zenon, <1>1 DEF IInv, HostInv
<1>4. host.hdr \in Header /\ host.slot \in Slots /\ disk.lun \in Slots /\ "refresh" \notin Slots
  <2>1. disk.lun \in Slots
    BY <1>3 DEF TypeOK, Header
  <2> QED BY Zenon, <1>2, <2>1, SideloadFields DEF Slots
<1>5. Good("a")
  BY Zenon, <1>2, <1>3, <1>4 DEF Other, Slots
<1> DEFINE n == host.hdr.pending + 1
<1>6. /\ n \in 0 .. MaxSideloads /\ disk.pending < n /\ disk.pending \in Nat
      /\ host.hdr.ack \in Nat /\ host.hdr.ack < n
  <2>1. host.hdr.pending \in Nat /\ host.hdr.ack \in Nat /\ MaxSideloads \in Nat
    BY <1>4, OtaAssumption DEF Header
  <2> QED BY <1>2, <2>1
<1>7. /\ disk' \in Header /\ disk'.pending = n /\ disk'.ack = host.hdr.ack
      /\ host.activate => disk'.lun = host.slot /\ disk'.pslot = host.slot
      /\ ~host.activate => disk'.lun = disk.lun /\ disk'.pslot = "refresh"
  <2> HIDE DEF n
  <2>1. CASE host.activate
    <3>1. disk' = [host.hdr EXCEPT !.pending = n, !.pslot = host.slot, !.lun = host.slot]
      BY <1>1, <2>1 DEF n
    <3> QED BY <1>4, <1>6, <2>1, <3>1 DEF Header
  <2>2. CASE ~host.activate
    <3>1. disk' = [host.hdr EXCEPT !.pending = n, !.pslot = "refresh", !.lun = host.hdr.lun]
      BY <1>1, <2>2 DEF n
    <3> QED BY <1>2, <1>4, <1>6, <2>2, <3>1 DEF Header
  <2> QED BY Zenon, <2>1, <2>2
<1>8. host' \in NoSideload /\ host'.pc = "idle" /\ host'.asked = n
  BY <1>1, <1>6 DEF NoSideload
<1> HIDE DEF n
<1>9. TypeOK' /\ SuperInv'
  BY Zenon, <1>1, <1>3, <1>7 DEF TypeOK, SuperInv
<1>10. SlotInv'
  BY Zenon, <1>1, <1>3, <1>8, Frozen DEF SlotInv
<1>11. BootInv' /\ DevInv'
  <2>1. Good("a")'
    BY Zenon, <1>1, <1>5, Frozen
  <2> QED BY Zenon, <1>1, <1>3, <2>1, DevicesKept DEF BootInv
<1>12. HeaderInv'
  <2>1. disk'.ack <= disk'.pending
    BY <1>6, <1>7, OtaAssumption
  <2>2. disk'.pslot \in Slots => disk'.lun = disk'.pslot
    BY Zenon, <1>4, <1>7
  <2>3. ASSUME up # "off"
        PROVE  /\ hdr.ack <= hdr.pending /\ hdr.pending <= disk'.pending /\ hdr.ack < disk'.pending
               /\ disk'.pslot \notin Slots => disk'.lun = hdr.lun
    <3>1. hdr.ack <= hdr.pending /\ hdr.pending <= disk.pending
      BY Zenon, <1>3, <2>3 DEF HeaderInv
    <3>2. hdr.ack \in Nat /\ hdr.pending \in Nat /\ n \in Nat
      BY <1>3, <1>6, OtaAssumption DEF TypeOK, Header
    <3>3. hdr.pending <= disk'.pending /\ hdr.ack < disk'.pending
      BY <1>6, <1>7, <3>1, <3>2
    <3>4. disk'.pslot \notin Slots => disk'.lun = hdr.lun
      BY Zenon, <1>2, <1>4, <1>7, <2>3
    <3> QED BY Zenon, <3>1, <3>3, <3>4
  <2> QED BY Zenon, <1>1, <2>1, <2>2, <2>3 DEF HeaderInv
<1>13. LiveInv'
  <2>1. ASSUME Settled'
        PROVE  \E s \in Slots : RunsFrom(s)'
    <3>1. PICK s \in Slots : RunsFrom(s)
      BY Zenon, <1>1, <1>3, <2>1 DEF LiveInv, Settled
    <3>2. s # host.slot
      BY Zenon, <1>1, <1>2, <2>1, <3>1 DEF Settled
    <3>3. disk'.pslot \in Slots => disk'.lun # s
      BY Zenon, <1>4, <1>7, <3>2
    <3>4. Live(s)' /\ Bootable(s)' /\ (s = "b" => hdr'.lun = "b")
      BY Zenon, <1>1, <3>1, Frozen DEF RunsFrom, Live
    <3> QED BY Zenon, <3>3, <3>4 DEF RunsFrom
  <2> QED BY Zenon, <1>1, <1>3, <2>1 DEF LiveInv
<1>14. ActInv' /\ JobInv' /\ HostInv'
  BY Zenon, <1>1, <1>2, <1>7, <1>8 DEF ActInv, JobInv, HostInv
<1> QED BY Zenon, <1>1, <1>3, <1>9, <1>10, <1>11, <1>12, <1>13, <1>14 DEF IInv

(* ufs_poll_external_ota, between commands, with a request the kernel has not seen. *)
LEMMA PollFacts ==
  ASSUME IInv, Poll
  PROVE  /\ layout' = layout /\ slice' = slice /\ vbm' = vbm /\ dev' = dev /\ up' = up
         /\ job' = job /\ host' = host /\ act = None /\ up = "on" /\ job = None
         /\ disk.pending # hdr.ack /\ hdr.ack < disk.pending /\ hdr.ack <= hdr.pending
         /\ hdr \in Header /\ disk \in Header /\ vbm["a"] # None /\ vbm["b"] # None
         /\ \E s \in Slots : RunsFrom(s)
<1>1. /\ layout' = layout /\ slice' = slice /\ vbm' = vbm /\ dev' = dev /\ up' = up
      /\ job' = job /\ host' = host /\ act = None /\ up = "on" /\ disk.pending # hdr.ack
  BY Zenon DEF Poll, Idle, persistent
<1>2. TypeOK /\ HeaderInv /\ LiveInv /\ JobInv
  BY Zenon DEF IInv
<1>3. job = None
  BY Zenon, <1>1, <1>2 DEF JobInv
<1>4. hdr \in Header /\ disk \in Header
  BY Zenon, <1>2 DEF TypeOK
<1>5. hdr.ack <= hdr.pending /\ hdr.pending <= disk.pending
  BY Zenon, <1>1, <1>2 DEF HeaderInv
<1>6. hdr.ack < disk.pending
  <2>1. hdr.ack \in Nat /\ hdr.pending \in Nat /\ disk.pending \in Nat
    BY <1>4 DEF Header
  <2> QED BY <1>1, <1>5, <2>1
<1>7. vbm["a"] # None /\ vbm["b"] # None /\ \E s \in Slots : RunsFrom(s)
  BY Zenon, <1>1, <1>2 DEF LiveInv, Settled
<1> QED BY Zenon, <1>1, <1>3, <1>4, <1>5, <1>6, <1>7

(* ufs_poll_external_ota finds a slot to activate: the request is in the kernel's header
   before the activation saves that header. *)
LEMMA PollActivates ==
  ASSUME IInv, Poll, disk.pslot \in Slots
  PROVE  IInv'
<1>1. /\ layout' = layout /\ slice' = slice /\ vbm' = vbm /\ dev' = dev /\ up' = up
      /\ job' = job /\ host' = host /\ act = None /\ up = "on" /\ job = None
      /\ disk.pending # hdr.ack /\ hdr.ack < disk.pending /\ hdr.ack <= hdr.pending
      /\ hdr \in Header /\ disk \in Header /\ vbm["a"] # None /\ vbm["b"] # None
      /\ \E s \in Slots : RunsFrom(s)
  BY Zenon, PollFacts
<1>2. /\ hdr' = [hdr EXCEPT !.pending = disk.pending, !.pslot = disk.pslot] /\ disk' = disk
      /\ act' = [stage |-> "check", slot |-> disk.pslot, target |-> disk.pslot, rolled |-> FALSE]
  BY Zenon DEF Poll, Begin, Slots
<1>3. /\ TypeOK /\ SuperInv /\ SlotInv /\ BootInv /\ HeaderInv /\ DevInv /\ HostInv
  BY Zenon DEF IInv
<1>4. PICK s \in Slots : RunsFrom(s)
  BY Zenon, <1>1
<1>5. host.pc = "idle"
  <2>1. SUFFICES ASSUME host.pc # "idle" PROVE FALSE
    BY Zenon
  <2>2. /\ host.slot # disk.lun /\ \A r \in Slots : disk.lun = r => Live(r)
    BY Zenon, <1>1, <2>1, Sideloading
  <2>3. disk.lun \in Slots
    BY <1>1 DEF Header
  <2>4. disk.lun = s
    BY Zenon, <1>4, <2>2, <2>3, Names DEF RunsFrom, Live
  <2> QED BY Zenon, <1>1, <1>4, <2>4 DEF RunsFrom
<1>6. /\ hdr' \in Header /\ hdr'.lun = hdr.lun /\ hdr'.ack = hdr.ack /\ hdr'.pending = disk.pending
  BY <1>1, <1>2 DEF Header
<1>7. /\ act' \in Activations /\ act' # None /\ act'.stage = "check" /\ act'.slot = disk.pslot
      /\ act'.target = disk.pslot /\ ~act'.rolled
  BY <1>2 DEF Activations, Stages, None
<1>8. TypeOK' /\ up' # "dead"
  BY Zenon, <1>1, <1>2, <1>3, <1>6 DEF TypeOK
<1>9. SuperInv' /\ SlotInv'
  BY Zenon, <1>1, <1>3, Frozen DEF SlotInv
<1>10. BootInv'
  BY Zenon, <1>1, <1>2, <1>3, Frozen DEF BootInv
<1>11. DevInv'
  BY Zenon, <1>1, <1>3, DevicesKept
<1>12. HeaderInv'
  <2>1. hdr'.ack <= hdr'.pending /\ hdr'.pending <= disk.pending
    <3>1. hdr.ack \in Nat /\ disk.pending \in Nat
      BY <1>1 DEF Header
    <3> QED BY <1>1, <1>6, <3>1
  <2> QED BY Zenon, <1>1, <1>2, <1>3, <1>6, <2>1 DEF HeaderInv
<1>13. LiveInv'
  <2>1. RunsFrom(s)'
    BY Zenon, <1>1, <1>2, <1>4, <1>6, Frozen DEF RunsFrom, Live
  <2> QED BY Zenon, <1>1, <2>1 DEF LiveInv
<1>14. ActInv'
  BY Zenon, <1>1, <1>2, <1>5, <1>6, <1>7 DEF ActInv, Seeding
<1>15. JobInv' /\ HostInv'
  BY Zenon, <1>1, <1>2, <1>3, <1>5 DEF JobInv, HostInv
<1> QED BY Zenon, <1>8, <1>9, <1>10, <1>11, <1>12, <1>13, <1>14, <1>15 DEF IInv

(* ufs_poll_external_ota finds a refresh, and acknowledges it at once. *)
LEMMA PollRefreshes ==
  ASSUME IInv, Poll, disk.pslot \notin Slots
  PROVE  IInv'
<1>1. /\ layout' = layout /\ slice' = slice /\ vbm' = vbm /\ dev' = dev /\ up' = up
      /\ job' = job /\ host' = host /\ act = None /\ up = "on" /\ job = None
      /\ disk.pending # hdr.ack /\ hdr.ack < disk.pending /\ hdr.ack <= hdr.pending
      /\ hdr \in Header /\ disk \in Header /\ vbm["a"] # None /\ vbm["b"] # None
      /\ \E s \in Slots : RunsFrom(s)
  BY Zenon, PollFacts
<1>2. /\ hdr' = [hdr EXCEPT !.pending = disk.pending, !.pslot = disk.pslot, !.ack = disk.pending]
      /\ disk' = hdr' /\ act' = act
  BY Zenon DEF Poll
<1>3. /\ TypeOK /\ SuperInv /\ SlotInv /\ BootInv /\ HeaderInv /\ DevInv /\ HostInv
  BY Zenon DEF IInv
<1>4. PICK s \in Slots : RunsFrom(s)
  BY Zenon, <1>1
<1>5. /\ hdr' \in Header /\ hdr'.lun = hdr.lun /\ hdr'.ack = disk.pending
      /\ hdr'.pending = disk.pending
  BY <1>1, <1>2 DEF Header
<1>6. disk.lun = hdr.lun
  BY Zenon, <1>1, <1>3 DEF HeaderInv
<1>7. TypeOK' /\ up' # "dead"
  BY Zenon, <1>1, <1>2, <1>3, <1>5 DEF TypeOK
<1>8. SuperInv' /\ SlotInv'
  BY Zenon, <1>1, <1>3, Frozen DEF SlotInv
<1>9. BootInv'
  BY Zenon, <1>1, <1>2, <1>3, <1>5, <1>6, Frozen DEF BootInv
<1>10. DevInv'
  BY Zenon, <1>1, <1>3, DevicesKept
<1>11. HeaderInv'
  <2>1. hdr'.ack <= hdr'.pending
    <3>1. disk.pending \in Nat
      BY <1>1 DEF Header
    <3> QED BY <1>5, <3>1
  <2> QED BY Zenon, <1>2, <1>5, <2>1 DEF HeaderInv
<1>12. LiveInv'
  <2>1. RunsFrom(s)'
    BY Zenon, <1>1, <1>2, <1>4, <1>5, Frozen DEF RunsFrom, Live
  <2> QED BY Zenon, <1>1, <2>1 DEF LiveInv
<1>13. ActInv' /\ JobInv'
  BY Zenon, <1>1, <1>2 DEF ActInv, JobInv
<1>14. HostInv'
  <2>1. Good("a")' <=> Good("a")
    BY Zenon, <1>1, Frozen
  <2>2. \A r : Live(r)' <=> Live(r)
    BY Zenon, <1>1 DEF Live
  <2>3. disk'.lun = disk.lun /\ hdr'.lun = disk.lun /\ disk'.pending = disk.pending
    BY Zenon, <1>2, <1>5, <1>6
  <2> QED BY Zenon, <1>1, <1>2, <1>3, <2>1, <2>2, <2>3 DEF HostInv
<1> QED BY Zenon, <1>7, <1>8, <1>9, <1>10, <1>11, <1>12, <1>13, <1>14 DEF IInv

-------------------------------------------------------------------------------
(* The invariant and what follows from it. *)

(* A fresh image satisfies the invariant. *)
LEMMA InitStep ==
  ASSUME Init
  PROVE  IInv
<1>1. /\ layout \in Layouts /\ vbm = [s \in Slots |-> None] /\ disk = Header0 /\ hdr = Header0
      /\ slice = [s \in Slots |-> [p \in Parts |-> Uniform(Fresh)]]
      /\ dev = NoDev /\ up = "off" /\ act = None /\ job = None
      /\ host = [pc |-> "idle", asked |-> 0]
  BY Zenon DEF Init
<1>2. Fresh["super"] = 0 /\ Uniform(Fresh) \in Slice
  BY Zenon, TreeFacts, Names DEF Fresh
<1>3. /\ \A s \in Slots : vbm[s] = None
      /\ \A s \in Slots, p \in Parts : slice[s][p] = Uniform(Fresh)
  BY Zenon, <1>1
<1>4. TypeOK
  BY Zenon, <1>1, <1>2, HeaderFacts DEF TypeOK
<1>5. SuperInv
  <2>1. LET q == Uniform(Fresh)
        IN  q.data["super"] = 0 /\ q.l0["super"] = 0 /\ q.l1["super"] = 0
    BY Zenon, <1>2, UniformAccepted
  <2> QED BY Zenon, <1>3, <2>1, Names DEF SuperInv
<1>6. \A s \in Slots : Good(s)
  BY Zenon, <1>3, UniformAccepted DEF Good, Bootable, Sound, Root
<1>7. SlotInv /\ BootInv
  BY Zenon, <1>3, <1>6, Names DEF SlotInv, BootInv, Good
<1>8. HeaderInv
  <2>1. disk.ack = 0 /\ disk.pending = 0
    BY <1>1 DEF Header0
  <2>2. disk.ack <= disk.pending
    BY <2>1
  <2> QED BY Zenon, <1>1, <2>1, <2>2 DEF HeaderInv
<1>9. DevInv /\ LiveInv /\ ActInv /\ JobInv
  BY Zenon, <1>1, HeaderFacts DEF DevInv, LiveInv, Settled, ActInv, JobInv
<1>10. HostInv
  <2>1. host.pc = "idle" /\ host.asked = 0 /\ host \in NoSideload /\ disk.pending = 0
    BY <1>1, OtaAssumption DEF NoSideload, Header0
  <2> QED BY Zenon, <2>1 DEF HostInv
<1> QED BY Zenon, <1>1, <1>4, <1>5, <1>7, <1>8, <1>9, <1>10 DEF IInv

(* The inductive invariant of the update: what is on the disk boots at every instant, and
   what writes a slice or a vbmeta writes the slot that is not live.  It holds as long as no
   sideload overlaps a command and ufs boot-slot does not name slot A while slot B is live, for
   every number of builds, sideloads and power losses. *)
THEOREM UpdateInvariant ==
  ASSUME ~Overlap, ~ByHand
  PROVE  Spec => []IInv
<1>1. Init => IInv
  BY Zenon, InitStep
<1>2. ASSUME IInv, [Next]_vars
      PROVE  IInv'
  <2>1. CASE UNCHANGED vars
    <3>1. /\ layout' = layout /\ slice' = slice /\ vbm' = vbm /\ disk' = disk /\ hdr' = hdr
          /\ dev' = dev /\ up' = up /\ act' = act /\ job' = job /\ host' = host
      BY Zenon, <2>1 DEF vars
    <3>2. /\ TypeOK' /\ up' # "dead" /\ SuperInv' /\ SlotInv' /\ BootInv' /\ HeaderInv'
          /\ DevInv'
      BY Zenon, <1>2, <3>1, NothingWritten
    <3>3. LiveInv' /\ HostInv'
      <4>1. /\ \A s : (Bootable(s)' <=> Bootable(s)) /\ (Live(s)' <=> Live(s))
            /\ Good("a")' <=> Good("a")
        BY Zenon, <3>1, Frozen DEF Live
      <4>2. \A s : RunsFrom(s)' <=> RunsFrom(s)
        BY Zenon, <3>1, <4>1 DEF RunsFrom
      <4> QED BY Zenon, <1>2, <3>1, <4>1, <4>2 DEF IInv, LiveInv, Settled, HostInv
    <3>4. ActInv'
      <4>1. \A s : (Bootable(s)' <=> Bootable(s)) /\ (Good(s)' <=> Good(s))
        BY Zenon, <3>1, Frozen
      <4> QED BY Zenon, <1>2, <3>1, <4>1 DEF IInv, ActInv
    <3>5. JobInv'
      <4>1. (SpineOk' <=> SpineOk) /\ (RepairOk' <=> RepairOk)
        <5>1. SpineOk' <=> SpineOk
          BY <3>1 DEF SpineOk, Group, Spine
        <5> QED BY Zenon, <3>1, <5>1 DEF RepairOk, Spine
      <4>2. /\ \A s, p : Root(s, p)' = Root(s, p)
            /\ \A s : Live(s)' <=> Live(s)
            /\ \A p : Rebuilt(p)' <=> Rebuilt(p)
        <5>1. \A p : Rebuilt(p)' <=> Rebuilt(p)
          BY <3>1 DEF Rebuilt, Accepts, BlockVerifies, Checked, Group
        <5> QED BY Zenon, <3>1, <5>1, Frozen DEF Live
      <4>3. \A s : ApplyOk(s)' <=> ApplyOk(s)
        BY Zenon, <3>1, <4>2 DEF ApplyOk
      <4> QED BY Zenon, <1>2, <3>1, <4>1, <4>2, <4>3 DEF IInv, JobInv
    <3> QED BY Zenon, <3>2, <3>3, <3>4, <3>5 DEF IInv
  <2>2. CASE Activation
    BY Zenon, <1>2, <2>2, SeedAStep, SeedLunStep, SeedBStep, CheckFlagsStep, SetupSliceStep,
       ActivatedStep, CondemnStep, FallbackStep DEF Activation
  <2>3. CASE Updater
    BY Zenon, <1>2, <2>3, ApplyStep, RepairStep, CorruptStep, WriteBootLunAttrStep,
       WriteSpineStep, WriteVbmetaStep, RecordRollbackStep, SwitchStep DEF Updater
  <2>4. CASE Host
    BY Zenon, <1>2, <2>4, HostStartStep, HostSlicesStep, HostVbmetaStep, HostHeaderStep DEF Host
  <2>5. CASE Crash \/ Boot \/ Poll
    BY Zenon, <1>2, <2>5, CrashStep, BootStep, PollActivates, PollRefreshes
  <2> QED BY Zenon, <1>2, <2>1, <2>2, <2>3, <2>4, <2>5 DEF Next
<1> QED BY <1>1, <1>2, PTL DEF Spec

(* The machine always comes up: wherever the power was lost, the boot LUN or the rollback
   from it finds a slot that verifies, and both partitions come from one slot
   (dm_setup_verity_bin, dm_activate_ota_slot).  Under ByHand it would not: with slot B live and
   slot A half written, ufs boot-slot a and a power loss boot slot A, which has no fallback. *)
THEOREM MachineComesUp ==
  ASSUME ~Overlap, ~ByHand
  PROVE  Spec => []ComesUp
<1>1. IInv => ComesUp
  BY Zenon DEF IInv, LiveInv, Settled, Idle, RunsFrom, Live, ComesUp
<1> QED BY <1>1, UpdateInvariant, PTL

(* What was verified when a slot went live verifies as long as it is live, whatever an apply,
   a repair or a sideload is writing ("into the inactive slot", ota.c).  Under ByHand it would
   not: after ufs boot-slot a, DM_IOC_OTA_STATUS calls slot A active though slot B is live. *)
THEOREM LiveSlotIntact ==
  ASSUME ~Overlap, ~ByHand
  PROVE  Spec => []LiveIntact
<1>1. IInv => LiveIntact
  <2> SUFFICES ASSUME IInv, NEW p \in Parts, dev[p] # None
               PROVE  \A b \in Checked : BlockVerifies(slice[dev[p].slot][p], b, dev[p].root)
    BY Zenon DEF LiveIntact
  <2>1. dev[p] \in Device /\ DevInv
    BY Zenon DEF IInv, TypeOK
  <2>2. PICK s \in Slots : dev[p].slot = s
    BY <2>1 DEF Device
  <2>3. dev[p].root = Root(s, p) /\ Sound(s, p)
    BY Zenon, <2>1, <2>2 DEF DevInv
  <2>4. \A b \in Checked : BlockVerifies(slice[s][p], b, Root(s, p))
    BY Zenon, <2>3 DEF Sound, Accepts
  <2> QED BY Zenon, <2>2, <2>3, <2>4
<1> QED BY <1>1, UpdateInvariant, PTL

(* The request of a finished sideload stays on the disk until the kernel acknowledges it
   (host_ota.py's ota_pending_seq, ufs_poll_external_ota). *)
THEOREM SideloadNotLost ==
  ASSUME ~Overlap, ~ByHand
  PROVE  Spec => []SideloadKept
<1>1. IInv => SideloadKept
  BY Zenon DEF IInv, HostInv, SideloadKept
<1> QED BY <1>1, UpdateInvariant, PTL

================================================================================
