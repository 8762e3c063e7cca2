-------------------------- MODULE FujiSlots_proof --------------------------
(***************************************************************************)
(* Proofs about FujiSlots, for every number of host slots below 255, of    *)
(* disks, of names and of file system objects.                             *)
(***************************************************************************)
EXTENDS FujiSlots, WellFoundedInduction, TLAPS

AllNames == Names \cup {"", "SD"}
FileSystems == Objects \cup {NoFs, fnSDFAT}
HostRecords == [name : AllNames, type : {"UNINITIALIZED", "LOCAL", "TNFS"}, fs : FileSystems]
DiskRecords == [host_slot : HostSlots \cup {INVALID_HOST_SLOT}, file : BOOLEAN, fileh : BOOLEAN]

\* The hosts and their file systems: the sets they range over, what a host's
\* type says of its file system, and that an object exists as long as a host
\* points to it and belongs to one host.
HostsOK ==
  /\ host \in [Hosts -> HostRecords]
  /\ running \subseteq live /\ live \subseteq 1 .. made /\ made \in 0 .. MaxFs
  /\ \A h \in Hosts : /\ (host[h].type = "LOCAL") = (host[h].fs = fnSDFAT)
                      /\ host[h].type = "UNINITIALIZED" => host[h].fs = NoFs
                      /\ host[h].fs \in Objects => host[h].fs \in live
  /\ \A g, h \in Hosts : host[g].fs \in Objects /\ host[g].fs = host[h].fs => g = h

\* The sets the other variables range over.
DisksOK ==
  /\ disk \in [Disks -> DiskRecords]
  /\ medium \in [Disks -> FileSystems]
  /\ config \in [Disks -> Hosts \cup {INVALID_HOST_SLOT}]
  /\ id \in [Disks -> Disks]
  /\ dir \in Hosts \cup {-1} /\ step \in 0 .. MAX_DISK_DEVICES
  /\ rash \in BOOLEAN /\ saved \in BOOLEAN

\* The slot of a mounted image leads to its file system, which is started.
Found ==
  \A d \in Disks : medium[d] \in Objects =>
    /\ medium[d] \in running
    /\ disk[d].host_slot \in Hosts
    /\ host[disk[d].host_slot].fs = medium[d]

\* A host whose directory is read has a file system, or nothing.
Readable(h) == host[h].type = "UNINITIALIZED" \/ host[h].fs # NoFs

\* What holds while no rash command was given.
Sound ==
  /\ crash = "none"
  /\ Found
  /\ \A d \in Disks : disk[d].host_slot # MAX_HOSTS
  /\ dir # -1 => Readable(dir)

Inv == HostsOK /\ DisksOK /\ (~ rash => Sound)

USE DEF NoFs, fnSDFAT, INVALID_HOST_SLOT

\* The sizes of the two tables.
LEMMA Sizes ==
  /\ MAX_HOSTS \in Nat /\ MAX_HOSTS < 255 /\ Hosts \subseteq HostSlots
  /\ MAX_DISK_DEVICES \in Nat /\ 0 \in 0 .. MAX_DISK_DEVICES /\ Done \in 0 .. MAX_DISK_DEVICES
<1>1. MAX_HOSTS \in Nat /\ MAX_HOSTS < 255 /\ MAX_DISK_DEVICES \in Nat
  BY SlotsAssumption
<1>2. QED
  BY <1>1 DEF Hosts, HostSlots, Done

-----------------------------------------------------------------------------
(***************************************************************************)
(* What the operations of a host do.                                       *)
(***************************************************************************)

\* A mount replaces no file system that is started, and leaves one behind.
LEMMA MountHost ==
  ASSUME HostsOK, NEW h \in Hosts, NEW ok \in BOOLEAN, mount(h, ok)
  PROVE  /\ HostsOK'
         /\ running \subseteq running'
         /\ \A g \in Hosts : /\ host[g].fs \in running => host'[g].fs = host[g].fs
                             /\ Readable(g) => Readable(g)'
<1>1. CASE Connected(h)
  BY <1>1 DEF mount, hosts, HostsOK, Readable
<1>2. CASE ~ Connected(h) /\ host[h].name = "SD"
  <2>1. \A g \in Hosts : host'[g] = IF g = h THEN [host[h] EXCEPT !.type = "LOCAL", !.fs = fnSDFAT]
                                    ELSE host[g]
    BY <1>2 DEF mount, HostsOK
  <2>2. host'[h] \in HostRecords /\ host'[h].type = "LOCAL" /\ host'[h].fs = fnSDFAT
    BY <2>1 DEF HostsOK, HostRecords, FileSystems
  <2>3. fnSDFAT \notin Objects /\ host[h].fs \notin running
    BY <1>2 DEF Connected, HostsOK, HostRecords, Objects
  <2>4. host' \in [Hosts -> HostRecords] /\ UNCHANGED <<live, running, made>>
    BY <1>2, <2>1, <2>2 DEF mount, HostsOK
  <2>5. QED
    BY <2>1, <2>2, <2>3, <2>4 DEF HostsOK, Readable
<1>3. CASE ~ Connected(h) /\ host[h].name # "SD"
  <2>1. \A g \in Hosts : host'[g] = IF g = h THEN [host[h] EXCEPT !.type = "TNFS", !.fs = made + 1]
                                    ELSE host[g]
    BY <1>3 DEF mount, HostsOK
  <2>2. /\ made < MaxFs /\ made' = made + 1 /\ live' = live \cup {made + 1}
        /\ running \subseteq running' /\ running' \subseteq running \cup {made + 1}
    BY <1>3 DEF mount
  <2>3. made + 1 \in Objects /\ made + 1 \notin live /\ made' \in 0 .. MaxFs
    <3>1. made \in 0 .. MaxFs /\ MaxFs \in Nat /\ live \subseteq 1 .. made
      BY SlotsAssumption DEF HostsOK
    <3>2. made + 1 \notin 1 .. made
      BY <3>1
    <3>3. QED
      BY <2>2, <3>1, <3>2 DEF Objects
  <2>4. host'[h] \in HostRecords /\ host'[h].type = "TNFS" /\ host'[h].fs = made + 1
    BY <2>1, <2>3 DEF HostsOK, HostRecords, FileSystems
  <2>5. host[h].fs \notin running
    BY <1>3 DEF Connected, HostsOK, HostRecords
  <2>6. host' \in [Hosts -> HostRecords] 
    BY <1>3, <2>1, <2>4 DEF mount, HostsOK
  <2>7. running' \subseteq live' /\ live' \subseteq 1 .. made'
    BY <2>2 DEF HostsOK
  <2>8. QED
    BY <2>1, <2>2, <2>3, <2>4, <2>5, <2>6, <2>7 DEF HostsOK, Readable
<1>4. QED
  BY <1>1, <1>2, <1>3

\* An unmount ends the file system of one host.
LEMMA UnmountHost ==
  ASSUME HostsOK, NEW h \in Hosts, umount(h)
  PROVE  /\ HostsOK'
         /\ \A g \in Hosts \ {h} : host'[g] = host[g]
         /\ running \ {host[h].fs} \subseteq running'
<1>1. CASE host[h].type = "LOCAL"
  BY <1>1 DEF umount, hosts, HostsOK
<1>2. CASE host[h].type # "LOCAL"
  <2>1. \A g \in Hosts : host'[g] = IF g = h THEN [host[h] EXCEPT !.fs = NoFs] ELSE host[g]
    BY <1>2 DEF umount, HostsOK
  <2>2. live' = live \ {host[h].fs} /\ running' = running \ {host[h].fs} /\ made' = made
    BY <1>2 DEF umount
  <2>3. host'[h] \in HostRecords /\ host'[h].type # "LOCAL" /\ host'[h].fs = NoFs
    BY <1>2, <2>1 DEF HostsOK, HostRecords, FileSystems
  <2>4. host' \in [Hosts -> HostRecords] /\ NoFs \notin Objects
    BY <1>2, <2>1, <2>3 DEF umount, HostsOK, Objects
  <2>5. QED
    BY <2>1, <2>2, <2>3, <2>4 DEF HostsOK
<1>3. QED
  BY <1>1, <1>2

\* A new name leaves the hosts sound, and the host uninitialized if it had a
\* file system; the program dies of a host that lost its file system.
LEMMA RenameHost ==
  ASSUME HostsOK, NEW h \in Hosts, NEW n \in AllNames, set_hostname(h, n)
  PROVE  /\ HostsOK'
         /\ \A g \in Hosts : Readable(g) => Readable(g)'
         /\ \A g \in Hosts \ {h} : host'[g] = host[g]
         /\ running \ {host[h].fs} \subseteq running'
         /\ host'[h].fs = host[h].fs => running' = running
<1>1. CASE host[h].type = "UNINITIALIZED"
  BY <1>1 DEF set_hostname, HostsOK, HostRecords, Readable
<1>2. CASE host[h].type # "UNINITIALIZED" /\ (n = host[h].name \/ host[h].fs = NoFs)
  BY <1>2 DEF set_hostname, hosts, HostsOK, Readable
<1>3. CASE host[h].type # "UNINITIALIZED" /\ n # host[h].name /\ host[h].fs # NoFs
  <2>1. \A g \in Hosts : host'[g] = IF g = h THEN [name |-> n, type |-> "UNINITIALIZED", fs |-> NoFs]
                                    ELSE host[g]
    BY <1>3 DEF set_hostname, HostsOK
  <2>2. live' = live \ {host[h].fs} /\ running' = running \ {host[h].fs} /\ made' = made
    BY <1>3 DEF set_hostname
  <2>3. host'[h] \in HostRecords /\ host'[h].type = "UNINITIALIZED" /\ host'[h].fs = NoFs
    BY <2>1 DEF HostRecords, FileSystems
  <2>4. host' \in [Hosts -> HostRecords] /\ NoFs \notin Objects
    BY <1>3, <2>1, <2>3 DEF set_hostname, HostsOK, Objects
  <2>5. HostsOK'
    <3>1. \A g \in Hosts : g # h => host'[g] = host[g]
      BY <2>1
    <3>2. host'[h].type # "LOCAL" /\ host'[h].fs # fnSDFAT
      BY <2>3
    <3>3. QED
      BY <2>2, <2>3, <2>4, <3>1, <3>2 DEF HostsOK
  <2>6. \A g \in Hosts : Readable(g) => Readable(g)'
    BY <2>1, <2>3 DEF Readable
  <2>7. QED
    BY <1>3, <2>1, <2>2, <2>3, <2>5, <2>6
<1>4. QED
  BY <1>1, <1>2, <1>3

-----------------------------------------------------------------------------
(***************************************************************************)
(* What the operations of the disks do.                                    *)
(***************************************************************************)
\* A file system that can be opened exists, and is started if it is an object.
LEMMA OpenedFs ==
  ASSUME HostsOK, NEW h \in Hosts, CanOpen(h)
  PROVE  /\ host[h].fs \in FileSystems /\ host[h].fs # NoFs
         /\ host[h].fs \in Objects => host[h].fs \in running
BY DEF CanOpen, HostsOK, HostRecords, FileSystems, Objects

\* While images are found by their slots, none is on a deleted file system.
LEMMA FoundAlive ==
  ASSUME HostsOK, DisksOK, Found
  PROVE  \A d \in Disks : ~ Dead(medium[d])
BY DEF HostsOK, Found, Dead

\* Mounting an image keeps the slots and the media what they were, but for the
\* medium of this disk, which is then on a file system of its host.
LEMMA MountDisk ==
  ASSUME HostsOK, DisksOK, NEW d \in Disks, NEW h \in Hosts, disk[d].host_slot = h, MountImage(d, h)
  PROVE  /\ disk' \in [Disks -> DiskRecords] /\ medium' \in [Disks -> FileSystems]
         /\ \A e \in Disks : disk'[e].host_slot = disk[e].host_slot /\ disk'[e].file = disk[e].file
         /\ \A e \in Disks : \/ medium'[e] = medium[e] \/ medium'[e] = NoFs
                             \/ e = d /\ CanOpen(h) /\ medium'[e] = host[h].fs
         /\ (\A e \in Disks : ~ Dead(medium[e])) => crash' = crash
<1>1. \E b \in BOOLEAN : disk' = [disk EXCEPT ![d].fileh = b]
  BY DEF MountImage
<1>2. /\ disk' \in [Disks -> DiskRecords]
      /\ \A e \in Disks : disk'[e].host_slot = disk[e].host_slot /\ disk'[e].file = disk[e].file
  <2> PICK b \in BOOLEAN : disk' = [disk EXCEPT ![d].fileh = b]
    BY <1>1
  <2>1. \A e \in Disks : disk'[e] = IF e = d THEN [disk[e] EXCEPT !.fileh = b] ELSE disk[e]
    BY DEF DisksOK
  <2>2. disk' \in [Disks -> DiskRecords]
    BY <2>1 DEF DisksOK, DiskRecords
  <2>3. QED
    BY <2>1, <2>2 DEF DisksOK, DiskRecords
<1>3. CASE UNCHANGED <<medium, crash>>
  BY <1>2, <1>3 DEF DisksOK
<1>4. CASE /\ CanOpen(h) /\ CloseMedia({d})
           /\ \E good \in BOOLEAN : medium' = [medium EXCEPT ![d] = IF good THEN host[h].fs ELSE NoFs]
  BY <1>2, <1>4, OpenedFs DEF DisksOK, CloseMedia, FileSystems
<1>5. QED
  BY <1>3, <1>4 DEF MountImage

\* Unmounting disks empties their slots and their devices.
LEMMA UnmountDisks ==
  ASSUME DisksOK, NEW ds \in SUBSET Disks, Unmounted(ds)
  PROVE  /\ disk' \in [Disks -> DiskRecords] /\ medium' \in [Disks -> FileSystems]
         /\ \A d \in Disks : IF d \in ds THEN disk'[d] = EmptySlot /\ medium'[d] = NoFs
                             ELSE disk'[d] = disk[d] /\ medium'[d] = medium[d]
         /\ (\A d \in Disks : ~ Dead(medium[d])) => crash' = crash
<1>1. EmptySlot \in DiskRecords /\ NoFs \in FileSystems
  BY DEF EmptySlot, DiskRecords, FileSystems
<1>2. QED
  BY <1>1 DEF Unmounted, CloseMedia, DisksOK

\* The configuration holds host slots, and gives slots back.
LEMMA ConfigTypes ==
  /\ \A s \in DiskRecords : SlotToConfig(s) \in Hosts \cup {INVALID_HOST_SLOT}
  /\ \A c \in Hosts \cup {INVALID_HOST_SLOT} :
       /\ ConfigToSlot(c) \in DiskRecords
       /\ ConfigToSlot(c).host_slot = c
       /\ c # MAX_HOSTS
       /\ ConfigToSlot(c).file <=> c # INVALID_HOST_SLOT
       /\ c = INVALID_HOST_SLOT => ConfigToSlot(c) = EmptySlot
<1>1. ASSUME NEW s \in DiskRecords PROVE SlotToConfig(s) \in Hosts \cup {INVALID_HOST_SLOT}
  <2>1. s.host_slot \in 0 .. MAX_HOSTS \/ s.host_slot = 255
    BY DEF DiskRecords, HostSlots
  <2>2. MAX_HOSTS \in Nat /\ MAX_HOSTS < 255
    BY SlotsAssumption
  <2>3. SlotToConfig(s) = 255 \/ (~ (s.host_slot >= MAX_HOSTS) /\ SlotToConfig(s) = s.host_slot)
    BY DEF SlotToConfig
  <2>4. QED
    BY <2>1, <2>2, <2>3 DEF Hosts
<1>2. ASSUME NEW c \in Hosts \cup {INVALID_HOST_SLOT}
      PROVE  /\ ConfigToSlot(c) \in DiskRecords
             /\ ConfigToSlot(c).host_slot = c
             /\ c # MAX_HOSTS
             /\ ConfigToSlot(c).file <=> c # INVALID_HOST_SLOT
             /\ c = INVALID_HOST_SLOT => ConfigToSlot(c) = EmptySlot
  <2> MAX_HOSTS \in Nat /\ MAX_HOSTS < 255
    BY SlotsAssumption
  <2>1. CASE c = INVALID_HOST_SLOT
    <3>1. ConfigToSlot(c) = EmptySlot /\ c # MAX_HOSTS
      BY <2>1 DEF ConfigToSlot
    <3>2. EmptySlot = [host_slot |-> 255, file |-> FALSE, fileh |-> FALSE]
      BY DEF EmptySlot
    <3>3. EmptySlot \in DiskRecords /\ EmptySlot.host_slot = 255 /\ ~ EmptySlot.file
      BY <3>2 DEF DiskRecords
    <3>4. QED
      BY <2>1, <3>1, <3>3
  <2>2. CASE c \in Hosts
    <3>1. c # INVALID_HOST_SLOT /\ c <= MAX_HOSTS /\ c # MAX_HOSTS /\ c \in HostSlots
      BY <2>2 DEF Hosts, HostSlots
    <3>2. ConfigToSlot(c) = [host_slot |-> c, file |-> TRUE, fileh |-> FALSE]
      BY <3>1 DEF ConfigToSlot, EmptySlot
    <3>3. QED
      BY <3>1, <3>2 DEF DiskRecords
  <2>3. QED
    BY <2>1, <2>2
<1>3. QED
  BY <1>1, <1>2

\* A nonempty set of disks has a first one.
LEMMA FirstDisk ==
  ASSUME NEW S, S \subseteq Disks, S # {}
  PROVE  \E d \in S : \A e \in S : d <= e
<1> DEFINE lt == {ss \in Nat \X Nat : ss[1] < ss[2]}
<1>1. IsWellFoundedOn(lt, Nat)
  BY NatLessThanWellFounded, Zenon DEF OpToRel
<1>2. S \subseteq Nat
  BY DEF Disks
<1> PICK d \in S : \A e \in S : ~ (<<e, d>> \in lt)
  <2> HIDE DEF lt
  <2> QED BY <1>1, <1>2, WFMin
<1>3. ASSUME NEW e \in S PROVE d <= e
  <2>1. <<e, d>> \in Nat \X Nat /\ <<e, d>> \notin lt
    BY <1>2
  <2>2. <<e, d>>[1] = e /\ <<e, d>>[2] = d
    OBVIOUS
  <2>3. QED
    BY <1>2, <2>1, <2>2
<1>4. QED
  BY <1>3

\* The number of slots before the first empty one exists, and a rotation turns
\* the ids of at least two devices.
LEMMA Rotation ==
  ASSUME DisksOK, image_rotate
  PROVE  \E n \in 2 .. MAX_DISK_DEVICES :
           id' = [d \in Disks |-> IF d >= n THEN id[d] ELSE id[IF d = 0 THEN n - 1 ELSE d - 1]]
<1> DEFINE First(n) == /\ \A d \in Disks : d < n => disk[d].fileh
                       /\ n < MAX_DISK_DEVICES => ~ disk[n].fileh
           Empty == {d \in Disks : ~ disk[d].fileh}
           first == CHOOSE n \in 0 .. MAX_DISK_DEVICES : First(n)
<1>1. MAX_DISK_DEVICES \in Nat
  BY SlotsAssumption
<1>2. \E n \in 0 .. MAX_DISK_DEVICES : First(n)
  <2>1. CASE Empty = {}
    BY <1>1, <2>1 DEF Disks
  <2>2. CASE Empty # {}
    <3>1. PICK n \in Empty : \A e \in Empty : n <= e
      <4> Empty \subseteq Disks
        OBVIOUS
      <4> HIDE DEF Empty
      <4> QED BY <2>2, FirstDisk
    <3>2. \A d \in Disks : d < n => disk[d].fileh
      BY <1>1, <3>1 DEF Disks
    <3>3. QED
      BY <1>1, <3>1, <3>2 DEF Disks
  <2>3. QED
    BY <2>1, <2>2
<1>3. first \in 0 .. MAX_DISK_DEVICES
  <2> HIDE DEF First
  <2> QED BY <1>2
<1>4. /\ first > 1
      /\ id' = [d \in Disks |-> IF d >= first THEN id[d] ELSE id[IF d = 0 THEN first - 1 ELSE d - 1]]
  BY DEF image_rotate
<1> HIDE DEF first
<1>5. QED
  BY <1>1, <1>3, <1>4

\* While a MOUNT ALL is in progress it is at a disk.
LEMMA StepDisk ==
  ASSUME DisksOK, step # Done
  PROVE  step \in Disks /\ step + 1 \in 0 .. MAX_DISK_DEVICES /\ disk[step] \in DiskRecords
<1>1. MAX_DISK_DEVICES \in Nat /\ step \in 0 .. MAX_DISK_DEVICES
  BY SlotsAssumption DEF DisksOK
<1>2. step \in Disks /\ step + 1 \in 0 .. MAX_DISK_DEVICES
  BY <1>1 DEF Disks, Done
<1>3. QED
  BY <1>2 DEF DisksOK

\* The host slot of a disk is that of a host, none, or one too many.
LEMMA SlotKinds ==
  ASSUME NEW s \in DiskRecords
  PROVE  s.host_slot \in Hosts \/ s.host_slot = INVALID_HOST_SLOT \/ s.host_slot = MAX_HOSTS
<1>1. s.host_slot \in HostSlots \cup {INVALID_HOST_SLOT}
  BY DEF DiskRecords
<1>2. MAX_HOSTS \in Nat
  BY SlotsAssumption
<1>3. QED
  BY <1>1, <1>2 DEF HostSlots, Hosts

\* Each step keeps the hosts typed and each object with its one host.
LEMMA HostsStep ==
  ASSUME HostsOK, DisksOK, [Next]_vars
  PROVE  HostsOK'
<1> USE DEF HostsOK, hosts
<1>1. ASSUME NEW h \in Hosts, sio_mount_host(h) PROVE HostsOK'
  BY <1>1, MountHost DEF sio_mount_host
<1>2. ASSUME NEW h \in Hosts, sio_unmount_host(h) PROVE HostsOK'
  BY <1>2, UnmountHost DEF sio_unmount_host
<1>3. ASSUME NEW h \in Hosts, NEW n \in AllNames, sio_write_host_slots(h, n) PROVE HostsOK'
  BY <1>3, RenameHost DEF sio_write_host_slots
<1>4. CASE MountAllHost
  <2>1. step \in Disks /\ disk[step] \in DiskRecords
    BY <1>4, StepDisk DEF MountAllHost
  <2>2. CASE UNCHANGED hosts
    BY <2>2
  <2>3. CASE ~ UNCHANGED hosts
    <3>1. disk[step].host_slot \in Hosts
      <4>1. disk[step].host_slot # INVALID_HOST_SLOT /\ disk[step].host_slot # MAX_HOSTS
        BY <1>4, <2>3 DEF MountAllHost
      <4>2. QED
        BY <2>1, <4>1, SlotKinds
    <3>2. \E ok \in BOOLEAN : mount(disk[step].host_slot, ok)
      BY <1>4, <2>3 DEF MountAllHost
    <3>3. QED
      BY <3>1, <3>2, MountHost
  <2>4. QED
    BY <2>2, <2>3
<1>5. CASE UNCHANGED hosts
  BY <1>5
<1>6. QED
  BY <1>1, <1>2, <1>3, <1>4, <1>5
     DEF Next, vars, AllNames, sio_open_directory, sio_disk_image_mount, sio_disk_image_umount, get_handler_eject,
         ReadSector, sio_new_disk, sio_write_device_slots, sio_set_device_filename, mount_all,
         MountAllDisk, image_rotate, sio_read_directory_entry, sio_close_directory

\* A slot that is given another host and name is a slot.
LEMMA SlotRewritten ==
  ASSUME DisksOK, NEW d \in Disks, NEW s \in HostSlots, NEW named \in BOOLEAN,
         disk' = [disk EXCEPT ![d].host_slot = s, ![d].file = named]
  PROVE  /\ disk' \in [Disks -> DiskRecords]
         /\ \A e \in Disks \ {d} : disk'[e] = disk[e]
         /\ disk'[d].host_slot = s /\ disk'[d].file = named
<1>1. disk[d] \in DiskRecords
  BY DEF DisksOK
<1>2. /\ \A e \in Disks \ {d} : disk'[e] = disk[e]
      /\ disk'[d] = [disk[d] EXCEPT !.host_slot = s, !.file = named]
  BY DEF DisksOK
<1>3. disk'[d] \in DiskRecords /\ disk'[d].host_slot = s /\ disk'[d].file = named
  <2> DEFINE new == disk'[d]
  <2>1. new = [disk[d] EXCEPT !.host_slot = s, !.file = named]
    BY <1>2
  <2> HIDE DEF new
  <2>2. new \in DiskRecords
    BY ONLY <1>1, <2>1, s \in HostSlots, named \in BOOLEAN DEF DiskRecords
  <2>3. new.host_slot = s
    BY ONLY <1>1, <2>1, s \in HostSlots, named \in BOOLEAN DEF DiskRecords
  <2>4. new.file = named
    BY ONLY <1>1, <2>1, s \in HostSlots, named \in BOOLEAN DEF DiskRecords
  <2>5. QED
    BY <2>2, <2>3, <2>4 DEF new
<1>4. QED
  BY <1>2, <1>3 DEF DisksOK

\* Slots written back with one host changed are slots.
LEMMA SlotsRewritten ==
  ASSUME DisksOK, NEW d \in Disks, NEW s \in HostSlots, sio_write_device_slots(d, s),
         NEW x \in Disks
  PROVE  /\ disk'[x] \in DiskRecords
         /\ disk'[x].host_slot = IF x = d THEN s ELSE disk[x].host_slot
         /\ disk'[x].file = disk[x].file
<1>1. disk[x] \in DiskRecords
  BY DEF DisksOK
<1> DEFINE slot == IF x = d THEN s ELSE disk[x].host_slot
<1>2. disk'[x] = [host_slot |-> slot, file |-> disk[x].file, fileh |-> FALSE]
  BY <1>1 DEF sio_write_device_slots, DiskRecords
<1>3. slot \in HostSlots \cup {INVALID_HOST_SLOT}
  BY <1>1 DEF DiskRecords
<1> HIDE DEF slot
<1>4. disk'[x] \in DiskRecords /\ disk'[x].host_slot = slot /\ disk'[x].file = disk[x].file
  BY <1>1, <1>2, <1>3 DEF DiskRecords
<1>5. QED
  BY <1>4 DEF slot

\* Each step keeps the slots, the media and the configuration typed.
LEMMA DisksStep ==
  ASSUME HostsOK, DisksOK, [Next]_vars
  PROVE  DisksOK'
<1> DEFINE Rest == /\ id' \in [Disks -> Disks] /\ dir' \in Hosts \cup {-1}
                   /\ step' \in 0 .. MAX_DISK_DEVICES /\ rash' \in BOOLEAN /\ saved' \in BOOLEAN
           Slots == disk' \in [Disks -> DiskRecords]
           Media == medium' \in [Disks -> FileSystems]
           Saved == config' \in [Disks -> Hosts \cup {INVALID_HOST_SLOT}]
<1>a. DisksOK' <=> Rest /\ Slots /\ Media /\ Saved
  BY DEF DisksOK
<1>b. ASSUME Slots, _populate_config_from_slots PROVE Saved
  BY <1>b, ConfigTypes DEF _populate_config_from_slots
<1>c. ASSUME NEW s, Edited(s), s \in BOOLEAN PROVE rash' \in BOOLEAN /\ saved' \in BOOLEAN
  BY <1>c DEF Edited
<1>1. ASSUME NEW h \in Hosts, sio_mount_host(h) PROVE DisksOK'
  BY <1>1, <1>a DEF sio_mount_host, DisksOK
<1>2. ASSUME NEW h \in Hosts, sio_unmount_host(h) PROVE DisksOK'
  <2>1. Slots /\ Media
    BY <1>2, UnmountDisks DEF sio_unmount_host
  <2>2. rash' \in BOOLEAN /\ saved' \in BOOLEAN /\ UNCHANGED <<id, dir, config, step>>
    BY <1>2 DEF sio_unmount_host
  <2>3. QED
    BY <2>1, <2>2, <1>a DEF DisksOK
<1>3. ASSUME NEW h \in Hosts, sio_open_directory(h) PROVE DisksOK'
  BY <1>3, <1>a DEF sio_open_directory, DisksOK
<1>4. ASSUME NEW h \in Hosts, NEW n \in AllNames, sio_write_host_slots(h, n) PROVE DisksOK'
  <2>1. Slots /\ Saved
    BY <1>4, <1>b DEF sio_write_host_slots, DisksOK
  <2>2. rash' \in BOOLEAN /\ saved' \in BOOLEAN /\ UNCHANGED <<medium, id, dir, step>>
    BY <1>4 DEF sio_write_host_slots
  <2>3. QED
    BY <2>1, <2>2, <1>a DEF DisksOK
<1>5. ASSUME NEW d \in Disks, sio_disk_image_mount(d) PROVE DisksOK'
  BY <1>5, <1>a, MountDisk DEF sio_disk_image_mount, DisksOK
<1>6. ASSUME NEW d \in Disks, sio_disk_image_umount(d) PROVE DisksOK'
  <2>1. Slots /\ Media
    BY <1>6, UnmountDisks DEF sio_disk_image_umount
  <2>2. rash' \in BOOLEAN /\ saved' \in BOOLEAN /\ UNCHANGED <<id, dir, config, step>>
    BY <1>6, <1>c DEF sio_disk_image_umount
  <2>3. QED
    BY <2>1, <2>2, <1>a DEF DisksOK
<1>7. ASSUME NEW d \in Disks, get_handler_eject(d) PROVE DisksOK'
  <2>1. Saved /\ Media
    BY <1>7 DEF get_handler_eject, DisksOK, FileSystems
  <2>2. Slots
    <3>1. \A x \in Disks : config'[x] \in Hosts \cup {INVALID_HOST_SLOT}
      BY <2>1
    <3>2. \A x \in Disks : ConfigToSlot(config'[x]) \in DiskRecords
      BY <3>1, ConfigTypes
    <3>3. QED
      BY <1>7, <3>2 DEF get_handler_eject
  <2>3. rash' \in BOOLEAN /\ saved' \in BOOLEAN /\ UNCHANGED <<id, dir, step>>
    BY <1>7 DEF get_handler_eject
  <2>4. QED
    BY <2>1, <2>2, <2>3, <1>a DEF DisksOK
<1>8. ASSUME NEW d \in Disks, ReadSector(d) PROVE DisksOK'
  BY <1>8, <1>a DEF ReadSector, DisksOK
<1>9. ASSUME NEW d \in Disks, NEW h \in Hosts, sio_new_disk(d, h) PROVE DisksOK'
  <2>1. h \in HostSlots
    BY Sizes
  <2>2. Slots
    <3>1. CASE disk' = [disk EXCEPT ![d].host_slot = h, ![d].file = TRUE]
      BY <2>1, <3>1, SlotRewritten
    <3>2. ASSUME NEW b \in BOOLEAN, disk' = [disk EXCEPT ![d] = [host_slot |-> h, file |-> TRUE, fileh |-> b]]
          PROVE  Slots
      <4>1. [host_slot |-> h, file |-> TRUE, fileh |-> b] \in DiskRecords
        BY <2>1 DEF DiskRecords
      <4>2. QED
        BY <3>2, <4>1 DEF DisksOK
    <3>3. QED
      BY <1>9, <3>1, <3>2 DEF sio_new_disk
  <2>3. rash' \in BOOLEAN /\ saved' \in BOOLEAN /\ UNCHANGED <<medium, id, dir, config, step>>
    BY <1>9, <1>c DEF sio_new_disk
  <2>4. QED
    BY <2>2, <2>3, <1>a DEF DisksOK
<1>10. ASSUME NEW d \in Disks, NEW s \in HostSlots, sio_write_device_slots(d, s) PROVE DisksOK'
  <2>1. \A x \in Disks : disk'[x] \in DiskRecords
    BY <1>10, SlotsRewritten
  <2>2. Slots
    BY <1>10, <2>1 DEF sio_write_device_slots
  <2>3. Saved
    BY <1>10, <1>b, <2>2 DEF sio_write_device_slots
  <2>4. rash' \in BOOLEAN /\ saved' \in BOOLEAN /\ UNCHANGED <<medium, id, dir, step>>
    BY <1>10, <1>c DEF sio_write_device_slots
  <2>5. QED
    BY <2>2, <2>3, <2>4, <1>a DEF DisksOK
<1>11. ASSUME NEW d \in Disks, NEW s \in HostSlots, NEW named \in BOOLEAN, sio_set_device_filename(d, s, named)
       PROVE  DisksOK'
  <2>2. Slots
    BY <1>11, SlotRewritten DEF sio_set_device_filename
  <2>3. Saved
    BY <1>11, <1>b, <2>2 DEF sio_set_device_filename
  <2>4. rash' \in BOOLEAN /\ saved' \in BOOLEAN /\ UNCHANGED <<medium, id, dir, step>>
    BY <1>11, <1>c DEF sio_set_device_filename
  <2>5. QED
    BY <2>2, <2>3, <2>4, <1>a DEF DisksOK
<1>12. CASE mount_all
  BY <1>12, <1>a, Sizes DEF mount_all, DisksOK
<1>13. CASE MountAllHost
  <2>1. UNCHANGED <<disk, medium, id, dir, config, rash, saved>>
    BY <1>13 DEF MountAllHost
  <2>2. step' \in {step, step + 1, Done}
    BY <1>13 DEF MountAllHost
  <2>3. QED
    BY <1>13, <1>a, <2>1, <2>2, StepDisk, Sizes DEF DisksOK, MountAllHost
<1>14. CASE MountAllDisk
  <2>1. step \in Disks /\ step + 1 \in 0 .. MAX_DISK_DEVICES
    BY <1>14, StepDisk DEF MountAllDisk
  <2>2. Slots /\ Media
    BY <1>14, <2>1, MountDisk DEF MountAllDisk
  <2>3. step' \in {step + 1, Done} /\ UNCHANGED <<id, dir, config, rash, saved>>
    BY <1>14 DEF MountAllDisk
  <2>4. QED
    BY <1>a, <2>1, <2>2, <2>3, Sizes DEF DisksOK
<1>15. CASE image_rotate
  <2>1. PICK n \in 2 .. MAX_DISK_DEVICES :
          id' = [d \in Disks |-> IF d >= n THEN id[d] ELSE id[IF d = 0 THEN n - 1 ELSE d - 1]]
    BY <1>15, Rotation
  <2>2. id' \in [Disks -> Disks]
    <3>1. \A d \in Disks : d >= n \/ (IF d = 0 THEN n - 1 ELSE d - 1) \in Disks
      BY Sizes DEF Disks
    <3>2. QED
      BY <2>1, <3>1 DEF DisksOK
  <2>3. QED
    BY <1>15, <1>a, <2>2 DEF image_rotate, DisksOK
<1>16. CASE sio_read_directory_entry
  BY <1>16, <1>a DEF sio_read_directory_entry, DisksOK
<1>17. CASE sio_close_directory
  BY <1>17, <1>a DEF sio_close_directory, DisksOK
<1>18. CASE UNCHANGED vars
  BY <1>18, <1>a DEF vars, DisksOK
<1>19. QED
  BY <1>1, <1>2, <1>3, <1>4, <1>5, <1>6, <1>7, <1>8, <1>9, <1>10, <1>11, <1>12, <1>13, <1>14,
     <1>15, <1>16, <1>17, <1>18 DEF Next, AllNames

-----------------------------------------------------------------------------
(***************************************************************************)
(* While no rash command is given, every image is found by its slot.       *)
(***************************************************************************)
\* What a started mount of host h leaves of the images and the directory.
LEMMA MountKeepsSound ==
  ASSUME HostsOK, DisksOK, Sound, NEW h \in Hosts, NEW ok \in BOOLEAN, mount(h, ok),
         UNCHANGED <<disk, medium, dir, crash>>
  PROVE  Sound'
<1>1. /\ running \subseteq running'
      /\ \A g \in Hosts : /\ host[g].fs \in running => host'[g].fs = host[g].fs
                          /\ Readable(g) => Readable(g)'
  BY MountHost
<1>2. Found'
  BY <1>1 DEF Sound, Found
<1>3. dir \in Hosts \cup {-1}
  BY DEF DisksOK
<1>4. (dir # -1 => Readable(dir))'
  BY <1>1, <1>3 DEF Sound, Readable
<1>5. QED
  BY <1>2, <1>4 DEF Sound, Readable

\* Mounting an image of disk d from the host of its slot.
LEMMA ImageKeepsSound ==
  ASSUME HostsOK, DisksOK, Sound, NEW d \in Disks, disk[d].host_slot \in Hosts,
         MountImage(d, disk[d].host_slot), UNCHANGED <<hosts, dir>>
  PROVE  Sound'
<1> DEFINE h == disk[d].host_slot
<1>1. \A e \in Disks : ~ Dead(medium[e])
  BY FoundAlive DEF Sound
<1>2. /\ \A e \in Disks : disk'[e].host_slot = disk[e].host_slot
      /\ \A e \in Disks : \/ medium'[e] = medium[e] \/ medium'[e] = NoFs
                          \/ e = d /\ CanOpen(h) /\ medium'[e] = host[h].fs
      /\ crash' = crash
  BY <1>1, MountDisk
<1>3. UNCHANGED <<host, running, dir>>
  BY DEF hosts
<1>4. CanOpen(h) /\ host[h].fs \in Objects => host[h].fs \in running
  BY OpenedFs
<1>5. NoFs \notin Objects
  BY DEF Objects
<1>6. Found'
  BY <1>2, <1>3, <1>4, <1>5 DEF Sound, Found
<1>7. QED
  BY <1>2, <1>3, <1>6 DEF Sound, Readable

\* Slots that are edited so that no image goes astray.
LEMMA EditKeepsSound ==
  ASSUME HostsOK, DisksOK, Sound, UNCHANGED <<hosts, dir, crash>>,
         \A d \in Disks : medium'[d] \in {medium[d], NoFs},
         ~ Astray(host, disk', medium'), \A d \in Disks : disk'[d].host_slot # MAX_HOSTS
  PROVE  Sound'
<1>1. UNCHANGED <<host, running, dir, crash>>
  BY DEF hosts
<1>2. NoFs \notin Objects
  BY DEF Objects
<1>3. Found'
  BY <1>1, <1>2 DEF Astray, Sound, Found
<1>4. QED
  BY <1>1, <1>3 DEF Sound, Readable

\* The step lemma of NoDeadFileSystem.
LEMMA SoundStep ==
  ASSUME Inv, [Next]_vars, ~ rash'
  PROVE  Sound'
<1>a. HostsOK /\ DisksOK /\ HostsOK' /\ DisksOK'
  BY HostsStep, DisksStep DEF Inv
<1>b. ASSUME ~ rash PROVE Sound
  BY <1>b DEF Inv
<1>c. ASSUME ~ rash PROVE \A d \in Disks : ~ Dead(medium[d])
  BY <1>a, <1>b, <1>c, FoundAlive DEF Sound
<1>d. NoFs \notin Objects
  BY DEF Objects
<1>1. ASSUME NEW h \in Hosts, sio_mount_host(h) PROVE Sound'
  BY <1>a, <1>b, <1>1, MountKeepsSound DEF sio_mount_host
<1>2. ASSUME NEW h \in Hosts, sio_unmount_host(h) PROVE Sound'
  <2> DEFINE ds == {d \in Disks : disk[d].host_slot = h}
  <2>1. ~ rash /\ dir # h /\ dir' = dir /\ Sound
    BY <1>b, <1>2 DEF sio_unmount_host
  <2>2. /\ \A d \in Disks : IF d \in ds THEN disk'[d] = EmptySlot /\ medium'[d] = NoFs
                            ELSE disk'[d] = disk[d] /\ medium'[d] = medium[d]
        /\ crash' = crash
    BY <1>2, <1>a, <1>c, <2>1, UnmountDisks DEF sio_unmount_host
  <2>3. /\ \A g \in Hosts \ {h} : host'[g] = host[g]
        /\ running \ {host[h].fs} \subseteq running'
    BY <1>2, <1>a, UnmountHost DEF sio_unmount_host
  <2>4. EmptySlot.host_slot # MAX_HOSTS
    BY Sizes DEF EmptySlot
  <2>5. \A d \in Disks : disk'[d].host_slot # MAX_HOSTS
    BY <2>1, <2>2, <2>4 DEF Sound
  <2>6. Found'
    <3> SUFFICES ASSUME NEW d \in Disks, medium'[d] \in Objects
                 PROVE  /\ medium'[d] \in running' /\ disk'[d].host_slot \in Hosts
                        /\ host'[disk'[d].host_slot].fs = medium'[d]
      BY DEF Found
    <3>1. d \notin ds /\ disk'[d] = disk[d] /\ medium'[d] = medium[d]
      BY <1>d, <2>2
    <3>2. medium[d] \in running /\ disk[d].host_slot \in Hosts /\ host[disk[d].host_slot].fs = medium[d]
      BY <2>1, <3>1 DEF Sound, Found
    <3>3. medium[d] # host[h].fs
      BY <1>a, <3>1, <3>2 DEF HostsOK
    <3>4. QED
      BY <2>3, <3>1, <3>2, <3>3
  <2>7. (dir # -1 => Readable(dir))'
    BY <1>a, <2>1, <2>3 DEF Sound, Readable, DisksOK
  <2>8. QED
    BY <2>1, <2>2, <2>5, <2>6, <2>7 DEF Sound, Readable
<1>3. ASSUME NEW h \in Hosts, sio_open_directory(h) PROVE Sound'
  <2>1. Sound /\ UNCHANGED <<host, running, disk, medium, crash>>
    BY <1>b, <1>3 DEF sio_open_directory, hosts
  <2>2. dir' = -1 \/ (dir' = h /\ host[h].fs # NoFs)
    BY <1>a, <1>3, OpenedFs DEF sio_open_directory
  <2>3. QED
    BY <2>1, <2>2 DEF Sound, Found, Readable
<1>4. ASSUME NEW h \in Hosts, NEW n \in AllNames, sio_write_host_slots(h, n) PROVE Sound'
  <2>1. ~ rash /\ Sound /\ crash' = crash /\ ~ Astray(host', disk, medium) /\ UNCHANGED <<disk, medium, dir>>
    BY <1>b, <1>4 DEF sio_write_host_slots
  <2>2. /\ \A g \in Hosts : Readable(g) => Readable(g)'
        /\ \A g \in Hosts \ {h} : host'[g] = host[g]
        /\ running \ {host[h].fs} \subseteq running'
        /\ host'[h].fs = host[h].fs => running' = running
    BY <1>a, <1>4, RenameHost DEF sio_write_host_slots
  <2>3. Found'
    <3> SUFFICES ASSUME NEW d \in Disks, medium[d] \in Objects
                 PROVE  /\ medium[d] \in running' /\ disk[d].host_slot \in Hosts
                        /\ host'[disk[d].host_slot].fs = medium[d]
      BY <2>1 DEF Found
    <3>1. disk[d].host_slot \in Hosts /\ host'[disk[d].host_slot].fs = medium[d]
      BY <2>1 DEF Astray
    <3>2. medium[d] \in running /\ host[disk[d].host_slot].fs = medium[d]
      BY <2>1 DEF Sound, Found
    <3>3. CASE medium[d] = host[h].fs
      <4>1. disk[d].host_slot = h
        BY <1>a, <3>1, <3>2, <3>3 DEF HostsOK
      <4>2. QED
        BY <2>2, <3>1, <3>2, <4>1
    <3>4. CASE medium[d] # host[h].fs
      BY <2>2, <3>1, <3>2, <3>4
    <3>5. QED
      BY <3>3, <3>4
  <2>4. (dir # -1 => Readable(dir))'
    BY <1>a, <2>1, <2>2 DEF Sound, Readable, DisksOK
  <2>5. QED
    BY <2>1, <2>3, <2>4 DEF Sound, Readable
<1>5. ASSUME NEW d \in Disks, sio_disk_image_mount(d) PROVE Sound'
  BY <1>a, <1>b, <1>5, ImageKeepsSound DEF sio_disk_image_mount
<1>6. ASSUME NEW d \in Disks, sio_disk_image_umount(d) PROVE Sound'
  <2>1. /\ ~ rash /\ Sound /\ ~ Astray(host, disk', medium') /\ UNCHANGED <<hosts, dir>>
        /\ \A e \in Disks : disk'[e].host_slot # MAX_HOSTS
    BY <1>b, <1>6 DEF sio_disk_image_umount, Edited
  <2>2. crash' = crash /\ \A e \in Disks : medium'[e] \in {medium[e], NoFs}
    BY <1>6, <1>a, <1>c, <2>1, UnmountDisks DEF sio_disk_image_umount
  <2>3. QED
    BY <1>a, <2>1, <2>2, EditKeepsSound
<1>7. ASSUME NEW d \in Disks, get_handler_eject(d) PROVE Sound'
  <2>1. /\ ~ rash /\ Sound /\ ~ Astray(host, disk', medium') /\ UNCHANGED <<hosts, dir>>
        /\ \A e \in Disks : disk'[e] = ConfigToSlot(config'[e])
    BY <1>b, <1>7 DEF get_handler_eject
  <2>2. crash' = crash
    BY <1>7, <1>c, <2>1 DEF get_handler_eject, CloseMedia
  <2>3. \A e \in Disks : medium'[e] \in {medium[e], NoFs}
    BY <1>7, <1>a DEF get_handler_eject, DisksOK
  <2>4. \A e \in Disks : config'[e] \in Hosts \cup {INVALID_HOST_SLOT}
    BY <1>a DEF DisksOK
  <2>5. \A e \in Disks : disk'[e].host_slot # MAX_HOSTS
    BY <2>1, <2>4, ConfigTypes
  <2>6. QED
    BY <1>a, <2>1, <2>2, <2>3, <2>5, EditKeepsSound
<1>8. ASSUME NEW d \in Disks, ReadSector(d) PROVE Sound'
  BY <1>c, <1>8 DEF ReadSector
<1>9. ASSUME NEW d \in Disks, NEW h \in Hosts, sio_new_disk(d, h) PROVE Sound'
  BY <1>a, <1>b, <1>9, EditKeepsSound DEF sio_new_disk, Edited
<1>10. ASSUME NEW d \in Disks, NEW s \in HostSlots, sio_write_device_slots(d, s) PROVE Sound'
  BY <1>a, <1>b, <1>10, EditKeepsSound DEF sio_write_device_slots, Edited
<1>11. ASSUME NEW d \in Disks, NEW s \in HostSlots, NEW named \in BOOLEAN, sio_set_device_filename(d, s, named)
       PROVE  Sound'
  BY <1>a, <1>b, <1>11, EditKeepsSound DEF sio_set_device_filename, Edited
<1>12. CASE MountAllHost
  <2>1. step \in Disks /\ Sound /\ disk[step] \in DiskRecords
    BY <1>a, <1>b, <1>12, StepDisk DEF MountAllHost
  <2>2. disk[step].host_slot # MAX_HOSTS
    BY <2>1 DEF Sound
  <2>3. UNCHANGED <<disk, medium, dir>>
    BY <1>12 DEF MountAllHost
  <2>4. CASE disk[step].host_slot = INVALID_HOST_SLOT
    BY <1>12, <2>1, <2>3, <2>4 DEF MountAllHost, hosts, Sound, Found, Readable
  <2>5. CASE disk[step].host_slot # INVALID_HOST_SLOT
    <3>1. crash' = crash /\ \E ok \in BOOLEAN : mount(disk[step].host_slot, ok)
      BY <1>12, <2>2, <2>5 DEF MountAllHost
    <3>2. disk[step].host_slot \in Hosts
      BY <2>1, <2>2, <2>5, SlotKinds
    <3>3. QED
      BY <1>a, <2>1, <2>3, <3>1, <3>2, MountKeepsSound
  <2>6. QED
    BY <2>4, <2>5
<1>13. CASE MountAllDisk
  <2>1. step \in Disks /\ Sound
    BY <1>a, <1>b, <1>13, StepDisk DEF MountAllDisk
  <2>2. QED
    BY <1>a, <1>13, <2>1, ImageKeepsSound DEF MountAllDisk
<1>14. CASE sio_read_directory_entry
  BY <1>a, <1>b, <1>14 DEF sio_read_directory_entry, Sound, Readable
<1>15. CASE sio_close_directory
  BY <1>b, <1>15 DEF sio_close_directory, hosts, Sound, Found
<1>16. CASE mount_all \/ image_rotate \/ UNCHANGED vars
  BY <1>b, <1>16 DEF mount_all, image_rotate, vars, hosts, Sound, Found, Readable
<1>17. QED
  BY <1>1, <1>2, <1>3, <1>4, <1>5, <1>6, <1>7, <1>8, <1>9, <1>10, <1>11, <1>12, <1>13, <1>14,
     <1>15, <1>16 DEF Next, AllNames

-----------------------------------------------------------------------------
(***************************************************************************)
(* The theorems.                                                           *)
(***************************************************************************)
\* setup() leaves hosts and slots that satisfy the invariant.
LEMMA InitInv ==
  ASSUME Init
  PROVE  Inv
<1>1. HostsOK
  <2>1. host \in [Hosts -> [name : Names \cup {"", "SD"}, type : {"UNINITIALIZED"}, fs : {NoFs}]]
    BY DEF Init
  <2>2. \A h \in Hosts : host[h] \in HostRecords /\ host[h].type = "UNINITIALIZED" /\ host[h].fs = NoFs
    BY <2>1 DEF HostRecords, FileSystems, AllNames
  <2>3. host \in [Hosts -> HostRecords]
    BY <2>1, <2>2
  <2>4. live = {} /\ running = {} /\ made = 0
    BY DEF Init
  <2>5. NoFs \notin Objects /\ made \in 0 .. MaxFs
    <3>1. MaxFs \in Nat
      BY SlotsAssumption
    <3>2. QED
      BY <2>4, <3>1 DEF Objects
  <2>6. QED
    BY <2>2, <2>3, <2>4, <2>5 DEF HostsOK
<1>2. config \in [Disks -> Hosts \cup {INVALID_HOST_SLOT}] /\ disk = [d \in Disks |-> ConfigToSlot(config[d])]
  BY DEF Init
<1>3. \A d \in Disks : disk[d] \in DiskRecords /\ disk[d].host_slot # MAX_HOSTS
  BY <1>2, ConfigTypes
<1>4. DisksOK
  BY <1>2, <1>3, Sizes DEF Init, DisksOK, FileSystems
<1>5. medium = [d \in Disks |-> NoFs] /\ crash = "none" /\ dir = -1
  BY DEF Init
<1>6. Sound
  BY <1>3, <1>5 DEF Sound, Found, Objects
<1>7. QED
  BY <1>1, <1>4, <1>6 DEF Inv

\* The invariant holds throughout.
LEMMA Invariant == Spec => []Inv
<1>1. Inv /\ [Next]_vars => Inv'
  BY HostsStep, DisksStep, SoundStep DEF Inv
<1>2. QED
  BY InitInv, <1>1, PTL DEF Spec

\* The types of the state the code keeps: a host slot is never anything but a
\* host, none or one too many, and only the SD card's host has its file system.
THEOREM SlotsTyped == Spec => []TypeOK
<1>1. Inv => TypeOK
  BY DEF Inv, HostsOK, DisksOK, HostRecords, DiskRecords, FileSystems, AllNames, TypeOK
<1>2. QED
  BY <1>1, Invariant, PTL

\* No command uses a file system that is deleted or missing, whatever hosts and
\* images are mounted and unmounted, until commands come in one of the five orders
\* that the code does not survive, which NoDeadFileSystem names.
THEOREM FileSystemsOutliveImages == Spec => []NoDeadFileSystem
<1>1. Inv => NoDeadFileSystem
  BY FoundAlive DEF Inv, NoDeadFileSystem, Sound
<1>2. QED
  BY <1>1, Invariant, PTL

\* A rotation gives each drive number to exactly one device again.
THEOREM DrivesAnswered == Spec => []DrivesPermuted
<1>1. Init => DrivesPermuted
  <2>1. Init => id = [d \in Disks |-> d]
    BY DEF Init
  <2>2. QED
    BY <2>1 DEF DrivesPermuted
<1>2. Inv /\ DrivesPermuted /\ [Next]_vars => DrivesPermuted'
  <2> SUFFICES ASSUME Inv, DrivesPermuted, [Next]_vars PROVE DrivesPermuted'
    OBVIOUS
  <2>1. CASE image_rotate
    <3>1. PICK n \in 2 .. MAX_DISK_DEVICES :
            id' = [d \in Disks |-> IF d >= n THEN id[d] ELSE id[IF d = 0 THEN n - 1 ELSE d - 1]]
      BY <2>1, Rotation DEF Inv
    <3> DEFINE from(d) == IF d >= n THEN d ELSE IF d = 0 THEN n - 1 ELSE d - 1
    <3>2. \A d \in Disks : from(d) \in Disks /\ id'[d] = id[from(d)]
      BY <3>1, Sizes DEF Disks
    <3>3. \A d, e \in Disks : from(d) = from(e) => d = e
      BY Sizes DEF Disks
    <3> HIDE DEF from
    <3>4. QED
      BY <3>2, <3>3 DEF DrivesPermuted
  <2>2. CASE UNCHANGED id
    BY <2>2 DEF DrivesPermuted
  <2>3. QED
    BY <2>1, <2>2
       DEF Next, vars, sio_mount_host, sio_unmount_host, sio_open_directory, sio_write_host_slots,
           sio_disk_image_mount, sio_disk_image_umount, get_handler_eject, ReadSector, sio_new_disk,
           sio_write_device_slots, sio_set_device_filename, mount_all, MountAllHost, MountAllDisk,
           sio_read_directory_entry, sio_close_directory
<1>3. QED
  BY <1>1, <1>2, Invariant, PTL DEF Spec

\* The saved mounts are those of the slots, since they were saved.
Agree == saved => \A d \in Disks : config[d] = SlotToConfig(disk[d])

\* What the configuration says of a slot returns from it as it was.
LEMMA SlotReturns ==
  ASSUME NEW c \in Hosts \cup {INVALID_HOST_SLOT}
  PROVE  SlotToConfig(ConfigToSlot(c)) = c
<1>1. ConfigToSlot(c).host_slot = c /\ (ConfigToSlot(c).file <=> c # INVALID_HOST_SLOT)
  BY ConfigTypes
<1>2. c \in Hosts => ~ (c >= MAX_HOSTS)
  BY Sizes DEF Hosts
<1>3. QED
  BY <1>1, <1>2 DEF SlotToConfig

\* Slots that were saved come back from the configuration as they were.
THEOREM SlotsSurvive == Spec => []SavedSlotsReturn
<1>1. Init => Agree
  <2>1. Init => /\ config \in [Disks -> Hosts \cup {INVALID_HOST_SLOT}]
                /\ disk = [d \in Disks |-> ConfigToSlot(config[d])]
    BY DEF Init
  <2>2. QED
    BY <2>1, SlotReturns DEF Agree
<1>2. Inv /\ Agree /\ [Next]_vars => Agree'
  <2> SUFFICES ASSUME Inv, Agree, [Next]_vars, saved' PROVE \A d \in Disks : config'[d] = SlotToConfig(disk'[d])
    BY DEF Agree
  <2> DEFINE Kept == \A d \in Disks : config'[d] = SlotToConfig(disk'[d])
  <2>a. HostsOK /\ DisksOK /\ DisksOK'
    BY DisksStep DEF Inv
  <2>b. ASSUME NEW d \in Disks, disk[d].host_slot \in Hosts, MountImage(d, disk[d].host_slot),
               UNCHANGED <<config, saved>>
        PROVE  Kept
    BY <2>a, <2>b, MountDisk DEF Agree, SlotToConfig
  <2>1. CASE _populate_config_from_slots
    BY <2>1 DEF _populate_config_from_slots
  <2>2. CASE UNCHANGED <<disk, config, saved>>
    BY <2>2 DEF Agree
  <2>3. ASSUME NEW d \in Disks, sio_disk_image_mount(d) PROVE Kept
    BY <2>3, <2>b DEF sio_disk_image_mount
  <2>4. CASE MountAllDisk
    BY <2>4, <2>a, <2>b, StepDisk DEF MountAllDisk
  <2>5. ASSUME NEW d \in Disks, get_handler_eject(d) PROVE Kept
    <3>1. \A e \in Disks : disk'[e] = ConfigToSlot(config'[e])
      BY <2>5 DEF get_handler_eject
    <3>2. \A e \in Disks : config'[e] \in Hosts \cup {INVALID_HOST_SLOT}
      BY <2>a DEF DisksOK
    <3>3. QED
      BY <3>1, <3>2, SlotReturns
  <2>6. ASSUME NEW h \in Hosts, sio_unmount_host(h) PROVE Kept
    BY <2>6 DEF sio_unmount_host, Agree
  <2>7. QED
    BY <2>1, <2>2, <2>3, <2>4, <2>5, <2>6
       DEF Next, vars, AllNames, Edited, sio_mount_host, sio_open_directory, sio_write_host_slots,
           sio_disk_image_umount, ReadSector, sio_new_disk, sio_write_device_slots,
           sio_set_device_filename, mount_all, MountAllHost, image_rotate,
           sio_read_directory_entry, sio_close_directory
<1>3. Inv /\ Agree => SavedSlotsReturn
  <2> SUFFICES ASSUME Inv, Agree, saved, NEW d \in Disks
               PROVE  IF disk[d].host_slot \in Hosts /\ disk[d].file
                        THEN /\ ConfigToSlot(config[d]).host_slot = disk[d].host_slot
                             /\ ConfigToSlot(config[d]).file
                        ELSE ConfigToSlot(config[d]) = EmptySlot
    BY DEF SavedSlotsReturn
  <2>1. config[d] = SlotToConfig(disk[d]) /\ disk[d] \in DiskRecords
    BY DEF Agree, Inv, DisksOK
  <2>2. CASE disk[d].host_slot \in Hosts /\ disk[d].file
    <3>1. config[d] = disk[d].host_slot /\ config[d] # INVALID_HOST_SLOT
      BY <2>1, <2>2, Sizes DEF SlotToConfig, Hosts
    <3>2. QED
      BY <2>2, <3>1, ConfigTypes
  <2>3. CASE ~ (disk[d].host_slot \in Hosts /\ disk[d].file)
    <3>1. config[d] = INVALID_HOST_SLOT
      BY <2>1, <2>3, SlotKinds, Sizes DEF SlotToConfig
    <3>2. QED
      BY <2>3, <3>1, ConfigTypes
  <2>4. QED
    BY <2>2, <2>3
<1>4. QED
  BY <1>1, <1>2, <1>3, Invariant, PTL DEF Spec
=============================================================================
