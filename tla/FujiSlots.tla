----------------------------- MODULE FujiSlots -----------------------------
(***************************************************************************)
(* Host slots and disk slots of the FUJI device (lib/fuji/fujiHost.cpp,    *)
(* fujiDisk.cpp, lib/device/sio/fuji.cpp, and the web handlers of          *)
(* lib/http/httpService.cpp that use them).                                *)
(*                                                                         *)
(* A host owns its file system object; the handle of a mounted image keeps *)
(* a pointer into it.  Nothing counts these pointers: what keeps them      *)
(* valid is that UNMOUNT HOST unmounts the disks of the host first, and it *)
(* finds them by the host number in their slots.  A dereference of a null  *)
(* pointer, of a deleted object or past an array ends the program here.    *)
(*                                                                         *)
(* Commands run one at a time.  Names of hosts are kept in the slots and   *)
(* in the configuration alike, so that only the mounts are kept twice.     *)
(* SMB and FTP hosts behave like TNFS hosts.                               *)
(***************************************************************************)
EXTENDS Integers, FiniteSets

CONSTANTS
  MAX_HOSTS, MAX_DISK_DEVICES,
  Names,        \* names of remote hosts
  MaxFs,        \* bound on the file system objects created
  MaxCommands   \* bound on the commands given

ASSUME SlotsAssumption ==
  /\ MAX_HOSTS \in Nat \ {0} /\ MAX_DISK_DEVICES \in Nat \ {0}
  /\ MAX_HOSTS < 255 /\ MaxFs \in Nat /\ MaxCommands \in Nat
  /\ "SD" \notin Names /\ "" \notin Names

VARIABLES
  host,      \* _fnHosts: name, type and file system of each
  live,      \* file system objects that exist, and those that are started
  running,
  made,      \* number of file system objects created so far
  disk,      \* _fnDisks: host_slot, whether a file is named, whether fileh is set
  medium,    \* the file system of the handle each disk device holds, or NoFs
  id,        \* the device id of each disk device
  dir,       \* _current_open_directory_slot, -1 for none
  config,    \* the saved mounts: the host slot of each disk, or INVALID_HOST_SLOT
  step,      \* the next disk of a MOUNT ALL in progress, or Done
  commands,  \* commands given so far
  crash,     \* what the program died of
  rash,      \* history: the commands came in an order the code does not survive
  saved      \* history: the slots were not changed since they were saved

hosts == <<host, live, running, made>>
vars == <<hosts, disk, medium, id, dir, config, step, commands, crash, rash, saved>>

Hosts == 0 .. MAX_HOSTS - 1
Disks == 0 .. MAX_DISK_DEVICES - 1
INVALID_HOST_SLOT == 255
HostSlots == 0 .. MAX_HOSTS           \* what a command may name, one too many
Objects == 1 .. MaxFs
NoFs == 0
fnSDFAT == -1                         \* the global file system of the SD card
Done == MAX_DISK_DEVICES
EmptySlot == [host_slot |-> INVALID_HOST_SLOT, file |-> FALSE, fileh |-> FALSE]

(***************************************************************************)
(* fujiHost.                                                               *)
(***************************************************************************)
Dead(fs) == fs \in Objects \ live

\* Mutant: the host forgets its file system and not its type.
set_hostname_KeepType(h, n) ==
  LET fs == host[h].fs IN
  IF host[h].type = "UNINITIALIZED" \/ fs = NoFs \/ n = host[h].name
    THEN host' = [host EXCEPT ![h].name = n] /\ UNCHANGED <<live, running, made, crash>>
  ELSE /\ host' = [host EXCEPT ![h].name = n, ![h].fs = NoFs]
       /\ live' = live \ {fs} /\ running' = running \ {fs}
       /\ UNCHANGED <<made, crash>>

\* fujiHost::set_hostname: a name that differs ends what the host was, by
\* cleanup(), which calls a method of _fs even when it is null.
set_hostname(h, n) ==
  LET fs == host[h].fs IN
  IF host[h].type = "UNINITIALIZED"
    THEN /\ host' = [host EXCEPT ![h].name = n]
         /\ UNCHANGED <<live, running, made, crash>>
  ELSE IF n = host[h].name THEN UNCHANGED <<hosts, crash>>
  ELSE IF fs = NoFs THEN crash' = "null" /\ UNCHANGED hosts
  ELSE /\ host' = [host EXCEPT ![h] = [name |-> n, type |-> "UNINITIALIZED", fs |-> NoFs]]
       /\ live' = live \ {fs} /\ running' = running \ {fs}
       /\ UNCHANGED <<made, crash>>

\* fujiHost::mount has something to do: the host is not connected.
Connected(h) ==
  \/ host[h].type = "LOCAL"
  \/ host[h].type = "TNFS" /\ host[h].fs # NoFs /\ host[h].fs \in running

\* mount_local, or mount_tnfs with a new file system object, started or not.
\* An object that was not started before is forgotten.
mount(h, ok) ==
  IF Connected(h) THEN ok /\ UNCHANGED hosts
  ELSE IF host[h].name = "SD"
    THEN /\ ok
         /\ host' = [host EXCEPT ![h].type = "LOCAL", ![h].fs = fnSDFAT]
         /\ UNCHANGED <<live, running, made>>
    ELSE /\ made < MaxFs
         /\ ok => host[h].name # ""
         /\ made' = made + 1
         /\ host' = [host EXCEPT ![h].type = "TNFS", ![h].fs = made']
         /\ live' = live \cup {made'}
         /\ running' = IF ok THEN running \cup {made'} ELSE running

\* unmount_tnfs; the SD card stays.
umount(h) ==
  IF host[h].type = "LOCAL" THEN UNCHANGED hosts
  ELSE /\ host' = [host EXCEPT ![h].fs = NoFs]
       /\ live' = live \ {host[h].fs} /\ running' = running \ {host[h].fs}
       /\ UNCHANGED made

\* filehandler_open can succeed.
CanOpen(h) == host[h].fs = fnSDFAT \/ host[h].fs \in running

(***************************************************************************)
(* Disks.                                                                  *)
(***************************************************************************)
\* The media of the disks in ds are destroyed, which closes their handles.
CloseMedia(ds) ==
  crash' = IF \E d \in ds : Dead(medium[d]) THEN "dead" ELSE crash

\* The slots that a disk no longer finds its host by.
Astray(hs, ds, ms) ==
  \E d \in Disks : ms[d] \in Objects /\ (ds[d].host_slot \notin Hosts
                                          \/ hs[ds[d].host_slot].fs # ms[d])

\* The history of a command that edits slots; s says whether they are saved.
Edited(s) ==
  /\ rash' = (rash \/ Astray(host, disk', medium')
                   \/ \E d \in Disks : disk'[d].host_slot = MAX_HOSTS)
  /\ saved' = s

\* _populate_config_from_slots, and its inverse.
SlotToConfig(s) ==
  IF s.host_slot >= MAX_HOSTS \/ ~ s.file THEN INVALID_HOST_SLOT ELSE s.host_slot

_populate_config_from_slots == config' = [d \in Disks |-> SlotToConfig(disk'[d])]

\* Mutant: host 0 is taken for none.
ConfigToSlot_NoZero(c) ==
  IF c > 0 /\ c <= MAX_HOSTS THEN [EmptySlot EXCEPT !.host_slot = c, !.file = TRUE] ELSE EmptySlot

ConfigToSlot(c) ==
  IF c # INVALID_HOST_SLOT /\ c <= MAX_HOSTS
    THEN [EmptySlot EXCEPT !.host_slot = c, !.file = TRUE] ELSE EmptySlot

\* setup(): hosts and slots are what the configuration says.
Init ==
  /\ host \in [Hosts -> [name : Names \cup {"", "SD"}, type : {"UNINITIALIZED"}, fs : {NoFs}]]
  /\ live = {} /\ running = {} /\ made = 0
  /\ config \in [Disks -> Hosts \cup {INVALID_HOST_SLOT}]
  /\ disk = [d \in Disks |-> ConfigToSlot(config[d])]
  /\ medium = [d \in Disks |-> NoFs]
  /\ id = [d \in Disks |-> d]
  /\ dir = -1
  /\ step = Done /\ commands = 0
  /\ crash = "none" /\ rash = FALSE /\ saved = TRUE

\* Opening the image of disk d and mounting it; the image may be unusable.
MountImage(d, h) ==
  \/ \* filehandler_open returns nullptr: the device keeps what it had
     /\ disk' = [disk EXCEPT ![d].fileh = FALSE]
     /\ UNCHANGED <<medium, crash>>
  \/ /\ CanOpen(h)
     /\ disk' = [disk EXCEPT ![d].fileh = TRUE]
     /\ CloseMedia({d})
     /\ \E good \in BOOLEAN : medium' = [medium EXCEPT ![d] = IF good THEN host[h].fs ELSE NoFs]

Unmounted(ds) ==
  /\ CloseMedia(ds)
  /\ medium' = [d \in Disks |-> IF d \in ds THEN NoFs ELSE medium[d]]
  /\ disk' = [d \in Disks |-> IF d \in ds THEN EmptySlot ELSE disk[d]]

(***************************************************************************)
(* Commands.                                                               *)
(***************************************************************************)
Begin ==
  /\ crash = "none" /\ step = Done
  /\ commands < MaxCommands /\ commands' = commands + 1

sio_mount_host(h) ==
  /\ Begin
  /\ \E ok \in BOOLEAN : mount(h, ok)
  /\ UNCHANGED <<disk, medium, id, dir, config, step, crash, rash, saved>>

sio_disk_image_mount(d) ==
  /\ Begin
  /\ disk[d].host_slot \in Hosts
  /\ MountImage(d, disk[d].host_slot)
  /\ UNCHANGED <<hosts, id, dir, config, step, rash, saved>>

sio_disk_image_umount(d) ==
  /\ Begin
  /\ Unmounted({d})
  /\ UNCHANGED <<hosts, id, dir, config, step>>
  /\ Edited(FALSE)

\* MOUNT ALL goes through the slots and stops at the first failure.
mount_all ==
  /\ Begin
  /\ step' = 0
  /\ UNCHANGED <<hosts, disk, medium, id, dir, config, crash, rash, saved>>

\* The slot is compared with INVALID_HOST_SLOT only.
MountAllHost ==
  /\ crash = "none" /\ step # Done
  /\ LET s == disk[step].host_slot IN
     CASE s = INVALID_HOST_SLOT -> step' = step + 1 /\ UNCHANGED <<hosts, crash>>
       [] s = MAX_HOSTS -> crash' = "range" /\ UNCHANGED <<hosts, step>>
       [] OTHER -> /\ ~ Connected(s)
                   /\ \E ok \in BOOLEAN : mount(s, ok) /\ step' = IF ok THEN step ELSE Done
                   /\ UNCHANGED crash
  /\ UNCHANGED <<disk, medium, id, dir, config, commands, rash, saved>>

MountAllDisk ==
  /\ crash = "none" /\ step # Done
  /\ disk[step].host_slot \in Hosts /\ Connected(disk[step].host_slot)
  /\ MountImage(step, disk[step].host_slot)
  /\ step' = IF disk'[step].fileh THEN step + 1 ELSE Done
  /\ UNCHANGED <<hosts, id, dir, config, commands, rash, saved>>

\* Mutant: the last id is not kept aside.
image_rotate_Lost ==
  LET n == CHOOSE n \in 0 .. MAX_DISK_DEVICES :
             /\ \A d \in Disks : d < n => disk[d].fileh
             /\ n < MAX_DISK_DEVICES => ~ disk[n].fileh
  IN /\ Begin /\ n > 1
     /\ id' = [d \in Disks |-> IF d >= n \/ d = 0 THEN id[d] ELSE id[d - 1]]
     /\ UNCHANGED <<hosts, disk, medium, dir, config, step, crash, rash, saved>>

\* The ids of the slots before the first empty one are rotated.
image_rotate ==
  LET n == CHOOSE n \in 0 .. MAX_DISK_DEVICES :
             /\ \A d \in Disks : d < n => disk[d].fileh
             /\ n < MAX_DISK_DEVICES => ~ disk[n].fileh
  IN /\ Begin /\ n > 1
     /\ id' = [d \in Disks |-> IF d >= n THEN id[d] ELSE id[IF d = 0 THEN n - 1 ELSE d - 1]]
     /\ UNCHANGED <<hosts, disk, medium, dir, config, step, crash, rash, saved>>

\* NEW DISK leaves its slot pointing to the new file, whether or not the file
\* could be created, and the device with the image it had.
sio_new_disk(d, h) ==
  /\ Begin
  /\ \/ /\ CanOpen(h)   \* the file exists
        /\ disk' = [disk EXCEPT ![d].host_slot = h, ![d].file = TRUE]
     \/ \E opened \in BOOLEAN :
          /\ opened => CanOpen(h)
          /\ disk' = [disk EXCEPT ![d] = [host_slot |-> h, file |-> TRUE, fileh |-> opened]]
  /\ UNCHANGED <<hosts, medium, id, dir, config, step, crash>>
  /\ Edited(FALSE)

\* Mutant: the disks of the host are not unmounted.
sio_unmount_host_Only(h) ==
  /\ Begin
  /\ umount(h)
  /\ rash' = (rash \/ dir = h)
  /\ UNCHANGED <<disk, medium, id, dir, config, step, crash, saved>>

sio_unmount_host(h) ==
  /\ Begin
  /\ Unmounted({d \in Disks : disk[d].host_slot = h})
  /\ umount(h)
  /\ rash' = (rash \/ dir = h)
  /\ saved' = (saved /\ disk' = disk)
  /\ UNCHANGED <<id, dir, config, step>>

\* One name is changed, the others are written back as they are.
sio_write_host_slots(h, n) ==
  /\ Begin
  /\ set_hostname(h, n)
  /\ UNCHANGED disk
  /\ _populate_config_from_slots
  /\ rash' = (rash \/ crash' # crash \/ Astray(host', disk, medium))
  /\ saved' = TRUE
  /\ UNCHANGED <<medium, id, dir, step>>

\* fujiDisk::reset takes the host slot and leaves the file name alone; one host
\* slot is changed, the others are written back as they are.
sio_write_device_slots(d, s) ==
  /\ Begin
  /\ disk' = [x \in Disks |-> [disk[x] EXCEPT !.fileh = FALSE,
                                              !.host_slot = IF x = d THEN s ELSE @]]
  /\ _populate_config_from_slots
  /\ UNCHANGED <<hosts, medium, id, dir, step, crash>>
  /\ Edited(TRUE)

sio_set_device_filename(d, s, named) ==
  /\ Begin
  /\ disk' = [disk EXCEPT ![d].host_slot = s, ![d].file = named]
  /\ _populate_config_from_slots
  /\ UNCHANGED <<hosts, medium, id, dir, step, crash>>
  /\ Edited(TRUE)

\* The web page's eject: all slots are read back from the configuration, which
\* loses what was not saved (order 5 of NoDeadFileSystem).
get_handler_eject(d) ==
  /\ Begin
  /\ CloseMedia({d})
  /\ medium' = [medium EXCEPT ![d] = NoFs]
  /\ config' = [config EXCEPT ![d] = INVALID_HOST_SLOT]
  /\ disk' = [x \in Disks |-> ConfigToSlot(config'[x])]
  /\ rash' = (rash \/ Astray(host, disk', medium'))
  /\ saved' = TRUE
  /\ UNCHANGED <<hosts, id, dir, step>>

\* A sector is read from the image of a mounted disk; with a live file system
\* this changes nothing here (DiskImage is about it).
ReadSector(d) ==
  /\ Begin
  /\ Dead(medium[d])
  /\ crash' = "dead"
  /\ UNCHANGED <<hosts, disk, medium, id, dir, config, step, rash, saved>>

sio_open_directory(h) ==
  /\ Begin
  /\ \E ok \in BOOLEAN : (ok => CanOpen(h)) /\ dir' = IF ok THEN h ELSE -1
  /\ UNCHANGED <<hosts, disk, medium, id, config, step, crash, rash, saved>>

\* dir_nextfile does not look whether there is a file system; when there is one
\* nothing changes here (FujiDirectory is about it).
sio_read_directory_entry ==
  /\ Begin
  /\ dir # -1
  /\ host[dir].type # "UNINITIALIZED" /\ host[dir].fs = NoFs
  /\ crash' = "null"
  /\ UNCHANGED <<hosts, disk, medium, id, dir, config, step, rash, saved>>

sio_close_directory ==
  /\ Begin
  /\ dir' = -1
  /\ UNCHANGED <<hosts, disk, medium, id, config, step, crash, rash, saved>>

Next ==
  \/ \E h \in Hosts : sio_mount_host(h)
  \/ \E h \in Hosts : sio_unmount_host(h)
  \/ \E h \in Hosts : sio_open_directory(h)
  \/ \E h \in Hosts, n \in Names \cup {"", "SD"} : sio_write_host_slots(h, n)
  \/ \E d \in Disks : sio_disk_image_mount(d)
  \/ \E d \in Disks : sio_disk_image_umount(d)
  \/ \E d \in Disks : get_handler_eject(d)
  \/ \E d \in Disks : ReadSector(d)
  \/ \E d \in Disks, h \in Hosts : sio_new_disk(d, h)
  \/ \E d \in Disks, s \in HostSlots : sio_write_device_slots(d, s)
  \/ \E d \in Disks, s \in HostSlots, named \in BOOLEAN : sio_set_device_filename(d, s, named)
  \/ mount_all
  \/ MountAllHost
  \/ MountAllDisk
  \/ image_rotate
  \/ sio_read_directory_entry
  \/ sio_close_directory

Spec == Init /\ [][Next]_vars

(***************************************************************************)
(* Properties.                                                             *)
(***************************************************************************)
\* Types of the state the code keeps.
TypeOK ==
  /\ \A h \in Hosts :
       /\ host[h].name \in Names \cup {"", "SD"}
       /\ host[h].type \in {"UNINITIALIZED", "LOCAL", "TNFS"}
       /\ host[h].fs \in Objects \cup {NoFs, fnSDFAT}
       /\ (host[h].type = "LOCAL") = (host[h].fs = fnSDFAT)
       /\ host[h].type = "UNINITIALIZED" => host[h].fs = NoFs
  /\ running \subseteq live /\ live \subseteq 1 .. made /\ made \in 0 .. MaxFs
  /\ \A d \in Disks : /\ disk[d].host_slot \in HostSlots \cup {INVALID_HOST_SLOT}
                      /\ medium[d] \in Objects \cup {NoFs, fnSDFAT}
                      /\ config[d] \in Hosts \cup {INVALID_HOST_SLOT}
  /\ dir \in Hosts \cup {-1} /\ step \in 0 .. MAX_DISK_DEVICES

\* A mounted image outlives no file system: whatever is mounted, unmounted,
\* rotated, ejected and mounted again, the program does not use one that is
\* deleted or missing, as long as nobody (1) renames a host that is in use or
\* was unmounted, (2) gives the slot of a mounted image to another host,
\* (3) unmounts the host whose directory is being read, (4) names a host slot
\* that does not exist, (5) ejects a disk on the web page while another disk is
\* mounted from a slot that was never saved: NEW DISK does not save the slot it
\* fills, nor is one saved that has no file name.  Eject reads all slots back
\* from the configuration (httpService.cpp:561, fuji.cpp:1680), the mounted
\* disk's slot then names another host or none, and UNMOUNT HOST does not find
\* the disk before it deletes the file system.
NoDeadFileSystem == ~ rash => /\ crash = "none"
                              /\ \A d \in Disks : ~ Dead(medium[d])

\* Every drive number is answered by exactly one disk device.
DrivesPermuted == \A d, e \in Disks : id[d] = id[e] => d = e

\* Slots that were saved come back from the configuration as they were: those
\* that name a host and a file, and nothing else.
SavedSlotsReturn ==
  saved => \A d \in Disks :
             IF disk[d].host_slot \in Hosts /\ disk[d].file
               THEN /\ ConfigToSlot(config[d]).host_slot = disk[d].host_slot
                    /\ ConfigToSlot(config[d]).file
               ELSE ConfigToSlot(config[d]) = EmptySlot
=============================================================================
