----------------------------- MODULE DiskImage -----------------------------
(***************************************************************************)
(* Atari disk images behind a disk slot: MediaTypeATR and MediaTypeXEX     *)
(* (lib/media/atari), as sioDisk (lib/device/sio/disk.cpp) uses them.      *)
(*                                                                         *)
(* An image is read through a FileHandler whose position the code tracks   *)
(* only by _disk_last_sector: the sector after the last one is read or     *)
(* written without a seek.  The data is abstracted to the range of file    *)
(* bytes an operation touches; offsets are the byte offsets of the code.   *)
(* The file and its handles are external: an operation on them may fail,   *)
(* and then leaves the position anywhere.                                  *)
(***************************************************************************)
EXTENDS Integers, FiniteSets

CONSTANTS
  Images,       \* the image files: records [type, sector_size, sectors, size, high_score]
  Sectors,      \* the sector numbers the computer asks for
  MaxHandles,   \* bound on the file handles opened
  MaxFaults     \* bound on failing file operations

INVALID_SECTOR_VALUE == 65536
Header == 16
FIRST_XEX_SECTOR == 369
VTOC_SECTOR == 360
DIRECTORY_START == 361
DIRECTORY_END == 368
BOOTLOADER_END == 3
SECTOR_LINK_SIZE == 3
FarAway == 1073741824   \* an offset no image is long enough for

\* Files of the formats the images are in.
ASSUME ImagesAssumption ==
  \A i \in Images :
    /\ i.type \in {"ATR", "XEX"} /\ i.size \in Nat /\ i.size < FarAway /\ i.sectors \in Nat
    /\ i.type = "XEX" => i.sector_size = 256 /\ ~i.high_score
    /\ i.type = "ATR" => i.sector_size \in {128, 256, 512} /\ i.high_score \in BOOLEAN
ASSUME SectorsAssumption == \A n \in Sectors : n \in Nat /\ n < INVALID_SECTOR_VALUE
ASSUME BoundsAssumption == MaxHandles \in Nat \ {0} /\ MaxFaults \in Nat

VARIABLES
  image,   \* the file that is mounted
  disk,    \* the members of the MediaType object
  fh,      \* _disk_fileh, 0 for nullptr
  opened,  \* the handles open on the file
  pos,     \* the position of every open handle, 0 for the others
  io,      \* the last sector operation: its sector, the bytes it touched, its outcome
  faults,  \* failing file operations so far
  slipped  \* history: a read of a XEX file came up short and no seek followed

vars == <<image, disk, fh, opened, pos, io, faults, slipped>>

Handles == 1..MaxHandles
NoIO == [op |-> "none", sector |-> 0, from |-> 0, len |-> 0, err |-> FALSE]
NoDisk == [type |-> "UNKNOWN", sector_size |-> 128, num_sectors |-> 0,
           last_sector |-> INVALID_SECTOR_VALUE]

(***************************************************************************)
(* Sector arithmetic of the code.                                          *)
(***************************************************************************)
\* Mutant: only two sectors are short.
sector_size_TwoShort(ss, n) == IF ss = 512 THEN 512 ELSE IF n < 3 THEN 128 ELSE ss

\* MediaType::sector_size
sector_size(ss, n) == IF ss = 512 THEN 512 ELSE IF n <= 3 THEN 128 ELSE ss

\* MediaTypeATR::_sector_to_offset.  The offset is unsigned: that of sector 0 is
\* just below 2^32.
_sector_to_offset(ss, n) ==
  CASE n = 0 -> FarAway
    [] n = 1 -> 16
    [] n = 2 -> IF ss = 512 THEN 528 ELSE 144
    [] n = 3 -> IF ss = 512 THEN 1040 ELSE 272
    [] OTHER -> CASE ss = 256 -> (n - 3) * 256 + 16 + 128
                  [] ss = 512 -> n * 512 + 16
                  [] OTHER -> (n - 1) * 128 + 16

\* MediaTypeATR::create: the size in the header, and the size of the file.
TotalSize(ss, n) == n * ss - (IF ss = 256 THEN 384 ELSE 0)
create_paragraphs(ss, n) == TotalSize(ss, n) \div 16
create_file_size(ss, n) ==
  IF ss < 512 THEN Header + 3 * 128 + (n - 3) * ss ELSE Header + n * ss

\* MediaTypeATR::mount: the number of sectors from the header.
mount_num_sectors(ss, paragraphs) ==
  (paragraphs * 16) \div ss + (IF ss = 256 THEN 2 ELSE 0)

\* MediaTypeXEX: the file bytes in one sector, and the sectors of the file.
DataPerSector == 256 - SECTOR_LINK_SIZE
xex_offset(n) == DataPerSector * (n - FIRST_XEX_SECTOR)
xex_num_sectors(size) ==
  LET n == FIRST_XEX_SECTOR + size \div DataPerSector
           + (IF size % DataPerSector > 0 THEN 1 ELSE 0)
  IN IF n < 720 THEN 720 ELSE n

(***************************************************************************)
(* The layout of the formats, the reference for the arithmetic.  The       *)
(* sectors of an ATR image follow the header without a gap; the first      *)
(* three are short unless sectors have 512 bytes.  A XEX image has its     *)
(* file cut into 253-byte pieces from sector 369 on.                       *)
(***************************************************************************)
LayoutOffset(i, n) ==
  IF i.type = "XEX" THEN DataPerSector * (n - FIRST_XEX_SECTOR)
  ELSE IF i.sector_size = 512 THEN Header + 512 * (n - 1)
  ELSE IF n <= 3 THEN Header + 128 * (n - 1)
  ELSE Header + 3 * 128 + i.sector_size * (n - 4)

LayoutSize(i, n) ==
  IF i.type = "XEX" THEN DataPerSector
  ELSE IF i.sector_size = 512 THEN 512 ELSE IF n <= 3 THEN 128 ELSE i.sector_size

Min2(a, b) == IF a < b THEN a ELSE b
Max2(a, b) == IF a > b THEN a ELSE b

\* The bytes of the file in a sector: all of them, or what is left at the end.
LayoutLen(i, n) == Max2(0, Min2(LayoutSize(i, n), i.size - LayoutOffset(i, n)))

(***************************************************************************)
(* Mounting.  sioDisk::mount destroys the MediaType that was there, which  *)
(* closes its handle, and mounts the new one on a freshly opened handle.   *)
(***************************************************************************)
Init ==
  /\ image \in Images
  /\ disk = NoDisk
  /\ fh = 0 /\ opened = {} /\ pos = [h \in Handles |-> 0]
  /\ io = NoIO /\ faults = 0 /\ slipped = FALSE

Fault == faults < MaxFaults /\ faults' = faults + 1

num_sectors(i) ==
  IF i.type = "XEX" THEN xex_num_sectors(i.size)
  ELSE mount_num_sectors(i.sector_size, create_paragraphs(i.sector_size, i.sectors))

mount(i, h) ==
  /\ h \in Handles \ opened
  /\ opened' = (opened \ {fh}) \cup {h}
  /\ image' = i
  /\ disk' = [type |-> i.type, sector_size |-> i.sector_size,
              num_sectors |-> num_sectors(i), last_sector |-> INVALID_SECTOR_VALUE]
  /\ fh' = h
  /\ pos' = [x \in Handles |-> IF x = h /\ i.type = "ATR" THEN Header
                             ELSE IF x \in {h, fh} THEN 0 ELSE pos[x]]
  /\ io' = NoIO /\ slipped' = FALSE
  /\ UNCHANGED faults

\* The header or the boot loader cannot be read: the object stays UNKNOWN, and
\* the handle it was given stays open.
MountFails(i, h) ==
  /\ h \in Handles \ opened
  /\ Fault
  /\ opened' = (opened \ {fh}) \cup {h}
  /\ image' = i
  /\ disk' = NoDisk
  /\ fh' = 0
  /\ pos' = [x \in Handles |-> IF x \in {h, fh} THEN 0 ELSE pos[x]]
  /\ io' = NoIO /\ slipped' = FALSE

\* Mutant: the handle is closed and not cleared.
unmount_KeepHandle ==
  /\ fh # 0
  /\ opened' = opened \ {fh}
  /\ disk' = NoDisk
  /\ pos' = [pos EXCEPT ![fh] = 0]
  /\ io' = NoIO
  /\ UNCHANGED <<image, fh, faults, slipped>>

\* Mutant: the handle is cleared and not closed.
unmount_NoClose ==
  /\ fh # 0
  /\ fh' = 0
  /\ disk' = NoDisk
  /\ io' = NoIO
  /\ UNCHANGED <<image, opened, pos, faults, slipped>>

\* sioDisk::unmount and MediaType::unmount.
unmount ==
  /\ fh # 0
  /\ opened' = opened \ {fh}
  /\ fh' = 0
  /\ disk' = NoDisk
  /\ pos' = [pos EXCEPT ![fh] = 0]
  /\ io' = NoIO
  /\ UNCHANGED <<image, faults, slipped>>

(***************************************************************************)
(* Sector operations.                                                      *)
(***************************************************************************)
IO(op, n, from, len) == [op |-> op, sector |-> n, from |-> from, len |-> len, err |-> FALSE]
IOError(op, n) == [NoIO EXCEPT !.op = op, !.sector = n, !.err = TRUE]

\* Where the handle may be after a file operation on it failed.
Anywhere(offset) == {pos[fh], offset}

\* Mutant: the sector is remembered before the outcome is known.
Fails_Remember(op, n, offset) ==
  /\ \E p \in Anywhere(offset) : pos' = [pos EXCEPT ![fh] = p]
  /\ disk' = [disk EXCEPT !.last_sector = n]
  /\ io' = IOError(op, n)

Fails(op, n, offset) ==
  /\ \E p \in Anywhere(offset) : pos' = [pos EXCEPT ![fh] = p]
  /\ disk' = [disk EXCEPT !.last_sector = INVALID_SECTOR_VALUE]
  /\ io' = IOError(op, n)

\* Where the operation starts: after the last sector without a seek.
Start(n, offset) == IF n = disk.last_sector + 1 THEN pos[fh] ELSE offset

\* MediaTypeATR::read.  Sector 0 is asked for by HSIO READ alone, which has no
\* check of the number.
ReadAtr(n) ==
  LET len == sector_size(disk.sector_size, n)
      offset == _sector_to_offset(disk.sector_size, n)
      start == Start(n, offset)
  IN /\ disk.type = "ATR" /\ n <= disk.num_sectors
     /\ \/ /\ start + len <= image.size
           /\ pos' = [pos EXCEPT ![fh] = start + len]
           /\ disk' = [disk EXCEPT !.last_sector = n]
           /\ io' = IO("read", n, start, len)
           /\ UNCHANGED faults
        \/ start + len > image.size /\ Fails("read", n, offset) /\ UNCHANGED faults
        \/ Fault /\ Fails("read", n, offset)
     /\ UNCHANGED <<image, fh, opened, slipped>>

\* MediaTypeXEX::read of the boot loader, the faked VTOC and directory: the
\* file is not touched, and the next read has to seek.  (Sector 0, from HSIO READ,
\* is what lies in front of the boot loader.)
ReadFaked(n) ==
  /\ disk.type = "XEX"
  /\ n <= BOOTLOADER_END \/ n \in VTOC_SECTOR..DIRECTORY_END
  /\ disk' = [disk EXCEPT !.last_sector = INVALID_SECTOR_VALUE]
  /\ io' = IO("faked", n, 0, 0)
  /\ UNCHANGED <<image, fh, opened, pos, faults, slipped>>

\* MediaTypeXEX::read of file data: a short piece, or none, at the end.  HSIO READ
\* asks for sectors behind the last one too.  A seek that fails is an error.
ReadXex(n) ==
  LET offset == xex_offset(n)
      start == Start(n, offset)
      len == Max2(0, Min2(DataPerSector, image.size - start))
  IN /\ disk.type = "XEX"
     /\ n > BOOTLOADER_END /\ n \notin VTOC_SECTOR..DIRECTORY_END
     /\ \/ /\ start >= 0
           /\ pos' = [pos EXCEPT ![fh] = start + len]
           /\ disk' = [disk EXCEPT !.last_sector = n]
           /\ io' = IO("read", n, start, len)
           /\ slipped' = (slipped /\ n = disk.last_sector + 1)
           /\ UNCHANGED faults
        \/ /\ n # disk.last_sector + 1
           /\ \/ offset < 0 /\ Fails("read", n, pos[fh]) /\ UNCHANGED faults
              \/ Fault /\ Fails("read", n, Max2(0, offset))
           /\ UNCHANGED slipped
     /\ UNCHANGED <<image, fh, opened>>

\* A read of the file that fails, after k bytes were delivered and with the handle
\* anywhere in the sector: FileHandler::read returns a size_t, which is never
\* negative, so the sector counts as read.
ReadXexShort(n) ==
  LET start == Start(n, xex_offset(n))
      len == Max2(0, Min2(DataPerSector, image.size - start))
  IN /\ disk.type = "XEX"
     /\ n > BOOTLOADER_END /\ n \notin VTOC_SECTOR..DIRECTORY_END
     /\ start >= 0 /\ Fault
     /\ \E k \in {0, 1}, moved \in {0, 1, len} :
          /\ k <= moved /\ moved <= len /\ k < len
          /\ pos' = [pos EXCEPT ![fh] = start + moved]
          /\ io' = IO("read", n, start, k)
     /\ disk' = [disk EXCEPT !.last_sector = n]
     /\ slipped' = TRUE
     /\ UNCHANGED <<image, fh, opened>>

\* MediaTypeATR::write on the handle of the mount.  It always seeks.
WriteAtr(n) ==
  LET len == sector_size(disk.sector_size, n)
      offset == _sector_to_offset(disk.sector_size, n)
  IN /\ disk.type = "ATR" /\ n \in 1..disk.num_sectors /\ ~image.high_score
     /\ \/ /\ pos' = [pos EXCEPT ![fh] = offset + len]
           /\ disk' = [disk EXCEPT !.last_sector = n]
           /\ io' = IO("write", n, offset, len)
           /\ UNCHANGED faults
        \/ Fault /\ Fails("write", n, offset)
     /\ UNCHANGED <<image, fh, opened, slipped>>

\* MediaTypeATR::write of an image with a high score sector: on a handle opened
\* for this write, closed again after it.
WriteHighScore(n, h) ==
  LET len == sector_size(disk.sector_size, n)
      offset == _sector_to_offset(disk.sector_size, n)
  IN /\ disk.type = "ATR" /\ n \in 1..disk.num_sectors /\ image.high_score
     /\ h \in Handles \ opened
     /\ disk' = [disk EXCEPT !.last_sector = INVALID_SECTOR_VALUE]
     /\ io' = IO("write", n, offset, len)
     /\ UNCHANGED <<image, fh, opened, pos, faults, slipped>>

\* When its seek or write fails the new handle stays in place of the old one,
\* which nobody closes any more.
WriteHighScoreFails(n, h) ==
  /\ disk.type = "ATR" /\ n \in 1..disk.num_sectors /\ image.high_score
  /\ h \in Handles \ opened
  /\ Fault
  /\ fh' = h /\ opened' = opened \cup {h}
  /\ pos' = [pos EXCEPT ![h] = 0]
  /\ disk' = [disk EXCEPT !.last_sector = INVALID_SECTOR_VALUE]
  /\ io' = IOError("write", n)
  /\ UNCHANGED <<image, slipped>>

\* Sector 0 or one past the end (of READ, and of every write), and
\* MediaType::write, which XEX does not override.
Refused(n) ==
  /\ fh # 0
  /\ \/ n \notin 1..disk.num_sectors /\ io' = IOError("beyond", n)
     \/ n \in 1..disk.num_sectors /\ disk.type = "XEX" /\ io' = IOError("readonly", n)
  /\ UNCHANGED <<image, disk, fh, opened, pos, faults, slipped>>

Next ==
  \/ \E i \in Images, h \in Handles : mount(i, h) \/ MountFails(i, h)
  \/ unmount
  \/ \E n \in Sectors :
       \/ ReadAtr(n) \/ ReadFaked(n) \/ ReadXex(n) \/ ReadXexShort(n) \/ WriteAtr(n) \/ Refused(n)
       \/ \E h \in Handles : WriteHighScore(n, h) \/ WriteHighScoreFails(n, h)

Spec == Init /\ [][Next]_vars

(***************************************************************************)
(* Properties.                                                             *)
(***************************************************************************)
\* Types of the state the code keeps.
TypeOK ==
  /\ image \in Images
  /\ disk.type \in {"UNKNOWN", "ATR", "XEX"}
  /\ disk.type # "UNKNOWN" => disk.type = image.type /\ disk.sector_size = image.sector_size
  /\ disk.num_sectors \in Nat /\ disk.last_sector \in Nat
  /\ fh \in Handles \cup {0} /\ opened \subseteq Handles
  /\ (fh = 0) = (disk.type = "UNKNOWN")
  /\ pos \in [Handles -> Int]
  /\ faults \in Nat /\ slipped \in BOOLEAN

\* The handle of a XEX file is not where _disk_last_sector says: a read came up
\* short, was taken for a whole one, and every read since went on without a seek.
Strayed == disk.type = "XEX" /\ slipped

\* An operation that reports success touched exactly the bytes of its sector,
\* whatever was read, written or failed before it: the handle was where the
\* code believed it to be.  The one exception is a XEX file of which a read came
\* up short: that read and the ones that follow it without a seek report success
\* and deliver too little, or the bytes of another place.  An image that create()
\* made is mounted with the sectors it was made with, and as long as no file
\* operation fails none of them is refused (the sectors between the boot loader
\* and the VTOC of a XEX image hold nothing, and there is no sector 0).
RangeExact ==
  /\ disk.type = "ATR" => disk.num_sectors = image.sectors
  /\ io.op \in {"read", "write"} =>
       /\ ~io.err /\ ~Strayed => /\ io.len = LayoutLen(image, io.sector)
                                 /\ io.len > 0 => io.from = LayoutOffset(image, io.sector)
       /\ io.err => faults > 0 \/ (image.type = "XEX" /\ io.sector < VTOC_SECTOR) \/ io.sector = 0

\* The handle stands behind the last sector whenever the next one may be read
\* without a seek, or both are past the end of the file; but for the XEX file of
\* which a read came up short.
CursorTrue ==
  (disk.type # "UNKNOWN" /\ disk.last_sector # INVALID_SECTOR_VALUE /\ ~Strayed)
    => LET next == LayoutOffset(image, disk.last_sector + 1) IN
       pos[fh] = next \/ (pos[fh] >= image.size /\ next >= image.size)

\* As long as no file operation fails, the only handle open is the one in use.
NoHandleLeft == faults = 0 => opened = (IF fh = 0 THEN {} ELSE {fh})
=============================================================================
