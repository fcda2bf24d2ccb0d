------------------------------ MODULE Dirents ------------------------------
(***************************************************************************)
(* How directory entries and attributes go over the wire: the packing of   *)
(* READDIR and READDIRPLUS replies (src/handlers.go) and the conversion of *)
(* Go's file modes and durations (src/types.go).                           *)
(*                                                                         *)
(* A name is a number: what matters is which one it is and how long it is. *)
(***************************************************************************)
EXTENDS Sums, FiniteSetsExt

DirentSize == 24
EntryOutSize == 128
DirentPlusSize == EntryOutSize + DirentSize

-----------------------------------------------------------------------------
(* os.FileMode: the type bits as a set, the permission bits as a number.   *)

TypeBits == {"dir", "symlink", "pipe", "socket", "device", "char", "irregular"}
FileModes == [type : SUBSET TypeBits, perm : 0..511,
              setuid : BOOLEAN, setgid : BOOLEAN, sticky : BOOLEAN]

(* The switch on mode.Type(), which has all the type bits: os.ModeDevice   *)
(* alone is a block device.                                                *)
fileModeToType(mode) ==
  CASE mode.type = {"dir"}     -> 4
    [] mode.type = {"symlink"} -> 10
    [] mode.type = {"pipe"}    -> 1
    [] mode.type = {"socket"}  -> 12
    [] mode.type = {"device"}  -> IF "char" \in mode.type THEN 2 ELSE 6
    [] OTHER                   -> 8

(* Mutant: a socket becomes a regular file.                                *)
unixType_noSocket(mode) ==
  CASE mode.type = {"dir"}     -> 16384
    [] mode.type = {"symlink"} -> 40960
    [] mode.type = {"pipe"}    -> 4096
    [] mode.type = {"device"}  -> 24576
    [] OTHER                   -> 32768

unixType(mode) ==
  CASE mode.type = {"dir"}     -> 16384
    [] mode.type = {"symlink"} -> 40960
    [] mode.type = {"pipe"}    -> 4096
    [] mode.type = {"socket"}  -> 49152
    [] mode.type = {"device"}  -> IF "char" \in mode.type THEN 8192 ELSE 24576
    [] OTHER                   -> 32768

(* The bits are disjoint: or-ing them in is adding them.                   *)
Bit(flag, value) == IF flag THEN value ELSE 0
fileModeToUnix(mode) ==
  mode.perm + unixType(mode) + Bit(mode.setuid, 2048)
  + Bit(mode.setgid, 1024) + Bit(mode.sticky, 512)

(* The file type in the kernel's reading of a mode, as a DT_* number       *)
(* (external: S_IFMT is the top four of sixteen bits).                     *)
KernelType(unix) == unix \div 4096

-----------------------------------------------------------------------------
(* Replies to READDIR and READDIRPLUS                                      *)

(* Rounded up to a multiple of eight.                                      *)
padded(size) == ((size + 7) \div 8) * 8

(* The room that each entry takes.                                         *)
rooms(entries, header) ==
  [i \in 1..Len(entries) |-> padded(header + entries[i].nameLen)]

(* Mutant: the loop goes on to entries that still fit.                     *)
pack_skips(entries, header, maxSize) ==
  LET taken[n \in 0..Len(entries)] ==
        IF n = 0 THEN <<>> ELSE
        LET more == Append(taken[n - 1], entries[n]) IN
        IF Total(rooms(more, header)) > maxSize THEN taken[n - 1] ELSE more
  IN  taken[Len(entries)]

(* The loop of both serializers: entries are packed until one does not fit.*)
pack(entries, header, maxSize) ==
  LET used == PrefixSums(rooms(entries, header))
      stops == {n \in 0..Len(entries) :
                  n = Len(entries) \/ used[n + 1] > maxSize}
  IN  SubSeq(entries, 1, Min(stops))

(* A READDIR entry carries the DirEntry's own offset.                      *)
serializeDirents(entries, maxSize) ==
  LET taken == pack(entries, DirentSize, maxSize) IN
  [i \in 1..Len(taken) |->
     [name |-> taken[i].name, ino |-> taken[i].ino, off |-> taken[i].offset]]

(* Mutant: the room for the EntryOut is forgotten.                         *)
serializeDirentsPlus_short(entries, maxSize) ==
  LET taken == pack(entries, DirentSize, maxSize) IN
  [i \in 1..Len(taken) |->
     [name |-> taken[i].name, ino |-> taken[i].ino, off |-> taken[i].gen,
      type |-> fileModeToType(taken[i].mode),
      mode |-> fileModeToUnix(taken[i].mode)]]

(* A READDIRPLUS entry carries the generation where the offset belongs.    *)
serializeDirentsPlus(entries, maxSize) ==
  LET taken == pack(entries, DirentPlusSize, maxSize) IN
  [i \in 1..Len(taken) |->
     [name |-> taken[i].name, ino |-> taken[i].ino, off |-> taken[i].gen,
      type |-> fileModeToType(taken[i].mode),
      mode |-> fileModeToUnix(taken[i].mode)]]

=============================================================================
