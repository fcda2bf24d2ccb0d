---------------------------- MODULE MCDirectory ----------------------------
(* Instances of Directory for TLC. *)
EXTENDS DirectoryInv

(* Three names for two inodes.  With attributes the second fills a reply   *)
(* of 176 bytes, and has no room behind the first in one of 328, where the *)
(* third would have.                                                       *)
Mode(type) == [type |-> type, perm |-> 420, setuid |-> FALSE, setgid |-> TRUE,
               sticky |-> FALSE]
Entry(name, ino, gen, type, nameLen) ==
  [name |-> name, ino |-> ino, offset |-> name, gen |-> gen,
   mode |-> Mode(type), nameLen |-> nameLen]

(* The Filesystem hands its offsets to ReadDirPlus as generations.         *)
Cookied == <<Entry(1, 2, 1, {"dir"}, 1), Entry(2, 3, 2, {"socket"}, 20),
             Entry(3, 2, 3, {"dir"}, 9)>>

(* The generations are those of the inodes.                                *)
Generations == <<Entry(1, 2, 1, {"dir"}, 1), Entry(2, 3, 1, {"socket"}, 20),
                 Entry(3, 2, 1, {"dir"}, 9)>>

=============================================================================
