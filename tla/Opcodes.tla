------------------------------ MODULE Opcodes ------------------------------
(***************************************************************************)
(* The FUSE operation codes (src/proto/opcodes.go) and the three tables    *)
(* the server classifies them with: isWriteOp, the handlers map and the    *)
(* exemption from error replies in sendError.                              *)
(***************************************************************************)

(* Every opcode the protocol package names, by its OpcodeName.             *)
AllOps ==
  {"LOOKUP", "FORGET", "GETATTR", "SETATTR", "READLINK", "SYMLINK", "MKNOD",
   "MKDIR", "UNLINK", "RMDIR", "RENAME", "LINK", "OPEN", "READ", "WRITE",
   "STATFS", "RELEASE", "FSYNC", "SETXATTR", "GETXATTR", "LISTXATTR",
   "REMOVEXATTR", "FLUSH", "INIT", "OPENDIR", "READDIR", "RELEASEDIR",
   "FSYNCDIR", "GETLK", "SETLK", "SETLKW", "ACCESS", "CREATE", "INTERRUPT",
   "BMAP", "DESTROY", "IOCTL", "POLL", "NOTIFY_REPLY", "BATCH_FORGET",
   "FALLOCATE", "READDIRPLUS", "RENAME2", "LSEEK", "COPY_FILE_RANGE",
   "SETUPMAPPING", "REMOVEMAPPING", "SYNCFS", "TMPFILE", "STATX"}

(* The opcodes for which isWriteOp returns true.                           *)
WriteOps ==
  {"SETATTR", "SYMLINK", "MKNOD", "MKDIR", "UNLINK", "RMDIR", "RENAME",
   "LINK", "WRITE", "SETXATTR", "REMOVEXATTR", "CREATE", "RENAME2",
   "FALLOCATE", "COPY_FILE_RANGE", "TMPFILE"}

(* The keys of the handlers map.                                           *)
HandledOps ==
  {"INIT", "DESTROY", "LOOKUP", "FORGET", "BATCH_FORGET", "GETATTR",
   "READLINK", "OPEN", "READ", "RELEASE", "OPENDIR", "READDIR",
   "READDIRPLUS", "RELEASEDIR", "STATFS", "ACCESS", "FLUSH", "INTERRUPT"}

(* The handlers whose whole work is one call of a Filesystem method that   *)
(* returns a value or an error, and one reply.                             *)
QueryOps ==
  {"LOOKUP", "GETATTR", "READLINK", "OPEN", "READ", "RELEASE", "OPENDIR",
   "READDIR", "READDIRPLUS", "RELEASEDIR", "STATFS", "ACCESS"}

(* The opcodes for which sendError writes nothing.                         *)
ForgetOps == {"FORGET", "BATCH_FORGET"}

(* A kind of request: its opcode, and in arg the part of its body that     *)
(* decides control flow.  That is the version an INIT asks for (the one    *)
(* spoken here, another major, a minor that is too old) and whether a      *)
(* BATCH_FORGET has its fixed-size prefix.                                 *)
AllKinds ==
  [op : AllOps \ {"INIT", "BATCH_FORGET"}, arg : {"any"}]
    \cup [op : {"INIT"}, arg : {"match", "major", "minor"}]
    \cup [op : {"BATCH_FORGET"}, arg : {"full", "short"}]

NoKind == [op |-> "none", arg |-> "any"]

(* What a reply says: success with the payload of its opcode, success      *)
(* without one, an error of the Filesystem's, an error of the server's     *)
(* own, or the protocol version the server would accept.                   *)
Statuses == {"OK", "EMPTY", "ERR", "EROFS", "ENOSYS", "EPROTO", "VERSION"}

=============================================================================
