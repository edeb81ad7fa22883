------------------------------ MODULE PackLoader ------------------------------
(***************************************************************************)
(* PackLoader: load_pack reads a file of two parts while somebody may      *)
(* replace it, which makes a new inode, or rewrite it in place, one part   *)
(* after the other.  The configuration is read in the same way, without a  *)
(* pin.                                                                    *)
(*                                                                         *)
(* Parts are numbered by the write they come from.  Every version has the  *)
(* same size, so that sizes give nothing away, and is a valid pack.        *)
(***************************************************************************)
EXTENDS Integers

CONSTANTS
    Inodes,
    MaxWrites,   \* bound: replacements and rewrites
    Nobody

ASSUME LoaderAssumption == Inodes # {} /\ MaxWrites \in Nat

VARIABLES
    pinned,      \* pack.sha256 is set: to the digest of the first version
    disk,        \* disk[i]: the parts and the modification time of an inode
    path,        \* the inode the path leads to
    now,         \* the clock of the file system, whose ticks are coarse
    writer,      \* the inode that is half rewritten, or Nobody
    writes,      \* writes begun
    shared,      \* a rewrite left the modification time as it was
    reader,      \* how far _read_bounded is
    handle,      \* the inode that is open
    before,      \* its modification time at the first fstat ...
    opened,      \* ... and its content
    raw          \* what has been read

fileVars == <<pinned, disk, path, now, writer, writes, shared>>
loaderVars == <<reader, handle, before, opened, raw>>

FirstVersion == <<0, 0>>

PackInit ==
    /\ pinned \in BOOLEAN
    /\ disk = [i \in Inodes |-> [parts |-> FirstVersion, mtime |-> 0]]
    /\ path = (CHOOSE i \in Inodes : TRUE)
    /\ now = 1 /\ writer = Nobody /\ writes = 0 /\ shared = FALSE
    /\ reader = "idle" /\ handle = path /\ before = 0
    /\ opened = FirstVersion /\ raw = FirstVersion

-------------------------------------------------------------------------------
\* A new file is moved over the old one, which stays what it is for who has it open.
Replace(i) ==
    /\ writes < MaxWrites /\ writer = Nobody /\ i \notin {path, handle}
    /\ writes' = writes + 1
    /\ disk' = [disk EXCEPT ![i] = [parts |-> <<writes', writes'>>, mtime |-> now]]
    /\ path' = i
    /\ UNCHANGED <<pinned, now, writer, shared, loaderVars>>

WritePart(i, k, v) ==
    /\ disk' = [disk EXCEPT ![i].parts[k] = v, ![i].mtime = now]
    /\ shared' = (shared \/ disk[i].mtime = now)

BeginRewrite ==
    /\ writes < MaxWrites /\ writer = Nobody
    /\ writes' = writes + 1 /\ writer' = path
    /\ WritePart(path, 1, writes')
    /\ UNCHANGED <<pinned, path, now, loaderVars>>

EndRewrite ==
    /\ writer # Nobody
    /\ WritePart(writer, 2, writes) /\ writer' = Nobody
    /\ UNCHANGED <<pinned, path, now, writes, loaderVars>>

FileTick ==
    /\ now <= writes /\ now' = now + 1
    /\ UNCHANGED <<pinned, disk, path, writer, writes, shared, loaderVars>>

Outside ==
    \/ \E i \in Inodes : Replace(i)
    \/ BeginRewrite \/ EndRewrite \/ FileTick

-------------------------------------------------------------------------------
\* os.open and the first os.fstat
OpenPack ==
    /\ reader = "idle" /\ reader' = "first"
    /\ handle' = path /\ before' = disk[path].mtime /\ opened' = disk[path].parts
    /\ UNCHANGED <<raw, fileVars>>

ReadPart(k, from, to) ==
    /\ reader = from /\ reader' = to
    /\ raw' = [raw EXCEPT ![k] = disk[handle].parts[k]]
    /\ UNCHANGED <<handle, before, opened, fileVars>>

\* Slip: what is compared is what the path leads to at the end, in size and
\* owner only.
AcceptUnseen ==
    /\ reader = "last"
    /\ reader' = IF pinned => raw = FirstVersion THEN "accepted" ELSE "rejected"
    /\ UNCHANGED <<handle, before, opened, raw, fileVars>>

\* The second os.fstat, the comparison, and the pin.
Accept ==
    /\ reader = "last"
    /\ reader' = IF disk[handle].mtime = before /\ (pinned => raw = FirstVersion)
                   THEN "accepted" ELSE "rejected"
    /\ UNCHANGED <<handle, before, opened, raw, fileVars>>

Load == OpenPack \/ ReadPart(1, "first", "second") \/ ReadPart(2, "second", "last") \/ Accept

-------------------------------------------------------------------------------
\* The pack that is served is the content its file had at one moment, never the
\* beginning of one version with the end of another that is written meanwhile, and
\* with a pin it is the pinned one; only without a pin, and with two writes that the
\* file system dates alike, the reader cannot tell.
PackIsSnapshot ==
    reader = "accepted" =>
        /\ raw = opened \/ (~pinned /\ shared)
        /\ pinned => raw = FirstVersion
===============================================================================
