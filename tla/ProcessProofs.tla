----------------------------- MODULE ProcessProofs -----------------------------
(***************************************************************************)
(* Theorems about the process.  The pack it is started with is one its     *)
(* file has held, for any number of inodes and of writes, and for a clock  *)
(* of the file system that ticks as seldom as it likes; it is left down    *)
(* only for a reason; and its replies have the properties that are proved  *)
(* of the replies of each adapter, because it makes them only with         *)
(* settings that it has accepted.                                          *)
(***************************************************************************)
EXTENDS Process, ReplyProofs

Halves == {1, 2}

PackTypes ==
    /\ pinned \in BOOLEAN /\ shared \in BOOLEAN
    /\ disk \in [Inodes -> [parts : [Halves -> Nat], mtime : Nat]]
    /\ path \in Inodes /\ handle \in Inodes
    /\ now \in Nat /\ writes \in Nat /\ before \in Nat
    /\ opened \in [Halves -> Nat] /\ raw \in [Halves -> Nat]

\* The parts that have been read from the open file.
Got(k) == reader = "last" \/ (k = 1 /\ reader = "second")

\* Modification times and versions only grow, so what is newer than the first fstat
\* shows, unless two writes are dated alike.
LoaderInv ==
    /\ PackTypes
    /\ \A i \in Inodes : disk[i].mtime <= now
    /\ \A i \in Inodes, k \in Halves : disk[i].parts[k] <= writes
    /\ before <= disk[handle].mtime
    /\ \A k \in Halves :
        /\ opened[k] <= disk[handle].parts[k]
        /\ Got(k) => opened[k] <= raw[k]
        /\ disk[handle].mtime = before /\ ~shared =>
            /\ disk[handle].parts[k] = opened[k]
            /\ Got(k) => raw[k] = opened[k]
    /\ PackIsSnapshot

-------------------------------------------------------------------------------
\* The first version as a function.
LEMMA First == FirstVersion \in [Halves -> Nat] /\ \A k \in Halves : FirstVersion[k] = 0
  BY DEF FirstVersion, Halves

\* Steps that touch neither the file nor what has been read of it.
LEMMA StayedSnapshot ==
    ASSUME LoaderInv, UNCHANGED fileVars, UNCHANGED <<handle, before, opened, raw>>,
           reader' = reader \/ reader' = "idle"
    PROVE  LoaderInv'
  BY DEF LoaderInv, PackTypes, PackIsSnapshot, Got, fileVars

\* A part is read from the open inode.
LEMMA ReadSnapshot ==
    ASSUME LoaderInv, NEW k \in Halves,
           NEW from, NEW to, from = (IF k = 1 THEN "first" ELSE "second"),
           to = (IF k = 1 THEN "second" ELSE "last"), ReadPart(k, from, to)
    PROVE  LoaderInv'
  <1>1. /\ raw' = [raw EXCEPT ![k] = disk[handle].parts[k]]
        /\ UNCHANGED <<handle, before, opened, fileVars>>
        /\ reader' # "accepted"
    BY DEF ReadPart
  <1>2. raw' \in [Halves -> Nat]
    BY <1>1 DEF LoaderInv, PackTypes
  <1>3. ASSUME NEW h \in Halves, Got(h)' PROVE h = k \/ Got(h)
    BY <1>3 DEF Got, ReadPart, Halves
  <1>4. \A h \in Halves : raw'[h] = IF h = k THEN disk[handle].parts[k] ELSE raw[h]
    BY <1>1 DEF LoaderInv, PackTypes
  <1>5. \A h \in Halves :
          /\ opened[h] <= disk[handle].parts[h]
          /\ Got(h)' => opened[h] <= raw'[h]
          /\ disk[handle].mtime = before /\ ~shared =>
              /\ disk[handle].parts[h] = opened[h]
              /\ Got(h)' => raw'[h] = opened[h]
    BY <1>3, <1>4 DEF LoaderInv
  <1> QED
    BY <1>1, <1>2, <1>5 DEF LoaderInv, PackTypes, PackIsSnapshot, fileVars, Got

\* A step of the loader.
LEMMA LoadSnapshot ==
    ASSUME LoaderInv, Load
    PROVE  LoaderInv'
  <1>1. CASE OpenPack
    BY <1>1 DEF OpenPack, LoaderInv, PackTypes, PackIsSnapshot, Got, fileVars
  <1>2. CASE Accept
    <2>1. /\ reader = "last" /\ UNCHANGED <<handle, before, opened, raw, fileVars>>
          /\ reader' = IF disk[handle].mtime = before /\ (pinned => raw = FirstVersion)
                         THEN "accepted" ELSE "rejected"
      BY <1>2 DEF Accept
    <2>2. \A k \in Halves : Got(k)
      BY <2>1 DEF Got
    <2>3. ASSUME disk[handle].mtime = before, ~shared PROVE raw = opened
      BY <2>2, <2>3 DEF LoaderInv, PackTypes
    <2>4. ASSUME raw = FirstVersion PROVE raw = opened
      <3>1. \A k \in Halves : opened[k] <= 0 /\ opened[k] \in Nat
        BY <2>2, <2>4, First DEF LoaderInv, PackTypes
      <3>2. \A k \in Halves : opened[k] = raw[k]
        BY <2>4, <3>1, First
      <3> QED
        BY <3>2 DEF LoaderInv, PackTypes
    <2>5. reader' = "accepted" =>
            /\ raw = opened \/ (~pinned /\ shared)
            /\ pinned => raw = FirstVersion
      BY <2>1, <2>3, <2>4 DEF LoaderInv, PackTypes
    <2>6. PackIsSnapshot'
      BY <2>1, <2>5 DEF PackIsSnapshot, fileVars, FirstVersion
    <2> QED
      BY <2>1, <2>6 DEF LoaderInv, PackTypes, Got, fileVars
  <1>3. CASE ReadPart(1, "first", "second")
    BY <1>3, ReadSnapshot DEF Halves
  <1>4. CASE ReadPart(2, "second", "last")
    BY <1>4, ReadSnapshot DEF Halves
  <1> QED
    BY <1>1, <1>2, <1>3, <1>4 DEF Load

\* One part of an inode is written, with a version that is not older than the others.
LEMMA WriteSnapshot ==
    ASSUME LoaderInv, NEW i \in Inodes, NEW k \in Halves, NEW v \in Nat,
           WritePart(i, k, v), disk[i].parts[k] <= v, v <= writes',
           writes' \in Nat, writes <= writes',
           UNCHANGED <<pinned, path, now, loaderVars>>
    PROVE  LoaderInv'
  <1> DEFINE old == disk[i]
             new == [old EXCEPT !.parts = [old.parts EXCEPT ![k] = v], !.mtime = now]
  <1>1. old \in [parts : [Halves -> Nat], mtime : Nat]
    BY DEF LoaderInv, PackTypes
  <1>2. disk' = [disk EXCEPT ![i] = new] /\ (shared' <=> shared \/ old.mtime = now)
    BY DEF WritePart
  <1>3. /\ new \in [parts : [Halves -> Nat], mtime : Nat] /\ new.mtime = now
        /\ \A h \in Halves : new.parts[h] = IF h = k THEN v ELSE old.parts[h]
    BY <1>1 DEF LoaderInv, PackTypes
  <1> HIDE DEF new
  <1>4. disk' \in [Inodes -> [parts : [Halves -> Nat], mtime : Nat]]
    BY <1>2, <1>3 DEF LoaderInv, PackTypes
  <1>5. \A j \in Inodes : disk'[j] = IF j = i THEN new ELSE disk[j]
    BY <1>2 DEF LoaderInv, PackTypes
  <1>6. \A j \in Inodes : disk'[j].mtime <= now
    BY <1>3, <1>5 DEF LoaderInv, PackTypes
  <1>7. \A j \in Inodes, h \in Halves : disk'[j].parts[h] <= writes'
    BY <1>3, <1>5 DEF LoaderInv, PackTypes
  <1>8. /\ before <= disk'[handle].mtime
        /\ \A h \in Halves : opened[h] <= disk'[handle].parts[h]
    <2>1. CASE handle = i
      <3>1. disk'[handle] = new /\ before <= old.mtime /\ old.mtime <= now
        BY <1>5, <2>1 DEF LoaderInv, PackTypes
      <3>2. before \in Nat /\ old.mtime \in Nat /\ now \in Nat
        BY <1>1 DEF LoaderInv, PackTypes
      <3>3. before <= new.mtime
        BY <1>3, <3>1, <3>2
      <3>4. ASSUME NEW h \in Halves PROVE opened[h] <= new.parts[h]
        <4>1. opened[h] <= old.parts[h] /\ opened[h] \in Nat /\ old.parts[h] \in Nat
          BY <1>1, <2>1 DEF LoaderInv, PackTypes
        <4>2. h = k => opened[h] <= v
          BY <4>1
        <4> QED
          BY <1>3, <4>1, <4>2
      <3> QED
        BY <3>1, <3>3, <3>4
    <2>2. CASE handle # i
      <3>1. disk'[handle] = disk[handle]
        BY <1>5, <2>2 DEF LoaderInv, PackTypes
      <3> QED
        BY <3>1 DEF LoaderInv
    <2> QED
      BY <2>1, <2>2
  <1>9. ASSUME disk'[handle].mtime = before, ~shared'
        PROVE  disk'[handle] = disk[handle] /\ ~shared
    <2>1. CASE handle = i
      <3>1. now = before /\ before <= old.mtime /\ old.mtime <= now
        BY <1>3, <1>5, <1>9, <2>1 DEF LoaderInv, PackTypes
      <3>2. old.mtime \in Nat /\ now \in Nat
        BY <1>1 DEF LoaderInv, PackTypes
      <3>3. old.mtime = now
        BY <3>1, <3>2
      <3> QED
        BY <1>2, <1>9, <3>3
    <2>2. CASE handle # i
      BY <1>2, <1>5, <1>9, <2>2 DEF LoaderInv, PackTypes
    <2> QED
      BY <2>1, <2>2
  <1>10. PackTypes' /\ (shared => shared')
    BY <1>2, <1>4 DEF LoaderInv, PackTypes, loaderVars
  <1>11. PackIsSnapshot'
    BY <1>10 DEF LoaderInv, PackIsSnapshot, loaderVars
  <1> QED
    BY <1>6, <1>7, <1>8, <1>9, <1>10, <1>11 DEF LoaderInv, Got, loaderVars

\* A new file takes an inode that nobody has open: what is being read is left alone.
LEMMA ReplaceSnapshot ==
    ASSUME LoaderInv, NEW i \in Inodes, Replace(i)
    PROVE  LoaderInv'
  <1> DEFINE new == [parts |-> <<writes', writes'>>, mtime |-> now]
  <1>1. /\ writes' = writes + 1 /\ disk' = [disk EXCEPT ![i] = new] /\ path' = i
        /\ i # handle /\ UNCHANGED <<pinned, now, writer, shared, loaderVars>>
    BY DEF Replace
  <1>2. writes' \in Nat
    BY <1>1 DEF LoaderInv, PackTypes
  <1>3. /\ <<writes', writes'>> \in [Halves -> Nat]
        /\ \A h \in Halves : <<writes', writes'>>[h] = writes'
    BY <1>2 DEF Halves
  <1>4. /\ new \in [parts : [Halves -> Nat], mtime : Nat] /\ new.mtime = now
        /\ \A h \in Halves : new.parts[h] = writes'
    BY <1>3 DEF LoaderInv, PackTypes
  <1> HIDE DEF new
  <1>5. /\ disk' \in [Inodes -> [parts : [Halves -> Nat], mtime : Nat]]
        /\ \A j \in Inodes : disk'[j] = IF j = i THEN new ELSE disk[j]
    BY <1>1, <1>4 DEF LoaderInv, PackTypes
  <1>6. /\ \A j \in Inodes : disk'[j].mtime <= now
        /\ \A j \in Inodes, h \in Halves : disk'[j].parts[h] <= writes'
    BY <1>1, <1>4, <1>5 DEF LoaderInv, PackTypes
  <1>7. disk'[handle] = disk[handle]
    BY <1>1, <1>5 DEF LoaderInv, PackTypes
  <1>8. PackTypes' /\ PackIsSnapshot'
    BY <1>1, <1>2, <1>5 DEF LoaderInv, PackTypes, PackIsSnapshot, loaderVars
  <1> QED
    BY <1>1, <1>6, <1>7, <1>8 DEF LoaderInv, Got, loaderVars

\* Whoever writes the pack.
LEMMA OutsideSnapshot ==
    ASSUME LoaderInv, Outside, writer \in Inodes \cup {Nobody}
    PROVE  LoaderInv'
  <1>1. ASSUME NEW i \in Inodes, Replace(i) PROVE LoaderInv'
    BY <1>1, ReplaceSnapshot
  <1>2. CASE BeginRewrite
    <2>1. /\ writes' = writes + 1 /\ WritePart(path, 1, writes')
          /\ UNCHANGED <<pinned, path, now, loaderVars>>
      BY <1>2 DEF BeginRewrite
    <2>2. /\ path \in Inodes /\ 1 \in Halves /\ writes \in Nat /\ writes' \in Nat
          /\ disk[path].parts[1] \in Nat /\ disk[path].parts[1] <= writes
      BY <2>1 DEF LoaderInv, PackTypes, Halves
    <2>3. disk[path].parts[1] <= writes' /\ writes <= writes' /\ writes' <= writes'
      BY <2>1, <2>2
    <2> QED
      BY <2>1, <2>2, <2>3, WriteSnapshot
  <1>3. CASE EndRewrite
    <2>1. /\ writes' = writes /\ WritePart(writer, 2, writes) /\ writer \in Inodes
          /\ UNCHANGED <<pinned, path, now, loaderVars>>
      BY <1>3 DEF EndRewrite
    <2>2. 2 \in Halves /\ writes \in Nat /\ disk[writer].parts[2] <= writes
      BY <2>1 DEF LoaderInv, PackTypes, Halves
    <2> QED
      BY <2>1, <2>2, WriteSnapshot
  <1>4. CASE FileTick
    <2>1. now' = now + 1 /\ UNCHANGED <<pinned, disk, path, writer, writes, shared, loaderVars>>
      BY <1>4 DEF FileTick
    <2>2. \A i \in Inodes : disk[i].mtime \in Nat
      BY DEF LoaderInv, PackTypes
    <2> QED
      BY <2>1, <2>2 DEF LoaderInv, PackTypes, PackIsSnapshot, Got, loaderVars
  <1> QED
    BY <1>1, <1>2, <1>3, <1>4 DEF Outside

-------------------------------------------------------------------------------
\* Every step of the process reads the pack, or is one of somebody who writes it, or
\* leaves both alone.
LEMMA ProcessSteps ==
    ASSUME [ProcessNext]_processVars
    PROVE  \/ Load
           \/ Outside
           \/ /\ UNCHANGED fileVars /\ UNCHANGED <<handle, before, opened, raw>>
              /\ reader' = reader \/ reader' = "idle"
  <1>1. CASE Reply
    BY <1>1 DEF Reply, loaderVars
  <1>2. CASE Leave \/ Crash \/ Down
    BY <1>2 DEF Leave, ClientEnds, StopServing, Held, Crash, Down, startVars, loaderVars
  <1>3. CASE Main
    BY <1>3 DEF Main, LoadConfig, ReadPack, Preflight, PackVerdict, CreateStore,
                PurgeAtStart, Construct, Connecting, CloseDone, CloseBusy, Exit, Kept,
                Held, loaderVars
  <1>4. CASE UNCHANGED processVars
    BY <1>4 DEF processVars, startVars, loaderVars
  <1> QED
    BY <1>1, <1>2, <1>3, <1>4 DEF ProcessNext

\* Who rewrites the pack is at one of its inodes.
WriterType == writer \in Inodes \cup {Nobody}

\* Who rewrites a file goes on with the same file.
LEMMA WriterStays ==
    ASSUME LoaderInv, WriterType, [ProcessNext]_processVars
    PROVE  WriterType'
  <1>1. CASE Load
    BY <1>1 DEF Load, OpenPack, ReadPart, Accept, fileVars, WriterType
  <1>2. CASE Outside
    BY <1>2 DEF Outside, Replace, BeginRewrite, EndRewrite, FileTick, WriterType, LoaderInv,
                PackTypes
  <1>3. CASE UNCHANGED fileVars
    BY <1>3 DEF fileVars, WriterType
  <1> QED
    BY <1>1, <1>2, <1>3, ProcessSteps

\* A file that nobody has written holds its first version.
LEMMA LoaderStarts ==
    ASSUME ProcessInit
    PROVE  LoaderInv /\ WriterType
  <1>1. /\ path \in Inodes /\ handle = path /\ writer = Nobody /\ pinned \in BOOLEAN
        /\ disk = [i \in Inodes |-> [parts |-> FirstVersion, mtime |-> 0]]
        /\ now = 1 /\ writes = 0 /\ shared = FALSE /\ before = 0 /\ reader = "idle"
        /\ opened = FirstVersion /\ raw = FirstVersion
    BY LoaderAssumption DEF ProcessInit, StartInit, PackInit
  <1>2. PackTypes
    BY <1>1, First DEF PackTypes
  <1>3. \A i \in Inodes : disk[i].mtime = 0 /\ disk[i].parts = FirstVersion
    BY <1>1
  <1>4. \A k \in Halves : ~Got(k)
    BY <1>1 DEF Got
  <1>5. /\ \A i \in Inodes : disk[i].mtime <= now
        /\ \A i \in Inodes, k \in Halves : disk[i].parts[k] <= writes
        /\ before <= disk[handle].mtime
        /\ \A k \in Halves : /\ opened[k] <= disk[handle].parts[k]
                            /\ disk[handle].parts[k] = opened[k]
    BY <1>1, <1>3, First
  <1>6. PackIsSnapshot
    BY <1>1 DEF PackIsSnapshot
  <1> QED
    BY <1>1, <1>2, <1>4, <1>5, <1>6 DEF LoaderInv, WriterType

\* Whoever replaces or rewrites the pack while it is read, at start and at every restart:
\* what is accepted is what the file held at one moment, and the pinned version if there
\* is a pin; without one, only two writes that are dated alike can deceive the reader.
THEOREM PackSnapshot == ProcessSpec => []PackIsSnapshot
  <1>1. ProcessInit => LoaderInv /\ WriterType
    BY LoaderStarts
  <1>2. LoaderInv /\ WriterType /\ [ProcessNext]_processVars => (LoaderInv /\ WriterType)'
    BY WriterStays, ProcessSteps, LoadSnapshot, OutsideSnapshot, StayedSnapshot DEF WriterType
  <1>3. LoaderInv => PackIsSnapshot
    BY DEF LoaderInv
  <1> QED
    BY <1>1, <1>2, <1>3, PTL DEF ProcessSpec

-------------------------------------------------------------------------------
(* The start. *)

\* While nobody has written the pack it is what it was at first, and so is what is read.
Pristine ==
    writes = 0 =>
        /\ writer = Nobody
        /\ \A i \in Inodes : disk[i] = [parts |-> FirstVersion, mtime |-> 0]
        /\ before = 0 /\ opened = FirstVersion /\ raw = FirstVersion
        /\ reader # "rejected"

\* A reason to leave the service down.
Reason ==
    told \/ (Misconfigured /\ ~Hidden) \/ LocallyWrong \/ writes > 0 \/ sdkFailed

\* The process goes out with a refusal, or without an error, only for a reason.
BootInv ==
    /\ Pristine
    /\ at = "preflight" => ~Local(settings)
    /\ error = "refusal" => Reason
    /\ at \in {"close", "exit"} /\ error = "none" => Reason
    /\ at = "down" => Reason

\* A file that nobody writes is read as it is.
LEMMA PristineRead ==
    ASSUME LoaderInv, Pristine, Load
    PROVE  Pristine'
  <1> SUFFICES ASSUME writes' = 0 PROVE Pristine'
    BY DEF Pristine
  <1>1. /\ writes = 0 /\ UNCHANGED <<writes, writer, disk>>
    BY DEF Load, OpenPack, ReadPart, Accept, fileVars
  <1>2. /\ writer = Nobody /\ before = 0 /\ opened = FirstVersion /\ raw = FirstVersion
        /\ \A i \in Inodes : disk[i] = [parts |-> FirstVersion, mtime |-> 0]
        /\ path \in Inodes /\ handle \in Inodes
    BY <1>1 DEF Pristine, LoaderInv, PackTypes
  <1>3. /\ disk[path].parts = FirstVersion /\ disk[path].mtime = 0
        /\ disk[handle].parts = FirstVersion /\ disk[handle].mtime = 0
    BY <1>2
  <1>4. CASE OpenPack
    BY <1>1, <1>2, <1>3, <1>4 DEF OpenPack, Pristine
  <1>5. ASSUME NEW k \in Halves, NEW from, NEW to \in {"second", "last"},
               ReadPart(k, from, to)
        PROVE  Pristine'
    <2>1. raw' = raw
      BY <1>2, <1>3, <1>5, First DEF ReadPart
    <2> QED
      BY <1>1, <1>2, <1>5, <2>1 DEF ReadPart, Pristine
  <1>6. CASE Accept
    BY <1>1, <1>2, <1>3, <1>6 DEF Accept, Pristine
  <1> QED
    BY <1>4, <1>5, <1>6 DEF Load, Halves

\* Others can only write it, and then a write is counted.
LEMMA PristineOutside ==
    ASSUME LoaderInv, Pristine, Outside
    PROVE  Pristine' /\ (writes > 0 => writes' > 0)
  <1>1. writes \in Nat
    BY DEF LoaderInv, PackTypes
  <1>2. CASE \/ \E i \in Inodes : Replace(i)
             \/ BeginRewrite
    BY <1>1, <1>2 DEF Replace, BeginRewrite, Pristine
  <1>3. CASE EndRewrite
    BY <1>1, <1>3 DEF EndRewrite, Pristine
  <1>4. CASE FileTick
    BY <1>1, <1>4 DEF FileTick, Pristine, loaderVars
  <1> QED
    BY <1>2, <1>3, <1>4 DEF Outside

\* A reason stays until the process is started again.
LEMMA ReasonStays ==
    ASSUME LoaderInv, Pristine, [ProcessNext]_processVars
    PROVE  /\ settings' = settings /\ fault' = fault
           /\ Reason => Reason' \/ (at = "exit" /\ at' = "config")
  <1>1. /\ settings' = settings /\ fault' = fault
        /\ told => told'
        /\ sdkFailed => sdkFailed' \/ (at = "exit" /\ at' = "config")
        /\ writes' = writes \/ Outside
    <2>1. CASE Reply
      BY <2>1 DEF Reply, bootVars, fileVars, ReplyNext, ReplyTick, ReplyStep, Take, Read,
                  StatusReturns, ProviderReturns, Pace, Slept, PostReturns, Posted, Commits,
                  Fail, Clean, ClearReturns, Becomes, DiscordNext, Start, Prepare,
                  GenerateAndPost, Delivered, GiveUp, GivesUp, Store, RunCallback,
                  SendReturns, Reported, Finally, TypingEnds, DiscordTick
    <2>2. CASE Main
      <3>1. CASE Exit
        BY <3>1 DEF Exit, Held, fileVars
      <3>2. CASE LoadConfig \/ ReadPack \/ Preflight \/ PackVerdict
        BY <3>2 DEF LoadConfig, ReadPack, Load, OpenPack, ReadPart, Accept, Preflight,
                    PackVerdict, Kept, Held, fileVars, bootVars
      <3>3. CASE CreateStore \/ PurgeAtStart \/ Construct \/ CloseDone \/ CloseBusy
        BY <3>3 DEF CreateStore, PurgeAtStart, Construct, CloseDone, CloseBusy, Kept, Held,
                    fileVars
      <3>4. CASE Connecting
        BY <3>4 DEF Connecting, Held, fileVars
      <3> QED
        BY <2>2, <3>1, <3>2, <3>3, <3>4 DEF Main
    <2>3. CASE Leave \/ Down \/ Crash \/ UNCHANGED processVars
      BY <2>3 DEF Leave, ClientEnds, StopServing, Held, Down, Crash, processVars, startVars,
                  fileVars, bootVars
    <2>4. CASE Outside /\ UNCHANGED <<settings, bootVars>>
      BY <2>4 DEF bootVars
    <2> QED
      BY <2>1, <2>2, <2>3, <2>4 DEF ProcessNext
  <1>2. writes > 0 => writes' > 0
    BY <1>1, PristineOutside
  <1>3. (Misconfigured /\ ~Hidden => (Misconfigured /\ ~Hidden)') /\ LocallyWrong' = LocallyWrong
    BY <1>1 DEF Misconfigured, Hidden, PillsFit, LocallyWrong, Accepted, Local, WorstCase,
                ProviderCalls, PlatformCalls
  <1> QED
    BY <1>1, <1>2, <1>3 DEF Reason

\* Every step of main keeps the reasons for the exception on its way out.
LEMMA BootHolds ==
    ASSUME LoaderInv, BootInv, [ProcessNext]_processVars
    PROVE  BootInv'
  <1>1. /\ settings' = settings /\ fault' = fault
        /\ Reason => Reason' \/ (at = "exit" /\ at' = "config")
        /\ Local(settings)' <=> Local(settings)
    BY ReasonStays DEF BootInv, Local
  <1>2. Pristine'
    <2>1. CASE Load
      BY <2>1, PristineRead DEF BootInv
    <2>2. CASE Outside
      BY <2>2, PristineOutside DEF BootInv
    <2>3. CASE /\ UNCHANGED fileVars /\ UNCHANGED <<handle, before, opened, raw>>
               /\ reader' = reader \/ reader' = "idle"
      BY <2>3 DEF BootInv, Pristine, fileVars
    <2> QED
      BY <2>1, <2>2, <2>3, ProcessSteps
  <1>3. reader = "rejected" => Reason
    <2>1. writes \in Nat
      BY DEF LoaderInv, PackTypes
    <2> QED
      BY <2>1 DEF BootInv, Pristine, Reason
  <1>4. CASE UNCHANGED <<at, error>>
    BY <1>1, <1>2, <1>4 DEF BootInv
  <1>5. CASE LoadConfig
    <2>1. ~Accepted(settings) => Reason
      BY DEF Reason, Misconfigured, Hidden
    <2> QED
      BY <1>1, <1>2, <1>5, <2>1 DEF LoadConfig, Raises, GoesOn, BootInv
  <1>6. CASE Preflight
    <2>1. fault \in {"preflight", "secret"} /\ at = "preflight" => Reason
      BY DEF BootInv, Reason, Misconfigured, Hidden
    <2> QED
      BY <1>1, <1>2, <1>3, <1>6, <2>1 DEF Preflight, Raises, GoesOn, BootInv
  <1>7. CASE PackVerdict
    BY <1>1, <1>2, <1>3, <1>7 DEF PackVerdict, Raises, GoesOn, BootInv
  <1>8. CASE CreateStore \/ PurgeAtStart
    BY <1>1, <1>2, <1>8 DEF CreateStore, PurgeAtStart, Raises, GoesOn, BootInv
  <1>9. CASE Construct
    <2>1. fault \in {"preflight", "secret"} => Reason
      BY DEF Reason, Misconfigured, Hidden, LocallyWrong
    <2> QED
      BY <1>1, <1>2, <1>9, <2>1 DEF Construct, Raises, GoesOn, BootInv
  <1>10. CASE Connecting
    <2>1. (at' = "serving" /\ error' = error) \/ Reason'
      BY <1>10 DEF Connecting, Raises, GoesOn, Reason
    <2>2. at' \in {"serving", "close"}
      BY <1>10 DEF Connecting, Raises, GoesOn
    <2> QED
      BY <1>1, <1>2, <2>1, <2>2 DEF BootInv
  <1>11. CASE CloseDone \/ CloseBusy
    BY <1>1, <1>2, <1>11 DEF CloseDone, CloseBusy, Raises, GoesOn, BootInv
  <1>12. CASE Exit
    <2>1. told \/ StaysDown => Reason
      BY <1>12 DEF Exit, StaysDown, BootInv, Reason
    <2> QED
      BY <1>1, <1>2, <1>12, <2>1 DEF Exit, BootInv
  <1>13. CASE Leave
    <2>1. Reason' /\ at' = "close"
      BY <1>13 DEF Leave, ClientEnds, StopServing, Raises, Reason
    <2> QED
      BY <1>1, <1>2, <2>1 DEF BootInv
  <1>14. CASE Crash
    BY <1>1, <1>2, <1>14 DEF Crash, BootInv
  <1>15. CASE Reply \/ ReadPack \/ Down \/ UNCHANGED processVars
               \/ (Outside /\ UNCHANGED <<settings, bootVars>>)
    BY <1>4, <1>15 DEF Reply, ReadPack, Down, startVars, processVars, bootVars
  <1> QED
    BY <1>5, <1>6, <1>7, <1>8, <1>9, <1>10, <1>11, <1>12, <1>13, <1>14, <1>15
       DEF ProcessNext, Main

\* There is no exception at first.
LEMMA BootStarts ==
    ASSUME ProcessInit
    PROVE  BootInv
  <1>1. /\ writer = Nobody /\ before = 0 /\ opened = FirstVersion /\ raw = FirstVersion
        /\ disk = [i \in Inodes |-> [parts |-> FirstVersion, mtime |-> 0]]
        /\ reader = "idle" /\ at = "config" /\ error = "none"
    BY DEF ProcessInit, StartInit, PackInit
  <1>2. \A i \in Inodes : disk[i] = [parts |-> FirstVersion, mtime |-> 0]
    BY <1>1
  <1> QED
    BY <1>1, <1>2 DEF BootInv, Pristine

\* Wherever an exception goes out, whatever the adapter's shutdown and close do to it,
\* and whoever kills the process or keeps the database busy: systemd leaves the service
\* down only when the operator has stopped it, when it would fail again, when the pack
\* was written, or when the platform's SDK raised in the last life of the process, which
\* may have been a failure that passes.
THEOREM OnlyReasonsStop == ProcessSpec => []TransientsAreRetried
  <1>1. ProcessInit => LoaderInv /\ WriterType /\ BootInv
    BY LoaderStarts, BootStarts
  <1>2. LoaderInv /\ WriterType /\ BootInv /\ [ProcessNext]_processVars
            => (LoaderInv /\ WriterType /\ BootInv)'
    BY WriterStays, ProcessSteps, LoadSnapshot, OutsideSnapshot, StayedSnapshot, BootHolds
       DEF WriterType
  <1>3. BootInv => TransientsAreRetried
    BY DEF BootInv, Reason, TransientsAreRetried
  <1> QED
    BY <1>1, <1>2, <1>3, PTL DEF ProcessSpec

-------------------------------------------------------------------------------
(* The replies. *)

\* The adapters run only with settings that have been accepted; until then, and with
\* others, no reply has been begun.
RepliesInv ==
    /\ settings \in Settings
    /\ at \in {"preflight", "pack", "store", "purge", "provider", "connect", "serving"}
            => Accepted(settings)
    /\ Accepted(settings) => DeadlineInv /\ StatusInv /\ PaceInv /\ CallInv
    /\ ~Accepted(settings) => ReplyInit /\ DiscordInit

\* No reply has begun before the settings are accepted.
LEMMA RepliesStart ==
    ASSUME ProcessInit
    PROVE  RepliesInv
  <1>1. settings \in Settings /\ at = "config" /\ ReplyInit /\ DiscordInit
    BY DEF ProcessInit, StartInit
  <1> QED
    BY <1>1, DeadlineStarts, StatusStarts, PaceStarts, CallStarts DEF RepliesInv

\* What happens to the replies is a step of theirs or nothing.
LEMMA RepliesSteps ==
    ASSUME [ProcessNext]_processVars
    PROVE  /\ [ReplyNext]_replyVars /\ [DiscordNext]_discordVars
           /\ settings' = settings
           /\ at # "serving" => UNCHANGED <<slackVars, callVars>>
           /\ \/ at' = at
              \/ at = "config" /\ (at' = "exit" \/ Accepted(settings))
              \/ at \in {"preflight", "pack", "store", "purge", "provider", "connect",
                         "serving"}
              \/ at' \in {"exit", "down", "config"}
  <1>1. CASE Reply
    <2>1. settings' = settings
      BY <1>1 DEF Reply, ReplyNext, ReplyTick, ReplyStep, Take, Read,
                  StatusReturns, ProviderReturns, Pace, Slept, PostReturns, Posted, Commits,
                  Fail, Clean, ClearReturns, Becomes, DiscordNext, Start, Prepare,
                  GenerateAndPost, Delivered, GiveUp, GivesUp, Store, RunCallback,
                  SendReturns, Reported, Finally, TypingEnds, DiscordTick
    <2>2. /\ at = "serving" /\ at' = at
          /\ \/ ReplyNext /\ UNCHANGED callVars
             \/ DiscordNext /\ UNCHANGED slackVars
      BY <1>1 DEF Reply, bootVars
    <2> QED
      BY <2>1, <2>2 DEF slackVars, callVars, replyVars, discordVars
  <1>2. CASE Main /\ UNCHANGED <<slackVars, callVars>>
    <2>1. settings' = settings
      BY <1>2 DEF Main, LoadConfig, ReadPack, Preflight, PackVerdict, CreateStore,
                  PurgeAtStart, Construct, Connecting, CloseDone, CloseBusy, Exit, Kept, Held
    <2>2. \/ at' = at
          \/ at = "config" /\ (at' = "exit" \/ Accepted(settings))
          \/ at \in {"preflight", "pack", "store", "purge", "provider", "connect", "serving"}
          \/ at' \in {"exit", "down", "config"}
      BY <1>2 DEF Main, LoadConfig, ReadPack, Preflight, PackVerdict, CreateStore,
                  PurgeAtStart, Construct, Connecting, CloseDone, CloseBusy, Exit, Raises,
                  GoesOn, bootVars
    <2> QED
      BY <1>2, <2>1, <2>2 DEF slackVars, callVars, replyVars, discordVars
  <1>3. CASE /\ \/ Leave \/ Down \/ Crash
                \/ Outside /\ UNCHANGED <<settings, bootVars>>
             /\ UNCHANGED <<slackVars, callVars>>
    <2>1. /\ settings' = settings
          /\ at' = at \/ at \in {"connect", "serving"} \/ at' = "exit"
      BY <1>3 DEF Leave, ClientEnds, StopServing, Raises, Held, Down, Crash, startVars,
                  bootVars
    <2> QED
      BY <1>3, <2>1 DEF slackVars, callVars, replyVars, discordVars
  <1>4. CASE UNCHANGED processVars
    BY <1>4 DEF processVars, startVars, bootVars, slackVars, callVars, replyVars, discordVars
  <1> QED
    BY <1>1, <1>2, <1>3, <1>4 DEF ProcessNext

\* Replies run with accepted settings, which stay as they are while they run.
LEMMA RepliesHold ==
    ASSUME RepliesInv, [ProcessNext]_processVars
    PROVE  RepliesInv' /\ [BeginsPaced]_replyVars
  <1>1. /\ [ReplyNext]_replyVars /\ [DiscordNext]_discordVars /\ settings' = settings
        /\ at # "serving" => UNCHANGED <<slackVars, callVars>>
    BY RepliesSteps
  <1>2. Accepted(settings)' <=> Accepted(settings)
    BY <1>1 DEF Accepted, Local, WorstCase, ProviderCalls, PlatformCalls
  <1>3. ASSUME Accepted(settings)
        PROVE  (DeadlineInv /\ StatusInv /\ PaceInv /\ CallInv)' /\ BeginsPaced
    BY <1>1, <1>3, DeadlineHolds, StatusHolds, PaceHolds, CallHolds DEF RepliesInv
  <1>4. ASSUME ~Accepted(settings)
        PROVE  (ReplyInit /\ DiscordInit)' /\ UNCHANGED replyVars
    <2>1. ReplyInit /\ DiscordInit /\ UNCHANGED <<slackVars, callVars>>
      BY <1>1, <1>4 DEF RepliesInv
    <2>2. (ReplyInit /\ DiscordInit)'
      BY <2>1 DEF ReplyInit, DiscordInit, slackVars, callVars, threadVars, loopVars, clocks
    <2> QED
      BY <1>1, <2>1, <2>2 DEF replyVars, slackVars
  <1>5. ASSUME at' \in {"preflight", "pack", "store", "purge", "provider", "connect",
                        "serving"}
        PROVE  Accepted(settings)
    BY <1>5, RepliesSteps DEF RepliesInv
  <1> QED
    BY <1>1, <1>2, <1>3, <1>4, <1>5 DEF RepliesInv

\* The invariants of the replies say what has to be shown of the process.
LEMMA RepliesGood ==
    ASSUME RepliesInv
    PROVE  SlackEndsInTime /\ StatusCleared /\ ErrorIsLast /\ OnePartNotCutOff
           /\ DiscordEndsInTime
  <1>1. CASE Accepted(settings)
    BY <1>1, DeadlineKept, CallInTime
       DEF RepliesInv, StatusInv, Honest, StatusCleared, HasTime, CallInv, BegunInv, PartInv,
           OnePartNotCutOff
  <1>2. CASE ~Accepted(settings)
    <2>1. ReplyInit /\ DiscordInit /\ settings \in Settings
      BY <1>2 DEF RepliesInv
    <2>2. Budget \in Nat /\ settings.postTimeout \in Nat
      BY <2>1, BudgetAssumption DEF Budget
    <2>3. \A j \in Jobs : /\ reply[j].age = 0 /\ reply[j].waited = 0
                          /\ reply[j].stage = "queued"
      BY <2>1 DEF ReplyInit, FreshReply, Posters
    <2>4. SlackEndsInTime /\ StatusCleared
      BY <2>2, <2>3 DEF SlackEndsInTime, StatusCleared
    <2>5. ErrorIsLast /\ OnePartNotCutOff /\ DiscordEndsInTime
      BY <2>1, <2>2 DEF DiscordInit, ErrorIsLast, OnePartNotCutOff, DiscordEndsInTime
    <2> QED
      BY <2>4, <2>5
  <1> QED
    BY <1>1, <1>2

\* In the life of the process, which reads its settings, checks them and is started again
\* after a failure, a reply of either adapter ends in time outside local use: the replies
\* run with the settings that the check has accepted.
THEOREM ProcessInTime == ProcessSpec => [](SlackEndsInTime /\ DiscordEndsInTime)
  <1>1. ProcessInit => RepliesInv
    BY RepliesStart
  <1>2. RepliesInv /\ [ProcessNext]_processVars => RepliesInv'
    BY RepliesHold
  <1>3. RepliesInv => SlackEndsInTime /\ DiscordEndsInTime
    BY RepliesGood
  <1> QED
    BY <1>1, <1>2, <1>3, PTL DEF ProcessSpec

\* Nor do the threads and channels see anything in the life of the process that the
\* replies by themselves do not show them.
THEOREM ProcessShown == ProcessSpec => [](StatusCleared /\ ErrorIsLast /\ OnePartNotCutOff)
  <1>1. ProcessInit => RepliesInv
    BY RepliesStart
  <1>2. RepliesInv /\ [ProcessNext]_processVars => RepliesInv'
    BY RepliesHold
  <1>3. RepliesInv => StatusCleared /\ ErrorIsLast /\ OnePartNotCutOff
    BY RepliesGood
  <1> QED
    BY <1>1, <1>2, <1>3, PTL DEF ProcessSpec

\* Nor does the life around them bring two posts of a channel nearer to each other.
THEOREM ProcessPaced == ProcessSpec => PostsPaced
  <1>1. ProcessInit => RepliesInv
    BY RepliesStart
  <1>2. RepliesInv /\ [ProcessNext]_processVars => RepliesInv'
    BY RepliesHold
  <1>3. RepliesInv /\ [ProcessNext]_processVars => [BeginsPaced]_replyVars
    BY RepliesHold
  <1>4. ProcessSpec => [][BeginsPaced]_replyVars
    BY <1>1, <1>2, <1>3, PTL DEF ProcessSpec
  <1> QED
    BY <1>4 DEF PostsPaced, BeginsPaced
===============================================================================
