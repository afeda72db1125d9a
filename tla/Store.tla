-------------------------------- MODULE Store --------------------------------
(***************************************************************************)
(* FileStore and EncryptedFileStore: threads of one or two Clients save,   *)
(* load and clear one path, system call by system call.  A save goes       *)
(* through the sibling ".tmp" file, whose name all users of the path       *)
(* share; the encrypted store first imports the plaintext file of an older *)
(* version.  A process may die between any two calls, and calls may fail.  *)
(*                                                                         *)
(* A file holds a blob written whole with a key, Plain for the FileStore   *)
(* and the machine's for the encrypted one, or it is Blank, or Torn: cut   *)
(* short, or two writes over each other.  A thread that writes holds the   *)
(* file itself, which keeps its holders when its name is changed.          *)
(***************************************************************************)
EXTENDS Naturals

CONSTANTS Threads, Clients,
          Blobs,            \* what a Client saves
          Keys, Plain,      \* store keys, and the absence of one
          FaultSets,        \* what may go wrong in one behaviour
          NoData, Garbage,  \* nothing, and bytes that are no blob
          Blank, Torn, Absent, None

\* A write that fails and says so, a flush at close that nobody looks at, an
\* open for reading, an unlink.
Faults == {"write", "close", "read", "remove"}

Values  == Blobs \cup {Garbage}
Whole   == [key : Keys, blob : Values]
File    == Whole \cup {Blank, Torn, Absent}
Answers == Values \cup {NoData, None, "ok", "failed"}

ASSUME StoreAssumption ==
  /\ Threads # {} /\ Plain \in Keys /\ FaultSets \subseteq SUBSET Faults
  /\ Garbage \notin Blobs
  /\ NoData \notin Values /\ None \notin Values /\ None \notin {"tmp", "path", "gone"}
  /\ {Blank, Torn, Absent} \cap Whole = {} /\ Absent \notin {Blank, Torn}
  /\ Blank # Torn
  /\ {"ok", "failed"} \cap (Values \cup {None, NoData}) = {} /\ NoData # None

VARIABLES
  owner, key, faults,  \* fixed: whose thread, which key, what may go wrong
  path, tmp, legacy,   \* the three files
  pc, arg,             \* each thread's next call, and its blob
  fd,                  \* where the file stands that it holds open
  importing,           \* is its save part of an import?
  said                 \* what its last call answered

setup == <<owner, key, faults>>
files == <<path, tmp, legacy>>
local == <<arg, importing, said>>
vars  == <<setup, files, pc, local, fd>>

KeyOf(t) == key[owner[t]]

Saving  == {"open", "write", "rename"}
Loading == {"check", "legacy", "read", "unlink"}

----------------------------------------------------------------------------
Seal(k, b) == [key |-> k, blob |-> b]

\* The tag holds only for bytes sealed whole with this key; without encryption
\* any bytes are returned.
Opened(k, f) ==
  IF f \in {Blank, Absent}               THEN NoData
  ELSE IF f # Torn /\ f = Seal(k, f.blob) THEN f.blob
  ELSE IF k = Plain                       THEN Garbage
  ELSE NoData

\* A file that is written from its start: what stands there may be longer.
Landed(old, new) == IF old \in {Blank, new} THEN {new} ELSE {new, Torn}

Init ==
  /\ owner \in [Threads -> Clients] /\ key \in [Clients -> Keys]
  /\ faults \in FaultSets
  /\ path \in {Absent} \cup [key : Keys, blob : Blobs]
  /\ tmp = Absent
  /\ legacy \in {Absent, Blank, Torn} \cup [key : {Plain}, blob : Blobs]
  /\ pc = [t \in Threads |-> "idle"]
  /\ arg = [t \in Threads |-> None] /\ fd = [t \in Threads |-> None]
  /\ importing = [t \in Threads |-> FALSE]
  /\ said = [t \in Threads |-> None]

Goto(t, l) == pc' = [pc EXCEPT ![t] = l]

Return(t, a) == /\ Goto(t, "idle")
                /\ said' = [said EXCEPT ![t] = a]
                /\ arg' = [arg EXCEPT ![t] = None]
                /\ importing' = [importing EXCEPT ![t] = FALSE]

\* The other threads of the same Client.
Peers(t) == {u \in Threads \ {t} : owner[u] = owner[t]}

----------------------------------------------------------------------------
\* save_cache_() holds the Client's save_mutex_; the constructor, which loads,
\* has no peers yet.
SaveCall(t, b) ==
  /\ pc[t] = "idle"
  /\ \A u \in Peers(t) : pc[u] \in {"idle", "clear"}
  /\ arg' = [arg EXCEPT ![t] = b] /\ said' = [said EXCEPT ![t] = None]
  /\ Goto(t, "open")
  /\ UNCHANGED <<setup, files, fd, importing>>

\* A failed save answers with an error, or is passed over by an import.
SaveFailed(t) == Return(t, IF importing[t] THEN arg[t] ELSE "failed")

\* Seeded fault: the target itself is written.
OpenTarget(t) ==
  /\ pc[t] = "open"
  /\ path' = Blank /\ fd' = [fd EXCEPT ![t] = "path"]
  /\ Goto(t, "write")
  /\ UNCHANGED <<setup, tmp, legacy, local>>

\* The temp file is created, or emptied if it is there.
Open(t) ==
  /\ pc[t] = "open"
  /\ \/ /\ tmp' = Blank /\ fd' = [fd EXCEPT ![t] = "tmp"]
        /\ Goto(t, "write")
        /\ UNCHANGED local
     \/ /\ "write" \in faults
        /\ SaveFailed(t)
        /\ UNCHANGED <<tmp, fd>>
  /\ UNCHANGED <<setup, path, legacy>>

\* The file that is held open now holds f.
Put(t, f) == /\ tmp'  = IF fd[t] = "tmp" THEN f ELSE tmp
             /\ path' = IF fd[t] = "path" THEN f ELSE path

Held(t) == CASE fd[t] = "tmp" -> tmp [] fd[t] = "path" -> path [] OTHER -> Blank

\* The write, the flush and the close; only the write's failure is seen.
Write(t) ==
  /\ pc[t] = "write"
  /\ fd' = [fd EXCEPT ![t] = None]
  /\ \/ /\ \E f \in Landed(Held(t), Seal(KeyOf(t), arg[t])) : Put(t, f)
        /\ Goto(t, "rename") /\ UNCHANGED local
     \/ /\ \E f \in {Held(t), Torn} : Put(t, f)
        /\ \/ "close" \in faults /\ Goto(t, "rename") /\ UNCHANGED local
           \/ "write" \in faults /\ SaveFailed(t)
  /\ UNCHANGED <<setup, legacy>>

\* The files the others hold open follow their names.
Rename(t) ==
  /\ pc[t] = "rename"
  /\ \/ /\ tmp # Absent
        /\ path' = tmp /\ tmp' = Absent
        /\ fd' = [u \in Threads |-> CASE fd[u] = "tmp" -> "path"
                                     [] fd[u] = "path" -> "gone"
                                     [] OTHER -> fd[u]]
        /\ IF importing[t] THEN Goto(t, "unlink") /\ UNCHANGED local
                           ELSE Return(t, "ok")
     \/ /\ tmp = Absent \/ "write" \in faults
        /\ SaveFailed(t)
        /\ UNCHANGED <<path, tmp, fd>>
  /\ UNCHANGED <<setup, legacy>>

----------------------------------------------------------------------------
LoadCall(t) ==
  /\ pc[t] = "idle"
  /\ \A u \in Peers(t) : pc[u] = "idle"
  /\ said' = [said EXCEPT ![t] = None]
  /\ Goto(t, "check")
  /\ UNCHANGED <<setup, files, arg, fd, importing>>

\* Only the encrypted store knows of a legacy file, and only while it has none.
Check(t) ==
  /\ pc[t] = "check"
  /\ Goto(t, IF KeyOf(t) # Plain /\ path = Absent /\ legacy # Absent
             THEN "legacy" ELSE "read")
  /\ UNCHANGED <<setup, files, local, fd>>

\* The legacy file's bytes, whatever they are, become the blob of a save.
Import(t) == /\ arg' = [arg EXCEPT ![t] = Opened(Plain, legacy)]
             /\ importing' = [importing EXCEPT ![t] = TRUE]
             /\ Goto(t, "open")

\* Seeded fault: the legacy file goes before its copy is safe.
ReadLegacyUnlinks(t) ==
  /\ pc[t] = "legacy" /\ legacy \notin {Absent, Blank}
  /\ Import(t) /\ legacy' = Absent
  /\ UNCHANGED <<setup, path, tmp, fd, said>>

ReadLegacy(t) ==
  /\ pc[t] = "legacy"
  /\ \/ legacy \notin {Absent, Blank} /\ Import(t)
     \/ /\ legacy \in {Absent, Blank} \/ "read" \in faults
        /\ Goto(t, "read") /\ UNCHANGED <<arg, importing>>
  /\ UNCHANGED <<setup, files, fd, said>>

Unlink(t) ==
  /\ pc[t] = "unlink"
  /\ \/ legacy' = Absent
     \/ "remove" \in faults /\ UNCHANGED legacy
  /\ Return(t, arg[t])
  /\ UNCHANGED <<setup, path, tmp, fd>>

\* The encrypted store answers no data where the FileStore reports an error.
Read(t) ==
  /\ pc[t] = "read"
  /\ \/ Return(t, Opened(KeyOf(t), path))
     \/ "read" \in faults /\ Return(t, IF KeyOf(t) = Plain THEN "failed" ELSE NoData)
  /\ UNCHANGED <<setup, files, fd>>

\* deactivate() clears outside save_mutex_.
ClearCall(t) ==
  /\ pc[t] = "idle"
  /\ \A u \in Peers(t) : pc[u] \notin Loading /\ ~importing[u]
  /\ said' = [said EXCEPT ![t] = None]
  /\ Goto(t, "clear")
  /\ UNCHANGED <<setup, files, arg, fd, importing>>

Clear(t) ==
  /\ pc[t] = "clear"
  /\ \/ /\ path' = Absent
        /\ fd' = [u \in Threads |-> IF fd[u] = "path" THEN "gone" ELSE fd[u]]
     \/ "remove" \in faults /\ UNCHANGED <<path, fd>>
  /\ Return(t, "ok")
  /\ UNCHANGED <<setup, tmp, legacy>>

\* A Client's process dies.
Crash(c) ==
  LET Dead(f, v) == [t \in Threads |-> IF owner[t] = c THEN v ELSE f[t]]
  IN /\ pc' = Dead(pc, "idle") /\ arg' = Dead(arg, None) /\ fd' = Dead(fd, None)
     /\ importing' = Dead(importing, FALSE) /\ said' = Dead(said, None)
     /\ UNCHANGED <<setup, files>>

Next == \/ \E t \in Threads :
             \/ \E b \in Blobs : SaveCall(t, b)
             \/ Open(t) \/ Write(t) \/ Rename(t)
             \/ LoadCall(t) \/ Check(t) \/ ReadLegacy(t) \/ Unlink(t) \/ Read(t)
             \/ ClearCall(t) \/ Clear(t)
        \/ \E c \in Clients : Crash(c)

Spec == Init /\ [][Next]_vars

----------------------------------------------------------------------------
TypeOK ==
  /\ owner \in [Threads -> Clients] /\ key \in [Clients -> Keys]
  /\ faults \in FaultSets
  /\ path \in File /\ tmp \in File /\ legacy \in File
  /\ pc \in [Threads -> {"idle", "clear"} \cup Saving \cup Loading]
  /\ arg \in [Threads -> Values \cup {None}]
  /\ fd \in [Threads -> {"tmp", "path", "gone", None}]
  /\ importing \in [Threads -> BOOLEAN]
  /\ said \in [Threads -> Answers]

\* One Client uses the path, and a flush that fails is seen.
Alone == \A t, u \in Threads : owner[t] = owner[u]
Sound == Alone /\ "close" \notin faults

\* store.hpp: a crash during save never leaves a half-written file behind.
NeverHalfWritten == Sound => path \notin {Blank, Torn}

\* With one Client on the path the store is an atomic cell through every crash
\* and every failure that is seen; its cells are what the one Client would read.
TheKey == key[owner[CHOOSE t \in Threads : TRUE]]

Promise == INSTANCE AtomicCell WITH
  cell   <- IF Sound THEN Opened(TheKey, path) ELSE NoData,
  legacy <- IF Sound /\ TheKey # Plain THEN Opened(Plain, legacy) ELSE NoData,
  unreadable <- "read" \in faults,
  said   <- IF Sound THEN said ELSE [t \in Threads |-> None]

Refines == Promise!Spec
=============================================================================
