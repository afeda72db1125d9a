----------------------------- MODULE StoreProofs -----------------------------
(***************************************************************************)
(* What holds of Store for any threads, clients, keys, blobs and faults,   *)
(* and of the streaming hashes for any messages.                           *)
(***************************************************************************)
EXTENDS Store, SequenceTheorems, TLAPS

Hulls == {Blank, Torn, Absent}

\* What is written is what was given to a save, or the legacy file's bytes; nobody
\* writes the legacy file.
Contents ==
  /\ path \in Whole \cup Hulls
  /\ tmp \in Whole \cup Hulls
  /\ legacy \in [key : {Plain}, blob : Blobs] \cup Hulls
  /\ \A t \in Threads :
       /\ arg[t] \in Values \cup {None}
       /\ pc[t] \in Saving \cup {"unlink"} => arg[t] \in Values
       /\ importing[t] => pc[t] \in Saving \cup {"unlink"}

\* One thread of a Client at a time saves or loads, and no clear meets a load.
OneAtATime ==
  \A t, u \in Threads : t # u =>
    /\ pc[t] \notin {"idle", "clear"} => pc[u] \in {"idle", "clear"}
    /\ pc[t] \in Loading \/ importing[t] => pc[u] = "idle"

\* How far a save has come, and an import.
Progress ==
  \A t \in Threads :
    /\ fd[t] = IF pc[t] = "write" THEN "tmp" ELSE None
    /\ pc[t] = "write"  => tmp = Blank
    /\ pc[t] = "rename" => tmp = Seal(KeyOf(t), arg[t])
    /\ pc[t] = "unlink" => importing[t] /\ path = Seal(KeyOf(t), arg[t])
    /\ pc[t] = "legacy" => path = Absent /\ KeyOf(t) # Plain
    /\ importing[t] => KeyOf(t) # Plain /\ arg[t] = Opened(Plain, legacy)
    /\ importing[t] /\ pc[t] \in Saving => path = Absent

Whole1 == path \notin {Blank, Torn}

Solo == Sound => OneAtATime /\ Progress /\ Whole1

IInv == TypeOK /\ Contents /\ Solo

----------------------------------------------------------------------------
\* What a store key makes of a file: its blob, nothing, or, only where nothing is
\* encrypted, its bytes.
LEMMA OpenedType ==
  ASSUME NEW k \in Keys, NEW f \in Whole \cup Hulls
  PROVE  Opened(k, f) \in Values \cup {NoData}
BY StoreAssumption DEF Opened, Hulls, Whole, Values, Seal

\* What was sealed whole with a key opens to it.
LEMMA OpenedSeal ==
  ASSUME NEW k \in Keys, NEW b \in Values
  PROVE  /\ Seal(k, b) \in Whole
         /\ Seal(k, b) \notin Hulls
         /\ Opened(k, Seal(k, b)) = b
<1>1. Seal(k, b) \in Whole
  BY DEF Seal, Whole, Values
<1>2. Seal(k, b) \notin Hulls
  BY <1>1, StoreAssumption DEF Hulls
<1>3. Seal(k, b).blob = b
  BY DEF Seal
<1> QED BY <1>1, <1>2, <1>3 DEF Opened, Hulls

\* The legacy file, if it is there and not blank, gives a blob or a torn one's bytes.
LEMMA OpenedLegacy ==
  ASSUME NEW f \in [key : {Plain}, blob : Blobs] \cup {Torn}
  PROVE  f \notin {Blank, Absent} /\ Opened(Plain, f) \in Values
<1>1. CASE f = Torn
  BY <1>1, StoreAssumption DEF Opened, Values
<1>2. CASE f \in [key : {Plain}, blob : Blobs]
  <2>1. f = Seal(Plain, f.blob) /\ f.blob \in Values
    BY <1>2 DEF Seal, Values
  <2> QED BY <2>1, OpenedSeal, StoreAssumption DEF Hulls
<1> QED BY <1>1, <1>2

\* An emptied file takes the bytes as they are.
LEMMA LandedBlank == ASSUME NEW f PROVE Landed(Blank, f) = {f}
BY DEF Landed

----------------------------------------------------------------------------
\* The type of every variable, and what is in the files.
LEMMA TypeStep ==
  ASSUME TypeOK, Contents, [Next]_vars
  PROVE  TypeOK' /\ Contents'
<1> USE StoreAssumption
<1> USE DEF TypeOK, Contents
<1>0. /\ key' = key /\ owner' = owner /\ faults' = faults
  BY DEF Next, vars, setup, SaveCall, Open, Write, Rename, LoadCall, Check, ReadLegacy,
         Unlink, Read, ClearCall, Clear, Crash
<1>k. \A t \in Threads : KeyOf(t) \in Keys
  BY DEF KeyOf
<1>1. ASSUME NEW t \in Threads, NEW b \in Blobs, SaveCall(t, b) PROVE TypeOK' /\ Contents'
  BY <1>1, <1>0 DEF SaveCall, setup, files, Goto, Values, Answers, Saving, Loading
<1>r. ASSUME NEW t \in Threads, NEW a \in Answers, Return(t, a),
             UNCHANGED setup, legacy' \in {legacy, Absent},
             path' \in Whole \cup Hulls,
             tmp' \in Whole \cup Hulls,
             fd' \in [Threads -> {"tmp", "path", "gone", None}]
      PROVE  TypeOK' /\ Contents'
  BY <1>r DEF Return, Goto, setup, Values, Saving, Loading, File, Whole, Hulls
<1>f. ASSUME NEW t \in Threads, SaveFailed(t), pc[t] \in Saving,
             UNCHANGED <<setup, legacy>>,
             path' \in Whole \cup Hulls,
             tmp' \in Whole \cup Hulls,
             fd' \in [Threads -> {"tmp", "path", "gone", None}]
      PROVE  TypeOK' /\ Contents'
  <2>1. (IF importing[t] THEN arg[t] ELSE "failed") \in Answers
    BY <1>f DEF Answers, Values
  <2> QED BY <1>f, <2>1, <1>r DEF SaveFailed
<1>2. ASSUME NEW t \in Threads, Open(t) PROVE TypeOK' /\ Contents'
  <2>1. CASE SaveFailed(t) /\ UNCHANGED <<tmp, fd>>
    BY <1>2, <2>1, <1>f DEF Open, Saving
  <2>2. CASE tmp' = Blank /\ fd' = [fd EXCEPT ![t] = "tmp"] /\ Goto(t, "write") /\ UNCHANGED local
    BY <1>2, <2>2, <1>0 DEF Open, setup, local, Goto, Saving, Loading, Hulls, File
  <2> QED BY <1>2, <2>1, <2>2 DEF Open
<1>3. ASSUME NEW t \in Threads, Write(t) PROVE TypeOK' /\ Contents'
  <2> DEFINE F == Whole \cup Hulls
  <2>1. Held(t) \in F
    BY DEF Held, Hulls
  <2>2. Seal(KeyOf(t), arg[t]) \in F
    BY <1>3, <1>k, OpenedSeal DEF Write, Saving
  <2>3. ASSUME NEW f \in F, Put(t, f) PROVE path' \in F /\ tmp' \in F
    BY <2>3 DEF Put
  <2>4. path' \in F /\ tmp' \in F
    <3>1. Landed(Held(t), Seal(KeyOf(t), arg[t])) \subseteq F
      BY <2>2 DEF Landed, Hulls
    <3>2. {Held(t), Torn} \subseteq F
      BY <2>1 DEF Hulls
    <3> QED BY <1>3, <2>3, <3>1, <3>2 DEF Write
  <2>5. fd' \in [Threads -> {"tmp", "path", "gone", None}]
    BY <1>3 DEF Write
  <2>6. CASE SaveFailed(t)
    BY <1>3, <2>4, <2>5, <2>6, <1>f DEF Write, Saving
  <2>7. CASE Goto(t, "rename") /\ UNCHANGED local
    BY <1>3, <2>4, <2>5, <2>7, <1>0 DEF Write, setup, local, Goto, Saving, Loading, File, Whole, Hulls, Values
  <2> QED BY <1>3, <2>6, <2>7 DEF Write
<1>4. ASSUME NEW t \in Threads, Rename(t) PROVE TypeOK' /\ Contents'
  <2>1. CASE SaveFailed(t) /\ UNCHANGED <<path, tmp, fd>>
    BY <1>4, <2>1, <1>f DEF Rename, Saving
  <2>2. CASE /\ path' = tmp /\ tmp' = Absent
             /\ fd' = [u \in Threads |-> CASE fd[u] = "tmp" -> "path"
                                          [] fd[u] = "path" -> "gone"
                                          [] OTHER -> fd[u]]
             /\ IF importing[t] THEN Goto(t, "unlink") /\ UNCHANGED local
                                ELSE Return(t, "ok")
    <3>1. fd' \in [Threads -> {"tmp", "path", "gone", None}]
      BY <2>2
    <3>2. path' \in Whole \cup Hulls /\ tmp' \in Hulls
      BY <2>2 DEF Hulls
    <3>3. CASE importing[t]
      BY <1>4, <2>2, <3>1, <3>2, <3>3, <1>0
      DEF Rename, setup, local, Goto, Saving, Loading, File, Whole, Hulls, Values
    <3>4. CASE ~importing[t]
      <4>1. Return(t, "ok") /\ "ok" \in Answers
        BY <2>2, <3>4 DEF Answers
      <4> QED BY <1>4, <3>1, <3>2, <4>1, <1>r DEF Rename
    <3> QED BY <3>3, <3>4
  <2> QED BY <1>4, <2>1, <2>2 DEF Rename
<1>5. ASSUME NEW t \in Threads, LoadCall(t) PROVE TypeOK' /\ Contents'
  BY <1>5, <1>0 DEF LoadCall, setup, files, Goto, Answers, Saving, Loading
<1>6. ASSUME NEW t \in Threads, Check(t) PROVE TypeOK' /\ Contents'
  BY <1>6, <1>0 DEF Check, setup, files, local, Goto, Saving, Loading
<1>7. ASSUME NEW t \in Threads, ReadLegacy(t) PROVE TypeOK' /\ Contents'
  <2>1. CASE legacy \notin {Absent, Blank} /\ Import(t)
    <3>1. Opened(Plain, legacy) \in Values
      BY <2>1, OpenedLegacy DEF Hulls
    <3> QED BY <1>7, <2>1, <3>1, <1>0
        DEF ReadLegacy, Import, setup, files, Goto, Saving, Loading, Values
  <2>2. CASE Goto(t, "read") /\ UNCHANGED <<arg, importing>>
    BY <1>7, <2>2, <1>0 DEF ReadLegacy, setup, files, Goto, Saving, Loading
  <2> QED BY <1>7, <2>1, <2>2 DEF ReadLegacy
<1>8. ASSUME NEW t \in Threads, Unlink(t) PROVE TypeOK' /\ Contents'
  <2>1. arg[t] \in Answers
    BY DEF Answers, Values
  <2> QED BY <1>8, <2>1, <1>r DEF Unlink
<1>9. ASSUME NEW t \in Threads, Read(t) PROVE TypeOK' /\ Contents'
  <2>1. Opened(KeyOf(t), path) \in Answers
    BY <1>k, OpenedType DEF Answers, Values
  <2>2. {"failed", NoData} \subseteq Answers
    BY DEF Answers
  <2>3. \E a \in Answers : Return(t, a)
    BY <1>9, <2>1, <2>2 DEF Read
  <2> QED BY <1>9, <2>3, <1>r DEF Read, files
<1>10. ASSUME NEW t \in Threads, ClearCall(t) PROVE TypeOK' /\ Contents'
  BY <1>10, <1>0 DEF ClearCall, setup, files, Goto, Answers, Saving, Loading
<1>11. ASSUME NEW t \in Threads, Clear(t) PROVE TypeOK' /\ Contents'
  <2>1. /\ path' \in Whole \cup Hulls
        /\ fd' \in [Threads -> {"tmp", "path", "gone", None}]
    BY <1>11 DEF Clear, Hulls
  <2> QED BY <1>11, <2>1, <1>r DEF Clear, Answers
<1>12. ASSUME NEW c \in Clients, Crash(c) PROVE TypeOK' /\ Contents'
  BY <1>12, <1>0 DEF Crash, setup, files, Answers, Saving, Loading
<1>13. CASE UNCHANGED vars
  BY <1>13 DEF vars, setup, files, local, Values, Saving, Loading
<1> QED BY <1>1, <1>2, <1>3, <1>4, <1>5, <1>6, <1>7, <1>8, <1>9, <1>10, <1>11, <1>12, <1>13
    DEF Next

\* The initial states.
LEMMA InitHolds == Init => IInv
<1> SUFFICES ASSUME Init PROVE IInv
  OBVIOUS
<1> USE StoreAssumption DEF Init
<1>1. TypeOK
  BY DEF TypeOK, File, Whole, Values, Answers, Saving, Loading
<1>2. Contents
  BY DEF Contents, Hulls, Saving, Whole, Values
<1>4. OneAtATime /\ Progress
  BY DEF OneAtATime, Progress, Loading
<1>5. Whole1
  BY DEF Whole1, Whole, Values
<1> QED BY <1>1, <1>2, <1>4, <1>5 DEF IInv, Solo

\* With one Client on the path and flushes that fail loudly, one thread at a time is
\* inside the files, and what it has done so far is in them.
LEMMA SoloStep ==
  ASSUME TypeOK, Contents, Solo, [Next]_vars
  PROVE  Solo'
<1> USE StoreAssumption
<1>0. /\ key' = key /\ owner' = owner /\ faults' = faults
  BY DEF Next, vars, setup, SaveCall, Open, Write, Rename, LoadCall, Check, ReadLegacy,
         Unlink, Read, ClearCall, Clear, Crash
<1> SUFFICES ASSUME Sound PROVE OneAtATime' /\ Progress' /\ Whole1'
  BY <1>0 DEF Solo, Sound, Alone
<1>1. OneAtATime /\ Progress /\ Whole1
  BY DEF Solo
<1>2. \A t, u \in Threads : t # u => u \in Peers(t)
  BY DEF Sound, Alone, Peers
<1>k. \A t \in Threads : KeyOf(t)' = KeyOf(t)
  BY <1>0 DEF KeyOf
<1>t. /\ pc \in [Threads -> {"idle", "clear"} \cup Saving \cup Loading]
      /\ importing \in [Threads -> BOOLEAN]
      /\ fd \in [Threads -> {"tmp", "path", "gone", None}]
      /\ arg \in [Threads -> Values \cup {None}]
  BY DEF TypeOK, Contents
<1>i. \A t \in Threads : importing[t] => pc[t] \in Saving \cup {"unlink"}
  BY DEF Contents
<1>o. ASSUME NEW t \in Threads, pc[t] \notin {"idle", "clear"}
      PROVE  \A u \in Threads \ {t} :
               pc[u] \in {"idle", "clear"} /\ fd[u] = None /\ ~importing[u]
  BY <1>o, <1>1, <1>i DEF OneAtATime, Progress, Saving
\* A thread that begins or goes on with a call, the others at rest.
<1>g. ASSUME NEW t \in Threads,
             \A u \in Threads \ {t} :
               /\ pc[u] \in {"idle", "clear"} /\ fd[u] = None /\ ~importing[u]
               /\ pc'[u] = pc[u] /\ fd'[u] = fd[u] /\ importing'[u] = importing[u],
             pc'[t] \in Loading \/ importing'[t] =>
               \A u \in Threads \ {t} : pc[u] = "idle",
             fd'[t] = IF pc'[t] = "write" THEN "tmp" ELSE None,
             pc'[t] = "write"  => tmp' = Blank,
             pc'[t] = "rename" => tmp' = Seal(KeyOf(t), arg'[t]),
             pc'[t] = "unlink" => importing'[t] /\ path' = Seal(KeyOf(t), arg'[t]),
             pc'[t] = "legacy" => path' = Absent /\ KeyOf(t) # Plain,
             importing'[t] => KeyOf(t) # Plain /\ arg'[t] = Opened(Plain, legacy'),
             importing'[t] /\ pc'[t] \in Saving => path' = Absent,
             path' \notin {Blank, Torn}
      PROVE  OneAtATime' /\ Progress' /\ Whole1'
  <2>1. OneAtATime'
    BY <1>g DEF OneAtATime, Loading
  <2>2. Opened(Plain, legacy)' = Opened(Plain, legacy')
    BY DEF Opened, Seal
  <2>3. ASSUME NEW u \in Threads, u # t
        PROVE  pc'[u] \in {"idle", "clear"} /\ fd'[u] = None /\ ~importing'[u]
    BY <2>3, <1>g
  <2>4. Progress'
    <3>1. ASSUME NEW u \in Threads
          PROVE  /\ fd'[u] = IF pc'[u] = "write" THEN "tmp" ELSE None
                 /\ pc'[u] = "write"  => tmp' = Blank
                 /\ pc'[u] = "rename" => tmp' = Seal(KeyOf(u), arg'[u])
                 /\ pc'[u] = "unlink" => importing'[u] /\ path' = Seal(KeyOf(u), arg'[u])
                 /\ pc'[u] = "legacy" => path' = Absent /\ KeyOf(u) # Plain
                 /\ importing'[u] => KeyOf(u) # Plain /\ arg'[u] = Opened(Plain, legacy')
                 /\ importing'[u] /\ pc'[u] \in Saving => path' = Absent
      BY <2>3, <1>g
    <3> QED BY <3>1, <1>k, <2>2 DEF Progress, Seal
  <2> QED BY <2>1, <2>4, <1>g DEF Whole1
\* A thread whose call ends.
<1>r. ASSUME NEW t \in Threads, NEW a, Return(t, a), pc[t] \notin {"idle", "clear"},
             fd' = [fd EXCEPT ![t] = None], path' \notin {Blank, Torn}
      PROVE  OneAtATime' /\ Progress' /\ Whole1'
  BY <1>r, <1>o, <1>t, <1>g DEF Return, Goto, Loading, Saving
<1>n. ASSUME NEW t \in Threads, pc[t] # "write", UNCHANGED fd PROVE fd' = [fd EXCEPT ![t] = None]
  BY <1>n, <1>1, <1>t DEF Progress
<1>3. ASSUME NEW t \in Threads, NEW b \in Blobs, SaveCall(t, b)
      PROVE  OneAtATime' /\ Progress' /\ Whole1'
  <2>1. \A u \in Threads \ {t} : pc[u] \in {"idle", "clear"} /\ fd[u] = None /\ ~importing[u]
    BY <1>3, <1>2, <1>1, <1>i DEF SaveCall, Progress, Saving
  <2>2. ~importing[t] /\ fd[t] = None
    BY <1>3, <1>1, <1>i DEF SaveCall, Progress, Saving
  <2> QED BY <1>3, <2>1, <2>2, <1>t, <1>1, <1>g DEF SaveCall, Goto, files, Loading, Whole1
<1>4. ASSUME NEW t \in Threads, Open(t) PROVE OneAtATime' /\ Progress' /\ Whole1'
  <2>1. CASE SaveFailed(t) /\ UNCHANGED <<tmp, fd>>
    BY <1>4, <2>1, <1>n, <1>r, <1>1 DEF Open, SaveFailed, Whole1
  <2>2. CASE tmp' = Blank /\ fd' = [fd EXCEPT ![t] = "tmp"] /\ Goto(t, "write") /\ UNCHANGED local
    <3>1. importing[t] => /\ KeyOf(t) # Plain /\ arg[t] = Opened(Plain, legacy) /\ path = Absent
                          /\ \A u \in Threads \ {t} : pc[u] = "idle"
      BY <1>4, <1>1 DEF Open, Progress, OneAtATime, Saving
    <3> QED BY <1>4, <2>2, <3>1, <1>o, <1>t, <1>1, <1>g DEF Open, Goto, local, Loading, Whole1
  <2> QED BY <1>4, <2>1, <2>2 DEF Open
<1>5. ASSUME NEW t \in Threads, Write(t) PROVE OneAtATime' /\ Progress' /\ Whole1'
  <2>1. pc[t] = "write" /\ fd[t] = "tmp" /\ tmp = Blank
    BY <1>5, <1>1 DEF Write, Progress
  <2>2. ASSUME NEW f, Put(t, f) PROVE path' = path /\ tmp' = f
    BY <2>1, <2>2 DEF Put
  <2>3. path' = path /\ fd' = [fd EXCEPT ![t] = None]
    BY <1>5, <2>2 DEF Write
  <2>4. CASE SaveFailed(t)
    BY <1>5, <2>1, <2>3, <2>4, <1>r, <1>1 DEF SaveFailed, Whole1
  <2>5. CASE /\ \E f \in Landed(Held(t), Seal(KeyOf(t), arg[t])) : Put(t, f)
             /\ Goto(t, "rename") /\ UNCHANGED local
    <3>1. Held(t) = Blank
      BY <2>1 DEF Held
    <3>2. tmp' = Seal(KeyOf(t), arg[t])
      BY <2>5, <3>1, <2>2, LandedBlank
    <3>3. importing[t] => /\ KeyOf(t) # Plain /\ arg[t] = Opened(Plain, legacy) /\ path = Absent
                          /\ \A u \in Threads \ {t} : pc[u] = "idle"
      BY <2>1, <1>1 DEF Progress, OneAtATime, Saving
    <3> QED BY <1>5, <2>1, <2>3, <2>5, <3>2, <3>3, <1>o, <1>t, <1>1, <1>g
        DEF Write, Goto, local, Loading, Whole1
  <2> QED BY <1>5, <2>4, <2>5 DEF Write, Sound
<1>6. ASSUME NEW t \in Threads, Rename(t) PROVE OneAtATime' /\ Progress' /\ Whole1'
  <2>1. CASE SaveFailed(t) /\ UNCHANGED <<path, tmp, fd>>
    BY <1>6, <2>1, <1>n, <1>r, <1>1 DEF Rename, SaveFailed, Whole1
  <2>2. CASE /\ path' = tmp /\ tmp' = Absent
             /\ fd' = [u \in Threads |-> CASE fd[u] = "tmp" -> "path"
                                          [] fd[u] = "path" -> "gone"
                                          [] OTHER -> fd[u]]
             /\ IF importing[t] THEN Goto(t, "unlink") /\ UNCHANGED local
                                ELSE Return(t, "ok")
    <3>1. pc[t] = "rename" /\ tmp = Seal(KeyOf(t), arg[t]) /\ arg[t] \in Values /\ KeyOf(t) \in Keys
      BY <1>6, <1>1 DEF Rename, Progress, Contents, Saving, KeyOf, TypeOK
    <3>2. path' = Seal(KeyOf(t), arg[t]) /\ path' \notin {Blank, Torn}
      BY <2>2, <3>1, OpenedSeal DEF Hulls
    <3>3. fd[t] = None
      BY <3>1, <1>1 DEF Progress
    <3>4. \A u \in Threads : fd[u] = None
      BY <3>1, <3>3, <1>o
    <3>5. fd' = fd
      <4>1. \A u \in Threads : fd'[u] = None
        BY <2>2, <3>4
      <4>2. fd' \in [Threads -> {None}] /\ fd \in [Threads -> {None}]
        BY <2>2, <3>4, <1>t
      <4> QED BY <4>2
    <3>6. CASE ~importing[t]
      BY <2>2, <3>1, <3>2, <3>5, <3>6, <1>n, <1>r
    <3>7. CASE importing[t]
      <4>1. /\ KeyOf(t) # Plain /\ arg[t] = Opened(Plain, legacy)
            /\ \A u \in Threads \ {t} : pc[u] = "idle"
        BY <3>1, <3>7, <1>1 DEF Progress, OneAtATime, Saving
      <4> QED BY <1>6, <2>2, <3>1, <3>2, <3>3, <3>5, <3>7, <4>1, <1>o, <1>t, <1>g
          DEF Rename, Goto, local, Loading, Saving
    <3> QED BY <3>6, <3>7
  <2> QED BY <1>6, <2>1, <2>2 DEF Rename
<1>7. ASSUME NEW t \in Threads, LoadCall(t) PROVE OneAtATime' /\ Progress' /\ Whole1'
  <2>1. \A u \in Threads \ {t} : pc[u] = "idle" /\ fd[u] = None /\ ~importing[u]
    BY <1>7, <1>2, <1>1, <1>i DEF LoadCall, Progress, Saving
  <2>2. ~importing[t] /\ fd[t] = None
    BY <1>7, <1>1, <1>i DEF LoadCall, Progress, Saving
  <2> QED BY <1>7, <2>1, <2>2, <1>t, <1>1, <1>g DEF LoadCall, Goto, files, Whole1
<1>8. ASSUME NEW t \in Threads, Check(t) PROVE OneAtATime' /\ Progress' /\ Whole1'
  <2>1. \A u \in Threads \ {t} : pc[u] = "idle"
    BY <1>8, <1>1 DEF Check, OneAtATime, Loading
  <2>2. ~importing[t] /\ fd[t] = None
    BY <1>8, <1>1, <1>i DEF Check, Progress, Saving
  <2>3. pc'[t] \in {"legacy", "read"} /\ \A u \in Threads \ {t} : pc'[u] = pc[u]
    BY <1>8, <1>t DEF Check, Goto
  <2>4. pc'[t] = "legacy" => path = Absent /\ KeyOf(t) # Plain
    BY <1>8, <1>t DEF Check, Goto
  <2>5. UNCHANGED <<setup, path, tmp, legacy, arg, importing, fd>>
    BY <1>8 DEF Check, files, local
  <2>6. \A u \in Threads \ {t} :
          /\ pc[u] \in {"idle", "clear"} /\ fd[u] = None /\ ~importing[u]
          /\ pc'[u] = pc[u] /\ fd'[u] = fd[u] /\ importing'[u] = importing[u]
    <3>1. pc[t] = "check"
      BY <1>8 DEF Check
    <3> QED BY <2>3, <2>5, <3>1, <1>o
  <2>7. /\ fd'[t] = IF pc'[t] = "write" THEN "tmp" ELSE None
        /\ pc'[t] \notin {"write", "rename", "unlink"} \cup Saving /\ ~importing'[t]
        /\ pc'[t] = "legacy" => path' = Absent /\ KeyOf(t) # Plain
        /\ path' \notin {Blank, Torn}
    BY <2>2, <2>3, <2>4, <2>5, <1>1 DEF Saving, Whole1
  <2> QED BY <2>1, <2>6, <2>7, <1>g
<1>9. ASSUME NEW t \in Threads, ReadLegacy(t) PROVE OneAtATime' /\ Progress' /\ Whole1'
  <2>1. /\ \A u \in Threads \ {t} : pc[u] = "idle"
        /\ path = Absent /\ KeyOf(t) # Plain /\ fd[t] = None /\ ~importing[t]
    BY <1>9, <1>1, <1>i DEF ReadLegacy, OneAtATime, Progress, Loading, Saving
  <2>2. CASE Import(t)
    <3>1. /\ pc[t] = "legacy" /\ pc'[t] = "open" /\ importing'[t]
          /\ arg'[t] = Opened(Plain, legacy)
          /\ \A u \in Threads \ {t} : pc'[u] = pc[u] /\ importing'[u] = importing[u]
      BY <1>9, <2>2, <1>t DEF ReadLegacy, Import, Goto
    <3>2. UNCHANGED <<path, tmp, legacy, fd>>
      BY <1>9 DEF ReadLegacy, files
    <3>3. \A u \in Threads \ {t} :
            /\ pc[u] \in {"idle", "clear"} /\ fd[u] = None /\ ~importing[u]
            /\ pc'[u] = pc[u] /\ fd'[u] = fd[u] /\ importing'[u] = importing[u]
      BY <3>1, <3>2, <1>o
    <3>4. /\ fd'[t] = IF pc'[t] = "write" THEN "tmp" ELSE None
          /\ pc'[t] \notin {"write", "rename", "unlink", "legacy"}
          /\ KeyOf(t) # Plain /\ arg'[t] = Opened(Plain, legacy') /\ path' = Absent
          /\ path' \notin {Blank, Torn}
      BY <2>1, <3>1, <3>2, <1>1 DEF Whole1
    <3> QED BY <2>1, <3>3, <3>4, <1>g
  <2>3. CASE Goto(t, "read") /\ UNCHANGED <<arg, importing>>
    BY <1>9, <2>1, <2>3, <1>o, <1>t, <1>1, <1>g DEF ReadLegacy, Goto, files, Whole1, Saving
  <2> QED BY <1>9, <2>2, <2>3 DEF ReadLegacy
<1>10. ASSUME NEW t \in Threads, Unlink(t) PROVE OneAtATime' /\ Progress' /\ Whole1'
  BY <1>10, <1>n, <1>r, <1>1 DEF Unlink, Whole1
<1>11. ASSUME NEW t \in Threads, Read(t) PROVE OneAtATime' /\ Progress' /\ Whole1'
  <2>1. PICK a : Return(t, a)
    BY <1>11 DEF Read
  <2> QED BY <1>11, <2>1, <1>n, <1>r, <1>1 DEF Read, files, Whole1
<1>12. ASSUME NEW t \in Threads, ClearCall(t) PROVE OneAtATime' /\ Progress' /\ Whole1'
  <2>1. ~importing[t] /\ \A u \in Threads \ {t} : pc[u] \notin Loading /\ ~importing[u]
    BY <1>12, <1>2, <1>i DEF ClearCall, Saving
  <2>2. OneAtATime'
    BY <1>12, <2>1, <1>1, <1>t DEF ClearCall, OneAtATime, Goto, Loading
  <2>3. Progress'
    BY <1>12, <2>1, <1>1, <1>t, <1>k DEF ClearCall, Progress, Goto, files, Seal, Opened, Saving
  <2> QED BY <1>12, <2>2, <2>3, <1>1 DEF ClearCall, files, Whole1
<1>13. ASSUME NEW t \in Threads, Clear(t) PROVE OneAtATime' /\ Progress' /\ Whole1'
  <2>1. /\ ~importing[t] /\ fd[t] = None
        /\ \A u \in Threads \ {t} : pc[u] \notin Loading /\ ~importing[u] /\ fd[u] # "path"
    BY <1>13, <1>1, <1>i DEF Clear, OneAtATime, Progress, Saving
  <2>2. fd' = fd
    BY <1>13, <2>1, <1>t DEF Clear
  <2>3. OneAtATime'
    BY <1>13, <2>1, <1>1, <1>t DEF Clear, Return, OneAtATime, Goto, Loading
  <2>4. Progress'
    BY <1>13, <2>1, <2>2, <1>1, <1>t, <1>k DEF Clear, Return, Progress, Goto, Seal, Opened, Saving, Loading
  <2>5. path' \in {path, Absent}
    BY <1>13 DEF Clear
  <2> QED BY <2>3, <2>4, <2>5, <1>1 DEF Whole1
<1>14. ASSUME NEW c \in Clients, Crash(c) PROVE OneAtATime' /\ Progress' /\ Whole1'
  <2>1. CASE \A t \in Threads : owner[t] = c
    <3>1. \A t \in Threads : pc'[t] = "idle" /\ fd'[t] = None /\ ~importing'[t]
      BY <1>14, <2>1 DEF Crash
    <3> QED BY <1>14, <3>1, <1>1 DEF Crash, OneAtATime, Progress, Whole1, files, Loading
  <2>2. CASE \A t \in Threads : owner[t] # c
    <3>1. pc' = pc /\ fd' = fd /\ importing' = importing /\ arg' = arg
      BY <1>14, <2>2, <1>t DEF Crash
    <3> QED BY <1>14, <3>1, <1>1, <1>k DEF Crash, OneAtATime, Progress, Whole1, files, Seal, Opened
  <2> QED BY <2>1, <2>2 DEF Sound, Alone
<1>15. CASE UNCHANGED vars
  BY <1>15, <1>1, <1>k DEF vars, files, local, OneAtATime, Progress, Whole1, Seal, Opened
<1> QED BY <1>3, <1>4, <1>5, <1>6, <1>7, <1>8, <1>9, <1>10, <1>11, <1>12, <1>13, <1>14, <1>15
    DEF Next

\* Every step keeps the inductive invariant.
LEMMA Inductive == IInv /\ [Next]_vars => IInv'
BY TypeStep, SoloStep DEF IInv

\* And so it always holds.
LEMMA Invariance == Spec => []IInv
BY InitHolds, Inductive, PTL DEF Spec

----------------------------------------------------------------------------
\* Every variable of the stores keeps its type: any threads, clients and faults.
THEOREM TypeCorrect == Spec => []TypeOK
<1>1. IInv => TypeOK
  BY DEF IInv
<1> QED BY Invariance, <1>1, PTL

\* FileStore::save() of one Client: through every crash, failing call and
\* interleaving of its threads, what stands under the path is a whole blob or
\* nothing, as long as the system reports a flush that fails.
THEOREM FilesAreWhole == Spec => []NeverHalfWritten
<1>1. IInv => NeverHalfWritten
  BY DEF IInv, Solo, Whole1, NeverHalfWritten
<1> QED BY Invariance, <1>1, PTL

----------------------------------------------------------------------------
Cell    == IF Sound THEN Opened(TheKey, path) ELSE NoData
OldCell == IF Sound /\ TheKey # Plain THEN Opened(Plain, legacy) ELSE NoData
Said    == IF Sound THEN said ELSE [t \in Threads |-> None]

\* The two cells hold blobs of the Client or nothing.
LEMMA CellsHoldValues ==
  ASSUME TypeOK, Contents, NEW t0 \in Threads
  PROVE  /\ TheKey \in Keys
         /\ Opened(TheKey, path) \in Values \cup {NoData}
         /\ Opened(Plain, legacy) \in Values \cup {NoData}
<1> USE StoreAssumption
<1>1. TheKey \in Keys
  BY DEF TheKey, TypeOK
<1>2. Opened(TheKey, path) \in Values \cup {NoData}
  BY <1>1, OpenedType DEF Contents, Values
<1>3. Opened(Plain, legacy) \in Values \cup {NoData}
  <2>1. CASE legacy \in [key : {Plain}, blob : Blobs] \cup {Torn}
    BY <2>1, OpenedLegacy
  <2>2. CASE legacy \in {Blank, Absent}
    BY <2>2 DEF Opened
  <2> QED BY <2>1, <2>2 DEF Contents, Hulls
<1> QED BY <1>1, <1>2, <1>3

\* The initial files are two cells.
LEMMA RefinesInit == ASSUME Init PROVE Promise!Init
<1>1. IInv
  BY InitHolds
<1>2. PICK t0 \in Threads : TRUE
  BY StoreAssumption
<1>3. /\ TheKey \in Keys
      /\ Opened(TheKey, path) \in Values \cup {NoData}
      /\ Opened(Plain, legacy) \in Values \cup {NoData}
  BY <1>1, <1>2, CellsHoldValues DEF IInv
<1> QED BY <1>3 DEF Promise!Init, Init, Values

\* Each system call is a step of the two cells, or none.
LEMMA RefinesStep ==
  ASSUME IInv, [Next]_vars
  PROVE  Promise!Next \/ UNCHANGED <<Cell, OldCell, "read" \in faults, Said>>
<1> USE StoreAssumption
<1> DEFINE Stutter == UNCHANGED <<Cell, OldCell, "read" \in faults, Said>>
<1>0. /\ key' = key /\ owner' = owner /\ faults' = faults
  BY DEF Next, vars, setup, SaveCall, Open, Write, Rename, LoadCall, Check, ReadLegacy,
         Unlink, Read, ClearCall, Clear, Crash
<1>1. Sound' = Sound /\ TheKey' = TheKey
  BY <1>0 DEF Sound, Alone, TheKey
<1>2. ASSUME ~Sound PROVE Stutter
  BY <1>0, <1>1, <1>2 DEF Cell, OldCell, Said
<1> SUFFICES ASSUME Sound PROVE Promise!Next \/ Stutter
  BY <1>2
<1>3. TypeOK /\ Contents /\ OneAtATime /\ Progress /\ Whole1
  BY DEF IInv, Solo
<1>4. PICK t0 \in Threads : TRUE
  BY StoreAssumption
<1>5. /\ TheKey \in Keys
      /\ Opened(TheKey, path) \in Values \cup {NoData}
      /\ Opened(Plain, legacy) \in Values \cup {NoData}
  BY <1>3, <1>4, CellsHoldValues
<1>6. \A t \in Threads : KeyOf(t) = TheKey
  BY DEF Sound, Alone, KeyOf, TheKey
<1>7. /\ Cell = Opened(TheKey, path) /\ Cell' = Opened(TheKey, path')
      /\ Said = said /\ Said' = said'
      /\ OldCell = IF TheKey # Plain THEN Opened(Plain, legacy) ELSE NoData
      /\ OldCell' = IF TheKey # Plain THEN Opened(Plain, legacy') ELSE NoData
      /\ ("read" \in faults)' = ("read" \in faults)
  BY <1>0, <1>1 DEF Cell, OldCell, Said, Opened, Seal
<1>8. said \in [Threads -> Answers] /\ arg \in [Threads -> Values \cup {None}]
  BY <1>3 DEF TypeOK, Contents
\* The abstract steps, said of the files.
<1>a. ASSUME path' = path, legacy' = legacy, said' \in [Threads -> Answers],
             \A t \in Threads : said'[t] \in {said[t], None}
      PROVE  Promise!Next
  BY <1>a, <1>7 DEF Promise!Next, Promise!Silence, Cell, OldCell, Said, Answers
<1>b. ASSUME path' = path, legacy' = legacy, said' = said PROVE Stutter
  BY <1>b, <1>7
<1>c. ASSUME NEW t \in Threads, path' = path, legacy' = legacy,
             said' = [said EXCEPT ![t] = "failed"]
      PROVE  Promise!Next
  BY <1>c, <1>7 DEF Promise!Next, Promise!Save, Promise!Answer, Cell, OldCell, Said
<1>d. ASSUME NEW t \in Threads, legacy' = legacy,
             \/ path' = path
             \/ Opened(TheKey, path') = NoData,
             said' = [said EXCEPT ![t] = "ok"]
      PROVE  Promise!Next
  BY <1>d, <1>7 DEF Promise!Next, Promise!Erase, Promise!Answer, Cell, OldCell, Said
<1>e. ASSUME NEW t \in Threads, path' = path,
             \/ legacy' = legacy
             \/ /\ Opened(Plain, legacy') = NoData
                /\ TheKey # Plain /\ Opened(TheKey, path) = Opened(Plain, legacy),
             \/ said' = [said EXCEPT ![t] = NoData]
             \/ said' = [said EXCEPT ![t] = "failed"]
             \/ /\ said' = [said EXCEPT ![t] = Opened(TheKey, path)]
                /\ Opened(TheKey, path) # NoData
             \/ /\ said' = [said EXCEPT ![t] = Opened(Plain, legacy)]
                /\ TheKey # Plain /\ Opened(TheKey, path) = NoData
      PROVE  Promise!Next
  BY <1>e, <1>7 DEF Promise!Next, Promise!Read, Promise!Answer, Cell, OldCell, Said
<1>f. ASSUME NEW t \in Threads, SaveFailed(t), pc[t] \in Saving, path' = path, legacy' = legacy
      PROVE  Promise!Next
  <2>1. CASE ~importing[t]
    BY <1>f, <2>1, <1>c DEF SaveFailed, Return
  <2>2. CASE importing[t]
    <3>1. arg[t] = Opened(Plain, legacy) /\ TheKey # Plain /\ path = Absent
      BY <1>f, <2>2, <1>3, <1>6 DEF Progress
    <3>2. Opened(TheKey, path) = NoData
      BY <3>1 DEF Opened
    <3> QED BY <1>f, <2>2, <3>1, <3>2, <1>e DEF SaveFailed, Return
  <2> QED BY <1>3, <2>1, <2>2 DEF TypeOK
<1>9. ASSUME NEW t \in Threads, NEW b \in Blobs, SaveCall(t, b) PROVE Promise!Next
  BY <1>9, <1>8, <1>a DEF SaveCall, files, Answers
<1>10. ASSUME NEW t \in Threads, Open(t) PROVE Promise!Next \/ Stutter
  BY <1>10, <1>b, <1>f DEF Open, local, Saving
<1>11. ASSUME NEW t \in Threads, Write(t) PROVE Promise!Next \/ Stutter
  <2>1. fd[t] = "tmp"
    BY <1>11, <1>3 DEF Write, Progress
  <2>2. path' = path
    BY <1>11, <2>1 DEF Write, Put
  <2> QED BY <1>11, <2>2, <1>b, <1>f DEF Write, local, Saving
<1>12. ASSUME NEW t \in Threads, Rename(t) PROVE Promise!Next \/ Stutter
  <2>1. CASE SaveFailed(t) /\ UNCHANGED <<path, tmp, fd>>
    BY <1>12, <2>1, <1>f DEF Rename, Saving
  <2>2. CASE /\ path' = tmp
             /\ IF importing[t] THEN Goto(t, "unlink") /\ UNCHANGED local ELSE Return(t, "ok")
    <3>1. tmp = Seal(TheKey, arg[t]) /\ arg[t] \in Values /\ legacy' = legacy
      BY <1>12, <1>3, <1>6 DEF Rename, Progress, Contents, Saving
    <3>2. Opened(TheKey, path') = arg[t]
      BY <2>2, <3>1, <1>5, OpenedSeal
    <3>3. CASE ~importing[t]
      BY <2>2, <3>1, <3>2, <3>3, <1>7, ZenonT(40)
      DEF Return, Promise!Next, Promise!Save, Promise!Answer, Cell, OldCell, Said, Values
    <3>4. CASE importing[t]
      <4>1. /\ arg[t] = Opened(Plain, legacy) /\ TheKey # Plain
            /\ Opened(TheKey, path) = NoData /\ arg[t] # NoData
        BY <1>12, <3>1, <3>4, <1>3, <1>6 DEF Rename, Progress, Saving, Opened, Values
      <4> QED BY <2>2, <3>1, <3>2, <3>4, <4>1, <1>7
          DEF local, Promise!Next, Promise!Migrate, Cell, OldCell, Said
    <3> QED BY <3>3, <3>4
  <2> QED BY <1>12, <2>1, <2>2 DEF Rename
<1>13. ASSUME NEW t \in Threads, LoadCall(t) \/ ClearCall(t) PROVE Promise!Next
  BY <1>13, <1>8, <1>a DEF LoadCall, ClearCall, files, Answers
<1>14. ASSUME NEW t \in Threads, Check(t) \/ ReadLegacy(t) PROVE Stutter
  BY <1>14, <1>b DEF Check, ReadLegacy, files, local
<1>15. ASSUME NEW t \in Threads, Unlink(t) PROVE Promise!Next
  <2>1. /\ importing[t] /\ path = Seal(TheKey, arg[t]) /\ arg[t] \in Values
        /\ TheKey # Plain /\ arg[t] = Opened(Plain, legacy)
    BY <1>15, <1>3, <1>6 DEF Unlink, Progress, Contents
  <2>2. Opened(TheKey, path) = arg[t] /\ arg[t] # NoData
    BY <2>1, <1>5, OpenedSeal DEF Values
  <2>3. Opened(Plain, Absent) = NoData
    BY DEF Opened
  <2> QED BY <1>15, <2>1, <2>2, <2>3, <1>e DEF Unlink, Return
<1>16. ASSUME NEW t \in Threads, Read(t) PROVE Promise!Next
  <2>1. path' = path /\ legacy' = legacy
    BY <1>16 DEF Read, files
  <2>2. \/ said' = [said EXCEPT ![t] = Opened(TheKey, path)]
        \/ said' = [said EXCEPT ![t] = NoData]
        \/ said' = [said EXCEPT ![t] = "failed"]
    BY <1>16, <1>6 DEF Read, Return
  <2> QED BY <2>1, <2>2, <1>e
<1>17. ASSUME NEW t \in Threads, Clear(t) PROVE Promise!Next
  <2>1. Opened(TheKey, Absent) = NoData
    BY DEF Opened
  <2> QED BY <1>17, <2>1, <1>d DEF Clear, Return
<1>18. ASSUME NEW c \in Clients, Crash(c) PROVE Promise!Next
  BY <1>18, <1>8, <1>a DEF Crash, files, Answers
<1>19. CASE UNCHANGED vars
  BY <1>19, <1>b DEF vars, files, local
<1> QED BY <1>9, <1>10, <1>11, <1>12, <1>13, <1>14, <1>15, <1>16, <1>17, <1>18, <1>19 DEF Next

\* FileStore and EncryptedFileStore keep the promise of a LicenseStore: with one
\* Client on the path and flushes that fail loudly, every load, save and clear, with
\* the import of a plaintext file under it, acts on an atomic cell.
THEOREM Implements == Spec => Refines
<1>1. Init => Promise!Init
  BY RefinesInit
<1>2. IInv /\ [Next]_vars => [Promise!Next]_<<Cell, OldCell, "read" \in faults, Said>>
  BY RefinesStep
<1> QED BY <1>1, <1>2, Invariance, PTL
    DEF Spec, Refines, Promise!Spec, Cell, OldCell, Said

----------------------------------------------------------------------------
(***************************************************************************)
(* The hash that the keys of the files come from (SHA-256, material to     *)
(* bytes), and its sibling of the signatures (SHA-512): Digest, for any    *)
(* block, length field and compression function.                           *)
(***************************************************************************)
CONSTANTS Block, Room, Byte, Chaining0, Compress(_, _)

Hash == INSTANCE Digest

\* The loops of the two hashes, and of the hash of the padded whole.
Blocks  == INSTANCE FoldProofs WITH
  Op <- LAMBDA p, h, i : Compress(h, SubSeq(p, Block * (i - 1) + 1, Block * i))
Bytes   == INSTANCE FoldProofs WITH
  Op <- LAMBDA p, c, b : Hash!Filled([c EXCEPT !.buf = Append(@, b)])
Turns   == INSTANCE FoldProofs WITH Op <- LAMBDA p, acc, i : Hash!Turn(acc, i)

\* A length field that leaves room for something in a block.
Sizes == Block \in Nat /\ Room \in Nat /\ 0 < Room /\ Room < Block

\* The numbers that the loops count through.
Count(n) == [i \in 1 .. n |-> i]

\* The state after the first n blocks of p.
Rounds(p, n) == Blocks!Fold(p, Chaining0, Count(n))

LEMMA CountOn ==
  /\ Count(0) = <<>>
  /\ \A n \in Nat : /\ Count(n) \in Seq(Nat)
                    /\ Count(n + 1) = Append(Count(n), n + 1)
<1>1. Count(0) = <<>>
  BY DEF Count
<1>2. ASSUME NEW n \in Nat
      PROVE  Count(n) \in Seq(Nat) /\ Count(n + 1) = Append(Count(n), n + 1)
  <2>1. Count(n) \in Seq(Nat) /\ Len(Count(n)) = n /\ \A i \in 1 .. n : Count(n)[i] = i
    BY DEF Count
  <2>2. /\ Count(n + 1) \in Seq(Nat) /\ Len(Count(n + 1)) = n + 1
        /\ \A i \in 1 .. n + 1 : Count(n + 1)[i] = i
    BY DEF Count
  <2>3. Append(Count(n), n + 1) \in Seq(Nat) /\ Len(Append(Count(n), n + 1)) = n + 1
    BY <2>1
  <2>4. \A i \in 1 .. n + 1 : Append(Count(n), n + 1)[i] = i
    BY <2>1
  <2> QED BY <2>1, <2>2, <2>3, <2>4, SeqEqual
<1> QED BY <1>1, <1>2

LEMMA RoundsOn ==
  \A p : /\ Rounds(p, 0) = Chaining0
         /\ \A n \in Nat : Rounds(p, n + 1) =
              Compress(Rounds(p, n), SubSeq(p, Block * n + 1, Block * (n + 1)))
<1> TAKE p
<1>1. Rounds(p, 0) = Chaining0
  BY CountOn, Blocks!FoldEmpty DEF Rounds
<1>2. ASSUME NEW n \in Nat
      PROVE  Rounds(p, n + 1) =
               Compress(Rounds(p, n), SubSeq(p, Block * n + 1, Block * (n + 1)))
  <2>1. Rounds(p, n + 1) = Blocks!Fold(p, Chaining0, Append(Count(n), n + 1))
    BY CountOn DEF Rounds
  <2>2. Count(n) \in Seq(Nat) /\ n + 1 \in Nat
    BY CountOn
  <2>3. Blocks!Fold(p, Chaining0, Append(Count(n), n + 1)) =
          Compress(Blocks!Fold(p, Chaining0, Count(n)),
                   SubSeq(p, Block * ((n + 1) - 1) + 1, Block * (n + 1)))
    BY <2>2, Blocks!FoldAppend
  <2>4. (n + 1) - 1 = n
    OBVIOUS
  <2> QED BY <2>1, <2>3, <2>4 DEF Rounds
<1> QED BY <1>1, <1>2

\* Whole blocks: a number of them is shorter than one more.
LEMMA Multiples ==
  ASSUME Sizes
  PROVE  /\ \A k \in Nat : Block * k \in Nat /\ Block * (k + 1) = Block * k + Block
         /\ \A k, n \in Nat : k <= n => Block * k <= Block * n
         /\ \A a \in Nat : \E q \in Nat : \E r \in 0 .. Block - 1 : a = Block * q + r
<1>1. \A k \in Nat : Block * k \in Nat /\ Block * (k + 1) = Block * k + Block
  BY DEF Sizes
<1>2. ASSUME NEW k \in Nat, NEW n \in Nat, k <= n PROVE Block * k <= Block * n
  <2>1. PICK j \in Nat : n = k + j
    BY <1>2
  <2>2. Block * n = Block * k + Block * j /\ Block * j \in Nat /\ Block * k \in Nat
    BY <2>1 DEF Sizes
  <2> HIDE DEF Sizes
  <2> QED BY <2>2
<1>3. \A a \in Nat : \E q \in Nat : \E r \in 0 .. Block - 1 : a = Block * q + r
  <2> DEFINE T == {a \in Nat : \E q \in Nat : \E r \in 0 .. Block - 1 : a = Block * q + r}
  <2>1. 0 \in T
    <3>1. 0 = Block * 0 + 0 /\ 0 \in 0 .. Block - 1
      BY DEF Sizes
    <3> QED BY <3>1
  <2>2. ASSUME NEW a \in Nat, a \in T PROVE a + 1 \in T
    <3>1. PICK q \in Nat : \E r \in 0 .. Block - 1 : a = Block * q + r
      BY <2>2
    <3>2. PICK r \in 0 .. Block - 1 : a = Block * q + r
      BY <3>1
    <3>3. CASE r + 1 < Block
      <4>1. a + 1 = Block * q + (r + 1) /\ r + 1 \in 0 .. Block - 1
        BY <3>2, <3>3, <1>1 DEF Sizes
      <4> QED BY <4>1
    <3>4. CASE ~(r + 1 < Block)
      <4>1. a + 1 = Block * (q + 1) + 0 /\ 0 \in 0 .. Block - 1 /\ q + 1 \in Nat
        BY <3>2, <3>4, <1>1 DEF Sizes
      <4> QED BY <4>1
    <3> QED BY <3>3, <3>4
  <2> HIDE DEF T
  <2>3. \A a \in Nat : a \in T
    BY <2>1, <2>2, Blocks!NatInduct
  <2> QED BY <2>3 DEF T
<1> QED BY <1>1, <1>2, <1>3

\* What follows a whole number of blocks leaves their rounds as they were.
LEMMA SameRounds ==
  ASSUME Sizes, NEW S, NEW d \in Seq(S), NEW x \in Seq(S), NEW k \in Nat, Len(d) = Block * k
  PROVE  Rounds(d \o x, k) = Rounds(d, k)
<1> DEFINE T == {n \in Nat : n <= k => Rounds(d \o x, n) = Rounds(d, n)}
<1>1. 0 \in T
  BY RoundsOn
<1>2. ASSUME NEW n \in Nat, n \in T PROVE n + 1 \in T
  <2> SUFFICES ASSUME n + 1 <= k PROVE Rounds(d \o x, n + 1) = Rounds(d, n + 1)
    OBVIOUS
  <2> DEFINE lo == Block * n + 1
             hi == Block * (n + 1)
  <2>1. lo \in 1 .. Len(d) /\ hi \in 1 .. Len(d)
    <3>1. /\ Block * n \in Nat /\ Block * (n + 1) = Block * n + Block
          /\ Block * (n + 1) <= Block * k /\ Block * k \in Nat
      <4>1. n + 1 \in Nat
        OBVIOUS
      <4> QED BY <4>1, Multiples
    <3> HIDE DEF Sizes
    <3>2. Block \in Nat /\ Block > 0
      BY DEF Sizes
    <3> QED BY <3>1, <3>2
  <2> HIDE DEF lo, hi
  <2>2. SubSeq(d \o x, lo, hi) = SubSeq(d, lo, hi)
    BY <2>1, SubSeqOfConcat1
  <2>3. Rounds(d \o x, n) = Rounds(d, n)
    BY <1>2
  <2>4. /\ Rounds(d \o x, n + 1) = Compress(Rounds(d \o x, n), SubSeq(d \o x, lo, hi))
        /\ Rounds(d, n + 1) = Compress(Rounds(d, n), SubSeq(d, lo, hi))
    BY RoundsOn DEF lo, hi
  <2> QED BY <2>2, <2>3, <2>4
<1> HIDE DEF T
<1>3. k \in T
  BY <1>1, <1>2, Blocks!NatInduct
<1> QED BY <1>3 DEF T

\* One block more is one round more.
LEMMA OneMore ==
  ASSUME Sizes, NEW S, NEW d \in Seq(S), NEW x \in Seq(S), NEW k \in Nat,
         Len(d) = Block * k, Len(x) = Block
  PROVE  Rounds(d \o x, k + 1) = Compress(Rounds(d, k), x)
<1>1. Rounds(d \o x, k + 1) =
        Compress(Rounds(d \o x, k), SubSeq(d \o x, Block * k + 1, Block * (k + 1)))
  BY RoundsOn
<1>2. Rounds(d \o x, k) = Rounds(d, k)
  BY SameRounds
<1>3. SubSeq(d \o x, Block * k + 1, Block * (k + 1)) = x
  <2>1. /\ Len(d) \in Nat /\ Len(x) \in Nat /\ Len(x) > 0
        /\ Block * (k + 1) = Len(d) + Len(x)
    BY Multiples DEF Sizes
  <2>2. /\ Len(d) + 1 \in Len(d) + 1 .. Len(d) + Len(x)
        /\ Len(d) + Len(x) \in Len(d) + 1 .. Len(d) + Len(x)
        /\ (Len(d) + 1) - Len(d) = 1 /\ (Len(d) + Len(x)) - Len(d) = Len(x)
    <3>1. \A a, b \in Nat : b > 0 => /\ a + 1 \in a + 1 .. a + b /\ a + b \in a + 1 .. a + b
                                     /\ (a + 1) - a = 1 /\ (a + b) - a = b
      OBVIOUS
    <3> QED BY <2>1, <3>1
  <2>3. SubSeq(d \o x, Len(d) + 1, Len(d) + Len(x)) =
          SubSeq(x, (Len(d) + 1) - Len(d), (Len(d) + Len(x)) - Len(d))
    BY <2>2, SubSeqOfConcat2, ZenonT(30)
  <2>4. SubSeq(x, 1, Len(x)) = x
    BY SubSeqFull
  <2> QED BY <2>1, <2>2, <2>3, <2>4
<1> QED BY <1>1, <1>2, <1>3

\* c is what a context is after the bytes of m: the rounds of its whole blocks, and
\* the bytes after them.
Stands(c, m, S) ==
  \E d, r \in Seq(S), k \in Nat :
    /\ m = d \o r /\ Len(d) = Block * k /\ Len(r) < Block
    /\ c = [h |-> Rounds(d, k), buf |-> r, total |-> Len(d)]

LEMMA Associative ==
  \A S : \A s, t, u \in Seq(S) : s \o (t \o u) = (s \o t) \o u
BY ConcatAssociative

LEMMA Joined ==
  \A S : \A s, t \in Seq(S) : s \o t \in Seq(S) /\ Len(s \o t) = Len(s) + Len(t)
BY ConcatProperties

LEMMA Buffered ==
  ASSUME NEW S, NEW m, NEW c, Stands(c, m, S)
  PROVE  c.buf \in Seq(S) /\ Len(c.buf) < Block
<1>1. PICK r \in Seq(S) : /\ Len(r) < Block
                          /\ \E d, k : c = [h |-> Rounds(d, k), buf |-> r, total |-> Len(d)]
  BY Zenon DEF Stands
<1>2. c.buf = r
  BY <1>1
<1> QED BY <1>1, <1>2

LEMMA OtherBuffer ==
  \A h, b, t, z :
    [[h |-> h, buf |-> b, total |-> t] EXCEPT !.buf = z] = [h |-> h, buf |-> z, total |-> t]
OBVIOUS

LEMMA StandsAtStart == ASSUME Sizes PROVE \A S : Stands(Hash!Start, <<>>, S)
<1> TAKE S
<1>1. <<>> \in Seq(S) /\ Len(<<>>) = 0 /\ <<>> = <<>> \o <<>>
  OBVIOUS
<1>2. 0 = Block * 0 /\ 0 < Block
  BY DEF Sizes
<1>3. Hash!Start = [h |-> Rounds(<<>>, 0), buf |-> <<>>, total |-> Len(<<>>)]
  BY <1>1, RoundsOn DEF Hash!Start
<1>4. /\ <<>> = <<>> \o <<>> /\ Len(<<>>) = Block * 0 /\ Len(<<>>) < Block
  BY <1>1, <1>2
<1>5. 0 \in Nat
  OBVIOUS
<1> QED BY <1>1, <1>3, <1>4, <1>5, Zenon DEF Stands

\* As many bytes more as the buffer has space for.
LEMMA FilledStands ==
  ASSUME Sizes, NEW S, NEW m \in Seq(S), NEW x \in Seq(S), NEW c, Stands(c, m, S),
         Len(c.buf) + Len(x) <= Block
  PROVE  /\ Stands(Hash!Filled([c EXCEPT !.buf = @ \o x]), m \o x, S)
         /\ Len(c.buf) + Len(x) = Block =>
              Hash!Filled([c EXCEPT !.buf = @ \o x]).buf = <<>>
<1> DEFINE e == [c EXCEPT !.buf = @ \o x]
<1>1. PICK d \in Seq(S) : \E r \in Seq(S), k \in Nat :
        /\ m = d \o r /\ Len(d) = Block * k /\ Len(r) < Block
        /\ c = [h |-> Rounds(d, k), buf |-> r, total |-> Len(d)]
  BY DEF Stands
<1>2. PICK r \in Seq(S) : \E k \in Nat :
        /\ m = d \o r /\ Len(d) = Block * k /\ Len(r) < Block
        /\ c = [h |-> Rounds(d, k), buf |-> r, total |-> Len(d)]
  BY <1>1
<1>3. PICK k \in Nat :
        /\ m = d \o r /\ Len(d) = Block * k /\ Len(r) < Block
        /\ c = [h |-> Rounds(d, k), buf |-> r, total |-> Len(d)]
  BY <1>2
<1>4. e = [h |-> Rounds(d, k), buf |-> r \o x, total |-> Len(d)]
  <2>1. c.buf = r
    BY <1>3
  <2> QED BY <1>3, <2>1, OtherBuffer, ZenonT(30)
<1>5. /\ r \o x \in Seq(S) /\ Len(r \o x) = Len(r) + Len(x) /\ Len(r) \in Nat /\ Len(x) \in Nat
      /\ c.buf = r /\ Block \in Nat
  BY <1>3, ConcatProperties DEF Sizes
<1>6. m \o x = d \o (r \o x)
  BY <1>3, ConcatAssociative
<1> HIDE DEF e
<1>7. e.buf = r \o x /\ e.h = Rounds(d, k) /\ e.total = Len(d)
  BY <1>4
<1>8. CASE Len(r \o x) < Block
  <2>1. Hash!Filled(e) = [h |-> Rounds(d, k), buf |-> r \o x, total |-> Len(d)]
    BY <1>4, <1>7, <1>8 DEF Hash!Filled
  <2>2. Stands(Hash!Filled(e), m \o x, S)
    BY <1>3, <1>5, <1>6, <1>8, <2>1, Zenon DEF Stands
  <2>3. Len(c.buf) + Len(x) # Block
    BY <1>5, <1>8
  <2> QED BY <2>2, <2>3 DEF e
<1>9. CASE Len(r \o x) = Block
  <2> DEFINE f == d \o (r \o x)
  <2>1. Hash!Filled(e) = [h |-> Compress(Rounds(d, k), r \o x), buf |-> <<>>,
                          total |-> Len(d) + Block]
    BY <1>5, <1>7, <1>9 DEF Hash!Filled
  <2>2. Rounds(f, k + 1) = Compress(Rounds(d, k), r \o x)
    BY <1>3, <1>5, <1>9, OneMore
  <2>3. f \in Seq(S) /\ Len(f) = Len(d) + Block
    <3>1. \A s, t \in Seq(S) : s \o t \in Seq(S) /\ Len(s \o t) = Len(s) + Len(t)
      BY ConcatProperties
    <3> QED BY <1>5, <1>9, <3>1
  <2>4. Len(f) = Block * (k + 1) /\ k + 1 \in Nat
    BY <1>3, <2>3, Multiples
  <2>5. f = f \o <<>> /\ <<>> \in Seq(S) /\ Len(<<>>) < Block
    BY <2>3, <1>3, <1>5, ConcatEmptySeq, EmptySeq
  <2> HIDE DEF f
  <2>6. Hash!Filled(e) = [h |-> Rounds(f, k + 1), buf |-> <<>>, total |-> Len(f)]
    BY <2>1, <2>2, <2>3
  <2>7. Stands(Hash!Filled(e), f, S)
    BY <2>3, <2>4, <2>5, <2>6, Zenon DEF Stands
  <2>8. Hash!Filled(e).buf = <<>>
    BY <2>6
  <2>9. Stands(Hash!Filled(e), m \o x, S)
    BY <1>6, <2>7 DEF f
  <2> QED BY <2>8, <2>9 DEF e
<1>10. Len(r \o x) < Block \/ Len(r \o x) = Block
  <2>1. Len(r) + Len(x) <= Block
    BY <1>5, Zenon
  <2>2. \A a, b, n, t \in Nat : a + b <= t /\ n = a + b => n < t \/ n = t
    OBVIOUS
  <2>3. Len(r \o x) \in Nat
    BY <1>5
  <2> QED BY <1>5, <2>1, <2>2, <2>3, Zenon
<1> QED BY <1>8, <1>9, <1>10, Zenon

\* sha256_update: byte by byte.
LEMMA Updates256 ==
  ASSUME Sizes, NEW S, NEW m \in Seq(S), NEW c, Stands(c, m, S)
  PROVE  \A a \in Seq(S) : Stands(Hash!Update256(c, a), m \o a, S)
<1> DEFINE F(a) == Bytes!Fold(0, c, a)
<1>1. \A a : Hash!Update256(c, a) = F(a)
  BY DEF Hash!Update256, Bytes!Fold, Bytes!FoldLeft, Hash!FoldLeft, Hash!MapThenFoldSet,
         Bytes!MapThenFoldSet, Hash!Max, Bytes!Max
<1> DEFINE T == {a \in Seq(S) : Stands(F(a), m \o a, S)}
<1>2. <<>> \in T
  <2>1. F(<<>>) = c
    BY Bytes!FoldEmpty
  <2>2. <<>> \in Seq(S) /\ m \o <<>> = m
    BY EmptySeq, ConcatEmptySeq
  <2> HIDE DEF F
  <2> QED BY <2>1, <2>2
<1>3. ASSUME NEW a \in Seq(S), NEW b \in S, a \in T PROVE Append(a, b) \in T
  <2>1. F(Append(a, b)) = Hash!Filled([F(a) EXCEPT !.buf = Append(@, b)])
    BY Bytes!FoldAppend
  <2>2. Stands(F(a), m \o a, S)
    BY <1>3
  <2> HIDE DEF F
  <2>3. F(a).buf \in Seq(S) /\ Len(F(a).buf) < Block
    BY <2>2, Buffered
  <2>4. Append(F(a).buf, b) = F(a).buf \o <<b>>
    BY <2>3, AppendIsConcat
  <2>5. <<b>> \in Seq(S) /\ Len(<<b>>) = 1 /\ m \o a \in Seq(S)
    BY ConcatProperties
  <2>6. Len(F(a).buf) + Len(<<b>>) <= Block
    BY <2>3, <2>5, LenProperties DEF Sizes
  <2>7. Stands(Hash!Filled([F(a) EXCEPT !.buf = @ \o <<b>>]), (m \o a) \o <<b>>, S)
    BY <2>2, <2>5, <2>6, FilledStands
  <2>8. (m \o a) \o <<b>> = m \o Append(a, b)
    <3>1. Append(a, b) = a \o <<b>>
      BY AppendIsConcat
    <3> QED BY <2>5, <3>1, ConcatAssociative
  <2>9. Append(a, b) \in Seq(S)
    OBVIOUS
  <2>10. Stands(F(Append(a, b)), m \o Append(a, b), S)
    BY <2>1, <2>4, <2>7, <2>8
  <2> QED BY <2>9, <2>10
<1> HIDE DEF F, T
<1>4. \A a \in Seq(S) : a \in T
  BY <1>2, <1>3, Bytes!SeqInduct
<1> QED BY <1>1, <1>4 DEF T

\* One turn takes what there is, or fills the block.
Takes(acc, next, m, S) ==
  \E x, left \in Seq(S) :
    /\ acc.rest = x \o left /\ next.rest = left
    /\ Stands(next.ctx, m \o x, S)
    /\ left # <<>> => next.ctx.buf = <<>> /\ Len(acc.ctx.buf) + Len(x) = Block

LEMMA OneTurn ==
  ASSUME Sizes, NEW S, NEW m \in Seq(S), NEW acc, NEW i, acc.rest \in Seq(S),
         Stands(acc.ctx, m, S)
  PROVE  Takes(acc, Hash!Turn(acc, i), m, S)
<1> DEFINE rest  == acc.rest
           space == Block - Len(acc.ctx.buf)
           take  == IF Len(rest) < space THEN Len(rest) ELSE space
           x     == SubSeq(rest, 1, take)
           left  == SubSeq(rest, take + 1, Len(rest))
           next  == Hash!Filled([acc.ctx EXCEPT !.buf = @ \o x])
<1>1. Hash!Turn(acc, i).ctx = next /\ Hash!Turn(acc, i).rest = left
  BY DEF Hash!Turn
<1>2. /\ acc.ctx.buf \in Seq(S) /\ Len(acc.ctx.buf) \in Nat /\ Len(acc.ctx.buf) < Block
      /\ rest \in Seq(S) /\ Len(rest) \in Nat /\ Block \in Nat
  BY Buffered, LenProperties DEF Sizes
<1>3. /\ take \in 0 .. Len(rest) /\ Len(acc.ctx.buf) + take <= Block
      /\ take = Len(rest) \/ Len(acc.ctx.buf) + take = Block
  <2>1. \A n, b, t \in Nat : b < t =>
          LET u == IF n < t - b THEN n ELSE t - b
          IN u \in 0 .. n /\ b + u <= t /\ (u = n \/ b + u = t)
    OBVIOUS
  <2> HIDE DEF rest
  <2> QED BY <1>2, <2>1
<1> HIDE DEF rest, take, next
<1>4. x \in Seq(S) /\ Len(x) = take /\ left \in Seq(S) /\ Len(left) = Len(rest) - take
  BY <1>2, <1>3
<1>5. rest = x \o left
  <2>1. /\ 1 \in 1 .. Len(rest) + 1 /\ take \in 1 - 1 .. Len(rest)
        /\ Len(rest) \in take .. Len(rest)
    BY <1>2, <1>3
  <2>2. x \o left = SubSeq(rest, 1, Len(rest))
    BY <1>2, <2>1, ConcatAdjacentSubSeq
  <2> QED BY <1>2, <2>2, SubSeqFull
<1>6. left # <<>> => Len(left) # 0
  BY <1>4
<1> HIDE DEF x, left
<1>7. Len(acc.ctx.buf) + Len(x) <= Block
  BY <1>3, <1>4
<1>8. /\ Stands(next, m \o x, S)
      /\ Len(acc.ctx.buf) + Len(x) = Block => next.buf = <<>>
  BY <1>4, <1>7, FilledStands DEF next
<1>9. left # <<>> => Len(acc.ctx.buf) + Len(x) = Block
  BY <1>2, <1>3, <1>4, <1>6
<1>10. /\ acc.rest = x \o left /\ Hash!Turn(acc, i).rest = left
       /\ Stands(Hash!Turn(acc, i).ctx, m \o x, S)
       /\ left # <<>> => /\ Hash!Turn(acc, i).ctx.buf = <<>>
                         /\ Len(acc.ctx.buf) + Len(x) = Block
  BY <1>1, <1>5, <1>8, <1>9 DEF rest
<1> QED BY <1>4, <1>10, Zenon DEF Takes

\* kl_sha512_update: as many turns as the blocks that the data may touch.
LEMMA Updates512 ==
  ASSUME Sizes, NEW S, NEW m \in Seq(S), NEW c, Stands(c, m, S)
  PROVE  \A a \in Seq(S) : Stands(Hash!Update512(c, a), m \o a, S)
<1> TAKE a \in Seq(S)
<1> DEFINE After(n) == Turns!Fold(0, [ctx |-> c, rest |-> a], Count(n))
           Fed(n, fed, rest) ==
             /\ After(n).rest = rest /\ a = fed \o rest
             /\ Stands(After(n).ctx, m \o fed, S)
             /\ rest = <<>> \/ n = 0
                \/ (After(n).ctx.buf = <<>> /\ Block * (n - 1) <= Len(fed))
           T == {n \in Nat : \E fed, rest \in Seq(S) : Fed(n, fed, rest)}
<1>1. Hash!Update512(c, a) = After(Len(a) \div Block + 2).ctx
  BY DEF Hash!Update512, Turns!Fold, Turns!FoldLeft, Hash!FoldLeft, Hash!MapThenFoldSet,
         Turns!MapThenFoldSet, Hash!Max, Turns!Max, Count
<1>2. After(0) = [ctx |-> c, rest |-> a]
  BY CountOn, Turns!FoldEmpty
<1>3. \A n \in Nat : After(n + 1) = Hash!Turn(After(n), n + 1)
  <2> TAKE n \in Nat
  <2>1. Count(n) \in Seq(Nat) /\ Count(n + 1) = Append(Count(n), n + 1)
    BY CountOn
  <2>2. n + 1 \in Nat
    OBVIOUS
  <2> QED BY <2>1, <2>2, Turns!FoldAppend
<1> HIDE DEF After
<1>4. 0 \in T
  <2>1. <<>> \in Seq(S) /\ <<>> \o a = a /\ m \o <<>> = m
    BY EmptySeq, ConcatEmptySeq
  <2>2. Fed(0, <<>>, a)
    BY <1>2, <2>1
  <2> QED BY <2>1, <2>2
<1>5. ASSUME NEW n \in Nat, n \in T PROVE n + 1 \in T
  <2>1. PICK fed \in Seq(S) : \E rest \in Seq(S) : Fed(n, fed, rest)
    BY <1>5
  <2>2. PICK rest \in Seq(S) : Fed(n, fed, rest)
    BY <2>1
  <2>3. m \o fed \in Seq(S) /\ After(n).rest \in Seq(S)
    BY <2>2, ConcatProperties
  <2>4. PICK x \in Seq(S) : \E left \in Seq(S) :
           /\ After(n).rest = x \o left /\ After(n + 1).rest = left
           /\ Stands(After(n + 1).ctx, (m \o fed) \o x, S)
           /\ left # <<>> => /\ After(n + 1).ctx.buf = <<>>
                             /\ Len(After(n).ctx.buf) + Len(x) = Block
    <3>1. Takes(After(n), Hash!Turn(After(n), n + 1), m \o fed, S)
      BY <2>2, <2>3, OneTurn
    <3> QED BY <1>3, <3>1 DEF Takes
  <2>5. PICK left \in Seq(S) :
           /\ After(n).rest = x \o left /\ After(n + 1).rest = left
           /\ Stands(After(n + 1).ctx, (m \o fed) \o x, S)
           /\ left # <<>> => /\ After(n + 1).ctx.buf = <<>>
                             /\ Len(After(n).ctx.buf) + Len(x) = Block
    BY <2>4
  <2>6. fed \o x \in Seq(S) /\ (m \o fed) \o x = m \o (fed \o x)
    BY ConcatProperties, ConcatAssociative, SMTT(60)
  <2>7. a = (fed \o x) \o left
    <3>1. a = fed \o (x \o left)
      BY <2>2, <2>5, Zenon
    <3>2. fed \o (x \o left) = (fed \o x) \o left
      BY Associative, SMTT(60)
    <3> QED BY <3>1, <3>2
  <2>8. ASSUME left # <<>> PROVE Block * ((n + 1) - 1) <= Len(fed \o x)
    <3>1. /\ Len(fed \o x) = Len(fed) + Len(x) /\ Len(fed) \in Nat /\ Len(x) \in Nat
          /\ (n + 1) - 1 = n
      BY ConcatProperties, LenProperties
    <3>2. CASE n = 0
      <4>1. Block * n = 0
        BY <3>2 DEF Sizes
      <4> QED BY <3>1, <4>1
    <3>3. CASE n # 0
      <4>1. rest # <<>>
        BY <2>2, <2>5, <2>8, ConcatEqualIffEmpty
      <4>2. After(n).ctx.buf = <<>> /\ Block * (n - 1) <= Len(fed)
        BY <2>2, <3>3, <4>1
      <4>3. Len(x) = Block
        <5>1. 0 + Len(x) = Block
          BY <2>5, <2>8, <4>2
        <5> QED BY <3>1, <5>1
      <4>4. n - 1 \in Nat /\ (n - 1) + 1 = n
        BY <3>3
      <4>5. Block * (n - 1) \in Nat /\ Block * n = Block * (n - 1) + Block
        BY <4>4, Multiples
      <4> QED BY <3>1, <4>2, <4>3, <4>5
    <3> QED BY <3>2, <3>3
  <2>9. Fed(n + 1, fed \o x, left)
    BY <2>5, <2>6, <2>7, <2>8
  <2> HIDE DEF Fed
  <2>10. n + 1 \in Nat
    OBVIOUS
  <2> QED BY <2>6, <2>9, <2>10, Zenon DEF T
<1> HIDE DEF T
<1>6. \A n \in Nat : n \in T
  BY <1>4, <1>5, Turns!NatInduct
<1>7. PICK q \in Nat : \E r \in 0 .. Block - 1 : Len(a) = Block * q + r
  BY LenProperties, Multiples
<1>8. PICK r \in 0 .. Block - 1 : Len(a) = Block * q + r
  BY <1>7
<1>9. Len(a) \div Block = q /\ Len(a) < Block * (q + 1) /\ Block * (q + 1) \in Nat
  BY <1>8, Multiples DEF Sizes
<1>10. PICK fed \in Seq(S) : \E rest \in Seq(S) : Fed(q + 2, fed, rest)
  <2>1. q + 2 \in Nat
    OBVIOUS
  <2> QED BY <1>6, <2>1, Zenon DEF T
<1>11. PICK rest \in Seq(S) : Fed(q + 2, fed, rest)
  BY <1>10
<1>12. rest = <<>>
  <2>1. Len(a) = Len(fed) + Len(rest) /\ Len(fed) \in Nat /\ Len(rest) \in Nat
    BY <1>11, ConcatProperties, LenProperties
  <2>2. (q + 2) - 1 = q + 1 /\ q + 2 # 0
    OBVIOUS
  <2>3. ~(Block * (q + 1) <= Len(fed))
    BY <1>9, <2>1
  <2> QED BY <1>11, <2>2, <2>3
<1>13. Stands(After(q + 2).ctx, m \o a, S)
  BY <1>11, <1>12, ConcatEmptySeq
<1> QED BY <1>1, <1>9, <1>13

\* What fills up a block.
LEMMA ZerosOn ==
  /\ \A n \in Nat : Hash!Zeros(n) \in Seq({0}) /\ Len(Hash!Zeros(n)) = n
  /\ \A a, b \in Nat : Hash!Zeros(a) \o Hash!Zeros(b) = Hash!Zeros(a + b)
<1>1. \A n \in Nat : /\ Hash!Zeros(n) \in Seq({0}) /\ Len(Hash!Zeros(n)) = n
                     /\ \A i \in 1 .. n : Hash!Zeros(n)[i] = 0
  BY DEF Hash!Zeros
<1>2. ASSUME NEW a \in Nat, NEW b \in Nat
      PROVE  Hash!Zeros(a) \o Hash!Zeros(b) = Hash!Zeros(a + b)
  <2> DEFINE s == Hash!Zeros(a) \o Hash!Zeros(b)
  <2>1. s \in Seq({0}) /\ Len(s) = a + b
    BY <1>1, ConcatProperties
  <2>2. \A i \in 1 .. a + b : s[i] = 0
    BY <2>1
  <2> HIDE DEF s
  <2>3. a + b \in Nat
    OBVIOUS
  <2>4. s = Hash!Zeros(a + b)
    BY <1>1, <2>1, <2>2, <2>3, SeqEqual
  <2> QED BY <2>4 DEF s
<1> QED BY <1>1, <1>2

\* A remainder, and a quotient, over as many blocks as one likes.
LEMMA Remainder ==
  ASSUME Sizes, NEW q \in Int, NEW r \in 0 .. Block - 1
  PROVE  (Block * q + r) % Block = r /\ (Block * q + r) \div Block = q
BY DEF Sizes

LEMMA HashOfIs ==
  ASSUME NEW m, NEW n, Len(Hash!Padded(m)) \div Block = n
  PROVE  Hash!HashOf(m) = Rounds(Hash!Padded(m), n)
<1>1. Hash!HashOf(m) = Rounds(Hash!Padded(m), Len(Hash!Padded(m)) \div Block)
  BY DEF Hash!HashOf, Rounds, Count, Blocks!Fold, Blocks!FoldLeft, Hash!FoldLeft,
         Hash!MapThenFoldSet, Blocks!MapThenFoldSet, Hash!Max, Blocks!Max
<1> QED BY <1>1

\* The last block, or the two last ones, are those of the padded whole.
LEMMA FinalsAgree ==
  ASSUME Sizes, NEW S, NEW m \in Seq(S), NEW c, Stands(c, m, S)
  PROVE  Hash!Final512(c) = Hash!HashOf(m) /\ Hash!Final256(c) = Hash!HashOf(m)
<1>1. PICK d \in Seq(S) : \E r \in Seq(S), k \in Nat :
        /\ m = d \o r /\ Len(d) = Block * k /\ Len(r) < Block
        /\ c = [h |-> Rounds(d, k), buf |-> r, total |-> Len(d)]
  BY DEF Stands
<1>2. PICK r \in Seq(S) : \E k \in Nat :
        /\ m = d \o r /\ Len(d) = Block * k /\ Len(r) < Block
        /\ c = [h |-> Rounds(d, k), buf |-> r, total |-> Len(d)]
  BY <1>1
<1>3. PICK k \in Nat :
        /\ m = d \o r /\ Len(d) = Block * k /\ Len(r) < Block
        /\ c = [h |-> Rounds(d, k), buf |-> r, total |-> Len(d)]
  BY <1>2
<1> DEFINE mark  == <<Hash!Mark>>
           bytes == Hash!LengthBytes(8 * Len(m))
           n     == Len(r)
           left  == Room - Len(m) - 1
           T     == S \cup {Hash!Mark, 0} \cup {bytes[i] : i \in 1 .. Block - Room}
           full  == r \o mark
           p     == Hash!Padded(m)
<1>4. /\ n \in Nat /\ Block \in Nat /\ Room \in Nat /\ 0 < Room /\ Room < Block /\ n < Block
      /\ Len(m) = Block * k + n /\ Block * k \in Nat
  <2>1. Len(m) = Len(d) + Len(r)
    BY <1>3, ConcatProperties
  <2> QED BY <1>3, <2>1, LenProperties, Multiples DEF Sizes
<1>5. c.h = Rounds(d, k) /\ c.buf = r /\ c.total + Len(c.buf) = Len(m)
  <2>1. c.h = Rounds(d, k) /\ c.buf = r /\ c.total = Len(d)
    BY <1>3
  <2> QED BY <1>3, <1>4, <2>1
<1>6. bytes \in Seq({bytes[i] : i \in 1 .. Block - Room}) /\ Len(bytes) = Block - Room
  <2> DEFINE V == {bytes[i] : i \in 1 .. Block - Room}
  <2>1. bytes \in [1 .. Block - Room -> V]
    BY DEF Hash!LengthBytes
  <2>2. Block - Room \in Nat
    BY <1>4
  <2> HIDE DEF bytes, V
  <2>3. bytes \in Seq(V) /\ Len(bytes) = Block - Room
    BY <2>1, <2>2
  <2> QED BY <2>3 DEF V
<1>7. /\ d \in Seq(T) /\ r \in Seq(T) /\ m \in Seq(T) /\ mark \in Seq(T) /\ bytes \in Seq(T)
      /\ \A i \in Nat : Hash!Zeros(i) \in Seq(T) /\ Len(Hash!Zeros(i)) = i
  <2>1. S \subseteq T /\ {0} \subseteq T /\ {bytes[i] : i \in 1 .. Block - Room} \subseteq T
    OBVIOUS
  <2>2. mark \in Seq(T)
    OBVIOUS
  <2> HIDE DEF T, bytes, mark
  <2> QED BY <1>6, <2>1, <2>2, ZerosOn, SeqMonotonic
<1>8. Append(r, Hash!Mark) = full /\ Len(full) = n + 1 /\ full \in Seq(T)
  BY <1>4, <1>7
<1>9. p = ((m \o mark) \o Hash!Zeros(left % Block)) \o bytes
  BY DEF Hash!Padded
<1> HIDE DEF mark, bytes, T, p
<1>10. m \o mark = d \o full
  <2>1. d \in Seq(T) /\ r \in Seq(T) /\ mark \in Seq(T)
    BY <1>7
  <2>2. d \o (r \o mark) = (d \o r) \o mark
    BY <2>1, Associative
  <2> QED BY <1>3, <2>2, Zenon
<1>11. CASE n < Room
  <2> DEFINE z == Room - n - 1
             x == (full \o Hash!Zeros(z)) \o bytes
  <2>1. left % Block = z /\ z \in Nat
    <3>1. z \in 0 .. Block - 1 /\ -k \in Int
      BY <1>4, <1>11
    <3>2. left = Block * (-k) + z
      BY <1>4
    <3> QED BY <3>1, <3>2, Remainder
  <2>2. full \o Hash!Zeros(z) \in Seq(T) /\ Len(full \o Hash!Zeros(z)) = n + 1 + z
    <3>1. Hash!Zeros(z) \in Seq(T) /\ Len(Hash!Zeros(z)) = z
      BY <1>7, <2>1
    <3> HIDE DEF full, z
    <3>2. /\ full \o Hash!Zeros(z) \in Seq(T)
          /\ Len(full \o Hash!Zeros(z)) = Len(full) + Len(Hash!Zeros(z))
      BY <1>8, <3>1, Joined, Zenon
    <3> QED BY <1>8, <3>1, <3>2, Zenon
  <2>3. x \in Seq(T) /\ Len(x) = Block
    <3> DEFINE head == full \o Hash!Zeros(z)
    <3> HIDE DEF head
    <3>1. head \o bytes \in Seq(T) /\ Len(head \o bytes) = Len(head) + Len(bytes)
      BY <1>7, <2>2, Joined, Zenon DEF head
    <3>2. Len(head) = n + 1 + z
      BY <2>2, Zenon DEF head
    <3>3. Len(head) + Len(bytes) = Block
      BY <1>4, <1>6, <3>2
    <3> QED BY <3>1, <3>3, Zenon DEF head
  <2>4. p = d \o x
    <3> DEFINE fill == Hash!Zeros(z)
    <3>1. d \in Seq(T) /\ full \in Seq(T) /\ fill \in Seq(T) /\ bytes \in Seq(T)
      BY <1>7, <1>8, <2>1
    <3> HIDE DEF full, fill
    <3>2. ((d \o full) \o fill) \o bytes = d \o ((full \o fill) \o bytes)
      <4> DEFINE g == full \o fill
      <4>1. d \o (full \o fill) = (d \o full) \o fill
        BY <3>1, Associative, SMTT(60)
      <4>2. g \in Seq(T)
        BY <3>1, Joined
      <4> HIDE DEF g
      <4>3. (d \o g) \o bytes = d \o (g \o bytes)
        BY <3>1, <4>2, Associative, SMTT(60)
      <4> QED BY <4>1, <4>3, Zenon DEF g
    <3>3. ((d \o full) \o Hash!Zeros(z)) \o bytes = d \o x
      BY <3>2, Zenon DEF fill
    <3> QED BY <1>9, <1>10, <2>1, <3>3, Zenon
  <2> HIDE DEF full, z, x
  <2>5. Len(p) = Block * (k + 1) + 0 /\ k + 1 \in Nat
    <3>1. Len(p) = Len(d) + Len(x)
      BY <1>7, <2>3, <2>4, Joined, Zenon
    <3>2. Block * (k + 1) = Block * k + Block
      BY Multiples
    <3> QED BY <1>3, <1>4, <2>3, <3>1, <3>2
  <2>6. Len(p) \div Block = k + 1
    <3>1. 0 \in 0 .. Block - 1 /\ k + 1 \in Int
      BY <1>4
    <3> QED BY <2>5, <3>1, Remainder
  <2>7. Hash!HashOf(m) = Compress(Rounds(d, k), x)
    <3>1. Hash!HashOf(m) = Rounds(p, k + 1)
      BY <2>6, HashOfIs DEF p
    <3> QED BY <1>3, <1>7, <2>3, <2>4, <3>1, OneMore
  <2>8. Len(full) = n + 1 /\ Room - Len(full) = z /\ ~(Len(full) > Room)
    BY <1>4, <1>8, <1>11 DEF z
  <2>9. Hash!Final512(c) = Compress(c.h, (full \o Hash!Zeros(Room - Len(full))) \o bytes)
    BY <1>5, <1>8, <2>8 DEF Hash!Final512, bytes
  <2>10. Hash!Final256(c) = Compress(c.h, (full \o Hash!Zeros(Room - Len(full))) \o bytes)
    BY <1>5, <1>8, <1>11 DEF Hash!Final256, bytes
  <2> QED BY <1>5, <2>7, <2>8, <2>9, <2>10 DEF x
<1>12. CASE ~(n < Room)
  <2> DEFINE y == Block - n - 1
             x == full \o Hash!Zeros(y)
             w == Hash!Zeros(Room) \o bytes
             e == d \o x
  <2>1. left % Block = y + Room /\ y \in Nat /\ y + Room \in Nat
    <3>1. y + Room \in 0 .. Block - 1 /\ -(k + 1) \in Int /\ y \in Nat /\ y + Room \in Nat
      BY <1>4, <1>12
    <3>2. left = Block * (-(k + 1)) + (y + Room)
      BY <1>4
    <3> HIDE DEF y, left
    <3> QED BY <3>1, <3>2, Remainder
  <2>2. x \in Seq(T) /\ Len(x) = Block
    <3>1. Hash!Zeros(y) \in Seq(T) /\ Len(Hash!Zeros(y)) = y
      BY <1>7, <2>1
    <3> HIDE DEF full, y
    <3>2. x \in Seq(T) /\ Len(x) = Len(full) + Len(Hash!Zeros(y))
      BY <1>8, <3>1, Joined, Zenon
    <3>3. Len(full) + Len(Hash!Zeros(y)) = Block
      BY <1>4, <1>8, <3>1 DEF y
    <3> QED BY <3>2, <3>3, Zenon
  <2>3. w \in Seq(T) /\ Len(w) = Block
    <3>1. Hash!Zeros(Room) \in Seq(T) /\ Len(Hash!Zeros(Room)) = Room
      BY <1>4, <1>7
    <3>2. w \in Seq(T) /\ Len(w) = Len(Hash!Zeros(Room)) + Len(bytes)
      BY <1>7, <3>1, Joined, Zenon
    <3>3. Len(Hash!Zeros(Room)) + Len(bytes) = Block
      BY <1>4, <1>6, <3>1
    <3> QED BY <3>2, <3>3, Zenon
  <2>4. p = e \o w
    <3>1. Hash!Zeros(y + Room) = Hash!Zeros(y) \o Hash!Zeros(Room)
      BY <1>4, <2>1, ZerosOn
    <3> DEFINE fill == Hash!Zeros(y)
               room == Hash!Zeros(Room)
    <3>2. /\ d \in Seq(T) /\ full \in Seq(T) /\ fill \in Seq(T) /\ room \in Seq(T)
          /\ bytes \in Seq(T)
      BY <1>4, <1>7, <1>8, <2>1
    <3> HIDE DEF full, fill, room
    <3>3. ((d \o full) \o (fill \o room)) \o bytes = (d \o (full \o fill)) \o (room \o bytes)
      <4> DEFINE g == d \o full
                 f == g \o fill
      <4>1. g \o fill = d \o (full \o fill)
        BY <3>2, Associative, SMTT(60)
      <4>2. g \in Seq(T)
        BY <3>2, Joined
      <4> HIDE DEF g
      <4>3. g \o (fill \o room) = (g \o fill) \o room
        <5>1. g \in Seq(T) /\ fill \in Seq(T) /\ room \in Seq(T)
          BY <3>2, <4>2
        <5> QED BY <5>1, Associative, SMTT(60)
      <4>4. f \in Seq(T)
        BY <3>2, <4>2, Joined
      <4> HIDE DEF f
      <4>5. (f \o room) \o bytes = f \o (room \o bytes)
        BY <3>2, <4>4, Associative, SMTT(60)
      <4> QED BY <4>1, <4>3, <4>5, Zenon DEF f, g
    <3>4. ((d \o full) \o (Hash!Zeros(y) \o Hash!Zeros(Room))) \o bytes = e \o w
      BY <3>3, Zenon DEF fill, room
    <3> QED BY <1>9, <1>10, <2>1, <3>1, <3>4, Zenon
  <2> HIDE DEF full, y, x, w
  <2>5. e \in Seq(T) /\ Len(e) = Block * (k + 1) /\ k + 1 \in Nat
    <3>1. e \in Seq(T) /\ Len(e) = Len(d) + Len(x)
      BY <1>7, <2>2, Joined, Zenon
    <3>2. Block * (k + 1) = Block * k + Block
      BY Multiples
    <3> HIDE DEF e
    <3> QED BY <1>3, <1>4, <2>2, <3>1, <3>2
  <2>6. Rounds(e, k + 1) = Compress(Rounds(d, k), x)
    BY <1>3, <1>7, <2>2, OneMore
  <2> HIDE DEF e
  <2>7. Len(p) = Block * ((k + 1) + 1) + 0
    <3>1. Len(p) = Len(e) + Len(w)
      BY <2>3, <2>4, <2>5, Joined, Zenon
    <3>2. /\ Block * ((k + 1) + 1) = Block * (k + 1) + Block /\ Block * (k + 1) \in Nat
      BY <2>5, Multiples
    <3> QED BY <1>4, <2>3, <2>5, <3>1, <3>2
  <2>8. Len(p) \div Block = (k + 1) + 1
    <3>1. 0 \in 0 .. Block - 1 /\ (k + 1) + 1 \in Int
      BY <1>4
    <3> QED BY <2>7, <3>1, Remainder
  <2>9. Hash!HashOf(m) = Compress(Compress(Rounds(d, k), x), w)
    <3>1. Hash!HashOf(m) = Rounds(p, (k + 1) + 1)
      BY <2>8, HashOfIs DEF p
    <3>2. Rounds(e \o w, (k + 1) + 1) = Compress(Rounds(e, k + 1), w)
      BY <2>3, <2>5, OneMore
    <3> QED BY <2>4, <2>6, <3>1, <3>2
  <2>10. Len(full) = n + 1 /\ Block - Len(full) = y /\ Len(full) > Room
    BY <1>4, <1>8, <1>12 DEF y
  <2>11. Hash!Zeros(Room) = <<>> \o Hash!Zeros(Room - Len(<<>>))
    BY <1>4, <1>7, ConcatEmptySeq
  <2>12. Hash!Final512(c) = Compress(Compress(c.h, full \o Hash!Zeros(Block - Len(full))),
                              (<<>> \o Hash!Zeros(Room - Len(<<>>))) \o bytes)
    BY <1>5, <1>8, <2>10 DEF Hash!Final512, bytes
  <2>13. Hash!Final256(c) = Compress(Compress(c.h, full \o Hash!Zeros(Block - Len(full))),
                              Hash!Zeros(Room) \o bytes)
    BY <1>5, <1>8, <1>12 DEF Hash!Final256, bytes
  <2> QED BY <1>5, <2>9, <2>10, <2>11, <2>12, <2>13 DEF x, w
<1> QED BY <1>11, <1>12

\* Wherever a message is cut, both hashes come to the digest of the padded whole,
\* whatever the block, the length field and the compression function.
THEOREM AnyCutHashesAlike ==
  ASSUME Sizes, NEW S, NEW messages \in SUBSET Seq(S) PROVE Hash!HashesAgree(messages)
<1> SUFFICES ASSUME NEW m \in messages, NEW cut \in 0 .. Len(m)
    PROVE  LET a == SubSeq(m, 1, cut)
               b == SubSeq(m, cut + 1, Len(m))
           IN /\ Hash!Final512(Hash!Update512(Hash!Update512(Hash!Start, a), b)) = Hash!HashOf(m)
              /\ Hash!Final256(Hash!Update256(Hash!Update256(Hash!Start, a), b)) = Hash!HashOf(m)
  BY Zenon DEF Hash!HashesAgree
<1> DEFINE a == SubSeq(m, 1, cut)
           b == SubSeq(m, cut + 1, Len(m))
<1>1. a \in Seq(S) /\ b \in Seq(S) /\ m \in Seq(S) /\ m = a \o b /\ a = <<>> \o a
  <2>1. m \in Seq(S) /\ Len(m) \in Nat
    OBVIOUS
  <2>2. a \in Seq(S) /\ b \in Seq(S)
    BY <2>1
  <2>3. a \o b = SubSeq(m, 1, Len(m))
    <3>1. 1 \in 1 .. Len(m) + 1 /\ cut \in 1 - 1 .. Len(m) /\ Len(m) \in cut .. Len(m)
      BY <2>1
    <3> QED BY <2>1, <3>1, ConcatAdjacentSubSeq
  <2> HIDE DEF a, b
  <2> QED BY <2>1, <2>2, <2>3, SubSeqFull, ConcatEmptySeq
<1> HIDE DEF a, b
<1>2. Stands(Hash!Start, <<>>, S) /\ <<>> \in Seq(S)
  BY StandsAtStart, EmptySeq
<1>3. Stands(Hash!Update512(Hash!Start, a), a, S)
  BY <1>1, <1>2, Updates512
<1>4. Stands(Hash!Update512(Hash!Update512(Hash!Start, a), b), m, S)
  BY <1>1, <1>3, Updates512
<1>5. Stands(Hash!Update256(Hash!Start, a), a, S)
  BY <1>1, <1>2, Updates256
<1>6. Stands(Hash!Update256(Hash!Update256(Hash!Start, a), b), m, S)
  BY <1>1, <1>5, Updates256
<1>7. /\ Hash!Final512(Hash!Update512(Hash!Update512(Hash!Start, a), b)) = Hash!HashOf(m)
      /\ Hash!Final256(Hash!Update256(Hash!Update256(Hash!Start, a), b)) = Hash!HashOf(m)
  BY <1>1, <1>4, <1>6, FinalsAgree
<1> QED BY <1>7 DEF a, b
=============================================================================
