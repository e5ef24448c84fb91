
--------------------------- MODULE MCSavingProofs ---------------------------
(***************************************************************************)
(* Proofs about the three parts of MCSaving.                               *)
(*                                                                         *)
(* SaveFile, for any number of saves, names, links, crashes and failing    *)
(* steps: what a save knows of its temporary file and of its target at     *)
(* each step, and that every file a name may hold after a crash is whole   *)
(* and on the disk (IInv); links and modes are kept where every save saw   *)
(* them (Sighted).                                                         *)
(*                                                                         *)
(* SessionFiles, for any graphs and events: until a pass of a load ends    *)
(* its undo log takes the session back to what it was (LoadInv), and each  *)
(* field that the Read pass came past is one of the saved session, and     *)
(* holds what it held (ContinueInv).                                       *)
(*                                                                         *)
(* OperatorSettings, for any factories and any number of settings, copies  *)
(* and ops: what an op records and works with are what the call meant      *)
(* (SettingsInv).                                                          *)
(***************************************************************************)
EXTENDS MCSaving, WellFoundedInduction, TLAPS

-----------------------------------------------------------------------------
(* SaveFile: the inductive invariant *)

TypeOK ==
  /\ links \in [Names -> Names \union {NoName}]
  /\ file \in [Names -> Files] /\ held \in [Names -> SUBSET Files]
  /\ tmp \in [Saves -> Files]
  /\ at \in [Saves -> Places]
  /\ path \in [Saves -> Names \union {NoName}]
  /\ hops \in [Saves -> Nat]
  /\ mode \in [Saves -> Modes \union {NoMode}]
  /\ open \in [Saves -> BOOLEAN]
  /\ missed \subseteq Saves /\ litter \subseteq Saves
  /\ crashes \in Nat

\* The steps before there is a temporary file, and those that know the target
\* and its mode.
Early == {"idle", "import", "readlink", "stat", "open"}
Known == {"open", "write", "chmod", "sync", "close", "rename"}

\* A save that missed nothing, and whose path no save replaced that did.
Sighted(s) == s \notin missed /\ \A r \in missed : at[r] = "saved" => path[r] # path[s]

\* The mode a save gives its file.
Carried(s) == IF mode[s] = NoMode THEN Default ELSE mode[s]

TmpInv(s) ==
  /\ tmp[s].by \in {s, "none"}
  /\ at[s] \in Early => tmp[s] = NoFile
  /\ at[s] \in {"write", "chmod"} => tmp[s].mode = Default
  /\ at[s] = "chmod" => mode[s] # NoMode
  /\ at[s] \in {"chmod", "sync", "close", "rename"} => tmp[s].whole
  /\ at[s] \in {"close", "rename"} => tmp[s].synced
  /\ at[s] \in {"sync", "close", "rename"} => tmp[s].mode = Carried(s)
  /\ at[s] \notin Working /\ tmp[s] # NoFile => s \in litter

\* For a sighted save, the target is no link; it keeps the mode that
\* was read or, if it was not there, has the mode of a new file by now.
TargetInv(s) ==
  /\ at[s] # "idle" => path[s] \in Names
  /\ Sighted(s) =>
       /\ at[s] \in Known \union {"stat"} => links[path[s]] = NoName
       /\ at[s] \in Known =>
            file[path[s]].mode = Carried(s) \/ (mode[s] = NoMode /\ file[path[s]] = NoFile)

Sound(f) ==
  /\ f.whole /\ f.synced
  /\ f = NoFile \/ f.mode \in Modes
  /\ \A s \in Saves : f.by = s => at[s] = "saved"

FileInv == \A n \in Names : file[n] \in held[n] /\ \A f \in held[n] : Sound(f)

IInv == TypeOK /\ (\A s \in Saves : TmpInv(s) /\ TargetInv(s)) /\ FileInv

-----------------------------------------------------------------------------
(* The initial states, and the steps that leave the names alone *)

\* The files that steps make are files.
LEMMA FileTypes ==
  /\ NoFile \in Files /\ NoFile.mode = NoMode
  /\ \A m \in Modes : Old(m) \in Files /\ Old(m).mode = m
  /\ \A s \in Saves : [by |-> s, whole |-> FALSE, synced |-> FALSE, mode |-> Default] \in Files
BY ModeAssumption DEF Files, NoFile, Old

LEMMA FileFields ==
  ASSUME NEW f \in Files
  PROVE  /\ f.mode \in Modes \union {NoMode}
         /\ [f EXCEPT !.whole = TRUE] \in Files
         /\ [f EXCEPT !.synced = TRUE] \in Files
         /\ \A m \in Modes : [f EXCEPT !.mode = m] \in Files
BY DEF Files

LEMMA InitIInv == Init => IInv
<1> SUFFICES ASSUME Init PROVE IInv
  OBVIOUS
<1>1. file \in [Names -> Files]
  BY FileTypes DEF Init
<1>2. TypeOK
  BY <1>1, FileTypes DEF Init, TypeOK, Places
<1>3. ASSUME NEW s \in Saves PROVE TmpInv(s) /\ TargetInv(s)
  BY DEF Init, TmpInv, TargetInv, Early, Known, Working, NoFile
<1>4. FileInv
  <2>1. ASSUME NEW n \in Names PROVE Sound(file[n])
    <3>1. PICK m \in Modes : file[n] \in {NoFile, Old(m)}
      BY DEF Init
    <3>2. CASE file[n] = NoFile
      BY <3>2, SavesAssumption DEF Sound, NoFile
    <3>3. CASE file[n] = Old(m)
      BY <3>3, SavesAssumption DEF Sound, Old
    <3> QED BY <3>1, <3>2, <3>3
  <2> QED BY <2>1 DEF Init, FileInv
<1> QED BY <1>2, <1>3, <1>4 DEF IInv

\* A save that is sighted has been sighted.
LEMMA SightedBefore ==
  ASSUME NEW s \in Saves, missed \subseteq missed', path'[s] = path[s],
         \A q \in missed : at[q] = "saved" => at'[q] = "saved" /\ path'[q] = path[q],
         Sighted(s)'
  PROVE  Sighted(s)
<1>1. s \notin missed' /\ \A q \in missed' : at'[q] = "saved" => path'[q] # path'[s]
  BY DEF Sighted
<1> QED BY <1>1 DEF Sighted

\* A step of save s that touches no name and no path keeps what is known of its target.
LEMMA TargetStays ==
  ASSUME NEW s \in Saves, IInv, UNCHANGED <<fileVars, saveVars>>, at[s] \in Known,
         at'[s] \in Known \union {"abort"}, \A q \in Saves \ {s} : at'[q] = at[q]
  PROVE  TargetInv(s)'
<1>1. missed' = missed /\ missed \subseteq Saves /\ path' = path /\ mode' = mode /\ links' = links /\ file' = file
  BY DEF IInv, TypeOK, fileVars, saveVars
<1>2. at[s] # "saved" /\ at[s] # "idle"
  BY DEF Known
<1>3. Sighted(s)' => Sighted(s)
  BY <1>1, <1>2, SightedBefore
<1> QED BY <1>1, <1>2, <1>3 DEF IInv, TargetInv, Carried, Known

\* A step of save s that touches no name keeps what is known of the names, and
\* of the other saves.
LEMMA Local ==
  ASSUME NEW s \in Saves, IInv, TypeOK', UNCHANGED fileVars, litter \subseteq litter',
         at[s] # "saved",
         \A r \in Saves \ {s} : /\ at'[r] = at[r] /\ tmp'[r] = tmp[r]
                                /\ path'[r] = path[r] /\ mode'[r] = mode[r],
         missed \subseteq missed',
         TmpInv(s)', TargetInv(s)'
  PROVE  IInv'
<1>1. ASSUME NEW r \in Saves PROVE TmpInv(r)' /\ TargetInv(r)'
  <2>1. CASE r = s
    BY <2>1
  <2>2. CASE r # s
    <3>1. Sighted(r)' => Sighted(r)
      <4>1. missed \subseteq Saves
        BY DEF IInv, TypeOK
      <4> QED BY <2>2, <4>1, SightedBefore
    <3> QED BY <2>2, <3>1 DEF IInv, TmpInv, TargetInv, fileVars, Carried
  <2> QED BY <2>1, <2>2
<1>2. FileInv'
  <2>1. ASSUME NEW n \in Names PROVE file'[n] \in held'[n]
    BY DEF IInv, FileInv, fileVars
  <2>2. ASSUME NEW n \in Names, NEW f \in held'[n] PROVE Sound(f)'
    <3>1. Sound(f)
      BY DEF IInv, FileInv, fileVars
    <3>2. ASSUME NEW r \in Saves, f.by = r PROVE at'[r] = "saved"
      BY <3>1, <3>2 DEF Sound
    <3> QED BY <3>1, <3>2 DEF Sound
  <2> QED BY <2>1, <2>2 DEF FileInv
<1> QED BY <1>1, <1>2 DEF IInv

LEMMA SaveKeeps == ASSUME NEW s \in Saves, NEW n \in Names, Save(s, n), IInv PROVE IInv'
<1> USE NameAssumption, ModeAssumption, SavesAssumption
<1>1. TypeOK'
  BY FileTypes, FileFields DEF Save, Goto, IInv, TypeOK, fileVars, saveVars, Places, Working, Over
<1>2. TmpInv(s)'
  BY DEF Save, Goto, IInv, TypeOK, TmpInv, fileVars, saveVars, Files, NoFile, Early, Working, Carried
<1>3. TargetInv(s)'
  BY DEF Save, Goto, IInv, TypeOK, TargetInv, FileInv, Sound, fileVars, saveVars, Files, NoFile, Known, Carried
<1>4. /\ UNCHANGED fileVars /\ litter \subseteq litter' /\ at[s] # "saved"
      /\ \A r \in Saves \ {s} : /\ at'[r] = at[r] /\ tmp'[r] = tmp[r]
                                 /\ path'[r] = path[r] /\ mode'[r] = mode[r]
      /\ missed \subseteq missed'
  BY DEF Save, Goto, IInv, TypeOK, saveVars, fileVars
<1> QED BY <1>1, <1>2, <1>3, <1>4, Local

LEMMA ImportKeeps == ASSUME NEW s \in Saves, Import(s), IInv PROVE IInv'
<1> USE NameAssumption, ModeAssumption, SavesAssumption
<1>1. TypeOK'
  BY FileTypes, FileFields DEF Import, Goto, IInv, TypeOK, fileVars, saveVars, Places, Working, Over
<1>2. TmpInv(s)'
  BY DEF Import, Goto, IInv, TypeOK, TmpInv, fileVars, saveVars, Files, NoFile, Early, Working, Carried
<1>3. TargetInv(s)'
  BY DEF Import, Goto, IInv, TypeOK, TargetInv, FileInv, Sound, fileVars, saveVars, Files, NoFile, Known, Carried
<1>4. /\ UNCHANGED fileVars /\ litter \subseteq litter' /\ at[s] # "saved"
      /\ \A r \in Saves \ {s} : /\ at'[r] = at[r] /\ tmp'[r] = tmp[r]
                                 /\ path'[r] = path[r] /\ mode'[r] = mode[r]
      /\ missed \subseteq missed'
  BY DEF Import, Goto, IInv, TypeOK, saveVars, fileVars
<1> QED BY <1>1, <1>2, <1>3, <1>4, Local

LEMMA ReadLinkKeeps == ASSUME NEW s \in Saves, ReadLink(s), IInv PROVE IInv'
<1> USE NameAssumption, ModeAssumption, SavesAssumption
<1>1. TypeOK'
  <2>1. path[s] \in Names
    BY DEF ReadLink, IInv, TargetInv
  <2>2. links[path[s]] \in Names \union {NoName}
    BY <2>1, FileFields DEF IInv, TypeOK
  <2> QED BY <2>2 DEF ReadLink, Goto, IInv, TypeOK, fileVars, saveVars, Places, Working, Over
<1>2. TmpInv(s)'
  BY DEF ReadLink, Goto, IInv, TypeOK, TmpInv, fileVars, saveVars, Files, NoFile, Early, Working, Carried
<1>3. TargetInv(s)'
  <2>1. path[s] \in Names /\ at'[s] \in {"readlink", "stat", "failed"} /\ links' = links
    BY DEF ReadLink, Goto, IInv, TypeOK, TargetInv, fileVars
  <2>2. path'[s] \in Names
    BY <2>1 DEF ReadLink, IInv, TypeOK
  <2>3. Sighted(s)' /\ at'[s] = "stat" => links[path'[s]] = NoName
    BY <2>1 DEF ReadLink, Goto, Sighted, IInv, TypeOK
  <2> QED BY <2>1, <2>2, <2>3 DEF TargetInv, Known
<1>4. /\ UNCHANGED fileVars /\ litter \subseteq litter' /\ at[s] # "saved"
      /\ \A r \in Saves \ {s} : /\ at'[r] = at[r] /\ tmp'[r] = tmp[r]
                                 /\ path'[r] = path[r] /\ mode'[r] = mode[r]
      /\ missed \subseteq missed'
  BY DEF ReadLink, Goto, IInv, TypeOK, saveVars, fileVars
<1> QED BY <1>1, <1>2, <1>3, <1>4, Local

\* A name that is no link leads to itself.
LEMMA LeadsHome ==
  ASSUME NEW n \in Names, links[n] = NoName
  PROVE  LeadsTo(n) = {n}
<1> USE NameAssumption, BoundAssumption
<1>1. n \in LeadsTo(n)
  <2> DEFINE c == [i \in 0 .. 0 |-> n]
  <2>1. 0 \in 0 .. MaxHops /\ c \in [0 .. 0 -> Names] /\ c[0] = n
    OBVIOUS
  <2>2. \A i \in 1 .. 0 : links[c[i - 1]] = c[i]
    OBVIOUS
  <2> QED BY <2>1, <2>2 DEF LeadsTo
<1>2. ASSUME NEW t \in LeadsTo(n) PROVE t = n
  <2>1. PICK k \in 0 .. MaxHops : \E c \in [0 .. k -> Names] :
               c[0] = n /\ c[k] = t /\ \A i \in 1 .. k : links[c[i - 1]] = c[i]
    BY <1>2 DEF LeadsTo
  <2>2. PICK c \in [0 .. k -> Names] : c[0] = n /\ c[k] = t /\ \A i \in 1 .. k : links[c[i - 1]] = c[i]
    BY <2>1
  <2>3. CASE k >= 1
    <3>1. 1 \in 1 .. k /\ 1 - 1 = 0 /\ 1 \in 0 .. k
      BY <2>3
    <3>2. links[c[0]] = c[1] /\ c[1] \in Names
      BY <2>2, <3>1
    <3> QED BY <2>2, <3>2
  <2> QED BY <2>1, <2>2, <2>3
<1> QED BY <1>1, <1>2

LEMMA StatKeeps == ASSUME NEW s \in Saves, Stat(s), IInv PROVE IInv'
<1> USE NameAssumption, ModeAssumption, SavesAssumption
<1>1. TypeOK'
  <2>1. path[s] \in Names
    BY DEF Stat, IInv, TargetInv
  <2>2. \A t \in LeadsTo(path[s]) : file[t].mode \in Modes \union {NoMode}
    BY FileFields DEF IInv, TypeOK, LeadsTo
  <2> QED BY <2>2 DEF Stat, Goto, IInv, TypeOK, fileVars, saveVars, Places, Working, Over
<1>2. TmpInv(s)'
  BY DEF Stat, Goto, IInv, TypeOK, TmpInv, fileVars, saveVars, Files, NoFile, Early, Working, Carried
<1>3. TargetInv(s)'
  <2>1. path[s] \in Names /\ (Sighted(s) => links[path[s]] = NoName)
    BY DEF Stat, IInv, TargetInv
  <2>2. file[path[s]] = NoFile \/ file[path[s]].mode \in Modes
    BY <2>1 DEF IInv, FileInv, Sound
  <2>3. Sighted(s)' => mode'[s] = file[path[s]].mode /\ Sighted(s)
    <3> SUFFICES ASSUME Sighted(s)' PROVE mode'[s] = file[path[s]].mode /\ Sighted(s)
      OBVIOUS
    <3>1. missed' = missed /\ Sighted(s)
      BY DEF Stat, Goto, Sighted, IInv, TypeOK
    <3>2. LeadsTo(path[s]) = {path[s]}
      BY <2>1, <3>1, LeadsHome
    <3>3. s \notin missed'
      BY DEF Sighted
    <3> QED BY <3>1, <3>2, <3>3 DEF Stat, IInv, TypeOK
  <2>4. at'[s] = "open" /\ path' = path /\ links' = links /\ file' = file
    BY DEF Stat, Goto, fileVars, IInv, TypeOK
  <2> QED BY <2>1, <2>2, <2>3, <2>4, FileTypes DEF TargetInv, Carried, Known
<1>4. /\ UNCHANGED fileVars /\ litter \subseteq litter' /\ at[s] # "saved"
      /\ \A r \in Saves \ {s} : /\ at'[r] = at[r] /\ tmp'[r] = tmp[r]
                                 /\ path'[r] = path[r] /\ mode'[r] = mode[r]
      /\ missed \subseteq missed'
  BY DEF Stat, Goto, IInv, TypeOK, saveVars, fileVars
<1> QED BY <1>1, <1>2, <1>3, <1>4, Local

LEMMA OpenKeeps == ASSUME NEW s \in Saves, Open(s), IInv PROVE IInv'
<1> USE NameAssumption, ModeAssumption, SavesAssumption
<1>1. TypeOK'
  <2>1. tmp[s] \in Files /\ mode[s] \in Modes \union {NoMode}
    BY DEF IInv, TypeOK
  <2>2. [by |-> s, whole |-> FALSE, synced |-> FALSE, mode |-> Default] \in Files
    BY <2>1, FileFields, FileTypes DEF Open, Goto, Fails, IInv, TmpInv
  <2>3. tmp' \in [Saves -> Files]
    BY <2>2 DEF Open, Goto, Fails, IInv, TypeOK
  <2> QED BY <2>3 DEF Open, Goto, Fails, IInv, TypeOK, fileVars, saveVars, Places, Working, Over
<1>2. TmpInv(s)'
  BY DEF Open, Goto, Fails, IInv, TypeOK, TmpInv, fileVars, saveVars, Files, NoFile, Early, Working, Carried
<1>3. TargetInv(s)'
  <2>1. /\ at[s] \in Known /\ at'[s] \in Known \union {"abort"}
        /\ \A q \in Saves \ {s} : at'[q] = at[q]
    BY DEF Open, Goto, Fails, IInv, TypeOK, Known
  <2>2. UNCHANGED <<fileVars, saveVars>>
    BY DEF Open
  <2> QED BY <2>1, <2>2, TargetStays
<1>4. /\ UNCHANGED fileVars /\ litter \subseteq litter' /\ at[s] # "saved"
      /\ \A r \in Saves \ {s} : /\ at'[r] = at[r] /\ tmp'[r] = tmp[r]
                                 /\ path'[r] = path[r] /\ mode'[r] = mode[r]
      /\ missed \subseteq missed'
  BY DEF Open, Goto, Fails, IInv, TypeOK, saveVars, fileVars
<1> QED BY <1>1, <1>2, <1>3, <1>4, Local

LEMMA WriteKeeps == ASSUME NEW s \in Saves, Write(s), IInv PROVE IInv'
<1> USE NameAssumption, ModeAssumption, SavesAssumption
<1>1. TypeOK'
  <2>1. tmp[s] \in Files /\ mode[s] \in Modes \union {NoMode}
    BY DEF IInv, TypeOK
  <2>2. [tmp[s] EXCEPT !.whole = TRUE] \in Files
    BY <2>1, FileFields, FileTypes DEF Write, Goto, Fails, IInv, TmpInv
  <2>3. tmp' \in [Saves -> Files]
    BY <2>2 DEF Write, Goto, Fails, IInv, TypeOK
  <2> QED BY <2>3 DEF Write, Goto, Fails, IInv, TypeOK, fileVars, saveVars, Places, Working, Over
<1>2. TmpInv(s)'
  BY DEF Write, Goto, Fails, IInv, TypeOK, TmpInv, fileVars, saveVars, Files, NoFile, Early, Working, Carried
<1>3. TargetInv(s)'
  <2>1. /\ at[s] \in Known /\ at'[s] \in Known \union {"abort"}
        /\ \A q \in Saves \ {s} : at'[q] = at[q]
    BY DEF Write, Goto, Fails, IInv, TypeOK, Known
  <2>2. UNCHANGED <<fileVars, saveVars>>
    BY DEF Write
  <2> QED BY <2>1, <2>2, TargetStays
<1>4. /\ UNCHANGED fileVars /\ litter \subseteq litter' /\ at[s] # "saved"
      /\ \A r \in Saves \ {s} : /\ at'[r] = at[r] /\ tmp'[r] = tmp[r]
                                 /\ path'[r] = path[r] /\ mode'[r] = mode[r]
      /\ missed \subseteq missed'
  BY DEF Write, Goto, Fails, IInv, TypeOK, saveVars, fileVars
<1> QED BY <1>1, <1>2, <1>3, <1>4, Local

LEMMA ChmodKeeps == ASSUME NEW s \in Saves, Chmod(s), IInv PROVE IInv'
<1> USE NameAssumption, ModeAssumption, SavesAssumption
<1>1. TypeOK'
  <2>1. tmp[s] \in Files /\ mode[s] \in Modes
    BY DEF Chmod, Fails, IInv, TypeOK, TmpInv
  <2>2. [tmp[s] EXCEPT !.mode = mode[s]] \in Files
    BY <2>1, FileFields
  <2>3. tmp' \in [Saves -> Files]
    BY <2>2 DEF Chmod, Fails, IInv, TypeOK
  <2> QED BY <2>3 DEF Chmod, Goto, Fails, IInv, TypeOK, fileVars, saveVars, Places, Working, Over
<1>2. TmpInv(s)'
  <2>1. TmpInv(s) /\ mode'[s] = mode[s] /\ tmp[s] \in Files
    BY DEF Chmod, IInv, TypeOK, saveVars
  <2>2. CASE at'[s] = "sync" /\ tmp' = [tmp EXCEPT ![s].mode = mode[s]]
    BY <2>1, <2>2 DEF Chmod, Fails, IInv, TypeOK, TmpInv, Files, Early, Working, Carried
  <2>3. CASE at'[s] = "abort" /\ UNCHANGED tmp
    BY <2>1, <2>3 DEF TmpInv, Early, Working
  <2> QED BY <2>2, <2>3 DEF Chmod, Goto, Fails, IInv, TypeOK
<1>3. TargetInv(s)'
  <2>1. /\ at[s] \in Known /\ at'[s] \in Known \union {"abort"}
        /\ \A q \in Saves \ {s} : at'[q] = at[q]
    BY DEF Chmod, Goto, Fails, IInv, TypeOK, Known
  <2>2. UNCHANGED <<fileVars, saveVars>>
    BY DEF Chmod
  <2> QED BY <2>1, <2>2, TargetStays
<1>4. /\ UNCHANGED fileVars /\ litter \subseteq litter' /\ at[s] # "saved"
      /\ \A r \in Saves \ {s} : /\ at'[r] = at[r] /\ tmp'[r] = tmp[r]
                                 /\ path'[r] = path[r] /\ mode'[r] = mode[r]
      /\ missed \subseteq missed'
  BY DEF Chmod, Goto, Fails, IInv, TypeOK, saveVars, fileVars
<1> QED BY <1>1, <1>2, <1>3, <1>4, Local

LEMMA SyncKeeps == ASSUME NEW s \in Saves, Sync(s), IInv PROVE IInv'
<1> USE NameAssumption, ModeAssumption, SavesAssumption
<1>1. TypeOK'
  <2>1. tmp[s] \in Files /\ mode[s] \in Modes \union {NoMode}
    BY DEF IInv, TypeOK
  <2>2. [tmp[s] EXCEPT !.synced = TRUE] \in Files
    BY <2>1, FileFields, FileTypes DEF Sync, Goto, Fails, IInv, TmpInv
  <2>3. tmp' \in [Saves -> Files]
    BY <2>2 DEF Sync, Goto, Fails, IInv, TypeOK
  <2> QED BY <2>3 DEF Sync, Goto, Fails, IInv, TypeOK, fileVars, saveVars, Places, Working, Over
<1>2. TmpInv(s)'
  BY DEF Sync, Goto, Fails, IInv, TypeOK, TmpInv, fileVars, saveVars, Files, NoFile, Early, Working, Carried
<1>3. TargetInv(s)'
  <2>1. /\ at[s] \in Known /\ at'[s] \in Known \union {"abort"}
        /\ \A q \in Saves \ {s} : at'[q] = at[q]
    BY DEF Sync, Goto, Fails, IInv, TypeOK, Known
  <2>2. UNCHANGED <<fileVars, saveVars>>
    BY DEF Sync
  <2> QED BY <2>1, <2>2, TargetStays
<1>4. /\ UNCHANGED fileVars /\ litter \subseteq litter' /\ at[s] # "saved"
      /\ \A r \in Saves \ {s} : /\ at'[r] = at[r] /\ tmp'[r] = tmp[r]
                                 /\ path'[r] = path[r] /\ mode'[r] = mode[r]
      /\ missed \subseteq missed'
  BY DEF Sync, Goto, Fails, IInv, TypeOK, saveVars, fileVars
<1> QED BY <1>1, <1>2, <1>3, <1>4, Local

LEMMA CloseKeeps == ASSUME NEW s \in Saves, Close(s), IInv PROVE IInv'
<1> USE NameAssumption, ModeAssumption, SavesAssumption
<1>1. TypeOK'
  BY FileTypes, FileFields DEF Close, Goto, Fails, IInv, TypeOK, fileVars, saveVars, Places, Working, Over
<1>2. TmpInv(s)'
  BY DEF Close, Goto, Fails, IInv, TypeOK, TmpInv, fileVars, saveVars, Files, NoFile, Early, Working, Carried
<1>3. TargetInv(s)'
  <2>1. /\ at[s] \in Known /\ at'[s] \in Known \union {"abort"}
        /\ \A q \in Saves \ {s} : at'[q] = at[q]
    BY DEF Close, Goto, Fails, IInv, TypeOK, Known
  <2>2. UNCHANGED <<fileVars, saveVars>>
    BY DEF Close
  <2> QED BY <2>1, <2>2, TargetStays
<1>4. /\ UNCHANGED fileVars /\ litter \subseteq litter' /\ at[s] # "saved"
      /\ \A r \in Saves \ {s} : /\ at'[r] = at[r] /\ tmp'[r] = tmp[r]
                                 /\ path'[r] = path[r] /\ mode'[r] = mode[r]
      /\ missed \subseteq missed'
  BY DEF Close, Goto, Fails, IInv, TypeOK, saveVars, fileVars
<1> QED BY <1>1, <1>2, <1>3, <1>4, Local

LEMMA AbortKeeps == ASSUME NEW s \in Saves, Abort(s), IInv PROVE IInv'
<1> USE NameAssumption, ModeAssumption, SavesAssumption
<1>1. TypeOK'
  BY FileTypes, FileFields DEF Abort, Goto, IInv, TypeOK, fileVars, saveVars, Places, Working, Over
<1>2. TmpInv(s)'
  BY DEF Abort, Goto, IInv, TypeOK, TmpInv, fileVars, saveVars, Files, NoFile, Early, Working, Carried
<1>3. TargetInv(s)'
  BY DEF Abort, Goto, IInv, TypeOK, TargetInv, FileInv, Sound, fileVars, saveVars, Files, NoFile, Known, Carried
<1>4. /\ UNCHANGED fileVars /\ litter \subseteq litter' /\ at[s] # "saved"
      /\ \A r \in Saves \ {s} : /\ at'[r] = at[r] /\ tmp'[r] = tmp[r]
                                 /\ path'[r] = path[r] /\ mode'[r] = mode[r]
      /\ missed \subseteq missed'
  BY DEF Abort, Goto, IInv, TypeOK, saveVars, fileVars
<1> QED BY <1>1, <1>2, <1>3, <1>4, Local

LEMMA RemoveKeeps == ASSUME NEW s \in Saves, Remove(s), IInv PROVE IInv'
<1> USE NameAssumption, ModeAssumption, SavesAssumption
<1>1. TypeOK'
  BY FileTypes, FileFields DEF Remove, Goto, IInv, TypeOK, fileVars, saveVars, Places, Working, Over
<1>2. TmpInv(s)'
  <2>1. TmpInv(s) /\ at'[s] = "failed"
    BY DEF Remove, Goto, IInv, TypeOK
  <2>2. CASE tmp' = [tmp EXCEPT ![s] = NoFile]
    BY <2>1, <2>2 DEF IInv, TypeOK, TmpInv, Early, NoFile
  <2>3. CASE UNCHANGED tmp /\ litter' = litter \union {s}
    BY <2>1, <2>3 DEF TmpInv, Early
  <2> QED BY <2>2, <2>3 DEF Remove
<1>3. TargetInv(s)'
  BY DEF Remove, Goto, IInv, TypeOK, TargetInv, FileInv, Sound, fileVars, saveVars, Files, NoFile, Known, Carried
<1>4. /\ UNCHANGED fileVars /\ litter \subseteq litter' /\ at[s] # "saved"
      /\ \A r \in Saves \ {s} : /\ at'[r] = at[r] /\ tmp'[r] = tmp[r]
                                 /\ path'[r] = path[r] /\ mode'[r] = mode[r]
      /\ missed \subseteq missed'
  BY DEF Remove, Goto, IInv, TypeOK, saveVars, fileVars
<1> QED BY <1>1, <1>2, <1>3, <1>4, Local

-----------------------------------------------------------------------------
(* The steps that change what a name holds *)

LEMMA RenameKeeps == ASSUME NEW s \in Saves, Rename(s), IInv PROVE IInv'
<1> USE NameAssumption, ModeAssumption, SavesAssumption
<1> DEFINE n == path[s]
<1>1. CASE Fails(s, "rename") /\ UNCHANGED <<fileVars, tmp>>
  <2>1. at' = [at EXCEPT ![s] = "abort"] /\ at[s] = "rename"
    BY <1>1 DEF Fails, Goto
  <2>2. TypeOK'
    BY <1>1, <2>1 DEF Rename, IInv, TypeOK, fileVars, saveVars, Places, Working
  <2>3. TmpInv(s)' /\ TargetInv(s)'
    BY <1>1, <2>1 DEF Rename, IInv, TypeOK, TmpInv, TargetInv, fileVars, saveVars, Early, Known, Working
  <2>4. \A r \in Saves \ {s} : /\ at'[r] = at[r] /\ tmp'[r] = tmp[r]
                               /\ path'[r] = path[r] /\ mode'[r] = mode[r]
    BY <1>1, <2>1 DEF Rename, IInv, TypeOK, saveVars
  <2>5. missed' = missed
    BY DEF Rename, saveVars
  <2> QED BY <1>1, <2>1, <2>2, <2>3, <2>4, <2>5, Local DEF Rename
<1>2. CASE at[s] = "rename" /\ Replace(s) /\ Goto(s, "saved")
  <2>1. /\ n \in Names /\ tmp[s] \in Files
        /\ tmp[s].whole /\ tmp[s].synced /\ tmp[s].mode = Carried(s) /\ tmp[s].by \in {s, "none"}
        /\ Sighted(s) => /\ links[n] = NoName
                         /\ file[n].mode = Carried(s) \/ (mode[s] = NoMode /\ file[n] = NoFile)
        /\ Carried(s) \in Modes
    <3>1. n \in Names
      BY <1>2 DEF IInv, TargetInv
    <3>2. Sighted(s) => /\ links[n] = NoName
                        /\ file[n].mode = Carried(s) \/ (mode[s] = NoMode /\ file[n] = NoFile)
      BY <1>2 DEF IInv, TargetInv, Known
    <3>3. /\ tmp[s] \in Files /\ Carried(s) \in Modes
          /\ tmp[s].whole /\ tmp[s].synced /\ tmp[s].mode = Carried(s) /\ tmp[s].by \in {s, "none"}
      BY <1>2 DEF IInv, TypeOK, TmpInv, Carried
    <3> QED BY <3>1, <3>2, <3>3
  <2>2. /\ links' = [links EXCEPT ![n] = NoName] /\ (Sighted(s) => links' = links)
        /\ file' = [file EXCEPT ![n] = tmp[s]]
        /\ held' = [held EXCEPT ![n] = (IF links[n] = NoName THEN @ ELSE {}) \union {tmp[s]}]
        /\ tmp' = [tmp EXCEPT ![s] = NoFile]
        /\ at' = [at EXCEPT ![s] = "saved"]
        /\ UNCHANGED <<path, hops, mode, missed, open, litter, crashes>>
    <3>1. /\ links' = [links EXCEPT ![n] = NoName]
          /\ file' = [file EXCEPT ![n] = tmp[s]]
          /\ held' = [held EXCEPT ![n] = (IF links[n] = NoName THEN @ ELSE {}) \union {tmp[s]}]
          /\ tmp' = [tmp EXCEPT ![s] = NoFile]
          /\ at' = [at EXCEPT ![s] = "saved"]
      BY <1>2 DEF Replace, Goto
    <3>2. UNCHANGED <<path, hops, mode, missed, open, litter, crashes>>
      BY DEF Rename, saveVars
    <3>3. ASSUME Sighted(s) PROVE links' = links
      <4>1. links[n] = NoName
        BY <2>1, <3>3
      <4>2. links \in [Names -> Names \union {NoName}]
        BY DEF IInv, TypeOK
      <4> QED BY ONLY <3>1, <4>1, <4>2
    <3> QED BY <3>1, <3>2, <3>3
  <2>3. TypeOK'
    BY <2>1, <2>2, FileTypes DEF IInv, TypeOK, Places, Over
  <2>4. ASSUME NEW r \in Saves PROVE TmpInv(r)'
    <3>1. CASE r = s
      BY <2>2, <3>1 DEF IInv, TypeOK, TmpInv, NoFile, Early
    <3>2. CASE r # s
      BY <2>2, <3>2 DEF IInv, TypeOK, TmpInv, Carried
    <3> QED BY <3>1, <3>2
  <2>5. ASSUME NEW r \in Saves PROVE TargetInv(r)'
    <3>1. CASE r = s
      BY <2>1, <2>2, <3>1 DEF IInv, TypeOK, TargetInv, Known
    <3>3. Sighted(r)' => Sighted(r) /\ (path[r] = n => Sighted(s))
      <4>1. \A q \in missed : at'[q] = "saved" <=> at[q] = "saved" \/ q = s
        BY <2>2 DEF IInv, TypeOK
      <4> QED BY <2>2, <4>1 DEF Sighted, IInv, TypeOK
    <3>2. CASE r # s
      <4>1. TargetInv(r) /\ at'[r] = at[r] /\ Carried(r)' = Carried(r)
        BY <2>2, <3>2 DEF IInv, TypeOK, Carried
      <4>2. CASE path[r] # n
        BY <2>2, <3>3, <4>1, <4>2 DEF IInv, TypeOK, TargetInv, Known
      \* Another save of the same target: both carry the mode it has.
      <4>3. CASE path[r] = n /\ at[r] \in Known /\ Sighted(r)'
        <5>1. file[n].mode = Carried(r) \/ (mode[r] = NoMode /\ file[n] = NoFile)
          BY <3>3, <4>1, <4>3 DEF TargetInv
        <5>2. Carried(r) = Carried(s)
          BY <2>1, <3>3, <4>3, <5>1, FileTypes DEF Carried
        <5>3. file'[n].mode = Carried(r)
          BY <2>1, <2>2, <5>2 DEF IInv, TypeOK
        <5> QED BY <2>1, <2>2, <3>3, <4>1, <4>3, <5>3 DEF TargetInv
      <4>4. CASE at[r] \notin Known
        BY <2>2, <3>3, <4>1, <4>4 DEF TargetInv, Known, IInv, TypeOK
      <4>5. CASE ~Sighted(r)'
        BY <2>2, <4>1, <4>5 DEF TargetInv
      <4> QED BY <4>2, <4>3, <4>4, <4>5
    <3> QED BY <3>1, <3>2
  <2>6. FileInv'
    <3>1. ASSUME NEW m \in Names PROVE file'[m] \in held'[m]
      BY <2>1, <2>2 DEF IInv, TypeOK, FileInv
    <3>2. ASSUME NEW m \in Names, NEW f \in held'[m] PROVE Sound(f)'
      <4>1. CASE f = tmp[s]
        BY <2>1, <2>2, <4>1 DEF IInv, TypeOK, Sound
      <4>2. CASE f \in held[m]
        <5>1. Sound(f)
          BY <4>2 DEF IInv, FileInv
        <5> QED BY <2>2, <5>1 DEF IInv, TypeOK, Sound
      <4> QED BY <2>1, <2>2, <4>1, <4>2 DEF IInv, TypeOK
    <3> QED BY <3>1, <3>2 DEF FileInv
  <2> QED BY <2>3, <2>4, <2>5, <2>6 DEF IInv
<1> QED BY <1>1, <1>2 DEF Rename

\* Every file a name may hold is on the disk, so a crash leaves it whole.
LEMMA CrashKeeps == ASSUME Crash, IInv PROVE IInv'
<1>1. ASSUME NEW n \in Names PROVE file'[n] \in held[n]
  <2>1. PICK f \in held[n] : file'[n] \in Remains(f)
    BY DEF Crash
  <2>2. f.synced
    BY <2>1 DEF IInv, FileInv, Sound
  <2> QED BY <2>1, <2>2 DEF Remains
<1>2. file' \in [Names -> Files] /\ held' = [n \in Names |-> {file'[n]}]
  BY <1>1 DEF Crash, IInv, TypeOK
<1>3. TypeOK'
  BY <1>2 DEF Crash, IInv, TypeOK, saveVars, Places, Working, Over
<1>4. ASSUME NEW r \in Saves PROVE TmpInv(r)' /\ TargetInv(r)'
  <2>1. /\ TmpInv(r) /\ TargetInv(r)
        /\ UNCHANGED <<links, tmp, path, mode>>
        /\ at'[r] = IF at[r] \in Working THEN "lost" ELSE at[r]
        /\ litter' = litter \union {s \in Saves : tmp[s] # NoFile}
    BY DEF Crash, IInv, saveVars
  <2>2. at[r] \in Places
    BY DEF IInv, TypeOK
  <2>3. TmpInv(r)'
    BY <2>1, <2>2 DEF TmpInv, Early, Working, Places, Over
  <2>4. TargetInv(r)'
    BY <2>1, <2>2 DEF TargetInv, Known, Working, Places, Over
  <2> QED BY <2>3, <2>4
<1>5. FileInv'
  <2>1. ASSUME NEW n \in Names, NEW f \in held'[n] PROVE Sound(f)'
    <3>1. f = file'[n] /\ Sound(f)
      BY <1>1, <1>2 DEF IInv, FileInv
    <3>2. ASSUME NEW r \in Saves, f.by = r PROVE at'[r] = "saved"
      BY <3>1, <3>2 DEF Sound, Crash, Working
    <3> QED BY <3>1, <3>2 DEF Sound
  <2> QED BY <1>2, <2>1 DEF FileInv
<1> QED BY <1>3, <1>4, <1>5 DEF IInv

LEMMA NextKeeps == IInv /\ [Next]_vars => IInv'
<1> SUFFICES ASSUME IInv, [Next]_vars PROVE IInv'
  OBVIOUS
<1>1. ASSUME NEW s \in Saves, Step(s) PROVE IInv'
  BY <1>1, ImportKeeps, ReadLinkKeeps, StatKeeps, OpenKeeps, WriteKeeps, ChmodKeeps, SyncKeeps,
     CloseKeeps, RenameKeeps, AbortKeeps, RemoveKeeps DEF Step
<1>2. ASSUME NEW s \in Saves, NEW n \in Names, Save(s, n) PROVE IInv'
  BY <1>2, SaveKeeps
<1>3. CASE UNCHANGED vars
  BY <1>3 DEF vars, fileVars, saveVars, IInv, TypeOK, TmpInv, TargetInv, Sighted, Carried, FileInv, Sound
<1> QED BY <1>1, <1>2, <1>3, CrashKeeps DEF Next

LEMMA Invariance == Spec => []IInv
<1>1. IInv /\ [Next]_vars => IInv'
  BY NextKeeps
<1> QED BY <1>1, InitIInv, PTL DEF Spec

-----------------------------------------------------------------------------
(* SaveFile: the properties *)

\* A name holds a whole dump of a save that resolved, or what was there before,
\* however many saves overlap, fail and are cut short by crashes.
THEOREM AlwaysWhole == Spec => []TargetWhole
<1>1. IInv => TargetWhole
  BY DEF IInv, FileInv, Sound, TargetWhole
<1> QED BY <1>1, Invariance, PTL

\* Only a crash or a failing removal leaves a temporary file.
THEOREM NothingLeft == Spec => []NoLitter
<1>1. IInv => NoLitter
  BY DEF IInv, TmpInv, NoLitter
<1> QED BY <1>1, Invariance, PTL

\* A save replaces no link and changes no mode, unless it missed them.
THEOREM TargetKept == Spec => LinksAndModesKept
<1>1. ASSUME IInv, [Next]_vars
      PROVE  [\A n \in Names \ {path[s] : s \in {r \in missed : at'[r] = "saved"}} :
                /\ links'[n] = links[n]
                /\ file[n] # NoFile /\ file'[n] # NoFile /\ crashes' = crashes
                     => file'[n].mode = file[n].mode]_vars
  <2>1. ASSUME NEW s \in Saves, Step(s)
        PROVE  \A n \in Names \ {path[r] : r \in {q \in missed : at'[q] = "saved"}} :
                 links'[n] = links[n] /\ (file[n] # NoFile => file'[n].mode = file[n].mode)
    <3>1. CASE UNCHANGED fileVars
      BY <3>1 DEF fileVars
    <3>2. CASE at[s] = "rename" /\ Replace(s) /\ at' = [at EXCEPT ![s] = "saved"]
      <4>1. path[s] \in Names /\ tmp[s].mode = Carried(s)
        BY <1>1, <3>2 DEF IInv, TmpInv, TargetInv
      <4>2. Sighted(s) => /\ links[path[s]] = NoName
                          /\ file[path[s]].mode = Carried(s) \/ file[path[s]] = NoFile
        BY <1>1, <3>2 DEF IInv, TargetInv, Known
      <4>3. ASSUME NEW n \in Names, n \notin {path[r] : r \in {q \in missed : at'[q] = "saved"}}, n = path[s]
            PROVE  Sighted(s)
        BY <1>1, <3>2, <4>3 DEF Sighted, IInv, TypeOK
      <4>4. ASSUME NEW n \in Names, n \notin {path[r] : r \in {q \in missed : at'[q] = "saved"}}
            PROVE  links'[n] = links[n] /\ (file[n] # NoFile => file'[n].mode = file[n].mode)
        <5>1. CASE n = path[s]
          <6>1. Sighted(s)
            BY <4>3, <4>4, <5>1
          <6> QED BY <1>1, <3>2, <4>1, <4>2, <5>1, <6>1 DEF Replace, IInv, TypeOK
        <5>2. CASE n # path[s]
          BY <1>1, <3>2, <4>1, <5>2 DEF Replace, IInv, TypeOK
        <5> QED BY <5>1, <5>2
      <4> QED BY <4>4
    <3>3. CASE Rename(s)
      BY <3>1, <3>2, <3>3 DEF Rename, Goto
    <3>4. Import(s) \/ ReadLink(s) \/ Stat(s) \/ Open(s) => UNCHANGED fileVars
      BY DEF Import, ReadLink, Stat, Open
    <3>5. Write(s) \/ Chmod(s) \/ Sync(s) \/ Close(s) => UNCHANGED fileVars
      BY DEF Write, Chmod, Sync, Close
    <3>6. Abort(s) \/ Remove(s) => UNCHANGED fileVars
      BY DEF Abort, Remove
    <3> QED BY <2>1, <3>1, <3>3, <3>4, <3>5, <3>6 DEF Step
  <2>2. ASSUME NEW s \in Saves, NEW n \in Names, Save(s, n) PROVE UNCHANGED <<links, file>>
    BY <2>2 DEF Save, fileVars
  <2>3. CASE Crash
    <3>1. links' = links /\ crashes' # crashes
      BY <1>1, <2>3 DEF Crash, IInv, TypeOK
    <3> QED BY <3>1
  <2> QED BY <1>1, <2>1, <2>2, <2>3 DEF Next
<1> QED BY <1>1, Invariance, PTL DEF Spec, LinksAndModesKept

-----------------------------------------------------------------------------
(* Loads of a session.  Until a pass ends the undo log takes the session   *)
(* back to what it was, whatever the fields are and wherever it stops.     *)

LoadPhases == {"none", "validate", "read", "loaded", "fresh", "failed"}

LoadInv ==
  /\ phase \in LoadPhases
  /\ phase = "none" => undo = <<>>
  /\ phase \in S!Passes =>
       /\ target = [graph |-> target.graph, state |-> [f \in DOMAIN target.state |-> target.state[f]]]
       /\ \E E : undo \in Seq(E)
       /\ step \in [key : Nat, nth : Nat \ {0}] /\ (step = S!Start => undo = <<>>)
       /\ S!Undone = S!Built(target.graph)
  /\ phase \in {"fresh", "failed"} => target.state = S!Built(target.graph)

\* With nothing in the log nothing is undone.
LEMMA UndoneNothing ==
  ASSUME undo = <<>>
  PROVE  S!Undone = [f \in DOMAIN target.state |-> target.state[f]]
BY DEF S!Undone, S!Logged

LEMMA MinIs ==
  ASSUME NEW K, K \subseteq Nat, NEW k \in K, \A j \in K : k <= j
  PROVE  S!Min(K) = k
<1>1. \A j \in K : (\A i \in K : j <= i) => j = k
  <2> TAKE j \in K
  <2> HAVE \A i \in K : j <= i
  <2>1. j <= k /\ k <= j /\ j \in Nat /\ k \in Nat
    OBVIOUS
  <2> QED BY <2>1
<1> QED BY <1>1 DEF S!Min

LEMMA LeastPlace ==
  ASSUME NEW K, K \subseteq Nat, K # {}
  PROVE  S!Min(K) \in K /\ \A j \in K : S!Min(K) <= j
<1> DEFINE R == OpToRel(<, Nat)
<1>1. IsWellFoundedOn(R, Nat)
  BY NatLessThanWellFounded
<1>2. \A x, y \in Nat : <<x, y>> \in R <=> x < y
  BY DEF OpToRel
<1> HIDE DEF R
<1>3. PICK k \in K : \A j \in K : <<j, k>> \notin R
  BY <1>1, WFMin
<1>4. \A j \in K : j \in Nat /\ k \in Nat /\ ~(j < k)
  BY <1>2, <1>3
<1>5. \A j \in K : k <= j
  BY <1>4
<1> QED BY <1>5, MinIs

\* A field that is taken is put back by the log, to what it was before the
\* first time.
LEMMA TakeUndone ==
  ASSUME LoadInv, S!Take
  PROVE  LoadInv'
<1>1. /\ phase \in S!Passes /\ phase' = phase
      /\ step' = S!After(target.graph, step)
  BY DEF S!Take
<1> DEFINE new == S!Assigns(S!Field)
           n == Len(undo)
           entry == [f \in DOMAIN new |-> target.state[f]]
<1>2. /\ undo' = Append(undo, entry)
      /\ target' = [target EXCEPT !.state = [f \in DOMAIN @ |-> IF f \in DOMAIN new THEN new[f] ELSE @[f]]]
  BY DEF S!Take
<1>3. PICK E : undo \in Seq(E)
  BY <1>1 DEF LoadInv
<1> HIDE DEF new
<1>4. /\ target.state = [f \in DOMAIN target.state |-> target.state[f]]
      /\ target = [graph |-> target.graph, state |-> target.state]
  BY <1>1 DEF LoadInv
<1>5. /\ target'.graph = target.graph
      /\ target'.state = [f \in DOMAIN target.state |-> IF f \in DOMAIN new THEN new[f] ELSE target.state[f]]
      /\ target' = [graph |-> target'.graph, state |-> target'.state]
  BY <1>2, <1>4
<1>6. DOMAIN target'.state = DOMAIN target.state
  BY <1>5
<1>7. /\ undo' \in Seq(E \union {entry}) /\ n \in Nat
      /\ DOMAIN undo = 1 .. n /\ DOMAIN undo' = 1 .. n + 1
      /\ undo'[n + 1] = entry /\ \A k \in 1 .. n : undo'[k] = undo[k]
  <2>1. undo \in Seq(E \union {entry})
    BY <1>3
  <2> HIDE DEF entry
  <2> QED BY <1>2, <2>1
<1> HIDE DEF entry, n
<1>8. ASSUME NEW f \in DOMAIN target.state
      PROVE  S!Undone'[f] = S!Undone[f]
  <2>1. S!Undone[f] = IF S!Logged(f) = {} THEN target.state[f] ELSE undo[S!Min(S!Logged(f))][f]
    BY DEF S!Undone
  <2>2. S!Undone'[f] = IF S!Logged(f)' = {} THEN target'.state[f] ELSE undo'[S!Min(S!Logged(f)')][f]
    BY <1>6 DEF S!Undone
  <2>3. S!Logged(f)' = S!Logged(f) \union (IF f \in DOMAIN new THEN {n + 1} ELSE {})
    BY <1>7 DEF S!Logged, entry
  <2>4. S!Logged(f) \subseteq 1 .. n
    BY <1>7 DEF S!Logged
  <2>5. CASE S!Logged(f) # {}
    <3>1. /\ S!Min(S!Logged(f)) \in S!Logged(f)
          /\ \A j \in S!Logged(f) : S!Min(S!Logged(f)) <= j
      BY <1>7, <2>4, <2>5, LeastPlace
    <3>2. S!Min(S!Logged(f)') = S!Min(S!Logged(f))
      <4>1. S!Logged(f)' \subseteq Nat /\ S!Min(S!Logged(f)) \in S!Logged(f)'
        BY <1>7, <2>3, <2>4, <3>1
      <4>2. \A j \in S!Logged(f)' : S!Min(S!Logged(f)) <= j
        BY <1>7, <2>3, <2>4, <3>1
      <4> QED BY <4>1, <4>2, MinIs
    <3> QED BY <1>7, <2>1, <2>2, <2>3, <2>4, <2>5, <3>1, <3>2
  <2>6. CASE S!Logged(f) = {} /\ f \in DOMAIN new
    <3>1. S!Logged(f)' = {n + 1}
      BY <2>3, <2>6
    <3>2. S!Min({n + 1}) = n + 1
      BY <1>7, MinIs
    <3> QED BY <1>7, <2>1, <2>2, <2>6, <3>1, <3>2 DEF entry
  <2>7. CASE S!Logged(f) = {} /\ f \notin DOMAIN new
    BY <1>5, <2>1, <2>2, <2>3, <2>7
  <2> QED BY <2>5, <2>6, <2>7
<1>9. S!Undone' = S!Undone
  BY <1>6, <1>8 DEF S!Undone
<1>10. S!Built(target.graph)' = S!Built(target.graph)
  BY <1>5 DEF S!Built
<1>11. step' \in [key : Nat, nth : Nat \ {0}] /\ step' # S!Start
  BY <1>1 DEF LoadInv, S!After, S!Start
<1>12. S!Undone' = S!Built(target.graph)'
  BY <1>1, <1>9, <1>10 DEF LoadInv
<1>13. target' = [graph |-> target'.graph, state |-> [f \in DOMAIN target'.state |-> target'.state[f]]]
  BY <1>5
<1>14. phase' \in LoadPhases /\ phase' \notin {"none", "fresh", "failed"}
  BY <1>1 DEF S!Passes, LoadPhases
<1> QED BY <1>7, <1>11, <1>12, <1>13, <1>14 DEF LoadInv

LEMMA LoadStep ==
  ASSUME LoadInv, S!SessionFilesNext
  PROVE  LoadInv'
<1>1. CASE UNCHANGED <<phase, target, step, undo>>
  <2>1. S!Undone' = S!Undone
    BY <1>1 DEF S!Undone, S!Logged
  <2> QED BY <1>1, <2>1 DEF LoadInv
<1>2. CASE S!Loads
  <2>1. PICK g : /\ target' = [graph |-> g, state |-> S!Built(g)]
                 /\ phase = "none" /\ phase' = "validate" /\ step' = S!Start /\ undo' = undo
    BY <1>2 DEF S!Loads
  <2>2. undo' = <<>>
    BY <2>1 DEF LoadInv
  <2>3. S!Undone' = [f \in DOMAIN target'.state |-> target'.state[f]]
    BY <2>2 DEF S!Undone, S!Logged
  <2>4. S!Built(g) = [f \in DOMAIN S!Built(g) |-> S!Built(g)[f]]
    BY DEF S!Built
  <2> QED BY <2>1, <2>2, <2>3, <2>4 DEF LoadInv, LoadPhases, S!Passes, S!Start
<1>3. CASE S!Take
  BY <1>3, TakeUndone
<1>4. CASE S!EndPass
  <2>1. CASE phase = "validate"
    <3>1. /\ phase' = "read" /\ step' = S!Start /\ undo' = <<>>
          /\ target'.graph = target.graph /\ target'.state = S!Built(target.graph)
          /\ target' = [graph |-> target'.graph, state |-> target'.state]
      BY <1>4, <2>1 DEF S!EndPass, LoadInv, S!Passes
    <3>2. S!Undone' = [f \in DOMAIN target'.state |-> target'.state[f]]
      BY <3>1 DEF S!Undone, S!Logged
    <3>3. S!Built(target.graph) = [f \in DOMAIN S!Built(target.graph) |-> S!Built(target.graph)[f]]
      BY DEF S!Built
    <3>4. S!Built(target.graph)' = S!Built(target.graph)
      BY <3>1 DEF S!Built
    <3> QED BY <3>1, <3>2, <3>3, <3>4 DEF LoadInv, LoadPhases, S!Passes, S!Start
  <2>2. CASE phase # "validate"
    BY <1>4, <2>2 DEF S!EndPass, LoadInv, LoadPhases, S!Passes
  <2> QED BY <2>1, <2>2
<1>5. CASE S!Fail
  <2>1. /\ phase' \in {"fresh", "failed"}
        /\ target'.graph = target.graph /\ target'.state = S!Built(target.graph)
    BY <1>5 DEF S!Fail, LoadInv
  <2>2. S!Built(target.graph)' = S!Built(target.graph)
    BY <2>1 DEF S!Built
  <2> QED BY <2>1, <2>2 DEF LoadInv, LoadPhases, S!Passes
<1> QED BY <1>1, <1>2, <1>3, <1>4, <1>5
        DEF S!SessionFilesNext, S!Live, S!Dump, S!Edit, S!Event

LEMMA LoadInductive == MCSpec => []LoadInv
<1>1. MCInit => LoadInv
  BY DEF MCInit, S!SessionFilesInit, LoadInv, LoadPhases, S!Passes
<1>2. ASSUME LoadInv, [MCNext]_mcVars PROVE LoadInv'
  <2>1. CASE S!SessionFilesNext
    BY <1>2, <2>1, LoadStep
  <2>2. CASE UNCHANGED sessionOwn
    <3>1. UNCHANGED <<phase, target, step, undo>>
      BY <2>2 DEF sessionOwn
    <3>2. S!Undone' = S!Undone
      BY <3>1 DEF S!Undone, S!Logged
    <3> QED BY <1>2, <3>1, <3>2 DEF LoadInv
  <2> QED BY <1>2, <2>1, <2>2 DEF MCNext, mcVars
<1>3. LoadInv /\ [MCNext]_mcVars => LoadInv'
  BY <1>2
<1> QED BY <1>1, <1>3, PTL DEF MCSpec

\* A load that fails, in either pass and at any field, leaves the session as it
\* was, though some fields were assigned, and some twice; so does the pass that
\* only validates.
THEOREM FailedLoadsUndone == MCSpec => []FailedLoadKeeps
<1>1. ASSUME LoadInv PROVE FailedLoadKeeps
  <2>1. ASSUME phase = "read", step = S!Start PROVE target.state = S!Built(target.graph)
    <3>1. /\ undo = <<>> /\ S!Undone = S!Built(target.graph)
          /\ target.state = [f \in DOMAIN target.state |-> target.state[f]]
      BY <1>1, <2>1 DEF LoadInv, S!Passes
    <3> QED BY <3>1, UndoneNothing
  <2> QED BY <1>1, <2>1 DEF LoadInv, FailedLoadKeeps, S!FailedLoadKeeps
<1>2. LoadInv => FailedLoadKeeps
  BY <1>1
<1> QED BY <1>2, LoadInductive, PTL

-----------------------------------------------------------------------------
(* A loaded session continues.  Each field of the Read pass has been       *)
(* compared and assigned when the pass comes past it, and fields that are  *)
(* the same for all nodes make the graphs and their states the same.       *)

\* Field j of entry k comes before the one at s.
Passed(s, k, j) == k < s.key \/ (k = s.key /\ j < s.nth)

\* What the pass has found and left in a field.
TakenField(f) == S!Fits(target.graph, f) /\ (f[2] \notin S!Checks => target.state[f] = text.state[f])

LiveRight ==
  graph # S!NoGraph =>
    /\ graph \in Graphs /\ S!Valid(graph)
    /\ state = [f \in S!Held(graph) |-> state[f]]
    /\ state[<<0, "poisoned">>] \in BOOLEAN /\ state[<<0, "width">>] = state[<<0, "input_widths">>]

SavedRight ==
  /\ saved # S!NoText /\ graph # S!NoGraph
  /\ saved.description = S!describe(graph) /\ saved.state = state
  /\ ~state[<<0, "poisoned">>]
  /\ text = [description |-> text.description, state |-> state, broken |-> text.broken, edited |-> text.edited]
  /\ ~text.edited => text.description = saved.description /\ text.broken = <<>>

PassRight ==
  /\ text # S!NoText
  /\ step \in [key : Nat, nth : Nat \ {0}]
  /\ step.key \in S!Keys(target.graph) => step.nth \in DOMAIN S!Entry(target.graph, step.key)
  /\ target = [graph |-> target.graph, state |-> [f \in S!Held(target.graph) |-> target.state[f]]]
  /\ ~text.edited => S!describe(target.graph) = saved.description /\ phase \notin {"fresh", "failed"}
  /\ phase = "read" =>
       \A k \in S!Keys(target.graph) : \A j \in DOMAIN S!Entry(target.graph, k) :
         Passed(step, k, j) => TakenField(S!Entry(target.graph, k)[j])
  /\ phase = "loaded" => target.state = saved.state /\ S!describe(target.graph) = saved.description

ContinueInv ==
  /\ LiveRight
  /\ text # S!NoText => SavedRight
  /\ phase \in LoadPhases
  /\ phase # "none" => PassRight

Length(g, k) == Len(S!Entry(g, k))

LEMMA EntryShape ==
  ASSUME NEW g, NEW k
  PROVE  /\ DOMAIN S!Entry(g, k) = 1 .. Length(g, k) /\ Length(g, k) \in Nat \ {0, 1}
         /\ \A j \in DOMAIN S!Entry(g, k) : S!Entry(g, k)[j][1] = k /\ S!Entry(g, k)[j] # <<>>
         /\ k = 0 => S!Entry(g, k)[2] = <<0, "graph">>
         /\ k # 0 => S!Entry(g, k)[2] = <<k, "node">>
<1>1. CASE k = 0
  <2> DEFINE e == <<<<0, "version">>, <<0, "graph">>, <<0, "flushed">>, <<0, "input_widths">>,
                    <<0, "poisoned">>, <<0, "width">>, <<0, "rows">>>>
  <2>1. S!Entry(g, k) = e
    BY <1>1 DEF S!Entry, S!EngineFields
  <2>2. DOMAIN e = 1 .. 7 /\ Len(e) = 7 /\ e[2] = <<0, "graph">>
    OBVIOUS
  <2>3. \A j \in 1 .. 7 : e[j][1] = 0 /\ e[j] # <<>>
    OBVIOUS
  <2> HIDE DEF e
  <2> QED BY <1>1, <2>1, <2>2, <2>3 DEF Length
<1>2. CASE k # 0
  <2> DEFINE kind == S!describe(g).nodes[k].kind
  <2>1. S!Entry(g, k) = S!NodeFields(k, kind)
    BY <1>2 DEF S!Entry
  <2> HIDE DEF kind
  <2>2. CASE kind = "input"
    <3> DEFINE e == <<<<k, "version">>, <<k, "node">>>>
    <3>1. S!Entry(g, k) = e
      BY <2>1, <2>2 DEF S!NodeFields
    <3> QED BY <1>2, <3>1 DEF Length
  <2>3. CASE kind = "functor"
    <3> DEFINE e == <<<<k, "version">>, <<k, "node">>, <<k, "op">>>>
    <3>1. S!Entry(g, k) = e
      BY <2>1, <2>3 DEF S!NodeFields
    <3> QED BY <1>2, <3>1 DEF Length
  <2>4. CASE kind \notin {"input", "functor"}
    <3> DEFINE e == <<<<k, "version">>, <<k, "node">>, <<k, "merge">>, <<k, "combine_latest">>>>
    <3>1. S!Entry(g, k) = e
      BY <2>1, <2>4 DEF S!NodeFields
    <3>2. DOMAIN e = 1 .. 4 /\ Len(e) = 4 /\ e[2] = <<k, "node">>
      OBVIOUS
    <3>3. \A j \in 1 .. 4 : e[j][1] = k /\ e[j] # <<>>
      OBVIOUS
    <3> HIDE DEF e
    <3> QED BY <1>2, <3>1, <3>2, <3>3 DEF Length
  <2> QED BY <2>2, <2>3, <2>4
<1> QED BY <1>1, <1>2

\* After a field comes the next, and no other is passed.
LEMMA AfterRight ==
  ASSUME NEW g, NEW s \in [key : Nat, nth : Nat \ {0}], s.key \in S!Keys(g), s.nth \in DOMAIN S!Entry(g, s.key)
  PROVE  /\ S!After(g, s) \in [key : Nat, nth : Nat \ {0}]
         /\ S!After(g, s).nth \in DOMAIN S!Entry(g, S!After(g, s).key)
         /\ \A k \in S!Keys(g) : \A j \in DOMAIN S!Entry(g, k) :
              Passed(S!After(g, s), k, j) => Passed(s, k, j) \/ (k = s.key /\ j = s.nth)
<1> DEFINE n == Length(g, s.key)
<1>1. n \in Nat \ {0, 1} /\ DOMAIN S!Entry(g, s.key) = 1 .. n /\ Len(S!Entry(g, s.key)) = n
  BY EntryShape DEF Length
<1>2. \A k : DOMAIN S!Entry(g, k) = 1 .. Length(g, k) /\ Length(g, k) \in Nat \ {0, 1}
  BY EntryShape
<1> HIDE DEF n
<1>3. \A k \in S!Keys(g) : k \in Nat
  BY DEF S!Keys, S!NodeIds
<1>4. CASE s.nth < n
  <2>1. S!After(g, s) = [key |-> s.key, nth |-> s.nth + 1]
    BY <1>1, <1>4 DEF S!After
  <2> QED BY <1>1, <1>2, <1>3, <1>4, <2>1 DEF Passed
<1>5. CASE s.nth = n
  <2>1. S!After(g, s) = [key |-> s.key + 1, nth |-> 1]
    BY <1>1, <1>5 DEF S!After
  <2>2. ASSUME NEW k \in S!Keys(g), NEW j \in DOMAIN S!Entry(g, k), Passed(S!After(g, s), k, j)
        PROVE  Passed(s, k, j) \/ (k = s.key /\ j = s.nth)
    <3>1. k \in Nat /\ j \in Nat \ {0} /\ (k < s.key + 1 \/ (k = s.key + 1 /\ j < 1))
      BY <1>2, <1>3, <2>1, <2>2 DEF Passed
    <3>2. CASE k = s.key
      <4>1. j \in 1 .. n
        BY <1>1, <3>2
      <4> QED BY <1>5, <3>2, <4>1 DEF Passed
    <3>3. CASE k # s.key
      BY <3>1, <3>3 DEF Passed
    <3> QED BY <3>2, <3>3
  <2> QED BY <1>2, <2>1, <2>2
<1> QED BY <1>1, <1>4, <1>5

\* The fields named after the engine's own are the engine's.
LEMMA EntryNamed ==
  ASSUME NEW g, NEW k, NEW f \in S!ToSet(S!Entry(g, k)), f[2] \in {"input_widths", "poisoned"}
  PROVE  f = <<0, f[2]>>
<1>1. PICK j \in DOMAIN S!Entry(g, k) : f = S!Entry(g, k)[j]
  BY DEF S!ToSet
<1>2. CASE k = 0
  BY <1>1, <1>2 DEF S!Entry, S!EngineFields
<1>3. CASE k # 0
  <2> DEFINE kind == S!describe(g).nodes[k].kind
  <2>1. S!Entry(g, k) = S!NodeFields(k, kind)
    BY <1>3 DEF S!Entry
  <2> HIDE DEF kind
  <2>2. \/ S!NodeFields(k, kind) = <<<<k, "version">>, <<k, "node">>>>
        \/ S!NodeFields(k, kind) = <<<<k, "version">>, <<k, "node">>, <<k, "op">>>>
        \/ S!NodeFields(k, kind) = <<<<k, "version">>, <<k, "node">>, <<k, "merge">>, <<k, "combine_latest">>>>
    BY DEF S!NodeFields
  <2> QED BY <1>1, <2>1, <2>2
<1> QED BY <1>2, <1>3

\* The graphs that are described alike have the same fields.
LEMMA SameFields ==
  ASSUME NEW g, NEW h, S!describe(g) = S!describe(h), S!NodeIds(g) = S!NodeIds(h)
  PROVE  S!Held(g) = S!Held(h)
<1>1. S!Keys(g) = S!Keys(h) /\ \A k : S!Entry(g, k) = S!Entry(h, k)
  BY DEF S!Keys, S!Entry
<1> QED BY <1>1 DEF S!Held, S!Fields

LEMMA EngineHeld ==
  ASSUME NEW g
  PROVE  {<<0, "poisoned">>, <<0, "width">>, <<0, "input_widths">>} \subseteq S!Held(g)
<1>1. /\ S!EngineFields[5] = <<0, "poisoned">> /\ S!EngineFields[6] = <<0, "width">>
      /\ S!EngineFields[4] = <<0, "input_widths">> /\ 4 \in DOMAIN S!EngineFields
      /\ 5 \in DOMAIN S!EngineFields /\ 6 \in DOMAIN S!EngineFields
  BY DEF S!EngineFields
<1>2. {<<0, "poisoned">>, <<0, "width">>, <<0, "input_widths">>} \subseteq S!ToSet(S!EngineFields)
  BY <1>1 DEF S!ToSet
<1>3. S!ToSet(S!EngineFields) \subseteq S!Fields(g)
  BY DEF S!Fields, S!Keys, S!Entry
<1> QED BY <1>2, <1>3 DEF S!Held, S!Checks

\* The nodes of a description.
LEMMA Described ==
  ASSUME NEW g
  PROVE  /\ DOMAIN S!describe(g).nodes = S!NodeIds(g)
         /\ S!describe(g) = [inputs |-> S!describe(g).inputs, outputs |-> S!describe(g).outputs,
                             nodes |-> [k \in S!NodeIds(g) |-> S!describe(g).nodes[k]]]
         /\ {n.id : n \in S!ToSet(S!describe(g).nodes)} = S!NodeIds(g)
<1>1. /\ DOMAIN S!describe(g).nodes = S!NodeIds(g)
      /\ \A k \in S!NodeIds(g) : S!describe(g).nodes[k].id = k
  BY DEF S!describe
<1>2. S!describe(g) = [inputs |-> S!describe(g).inputs, outputs |-> S!describe(g).outputs,
                       nodes |-> [k \in S!NodeIds(g) |-> S!describe(g).nodes[k]]]
  BY DEF S!describe
<1> QED BY <1>1, <1>2 DEF S!ToSet

\* A graph of a session, described and built again, is described alike.
LEMMA SessionGraph ==
  ASSUME ContinueInv, text # S!NoText
  PROVE  /\ S!NodeIds(graph) = 1 .. Len(S!walkIds(graph)) /\ Len(S!walkIds(graph)) \in Nat
         /\ S!describe(S!build(S!describe(graph))) = S!describe(graph)
<1>1. graph \in Graphs /\ S!Valid(graph)
  BY DEF ContinueInv, SavedRight, LiveRight
<1>2. S!walkIds(graph) \in Seq(DOMAIN graph.node) /\ S!describe(S!build(S!describe(graph))) = S!describe(graph)
  BY <1>1, SavingAssumption DEF S!GraphAssumption
<1> QED BY <1>2 DEF S!NodeIds

\* Each value that a field assigns is the one of the file.
LEMMA AssignsSaved ==
  ASSUME ContinueInv, text # S!NoText, NEW k, NEW f, f \in S!ToSet(S!Entry(target.graph, k)), k \in Nat
  PROVE  /\ \A x \in DOMAIN S!Assigns(f) : S!Assigns(f)[x] = text.state[x]
         /\ f[2] \notin S!Checks => f \in DOMAIN S!Assigns(f)
<1>1. LiveRight /\ SavedRight /\ graph # S!NoGraph
  BY DEF ContinueInv, SavedRight
<1>2. /\ text.state[<<0, "width">>] = text.state[<<0, "input_widths">>]
      /\ text.state[<<0, "poisoned">>] = FALSE
  BY <1>1 DEF LiveRight, SavedRight
<1>3. CASE f[2] \in S!Checks
  <2>1. S!Assigns(f) = [x \in {} |-> IF f[2] = "poisoned" THEN FALSE ELSE text.state[f]]
    BY <1>3 DEF S!Assigns, S!Checks
  <2> QED BY <1>3, <2>1
<1>4. CASE f[2] = "input_widths"
  <2>1. f = <<0, "input_widths">> 
    BY <1>4, EntryNamed
  <2> QED BY <1>2, <1>4, <2>1 DEF S!Assigns, S!Checks
<1>5. CASE f[2] = "poisoned"
  <2>1. f = <<0, "poisoned">> 
    BY <1>5, EntryNamed
  <2> QED BY <1>2, <1>5, <2>1 DEF S!Assigns, S!Checks
<1>6. CASE f[2] \notin S!Checks \union {"input_widths", "poisoned"}
  <2>1. S!Assigns(f) = [x \in {f} |-> text.state[f]]
    BY <1>6 DEF S!Assigns
  <2> QED BY <2>1
<1> QED BY <1>3, <1>4, <1>5, <1>6

LEMMA ContinueTake ==
  ASSUME ContinueInv, S!Take
  PROVE  ContinueInv'
<1>a. PICK g, f : g = target.graph /\ f = S!Field
  OBVIOUS
<1>1. /\ phase \in S!Passes /\ phase' = phase /\ step.key \in S!Keys(g)
      /\ S!Fits(g, f) /\ step' = S!After(g, step)
      /\ target' = [target EXCEPT !.state = [x \in DOMAIN @ |->
                      IF x \in DOMAIN S!Assigns(f) THEN S!Assigns(f)[x] ELSE @[x]]]
      /\ UNCHANGED <<graph, state, saved, text>>
  BY <1>a DEF S!Take, S!AtEnd
<1>2. PassRight /\ text # S!NoText /\ LiveRight /\ SavedRight /\ phase \in LoadPhases
  BY <1>1 DEF ContinueInv, PassRight, S!Passes
<1>3. /\ target = [graph |-> g, state |-> target.state] /\ DOMAIN target.state = S!Held(g)
      /\ step \in [key : Nat, nth : Nat \ {0}] /\ step.nth \in DOMAIN S!Entry(g, step.key)
  BY <1>a, <1>1, <1>2 DEF PassRight
<1>4. /\ target'.graph = g
      /\ target'.state = [x \in S!Held(g) |->
                            IF x \in DOMAIN S!Assigns(f) THEN S!Assigns(f)[x] ELSE target.state[x]]
      /\ target' = [graph |-> target'.graph, state |-> target'.state]
  BY <1>1, <1>3
<1>5. /\ S!Keys(target.graph)' = S!Keys(g) /\ S!Held(target.graph)' = S!Held(g)
      /\ \A k : S!Entry(target.graph, k)' = S!Entry(g, k)
      /\ S!describe(target.graph)' = S!describe(g)
  BY <1>4
<1>6. f = S!Entry(g, step.key)[step.nth] /\ f \in S!ToSet(S!Entry(g, step.key)) /\ step.key \in Nat
  BY <1>a, <1>3 DEF S!Field, S!ToSet
<1>7. /\ \A x \in DOMAIN S!Assigns(f) : S!Assigns(f)[x] = text.state[x]
      /\ f[2] \notin S!Checks => f \in DOMAIN S!Assigns(f)
  BY <1>a, <1>2, <1>6, AssignsSaved
<1>8. ASSUME NEW k \in S!Keys(g), NEW j \in DOMAIN S!Entry(g, k), S!Fits(g, S!Entry(g, k)[j]),
             TakenField(S!Entry(g, k)[j]) \/ S!Entry(g, k)[j] = f
      PROVE  TakenField(S!Entry(g, k)[j])'
  <2> DEFINE x == S!Entry(g, k)[j]
  <2>1. x \in S!Fields(g)
    BY DEF S!Fields, S!ToSet
  <2> HIDE DEF x
  <2>2. S!Fits(target.graph, x)' = S!Fits(g, x)
    BY <1>1, <1>4 DEF S!Fits, S!Structure, S!Recorded
  <2>3. ASSUME x[2] \notin S!Checks PROVE target'.state[x] = text.state[x]
    <3>1. x \in S!Held(g)
      BY <2>1, <2>3 DEF S!Held
    <3>2. CASE x \in DOMAIN S!Assigns(f)
      BY <1>4, <1>7, <3>1, <3>2
    <3>3. CASE x \notin DOMAIN S!Assigns(f)
      BY <1>4, <1>7, <1>8, <2>3, <3>1, <3>3 DEF TakenField, x
    <3> QED BY <3>2, <3>3
  <2>4. TakenField(x)'
    BY <1>1, <1>8, <2>2, <2>3 DEF TakenField, x
  <2> QED BY <2>4 DEF x
<1>9. /\ step' \in [key : Nat, nth : Nat \ {0}] /\ step'.nth \in DOMAIN S!Entry(g, step'.key)
      /\ \A k \in S!Keys(g) : \A j \in DOMAIN S!Entry(g, k) :
           Passed(step', k, j) => Passed(step, k, j) \/ (k = step.key /\ j = step.nth)
  BY <1>1, <1>3, AfterRight
<1>10. ASSUME phase = "read", NEW k \in S!Keys(g), NEW j \in DOMAIN S!Entry(g, k), Passed(step', k, j)
       PROVE  TakenField(S!Entry(g, k)[j])'
  <2>1. CASE k = step.key /\ j = step.nth
    BY <1>1, <1>6, <1>8, <2>1
  <2>2. CASE Passed(step, k, j)
    <3>1. TakenField(S!Entry(g, k)[j])
      BY <1>a, <1>2, <1>10, <2>2 DEF PassRight
    <3> QED BY <1>a, <1>8, <3>1 DEF TakenField
  <2> QED BY <1>9, <1>10, <2>1, <2>2
<1>11. phase' = "read" =>
         \A k \in S!Keys(target.graph)' : \A j \in DOMAIN S!Entry(target.graph, k)' :
           Passed(step', k, j) => TakenField(S!Entry(target.graph, k)[j])'
  BY <1>1, <1>5, <1>10
<1>12. /\ target' = [graph |-> target'.graph, state |-> [x \in S!Held(target.graph)' |-> target'.state[x]]]
       /\ step'.nth \in DOMAIN S!Entry(target.graph, step.key)'
  BY <1>4, <1>5, <1>9
<1>13. PassRight'
  BY <1>a, <1>1, <1>2, <1>5, <1>9, <1>11, <1>12 DEF PassRight, Passed, S!Passes
<1>14. LiveRight' /\ SavedRight'
  BY <1>1, <1>2 DEF LiveRight, SavedRight
<1> QED BY <1>1, <1>2, <1>13, <1>14 DEF ContinueInv

\* A pass that came past every field of a graph has compared all of it.
LEMMA AllTaken ==
  ASSUME ContinueInv, phase = "read", S!EndPass
  PROVE  target.state = saved.state /\ S!describe(target.graph) = saved.description
<1>a. PICK g : g = target.graph
  OBVIOUS
<1>1. PassRight /\ text # S!NoText /\ LiveRight /\ SavedRight
  BY DEF ContinueInv, PassRight
<1>2. /\ step.key \notin S!Keys(g) /\ step.key \in Nat
      /\ S!NodeIds(g) = {n.id : n \in S!ToSet(saved.description.nodes)}
  BY <1>a, <1>1 DEF S!EndPass, S!AtEnd, S!Unread, PassRight
<1>3. /\ saved.description = S!describe(graph) /\ saved.state = state /\ text.state = state
      /\ state = [f \in S!Held(graph) |-> state[f]]
  BY <1>1 DEF SavedRight, LiveRight
<1>4. S!NodeIds(g) = S!NodeIds(graph)
  BY <1>2, <1>3, Described
<1>5. \A k \in S!Keys(g) : k < step.key
  <2>1. S!NodeIds(g) = 1 .. Len(S!walkIds(graph)) /\ Len(S!walkIds(graph)) \in Nat
    BY <1>1, <1>4, SessionGraph
  <2> QED BY <1>2, <2>1 DEF S!Keys
<1>6. \A k \in S!Keys(g) : \A j \in DOMAIN S!Entry(g, k) : TakenField(S!Entry(g, k)[j])
  BY <1>a, <1>1, <1>5 DEF PassRight, Passed
<1>7. \A k \in S!Keys(g) : S!Fits(g, S!Entry(g, k)[2])
  BY <1>a, <1>6, EntryShape DEF TakenField
<1>8. S!describe(g).inputs = saved.description.inputs /\ S!describe(g).outputs = saved.description.outputs
  <2>1. S!Fits(g, <<0, "graph">>)
    BY <1>7, EntryShape DEF S!Keys
  <2> QED BY <2>1 DEF S!Fits, S!Structure, S!Recorded
<1>9. ASSUME NEW k \in S!NodeIds(g) PROVE S!describe(g).nodes[k] = saved.description.nodes[k]
  <2>1. k \in S!Keys(g) /\ k # 0
    BY DEF S!Keys, S!NodeIds
  <2>2. S!Fits(g, <<k, "node">>)
    BY <1>7, <2>1, EntryShape
  <2> QED BY <2>2 DEF S!Fits, S!Structure, S!Recorded
<1>10. S!describe(g) = saved.description
  BY <1>3, <1>4, <1>8, <1>9, Described
<1>11. S!Held(g) = S!Held(graph)
  BY <1>3, <1>4, <1>10, SameFields
<1>12. \A x \in S!Held(g) : target.state[x] = text.state[x]
  <2> TAKE x \in S!Held(g)
  <2>1. PICK k \in S!Keys(g) : \E j \in DOMAIN S!Entry(g, k) : x = S!Entry(g, k)[j]
    BY DEF S!Held, S!Fields, S!ToSet
  <2>2. x[2] \notin S!Checks
    BY DEF S!Held
  <2> QED BY <1>6, <2>1, <2>2 DEF TakenField
<1>13. target.state = [x \in S!Held(g) |-> target.state[x]]
  BY <1>a, <1>1 DEF PassRight
<1> QED BY <1>a, <1>3, <1>10, <1>11, <1>12, <1>13

LEMMA ContinueEndPass ==
  ASSUME ContinueInv, S!EndPass
  PROVE  ContinueInv'
<1>a. PICK g : g = target.graph
  OBVIOUS
<1>1. phase \in S!Passes /\ UNCHANGED <<graph, state, saved, text>>
  BY DEF S!EndPass
<1>2. PassRight /\ text # S!NoText /\ LiveRight /\ SavedRight
  BY <1>1 DEF ContinueInv, PassRight, S!Passes
<1>3. LiveRight' /\ SavedRight'
  BY <1>1, <1>2 DEF LiveRight, SavedRight
<1>4. CASE phase = "validate"
  <2>1. /\ phase' = "read" /\ step' = S!Start
        /\ target' = [target EXCEPT !.state = S!Undone]
    BY <1>4 DEF S!EndPass
  <2>2. /\ target'.graph = g
        /\ target' = [graph |-> g, state |-> [x \in S!Held(g) |-> target'.state[x]]]
    <3>1. target = [graph |-> g, state |-> [x \in S!Held(g) |-> target.state[x]]]
      BY <1>a, <1>2 DEF PassRight
    <3>2. S!Undone = [x \in DOMAIN target.state |-> S!Undone[x]] /\ DOMAIN target.state = S!Held(g)
      BY <3>1 DEF S!Undone
    <3> HIDE DEF S!Undone
    <3> QED BY <2>1, <3>1, <3>2
  <2>3. step' \in [key : Nat, nth : Nat \ {0}] /\ step'.nth \in DOMAIN S!Entry(g, step'.key)
    BY <2>1, EntryShape DEF S!Start
  <2>4. ASSUME NEW k \in S!Keys(g), NEW j \in DOMAIN S!Entry(g, k) PROVE ~Passed(step', k, j)
    BY <2>1, EntryShape DEF S!Start, Passed, S!Keys, S!NodeIds
  <2>5. PassRight'
    BY <1>a, <1>1, <1>2, <2>1, <2>2, <2>3, <2>4 DEF PassRight, Passed
  <2> QED BY <1>2, <1>3, <2>1, <2>5 DEF ContinueInv, LoadPhases
<1>5. CASE phase = "read"
  <2>1. phase' = "loaded" /\ UNCHANGED <<step, target>>
    BY <1>5 DEF S!EndPass
  <2>2. target.state = saved.state /\ S!describe(target.graph) = saved.description
    BY <1>5, AllTaken
  <2>3. PassRight'
    BY <1>1, <1>2, <2>1, <2>2 DEF PassRight
  <2> QED BY <1>2, <1>3, <2>1, <2>3 DEF ContinueInv, LoadPhases
<1> QED BY <1>1, <1>4, <1>5 DEF S!Passes

\* The file as it was written has every field.
LEMMA WrittenFits ==
  ASSUME ContinueInv, S!Fail
  PROVE  text.edited
<1>a. PICK g, f : g = target.graph /\ f = S!Field
  OBVIOUS
<1>1. phase \in S!Passes /\ (IF S!AtEnd THEN S!Unread ELSE ~S!Fits(g, f))
  BY <1>a DEF S!Fail
<1>2. PassRight /\ text # S!NoText /\ LiveRight /\ SavedRight
  BY <1>1 DEF ContinueInv, PassRight, S!Passes
<1>3. /\ saved.description = S!describe(graph) /\ text.state = state
      /\ DOMAIN state = S!Held(graph)
  BY <1>2 DEF SavedRight, LiveRight
<1> SUFFICES ASSUME ~text.edited PROVE FALSE
  OBVIOUS
<1>4. S!describe(g) = saved.description /\ text.broken = <<>>
  BY <1>a, <1>2 DEF PassRight, SavedRight
<1>5. S!NodeIds(g) = S!NodeIds(graph)
  BY <1>3, <1>4, Described
<1>6. ~S!Unread
  BY <1>a, <1>3, <1>5, Described DEF S!Unread
<1>7. ~S!AtEnd
  BY <1>1, <1>6
<1>8. /\ step.key \in S!Keys(g) /\ step.nth \in DOMAIN S!Entry(g, step.key)
      /\ f = S!Entry(g, step.key)[step.nth]
  BY <1>a, <1>2, <1>7 DEF S!AtEnd, S!Field, PassRight
<1>9. f # <<>> /\ f[1] = step.key
  BY <1>8, EntryShape
<1>10. f[1] \in {0} \union DOMAIN saved.description.nodes
  BY <1>3, <1>5, <1>8, <1>9, Described DEF S!Keys
<1>11. S!Structure(g, f) = S!Recorded(f)
  BY <1>4 DEF S!Structure, S!Recorded
<1>12. f[2] \notin S!Checks => f \in DOMAIN text.state
  <2>1. f \in S!Fields(g)
    BY <1>8 DEF S!Fields, S!ToSet
  <2>2. S!Held(g) = S!Held(graph)
    BY <1>3, <1>4, <1>5, SameFields
  <2> QED BY <1>3, <2>1, <2>2 DEF S!Held
<1>13. S!Fits(g, f)
  BY <1>4, <1>9, <1>10, <1>11, <1>12 DEF S!Fits
<1> QED BY <1>1, <1>7, <1>13

LEMMA ContinueFail ==
  ASSUME ContinueInv, S!Fail
  PROVE  ContinueInv'
<1>a. PICK g : g = target.graph
  OBVIOUS
<1>1. /\ phase \in S!Passes /\ UNCHANGED <<graph, state, saved, text, step>>
      /\ phase' \in {"fresh", "failed"} /\ target' = [target EXCEPT !.state = S!Undone]
  BY DEF S!Fail
<1>2. PassRight /\ text # S!NoText /\ LiveRight /\ SavedRight /\ text.edited
  BY <1>1, WrittenFits DEF ContinueInv, PassRight, S!Passes
<1>3. /\ target'.graph = g
      /\ target' = [graph |-> g, state |-> [x \in S!Held(g) |-> target'.state[x]]]
  <2>1. target = [graph |-> g, state |-> [x \in S!Held(g) |-> target.state[x]]]
    BY <1>a, <1>2 DEF PassRight
  <2>2. S!Undone = [x \in DOMAIN target.state |-> S!Undone[x]] /\ DOMAIN target.state = S!Held(g)
    BY <2>1 DEF S!Undone
  <2> QED BY <1>1, <2>1, <2>2
<1>4. PassRight'
  BY <1>a, <1>1, <1>2, <1>3 DEF PassRight
<1>5. LiveRight' /\ SavedRight'
  BY <1>1, <1>2 DEF LiveRight, SavedRight
<1> QED BY <1>1, <1>2, <1>4, <1>5 DEF ContinueInv, LoadPhases

\* Before the load nothing is in the file, or what was dumped is.
LEMMA NotYet ==
  ASSUME ContinueInv, graph = S!NoGraph \/ saved = S!NoText
  PROVE  text = S!NoText /\ phase = "none"
BY DEF ContinueInv, SavedRight, PassRight

LEMMA ContinueStep ==
  ASSUME ContinueInv, S!SessionFilesNext
  PROVE  ContinueInv'
<1>1. CASE S!Live
  <2>1. PICK g \in Graphs : S!Valid(g) /\ graph' = g /\ state' = S!Built(g)
    BY <1>1 DEF S!Live
  <2>2. text = S!NoText /\ phase = "none" /\ UNCHANGED <<text, phase>>
    BY <1>1, NotYet DEF S!Live
  <2>3. state' = [f \in S!Held(g) |-> IF f[2] = "poisoned" THEN FALSE ELSE 0]
    BY <2>1 DEF S!Built
  <2>4. LiveRight'
    BY <2>1, <2>3, EngineHeld DEF LiveRight
  <2> QED BY <2>2, <2>4 DEF ContinueInv, LoadPhases
<1>2. ASSUME NEW i, S!Event(i) PROVE ContinueInv'
  <2>1. PICK reached :
          state' = [f \in DOMAIN state |->
                      CASE f[2] = "poisoned" -> reached # S!Below(graph, i)
                        [] f[2] \in {"input_widths", "width"} -> 1
                        [] f[1] = 0 /\ f[2] \notin {"input_widths", "width", "poisoned"} -> state[f] + 1
                        [] f[1] # 0 -> IF S!walkIds(graph)[f[1]] \in reached THEN state[f] + 1 ELSE state[f]]
    BY <1>2 DEF S!Event
  <2>2. text = S!NoText /\ phase = "none" /\ UNCHANGED <<graph, text, phase>> /\ graph # S!NoGraph
    BY <1>2, NotYet DEF S!Event
  <2>3. DOMAIN state = S!Held(graph) /\ graph \in Graphs /\ S!Valid(graph)
    BY <2>2 DEF ContinueInv, LiveRight
  <2>4. /\ state'[<<0, "poisoned">>] \in BOOLEAN
        /\ state'[<<0, "width">>] = state'[<<0, "input_widths">>]
        /\ state' = [f \in S!Held(graph) |-> state'[f]]
    <3>1. {<<0, "poisoned">>, <<0, "width">>, <<0, "input_widths">>} \subseteq DOMAIN state
      BY <2>3, EngineHeld
    <3>2. state'[<<0, "poisoned">>] = (reached # S!Below(graph, i))
      BY <2>1, <3>1
    <3>3. state'[<<0, "width">>] = 1 /\ state'[<<0, "input_widths">>] = 1
      BY <2>1, <3>1
    <3>4. state' = [f \in S!Held(graph) |-> state'[f]]
      BY <2>1, <2>3
    <3> QED BY <3>2, <3>3, <3>4
  <2>5. LiveRight'
    BY <2>2, <2>3, <2>4 DEF LiveRight
  <2> QED BY <2>2, <2>5 DEF ContinueInv, LoadPhases
<1>3. CASE S!Dump
  <2>1. /\ graph # S!NoGraph /\ ~state[<<0, "poisoned">>]
        /\ saved' = [description |-> S!describe(graph), state |-> state, broken |-> <<>>, edited |-> FALSE]
        /\ text' = saved' /\ UNCHANGED <<graph, state, phase>>
    BY <1>3 DEF S!Dump
  <2>2. phase = "none" /\ LiveRight
    BY <1>3, NotYet DEF S!Dump, ContinueInv
  <2>3. saved' # S!NoText
    <3>1. DOMAIN state = S!Held(graph) /\ <<0, "poisoned">> \in S!Held(graph)
      BY <2>1, <2>2, EngineHeld DEF LiveRight
    <3>2. saved'.state # <<>>
      BY <2>1, <3>1
    <3> QED BY <3>2 DEF S!NoText
  <2>4. SavedRight' /\ LiveRight'
    BY <2>1, <2>2, <2>3 DEF SavedRight, LiveRight
  <2> QED BY <2>1, <2>2, <2>4 DEF ContinueInv, LoadPhases
<1>4. CASE S!Edit
  <2>1. PICK d, b : text' = [text EXCEPT !.description = d, !.broken = b, !.edited = TRUE]
    BY <1>4 DEF S!Edit
  <2>2. text # S!NoText /\ phase = "none" /\ UNCHANGED <<graph, state, saved, phase>> /\ LiveRight /\ SavedRight
    BY <1>4 DEF S!Edit, ContinueInv
  <2>3. text' = [description |-> d, state |-> state, broken |-> b, edited |-> TRUE]
    <3>1. text = [description |-> text.description, state |-> state, broken |-> text.broken, edited |-> text.edited]
      BY <2>2 DEF SavedRight
    <3>2. DOMAIN text = {"description", "state", "broken", "edited"} /\ text.state = state
      BY <3>1
    <3>3. text' = [x \in {"description", "state", "broken", "edited"} |->
                     CASE x = "description" -> d [] x = "broken" -> b [] x = "edited" -> TRUE [] OTHER -> text[x]]
      BY <2>1, <3>2
    <3> QED BY <3>2, <3>3
  <2>4. SavedRight' /\ LiveRight'
    BY <2>2, <2>3 DEF SavedRight, LiveRight
  <2> QED BY <2>2, <2>4 DEF ContinueInv, LoadPhases
<1>5. CASE S!Loads
  <2> DEFINE g == S!build(text.description)
  <2>1. /\ text # S!NoText /\ phase' = "validate" /\ step' = S!Start
        /\ target' = [graph |-> g, state |-> S!Built(g)]
        /\ UNCHANGED <<graph, state, saved, text>>
    BY <1>5 DEF S!Loads
  <2>2. LiveRight /\ SavedRight
    BY <2>1 DEF ContinueInv
  <2>3. ~text.edited => S!describe(g) = saved.description
    BY <2>1, <2>2, SessionGraph DEF SavedRight
  <2> HIDE DEF g
  <2>4. S!Built(g) = [x \in S!Held(g) |-> S!Built(g)[x]]
    BY DEF S!Built
  <2>5. step' \in [key : Nat, nth : Nat \ {0}] /\ \A h : step'.nth \in DOMAIN S!Entry(h, step'.key)
    BY <2>1, EntryShape DEF S!Start
  <2>6. PassRight'
    BY <2>1, <2>3, <2>4, <2>5 DEF PassRight
  <2>7. LiveRight' /\ SavedRight'
    BY <2>1, <2>2 DEF LiveRight, SavedRight
  <2> QED BY <2>1, <2>6, <2>7 DEF ContinueInv, LoadPhases
<1> QED BY <1>1, <1>2, <1>3, <1>4, <1>5, ContinueTake, ContinueEndPass, ContinueFail DEF S!SessionFilesNext

LEMMA ContinueInductive == MCSpec => []ContinueInv
<1>1. MCInit => ContinueInv
  BY DEF MCInit, S!SessionFilesInit, ContinueInv, LiveRight, LoadPhases
<1>2. ASSUME ContinueInv, [MCNext]_mcVars PROVE ContinueInv'
  <2>1. CASE S!SessionFilesNext
    BY <1>2, <2>1, ContinueStep
  <2>2. CASE UNCHANGED sessionOwn
    BY <1>2, <2>2 DEF sessionOwn, ContinueInv, LiveRight, SavedRight, PassRight, TakenField, S!Fits,
                      S!Structure, S!Recorded
  <2> QED BY <1>2, <2>1, <2>2 DEF MCNext, mcVars
<1>3. ContinueInv /\ [MCNext]_mcVars => ContinueInv'
  BY <1>2
<1> QED BY <1>1, <1>3, PTL DEF MCSpec

\* A session that is loaded describes the graph of the saved one, and each of
\* its nodes holds what the saved one held, whatever was edited in the file; and
\* the file as it was written is refused by no pass. For any graphs of which
\* GraphAssumption holds and any number of events.
THEOREM SessionsContinue == MCSpec => []LoadedContinues
<1>1. ContinueInv => LoadedContinues
  BY DEF ContinueInv, PassRight, LoadedContinues, S!LoadedContinues
<1> QED BY <1>1, ContinueInductive, PTL

-----------------------------------------------------------------------------
(* The settings of an operator.  One setting at a time: what a factory     *)
(* makes of a value, and what comes back of it from a description or a     *)
(* file, are one.                                                          *)

\* What DefaultAssumption says of a setting.
Plain(s) ==
  /\ s.default \notin {"undefined", "null", "value", "another kind", "past int32", "array", "user's array"}
  /\ s.default = "NaN" => s.kind \in {"number", "vector"}

\* There is one array of the user.
Apart(v) == v = O!Users \/ v.is # "user's array"

\* A value that a copy works with.
Good(s, w) ==
  /\ O!Accepts(s, w)
  /\ w.is \notin {"undefined", "null", "user's array"}
  /\ s.default = "NaN" /\ w.is = "NaN" => w = O!DefaultOf(s)

\* What is written of a value, whatever the user's array holds by then.
Kept(v) ==
  IF v.is \in {"undefined", "null"} THEN O!Value("undefined") ELSE IF v = O!Users THEN O!Array(0) ELSE v

LEMMA WrittenKept ==
  ASSUME NEW s, NEW v
  PROVE  /\ O!Accepts(s, O!Written(v)) <=> O!Accepts(s, Kept(v))
         /\ v # O!Users => O!Written(v) = Kept(v)
<1>1. CASE v = O!Users
  <2>1. O!Written(v) = O!Array(array) /\ Kept(v) = O!Array(0)
    BY <1>1 DEF O!Written, O!Now, Kept, O!Users, O!Value
  <2>2. O!Array(array).is = "array" /\ O!Array(0).is = "array"
    BY DEF O!Array
  <2> QED BY <1>1, <2>1, <2>2 DEF O!Accepts
<1>2. CASE v # O!Users
  BY <1>2 DEF O!Written, O!Now, Kept
<1> QED BY <1>1, <1>2

LEMMA NowGood ==
  ASSUME NEW s, NEW w, Good(s, w)
  PROVE  O!Now(w) = w
<1>1. O!Users.is = "user's array"
  BY DEF O!Users, O!Value
<1> QED BY <1>1 DEF Good, O!Now

LEMMA ResolvedGood ==
  ASSUME NEW s, Plain(s), NEW v, Apart(v), O!Accepts(s, v)
  PROVE  Good(s, O!Now(O!Resolve(s, v)))
<1>1. CASE v.is = "undefined" \/ (s.default = "NaN" /\ v.is \in {"null", "NaN"})
  <2>1. O!Now(O!Resolve(s, v)) = O!DefaultOf(s) /\ O!DefaultOf(s).is = s.default
    BY <1>1 DEF O!Resolve, O!Now, O!Users, O!Value, O!DefaultOf, Plain
  <2>2. O!Accepts(s, O!DefaultOf(s))
    BY <2>1 DEF O!Accepts, O!Number_, Plain
  <2> QED BY <2>1, <2>2 DEF Good, Plain
<1>2. CASE ~(v.is = "undefined" \/ (s.default = "NaN" /\ v.is \in {"null", "NaN"}))
  <2>1. O!Resolve(s, v) = v /\ v.is # "null"
    BY <1>2 DEF O!Resolve, O!Accepts
  <2>2. CASE v = O!Users
    <3>1. O!Now(v) = O!Array(array) /\ O!Array(array).is = "array" /\ v.is = "user's array"
      BY <2>2 DEF O!Now, O!Array, O!Users, O!Value
    <3>2. O!Accepts(s, O!Array(array))
      BY <3>1 DEF O!Accepts
    <3> QED BY <2>1, <3>1, <3>2 DEF Good
  <2>3. CASE v # O!Users
    BY <1>2, <2>1, <2>3 DEF Good, O!Now, Apart
  <2> QED BY <2>2, <2>3
<1> QED BY <1>1, <1>2

\* What a factory records is accepted again when it is written, and gives the
\* value the factory worked with.
LEMMA RecordedSame ==
  ASSUME NEW s, Plain(s), NEW v, Apart(v), O!Accepts(s, v)
  PROVE  /\ Apart(O!Record(s, v))
         /\ O!Accepts(s, O!Written(O!Record(s, v)))
         /\ \/ O!Record(s, v) = O!Users /\ v = O!Users
            \/ O!Record(s, v) # O!Users /\ O!Resolve(s, O!Written(O!Record(s, v))) = O!Now(O!Resolve(s, v))
<1>1. CASE s.default = "NaN" /\ v.is = "NaN"
  <2>1. O!Record(s, v) = O!Value("undefined") /\ O!Written(O!Value("undefined")) = O!Value("undefined")
    BY <1>1 DEF O!Record, O!Written, O!Value
  <2>2. /\ O!Resolve(s, O!Value("undefined")) = O!DefaultOf(s) /\ O!Resolve(s, v) = O!DefaultOf(s)
        /\ O!Now(O!DefaultOf(s)) = O!DefaultOf(s)
        /\ O!Accepts(s, O!Value("undefined")) /\ Apart(O!Value("undefined")) /\ O!Value("undefined") # O!Users
    BY <1>1 DEF O!Resolve, O!Value, O!Now, O!Users, O!DefaultOf, O!Accepts, Apart
  <2> QED BY <2>1, <2>2
<1>2. CASE ~(s.default = "NaN" /\ v.is = "NaN")
  <2>1. O!Record(s, v) = v
    BY <1>2 DEF O!Record
  <2>2. CASE v.is \in {"undefined", "null"}
    <3>1. O!Written(v) = O!Value("undefined") /\ O!Value("undefined").is = "undefined"
      BY <2>2 DEF O!Written, O!Value
    <3>2. s.default # "needed" /\ O!Resolve(s, v) = O!DefaultOf(s)
      BY <2>2 DEF O!Accepts, O!Resolve
    <3>3. O!Now(O!DefaultOf(s)) = O!DefaultOf(s) /\ v # O!Users
      <4>1. O!Users.is = "user's array" /\ O!DefaultOf(s).is = s.default
        BY DEF O!Users, O!DefaultOf, O!Value
      <4>2. O!DefaultOf(s) # O!Users
        BY <4>1 DEF Plain
      <4> QED BY <2>2, <4>1, <4>2 DEF O!Now
    <3>4. O!Accepts(s, O!Value("undefined")) /\ O!Resolve(s, O!Value("undefined")) = O!DefaultOf(s)
      BY <3>1, <3>2 DEF O!Accepts, O!Resolve
    <3> QED BY <2>1, <3>1, <3>2, <3>3, <3>4
  <2>3. CASE v.is \notin {"undefined", "null"} /\ v # O!Users
    <3>1. O!Written(v) = v /\ O!Resolve(s, v) = v /\ O!Now(v) = v
      BY <1>2, <2>3 DEF O!Written, O!Now, O!Resolve
    <3> QED BY <2>1, <3>1
  <2>4. CASE v = O!Users
    <3>1. O!Written(v) = O!Array(array) /\ O!Array(array).is = "array" /\ v.is = "user's array"
      BY <2>4 DEF O!Written, O!Now, O!Users, O!Value, O!Array
    <3>2. O!Accepts(s, O!Array(array))
      BY <3>1 DEF O!Accepts
    <3> QED BY <2>1, <2>4, <3>1, <3>2
  <2> QED BY <2>2, <2>3, <2>4
<1> QED BY <1>1, <1>2

\* The core's own settings give the operator again.
LEMMA TextSame ==
  ASSUME NEW s, Plain(s), NEW w, Good(s, w)
  PROVE  /\ Apart(O!FromText(O!Text_(s, w)))
         /\ O!Accepts(s, O!Written(O!FromText(O!Text_(s, w))))
         /\ O!Resolve(s, O!FromText(O!Text_(s, w))) = w
         /\ O!Resolve(s, O!Written(O!FromText(O!Text_(s, w)))) = w
<1>1. CASE s.default = "NaN" /\ w.is = "NaN"
  <2>1. O!FromText(O!Text_(s, w)) = O!Value("undefined") /\ O!Value("undefined").is = "undefined"
    BY <1>1 DEF O!FromText, O!Text_, O!Value
  <2>2. O!Written(O!Value("undefined")) = O!Value("undefined")
    BY <2>1 DEF O!Written
  <2> QED BY <1>1, <2>1, <2>2 DEF Good, Apart, O!Accepts, O!Resolve
<1>2. CASE ~(s.default = "NaN" /\ w.is = "NaN")
  <2>1. O!FromText(O!Text_(s, w)) = w
    BY <1>2 DEF O!FromText, O!Text_, Good
  <2>2. O!Written(w) = w /\ O!Resolve(s, w) = w
    BY <1>2, NowGood DEF O!Written, O!Resolve, Good
  <2> QED BY <2>1, <2>2 DEF Good, Apart
<1> QED BY <1>1, <1>2

-----------------------------------------------------------------------------
(* All settings of the ops and their copies.                               *)

Numbers(f) == 1 .. Len(O!Settings(f))

\* An op of factory f can be built again, and its copies work.
OpRight(f, op) ==
  /\ DOMAIN op.given = Numbers(f) /\ op.with = [i \in Numbers(f) |-> op.with[i]]
  /\ \A i \in Numbers(f) :
       /\ Apart(op.given[i]) /\ O!Accepts(O!Settings(f)[i], Kept(op.given[i]))
       /\ Good(O!Settings(f)[i], op.with[i])

\* The op works as m says, and its record means m too unless it is the user's array.
OpSame(f, m, op) ==
  /\ op.with = m
  /\ \A i \in Numbers(f) :
       op.given[i] = O!Users \/ O!Resolve(O!Settings(f)[i], Kept(op.given[i])) = m[i]

SettingsInv ==
  part = "settings" =>
    /\ name \in Operators /\ \E E : ops \in Seq(E)
    /\ \A o \in 1 .. Len(ops) : OpRight(name, ops[o]) /\ (o = 1 \/ ~stale => OpSame(name, meant, ops[o]))
    /\ \A c \in copies : c.of \in 1 .. Len(ops) /\ (c.of = 1 \/ ~stale => c.with = meant)

LEMMA SettingPlain ==
  ASSUME NEW f \in Operators, NEW i \in Numbers(f)
  PROVE  Plain(O!Settings(f)[i])
BY SavingAssumption DEF O!DefaultAssumption, Numbers, Plain, O!Forms, O!Number_

\* An op that a factory makes of values it accepts.
LEMMA MadeRight ==
  ASSUME NEW f \in Operators, NEW v, DOMAIN v = Numbers(f),
         \A i \in Numbers(f) : Apart(v[i]) /\ O!Accepts(O!Settings(f)[i], v[i])
  PROVE  /\ OpRight(f, O!Made(f, v))
         /\ O!Made(f, v).with = [i \in Numbers(f) |-> O!Now(O!Resolve(O!Settings(f)[i], v[i]))]
         /\ \A i \in Numbers(f) :
              \/ O!Made(f, v).given[i] = O!Users /\ v[i] = O!Users
              \/ O!Resolve(O!Settings(f)[i], Kept(O!Made(f, v).given[i])) = O!Now(O!Resolve(O!Settings(f)[i], v[i]))
<1>1. /\ O!Made(f, v).given = [i \in Numbers(f) |-> O!Record(O!Settings(f)[i], v[i])]
      /\ O!Made(f, v).with = [i \in Numbers(f) |-> O!Now(O!Resolve(O!Settings(f)[i], v[i]))]
  BY DEF O!Made, O!Vec
<1>2. ASSUME NEW i \in Numbers(f)
      PROVE  /\ Apart(O!Record(O!Settings(f)[i], v[i]))
             /\ O!Accepts(O!Settings(f)[i], Kept(O!Record(O!Settings(f)[i], v[i])))
             /\ Good(O!Settings(f)[i], O!Now(O!Resolve(O!Settings(f)[i], v[i])))
             /\ \/ O!Record(O!Settings(f)[i], v[i]) = O!Users /\ v[i] = O!Users
                \/ O!Resolve(O!Settings(f)[i], Kept(O!Record(O!Settings(f)[i], v[i])))
                     = O!Now(O!Resolve(O!Settings(f)[i], v[i]))
  <2> DEFINE s == O!Settings(f)[i]
  <2>1. Plain(s) /\ Apart(v[i]) /\ O!Accepts(s, v[i])
    BY SettingPlain
  <2> HIDE DEF s
  <2>2. /\ Apart(O!Record(s, v[i])) /\ O!Accepts(s, O!Written(O!Record(s, v[i])))
        /\ \/ O!Record(s, v[i]) = O!Users /\ v[i] = O!Users
           \/ O!Record(s, v[i]) # O!Users /\ O!Resolve(s, O!Written(O!Record(s, v[i]))) = O!Now(O!Resolve(s, v[i]))
    BY <2>1, RecordedSame
  <2>3. Good(s, O!Now(O!Resolve(s, v[i])))
    BY <2>1, ResolvedGood
  <2>4. O!Accepts(s, Kept(O!Record(s, v[i])))
    BY <2>2, WrittenKept
  <2>5. O!Record(s, v[i]) # O!Users => O!Written(O!Record(s, v[i])) = Kept(O!Record(s, v[i]))
    BY WrittenKept
  <2> QED BY <2>2, <2>3, <2>4, <2>5 DEF s
<1> QED BY <1>1, <1>2 DEF OpRight

\* An op that is added, meant unless it is stale.
LEMMA AddOp ==
  ASSUME SettingsInv, part = "settings", UNCHANGED <<part, name, copies, meant>>,
         NEW op, ops' = Append(ops, op), ops # <<>>, OpRight(name, op),
         stale => stale', ~stale' => OpSame(name, meant, op)
  PROVE  SettingsInv'
<1>1. PICK E : ops \in Seq(E)
  BY DEF SettingsInv
<1>2. /\ ops \in Seq(E \union {op}) /\ ops' \in Seq(E \union {op})
      /\ Len(ops) \in Nat /\ Len(ops) # 0 /\ Len(ops') = Len(ops) + 1
      /\ ops'[Len(ops) + 1] = op /\ \A o \in 1 .. Len(ops) : ops'[o] = ops[o]
  BY <1>1
<1>3. ASSUME NEW o \in 1 .. Len(ops')
      PROVE  OpRight(name, ops'[o]) /\ (o = 1 \/ ~stale' => OpSame(name, meant, ops'[o]))
  <2>1. CASE o \in 1 .. Len(ops)
    BY <1>2, <2>1 DEF SettingsInv
  <2>2. CASE o = Len(ops) + 1
    BY <1>2, <2>2
  <2> QED BY <1>2, <2>1, <2>2
<1>4. \A c \in copies : c.of \in 1 .. Len(ops') /\ (c.of = 1 \/ ~stale' => c.with = meant)
  BY <1>2 DEF SettingsInv
<1> QED BY <1>2, <1>3, <1>4 DEF SettingsInv

LEMMA ConstructKeeps ==
  ASSUME SettingsInv, part = "settings", part' = part, O!Construct
  PROVE  SettingsInv'
<1>1. /\ name \in Operators /\ name' = name
      /\ ops = <<>> /\ copies = {} /\ copies' = {}
  BY DEF O!Construct, SettingsInv
<1>2. PICK v \in O!Calls(name) :
        /\ \A i \in DOMAIN v : O!Accepts(O!Settings(name)[i], v[i])
        /\ ops' = <<O!Made(name, v)>>
        /\ meant' = [i \in DOMAIN v |-> O!Now(O!Resolve(O!Settings(name)[i], v[i]))]
  BY DEF O!Construct
<1>3. DOMAIN v = Numbers(name) /\ \A i \in Numbers(name) : Apart(v[i])
  <2> DEFINE free == {i \in Numbers(name) : O!Settings(name)[i].default # "needed"}
  <2>1. \A is : is # "user's array" => Apart(O!Value(is))
    BY DEF O!Value, Apart
  <2>2. \A x \in O!Given : Apart(x)
    BY <2>1 DEF O!Given, O!Forms, Apart
  <2>3. PICK ps \in SUBSET free :
          \E g \in [ps \union (Numbers(name) \ free) -> O!Given] :
            v = [i \in Numbers(name) |-> IF i \in ps \union (Numbers(name) \ free) THEN g[i] ELSE O!Value("undefined")]
    <3> DEFINE Chosen(ps) == ps \union (Numbers(name) \ free)
               All(ps) == {[i \in Numbers(name) |-> IF i \in Chosen(ps) THEN g[i] ELSE O!Value("undefined")] :
                             g \in [Chosen(ps) -> O!Given]}
    <3>1. PICK ps \in SUBSET free : v \in All(ps)
      BY DEF O!Calls, Numbers
    <3> QED BY <3>1
  <2>4. PICK g \in [ps \union (Numbers(name) \ free) -> O!Given] :
          v = [i \in Numbers(name) |-> IF i \in ps \union (Numbers(name) \ free) THEN g[i] ELSE O!Value("undefined")]
    BY <2>3
  <2> QED BY <2>1, <2>2, <2>4
<1> DEFINE op == O!Made(name, v)
<1>4. /\ OpRight(name, op) /\ op.with = meant'
      /\ \A i \in Numbers(name) :
           op.given[i] = O!Users \/ O!Resolve(O!Settings(name)[i], Kept(op.given[i])) = meant'[i]
  BY <1>1, <1>2, <1>3, MadeRight
<1> HIDE DEF op
<1>5. OpSame(name, meant', op)
  BY <1>4 DEF OpSame
<1>6. ops' \in Seq({op}) /\ Len(ops') = 1 /\ ops'[1] = op
  BY <1>2 DEF op
<1> QED BY <1>1, <1>4, <1>5, <1>6 DEF SettingsInv

LEMMA CopyKeeps ==
  ASSUME SettingsInv, part = "settings", part' = part, NEW o \in 1 .. Len(ops), O!Copy(o)
  PROVE  SettingsInv'
<1>1. PICK c : copies' = copies \union {c} /\ c.of = o /\ c.with = [i \in DOMAIN ops[o].with |-> O!Now(ops[o].with[i])]
  <2>1. \A n, w : [of |-> o, nth |-> n, with |-> w].of = o /\ [of |-> o, nth |-> n, with |-> w].with = w
    OBVIOUS
  <2> QED BY <2>1 DEF O!Copy
<1>2. UNCHANGED <<name, ops, meant, stale>>
  BY DEF O!Copy
<1>3. c.with = ops[o].with
  <2>1. OpRight(name, ops[o])
    BY DEF SettingsInv
  <2>2. \A i \in Numbers(name) : O!Now(ops[o].with[i]) = ops[o].with[i]
    BY <2>1, NowGood DEF OpRight
  <2> QED BY <1>1, <2>1, <2>2 DEF OpRight
<1>4. o = 1 \/ ~stale => ops[o].with = meant
  BY DEF SettingsInv, OpSame
<1> QED BY <1>1, <1>2, <1>3, <1>4 DEF SettingsInv

LEMMA RebuildKeeps ==
  ASSUME SettingsInv, part = "settings", part' = part, NEW o \in 1 .. Len(ops), O!Rebuild(o)
  PROVE  SettingsInv'
<1> DEFINE g == ops[o].given
           written == [i \in DOMAIN g |-> O!Written(g[i])]
           op == O!Made(name, written)
<1>1. /\ OpRight(name, ops[o]) /\ (~stale => OpSame(name, meant, ops[o])) /\ name \in Operators
  BY DEF SettingsInv
<1>2. /\ \A i \in DOMAIN written : O!Accepts(O!Settings(name)[i], written[i])
      /\ ops' = Append(ops, op)
      /\ stale' = (stale \/ \E i \in DOMAIN g : g[i] = O!Users /\ O!Now(O!Users) # meant[i])
      /\ UNCHANGED <<name, array, copies, meant>>
  BY DEF O!Rebuild
<1>3. /\ DOMAIN g = Numbers(name) /\ DOMAIN written = Numbers(name)
      /\ \A i \in Numbers(name) : Apart(g[i]) /\ written[i] = O!Written(g[i])
  BY <1>1 DEF OpRight
<1>4. ASSUME NEW i \in Numbers(name)
      PROVE  /\ Apart(written[i]) /\ written[i] # O!Users
             /\ g[i] = O!Users => written[i] = O!Now(O!Users)
             /\ g[i] # O!Users => written[i] = Kept(g[i])
  <2>1. O!Users.is = "user's array" /\ O!Value("undefined").is = "undefined" /\ O!Array(array).is = "array"
    BY DEF O!Users, O!Value, O!Array
  <2>2. CASE g[i] = O!Users
    <3>1. written[i] = O!Now(O!Users) /\ O!Now(O!Users) = O!Array(array)
      BY <1>3, <2>1, <2>2 DEF O!Written, O!Now
    <3> QED BY <2>1, <2>2, <3>1 DEF Apart
  <2>3. CASE g[i] # O!Users
    <3>1. written[i] = Kept(g[i]) /\ Kept(g[i]) \in {O!Value("undefined"), g[i]}
      BY <1>3, <2>3 DEF O!Written, O!Now, Kept
    <3> QED BY <1>3, <2>1, <2>3, <3>1 DEF Apart
  <2> QED BY <2>2, <2>3
<1> HIDE DEF g, written
<1>5. /\ OpRight(name, op)
      /\ op.with = [i \in Numbers(name) |-> O!Now(O!Resolve(O!Settings(name)[i], written[i]))]
      /\ \A i \in Numbers(name) :
           O!Resolve(O!Settings(name)[i], Kept(op.given[i])) = O!Now(O!Resolve(O!Settings(name)[i], written[i]))
  BY <1>1, <1>2, <1>3, <1>4, MadeRight
<1>6. ASSUME ~stale' PROVE OpSame(name, meant, op)
  <2>1. OpSame(name, meant, ops[o]) /\ \A i \in Numbers(name) : g[i] = O!Users => O!Now(O!Users) = meant[i]
    BY <1>1, <1>2, <1>3, <1>6
  <2>2. meant = [i \in Numbers(name) |-> meant[i]] /\ \A i \in Numbers(name) : O!Now(meant[i]) = meant[i]
    BY <1>1, <2>1, NowGood DEF OpRight, OpSame
  <2>3. ASSUME NEW i \in Numbers(name) PROVE O!Now(O!Resolve(O!Settings(name)[i], written[i])) = meant[i]
    <3>1. CASE g[i] = O!Users
      <4>1. written[i] = meant[i] /\ written[i] = O!Array(array)
        BY <1>4, <2>1, <3>1 DEF O!Now
      <4>2. O!Resolve(O!Settings(name)[i], O!Array(array)) = O!Array(array)
        BY DEF O!Resolve, O!Array
      <4> QED BY <2>2, <4>1, <4>2
    <3>2. CASE g[i] # O!Users
      <4>1. O!Resolve(O!Settings(name)[i], written[i]) = meant[i]
        BY <1>4, <2>1, <3>2 DEF OpSame, g
      <4> QED BY <2>2, <4>1
    <3> QED BY <3>1, <3>2
  <2> QED BY <1>5, <2>2, <2>3 DEF OpSame
<1>7. ops # <<>>
  OBVIOUS
<1> HIDE DEF op
<1> QED BY <1>2, <1>5, <1>6, <1>7, AddOp

LEMMA LoadKeeps ==
  ASSUME SettingsInv, part = "settings", part' = part, NEW o \in 1 .. Len(ops), O!Load(o)
  PROVE  SettingsInv'
<1> DEFINE w == ops[o].with
           written == [i \in DOMAIN w |-> O!Text_(O!Settings(name)[i], O!Now(w[i]))]
           op == [given |-> [i \in DOMAIN written |-> O!FromText(written[i])],
                  with |-> [i \in DOMAIN written |-> O!Resolve(O!Settings(name)[i], O!FromText(written[i]))]]
<1>1. OpRight(name, ops[o]) /\ (~stale => w = meant) /\ name \in Operators
  BY DEF SettingsInv, OpSame
<1>2. ops' = Append(ops, op) /\ UNCHANGED <<name, copies, meant, stale>>
  BY DEF O!Load
<1>3. w = [i \in Numbers(name) |-> w[i]] /\ \A i \in Numbers(name) : Good(O!Settings(name)[i], w[i])
  BY <1>1 DEF OpRight
<1> HIDE DEF w
<1>4. DOMAIN written = Numbers(name) /\ \A i \in Numbers(name) : written[i] = O!Text_(O!Settings(name)[i], w[i])
  BY <1>3, NowGood
<1> HIDE DEF written
<1>5. ASSUME NEW i \in Numbers(name)
      PROVE  /\ Apart(O!FromText(written[i])) /\ O!Accepts(O!Settings(name)[i], Kept(O!FromText(written[i])))
             /\ O!Resolve(O!Settings(name)[i], O!FromText(written[i])) = w[i]
             /\ O!FromText(written[i]) = O!Users \/ O!Resolve(O!Settings(name)[i], Kept(O!FromText(written[i]))) = w[i]
  <2>1. Plain(O!Settings(name)[i]) /\ Good(O!Settings(name)[i], w[i])
    BY <1>1, <1>3, SettingPlain
  <2>2. /\ Apart(O!FromText(written[i])) /\ O!Accepts(O!Settings(name)[i], O!Written(O!FromText(written[i])))
        /\ O!Resolve(O!Settings(name)[i], O!FromText(written[i])) = w[i]
        /\ O!Resolve(O!Settings(name)[i], O!Written(O!FromText(written[i]))) = w[i]
    BY <1>4, <2>1, TextSame
  <2>3. O!Accepts(O!Settings(name)[i], Kept(O!FromText(written[i])))
    BY <2>2, WrittenKept
  <2>4. O!FromText(written[i]) # O!Users => O!Written(O!FromText(written[i])) = Kept(O!FromText(written[i]))
    BY WrittenKept
  <2> QED BY <2>2, <2>3, <2>4
<1>6. /\ op.given = [i \in Numbers(name) |-> O!FromText(written[i])]
      /\ op.with = w
  BY <1>3, <1>4, <1>5
<1> HIDE DEF op
<1>7. OpRight(name, op)
  BY <1>3, <1>5, <1>6 DEF OpRight
<1>8. ~stale' => OpSame(name, meant, op)
  BY <1>1, <1>2, <1>5, <1>6 DEF OpSame
<1>9. ops # <<>>
  OBVIOUS
<1> QED BY <1>2, <1>7, <1>8, <1>9, AddOp

LEMMA SettingsInductive == MCSpec => []SettingsInv
<1>1. MCInit => SettingsInv
  BY DEF MCInit, O!SettingsInit, SettingsInv
<1>2. ASSUME SettingsInv, [MCNext]_mcVars PROVE SettingsInv'
  <2>1. CASE UNCHANGED <<part, settingsOwn>>
    BY <1>2, <2>1 DEF settingsOwn, SettingsInv
  <2>2. CASE part = "settings" /\ part' = part /\ O!SettingsNext
    <3>1. CASE O!Construct
      BY <1>2, <2>2, <3>1, ConstructKeeps
    <3>2. CASE O!Change
      BY <1>2, <2>2, <3>2 DEF O!Change, SettingsInv
    <3>3. ASSUME NEW o \in 1 .. Len(ops), O!Copy(o) \/ O!Rebuild(o) \/ O!Load(o) PROVE SettingsInv'
      BY <1>2, <2>2, <3>3, CopyKeeps, RebuildKeeps, LoadKeeps
    <3> QED BY <2>2, <3>1, <3>2, <3>3 DEF O!SettingsNext
  <2> QED BY <1>2, <2>1, <2>2 DEF MCNext, mcVars
<1>3. SettingsInv /\ [MCNext]_mcVars => SettingsInv'
  BY <1>2
<1> QED BY <1>1, <1>3, PTL DEF MCSpec

\* Every copy of an op works with the settings of the call, whatever becomes of
\* the user's array, through copies of copies, descriptions and files, and what
\* is written of an op is accepted by its factory, for any factories and any
\* settings.
THEOREM SettingsSurvive == MCSpec => []SettingsKept
<1>1. ASSUME SettingsInv PROVE SettingsKept
  <2>1. ASSUME part = "settings", NEW o \in 1 .. Len(ops), NEW i \in DOMAIN ops[o].given
        PROVE  O!Accepts(O!Settings(name)[i], O!Written(ops[o].given[i]))
    BY <1>1, <2>1, WrittenKept DEF SettingsInv, OpRight
  <2> QED BY <1>1, <2>1 DEF SettingsInv, SettingsKept, O!SettingsKept
<1>2. SettingsInv => SettingsKept
  BY <1>1
<1> QED BY <1>2, SettingsInductive, PTL
=============================================================================
