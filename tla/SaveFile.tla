------------------------------ MODULE SaveFile ------------------------------
(***************************************************************************)
(* Saving to a file (errors.ts: writeSaveFile, and the save() of an        *)
(* operator, a Pipeline and a live session).  A save takes its dump at the *)
(* call and then goes on step by step, one await after the other, while    *)
(* other saves of the same process do too: it follows symbolic links to    *)
(* the file to replace, reads that file's mode, writes the dump to a new   *)
(* file beside it, syncs and closes that file and renames it over the      *)
(* target.  Any step may fail, and the machine may crash between any two.  *)
(* A readlink or a stat that fails does not end the save: it is taken for  *)
(* a path that is no link, a file that does not exist.                     *)
(*                                                                         *)
(* The file system is external: a rename is atomic; a crash may undo       *)
(* renames (the directory is never synced; but not one that replaced a     *)
(* link) and may cut the content of a file that was not synced.  The       *)
(* random part of a temporary name makes it unique.                        *)
(***************************************************************************)
EXTENDS Naturals

CONSTANTS Names,      \* the paths that saves are given, and where links lead
          NoName,     \* no path
          Saves,      \* the calls of save()
          Modes,      \* file modes
          NoMode,     \* the mode could not be read: a new file
          Default,    \* the mode of a newly created file
          MaxHops,    \* saveTarget: the links it follows (40 in the code)
          Faults,     \* the steps that may fail
          MaxCrashes  \* bound on the model: the crashes

Steps == {"import", "readlink", "stat", "open", "write", "chmod", "sync", "close", "rename", "rm"}

ASSUME NameAssumption == NoName \notin Names
ASSUME SavesAssumption == "old" \notin Saves /\ "none" \notin Saves
ASSUME ModeAssumption == Default \in Modes /\ NoMode \notin Modes
ASSUME BoundAssumption == MaxHops \in Nat /\ Faults \subseteq Steps /\ MaxCrashes \in Nat

VARIABLES links,    \* the symbolic link at each name: where it leads
          file,     \* the file at each name
          held,     \* the files each name held since the last crash
          tmp,      \* each save's temporary file
          at,       \* the step each save is about to do
          path,     \* each save's path, and then its target
          hops,     \* how many links it followed
          mode,     \* the mode it read
          missed,   \* the saves that missed a link, or a file, that is there
          open,     \* it holds an open file handle
          litter,   \* the temporary files that could not be removed
          crashes

fileVars == <<links, file, held>>
saveVars == <<path, hops, mode, missed>>
vars == <<fileVars, tmp, at, saveVars, open, litter, crashes>>

\* A file: the save that wrote it ("old": it was there before), whether its
\* content is whole, whether that is on the disk, and its mode.
Files == [by : Saves \union {"old", "none"}, whole : BOOLEAN, synced : BOOLEAN, mode : Modes \union {NoMode}]
Old(m) == [by |-> "old", whole |-> TRUE, synced |-> TRUE, mode |-> m]
NoFile == [by |-> "none", whole |-> TRUE, synced |-> TRUE, mode |-> NoMode]

Working == {"import", "readlink", "stat", "open", "write", "chmod", "sync", "close", "rename",
            "abort", "rm"}
Over == {"saved", "failed", "lost"}   \* resolved, rejected, gone in a crash
Places == {"idle"} \union Working \union Over

Init ==
  /\ links \in [Names -> Names \union {NoName}]
  /\ \E m \in Modes : file \in [Names -> {NoFile, Old(m)}]
  /\ \A n \in Names : links[n] # NoName => file[n] = NoFile
  /\ held = [n \in Names |-> {file[n]}]
  /\ tmp = [s \in Saves |-> NoFile]
  /\ at = [s \in Saves |-> "idle"]
  /\ path = [s \in Saves |-> NoName]
  /\ hops = [s \in Saves |-> 0]
  /\ mode = [s \in Saves |-> NoMode]
  /\ missed = {}
  /\ open = [s \in Saves |-> FALSE]
  /\ litter = {}
  /\ crashes = 0

Goto(s, place) == at' = [at EXCEPT ![s] = place]

\* save(path): the dump is taken now; node:fs/promises is imported.
Save(s, n) ==
  /\ at[s] = "idle"
  /\ Goto(s, "import")
  /\ path' = [path EXCEPT ![s] = n]
  /\ UNCHANGED <<fileVars, tmp, hops, mode, missed, open, litter, crashes>>

Import(s) ==
  /\ at[s] = "import"
  /\ \/ Goto(s, "readlink")
     \/ "import" \in Faults /\ Goto(s, "failed")
  /\ UNCHANGED <<fileVars, tmp, saveVars, open, litter, crashes>>

\* saveTarget: one hop. A chain of MaxHops links is refused (RangeError); a
\* readlink that fails, whatever the reason, ends the chain.
ReadLink(s) ==
  /\ at[s] = "readlink"
  /\ \/ /\ hops[s] = MaxHops
        /\ Goto(s, "failed")
        /\ UNCHANGED <<path, hops, missed>>
     \/ /\ hops[s] < MaxHops /\ links[path[s]] = NoName
        /\ Goto(s, "stat")
        /\ UNCHANGED <<path, hops, missed>>
     \/ /\ hops[s] < MaxHops /\ links[path[s]] # NoName /\ "readlink" \in Faults
        /\ Goto(s, "stat")
        /\ missed' = missed \union {s}
        /\ UNCHANGED <<path, hops>>
     \/ /\ hops[s] < MaxHops /\ links[path[s]] # NoName
        /\ path' = [path EXCEPT ![s] = links[path[s]]]
        /\ hops' = [hops EXCEPT ![s] = @ + 1]
        /\ UNCHANGED <<at, missed>>
  /\ UNCHANGED <<fileVars, tmp, mode, open, litter, crashes>>

\* The name that links lead to from n, if any.
LeadsTo(n) ==
  {t \in Names : links[t] = NoName /\ \E k \in 0 .. MaxHops : \E c \in [0 .. k -> Names] :
     c[0] = n /\ c[k] = t /\ \A i \in 1 .. k : links[c[i - 1]] = c[i]}

\* stat follows links; when it fails, whatever the reason, there is no mode.
Stat(s) ==
  /\ at[s] = "stat"
  /\ \/ /\ \E t \in LeadsTo(path[s]) : mode' = [mode EXCEPT ![s] = file[t].mode]
        /\ UNCHANGED missed
     \/ /\ LeadsTo(path[s]) = {} \/ "stat" \in Faults
        /\ mode' = [mode EXCEPT ![s] = NoMode]
        /\ missed' = missed \union {s}
  /\ Goto(s, "open")
  /\ UNCHANGED <<fileVars, tmp, path, hops, open, litter, crashes>>

\* A step of the try block that fails: its catch runs.
Fails(s, step) ==
  /\ at[s] = step
  /\ step \in Faults
  /\ Goto(s, "abort")

\* open(tmp, "wx")
Open(s) ==
  /\ \/ /\ at[s] = "open"
        /\ tmp' = [tmp EXCEPT ![s] = [by |-> s, whole |-> FALSE, synced |-> FALSE, mode |-> Default]]
        /\ open' = [open EXCEPT ![s] = TRUE]
        /\ Goto(s, "write")
     \/ Fails(s, "open") /\ UNCHANGED <<tmp, open>>
  /\ UNCHANGED <<fileVars, saveVars, litter, crashes>>

\* Bug: the mode of the replaced file is not carried over.
Write_NoMode(s) ==
  /\ \/ /\ at[s] = "write"
        /\ tmp' = [tmp EXCEPT ![s].whole = TRUE]
        /\ Goto(s, "sync")
     \/ Fails(s, "write") /\ UNCHANGED tmp
  /\ UNCHANGED <<fileVars, saveVars, open, litter, crashes>>

\* writeFile(data); a write that fails may have written a part.
Write(s) ==
  /\ \/ /\ at[s] = "write"
        /\ tmp' = [tmp EXCEPT ![s].whole = TRUE]
        /\ Goto(s, IF mode[s] = NoMode THEN "sync" ELSE "chmod")
     \/ Fails(s, "write") /\ UNCHANGED tmp
  /\ UNCHANGED <<fileVars, saveVars, open, litter, crashes>>

Chmod(s) ==
  /\ \/ /\ at[s] = "chmod"
        /\ tmp' = [tmp EXCEPT ![s].mode = mode[s]]
        /\ Goto(s, "sync")
     \/ Fails(s, "chmod") /\ UNCHANGED tmp
  /\ UNCHANGED <<fileVars, saveVars, open, litter, crashes>>

\* Bug: the file is not synced before the rename.
Sync_Never(s) ==
  /\ at[s] = "sync"
  /\ Goto(s, "close")
  /\ UNCHANGED <<fileVars, tmp, saveVars, open, litter, crashes>>

Sync(s) ==
  /\ \/ /\ at[s] = "sync"
        /\ tmp' = [tmp EXCEPT ![s].synced = TRUE]
        /\ Goto(s, "close")
     \/ Fails(s, "sync") /\ UNCHANGED tmp
  /\ UNCHANGED <<fileVars, saveVars, open, litter, crashes>>

Close(s) ==
  /\ \/ /\ at[s] = "close"
        /\ open' = [open EXCEPT ![s] = FALSE]
        /\ Goto(s, "rename")
     \/ Fails(s, "close") /\ UNCHANGED open
  /\ UNCHANGED <<fileVars, tmp, saveVars, litter, crashes>>

\* The file tmp takes the target's name, which is a link no more.
Replace(s) ==
  /\ file' = [file EXCEPT ![path[s]] = tmp[s]]
  /\ held' = [held EXCEPT ![path[s]] = (IF links[path[s]] = NoName THEN @ ELSE {}) \union {tmp[s]}]
  /\ links' = [links EXCEPT ![path[s]] = NoName]
  /\ tmp' = [tmp EXCEPT ![s] = NoFile]

Rename(s) ==
  /\ \/ /\ at[s] = "rename"
        /\ Replace(s)
        /\ Goto(s, "saved")
     \/ Fails(s, "rename") /\ UNCHANGED <<fileVars, tmp>>
  /\ UNCHANGED <<saveVars, open, litter, crashes>>

\* Bug: an error leaves the temporary file.
Abort_KeepsTmp(s) ==
  /\ at[s] = "abort"
  /\ open' = [open EXCEPT ![s] = FALSE]
  /\ Goto(s, "failed")
  /\ UNCHANGED <<fileVars, tmp, saveVars, litter, crashes>>

\* The catch: close what is open, then remove tmp; neither can fail the save
\* any more, which rejects with the error that led here.
Abort(s) ==
  /\ at[s] = "abort"
  /\ open' = [open EXCEPT ![s] = FALSE]
  /\ Goto(s, "rm")
  /\ UNCHANGED <<fileVars, tmp, saveVars, litter, crashes>>

Remove(s) ==
  /\ at[s] = "rm"
  /\ \/ tmp' = [tmp EXCEPT ![s] = NoFile] /\ UNCHANGED litter
     \/ "rm" \in Faults /\ litter' = litter \union {s} /\ UNCHANGED tmp
  /\ Goto(s, "failed")
  /\ UNCHANGED <<fileVars, saveVars, open, crashes>>

\* What a crash may leave of a file.
Remains(f) ==
  IF f.synced THEN {f} ELSE {f, [f EXCEPT !.whole = FALSE]}

\* The machine crashes: the saves in progress are gone, each name may hold
\* any of the files it held, and a temporary file may be left or not.
Crash ==
  /\ crashes < MaxCrashes
  /\ crashes' = crashes + 1
  /\ file' \in [Names -> UNION {Remains(f) : f \in UNION {held[n] : n \in Names}}]
  /\ \A n \in Names : \E f \in held[n] : file'[n] \in Remains(f)
  /\ held' = [n \in Names |-> {file'[n]}]
  /\ litter' = litter \union {s \in Saves : tmp[s] # NoFile}
  /\ at' = [s \in Saves |-> IF at[s] \in Working THEN "lost" ELSE at[s]]
  /\ open' = [s \in Saves |-> FALSE]
  /\ UNCHANGED <<links, tmp, saveVars>>

Step(s) ==
  \/ Import(s) \/ ReadLink(s) \/ Stat(s) \/ Open(s) \/ Write(s) \/ Chmod(s)
  \/ Sync(s) \/ Close(s) \/ Rename(s) \/ Abort(s) \/ Remove(s)

Next ==
  \/ \E s \in Saves : Step(s) \/ \E n \in Names : Save(s, n)
  \/ Crash

Spec == Init /\ [][Next]_vars

-----------------------------------------------------------------------------
(* Properties *)

\* A name never holds a part of a dump, whatever saves overlap, fail or are
\* cut short by a crash: a load finds the previous file or a whole new one.
\* And what it finds was saved: no save replaces its target and then rejects.
TargetWhole ==
  \A n \in Names : file[n].whole /\ \A s \in Saves : file[n].by = s => at[s] = "saved"

\* While nothing is in progress no temporary file is left, but those that a
\* crash left or whose removal failed.
NoLitter ==
  (\A s \in Saves : at[s] \notin Working) => \A s \in Saves : tmp[s] # NoFile => s \in litter

\* "A symbolic link is followed, so the file it points to is replaced, and a replaced
\* file keeps its permissions": a name keeps its link, and its file the mode, unless
\* a save that missed them (its readlink or stat failed) has replaced that very name.
LinksAndModesKept ==
  [][\A n \in Names \ {path[s] : s \in {r \in missed : at'[r] = "saved"}} :
       /\ links'[n] = links[n]
       /\ file[n] # NoFile /\ file'[n] # NoFile /\ crashes' = crashes
            => file'[n].mode = file[n].mode]_vars

=============================================================================
