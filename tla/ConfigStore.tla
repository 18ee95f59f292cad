----------------------------- MODULE ConfigStore -----------------------------
(***************************************************************************)
(* Packages config and singleton, and the setters of app.Controller: the   *)
(* settings of a process, the single file all processes share, and the     *)
(* lock that is to leave one process running.                              *)
(*                                                                         *)
(* Of the settings, an on/off one (Enabled; PushMouse is another) and one  *)
(* with several values (MonitorTargetInput; Trigger and MouseTargetHost    *)
(* are others) stand for the rest.  Every setter runs on the goroutine of  *)
(* a menu item, stores its value under Controller.mu and then saves, under *)
(* Config.mu, what the marshaller finds field by field without             *)
(* Controller.mu.  A step is one such critical section, one field, or one  *)
(* effect on the file system.                                              *)
(***************************************************************************)
EXTENDS Naturals, FiniteSets

CONSTANTS Procs,        \* processes of this program
          Inputs,       \* values of MonitorTargetInput
          DefaultInput, \* the one that Default chooses
          LockChecks    \* whether Acquire can take the lock at all: it fails open

Nobody == "nobody"

ASSUME ConfigStoreAssumption ==
  /\ Nobody \notin Procs
  /\ DefaultInput \in Inputs /\ {"enabled", "main"} \cap Inputs = {}
  /\ LockChecks \subseteq BOOLEAN

VARIABLES
  file,    \* config.json: "absent", "broken" or a document
  tmp,     \* config.json.tmp, which all saves share
  lock,    \* the process that holds the instance lock
  phase,   \* each process: "off", "load", "save" (of a first file), "menu" or "up"
  mem,     \* each process's Config
  todo,    \* where the goroutine of each menu item is
  save,    \* the Save of each process that holds Config.mu
  unsaved  \* history: the last Save of the process failed

storeVars == <<file, tmp, lock, phase, mem, todo, save, unsaved>>

Docs == [enabled : BOOLEAN, target : Inputs]

\* No file, and one that does not parse (empty, or cut off).
Absent == [enabled |-> "absent"]
Broken == [enabled |-> "broken"]
Files == Docs \cup {Absent, Broken}

\* Default.
Default == [enabled |-> FALSE, target |-> DefaultInput]

\* Menu items that change a setting: a checkbox, and a group with one per value.
Items == Inputs \cup {"enabled"}

\* Who saves: the goroutine of an item, or main when Load makes the first file.
Savers == Items \cup {"main"}
NoSave == [at |-> "none", by |-> "main", doc |-> Default]

StoreTypeOK ==
  /\ file \in Files /\ tmp \in Files
  /\ lock \in Procs \cup {Nobody}
  /\ phase \in [Procs -> {"off", "load", "save", "menu", "up"}]
  /\ mem \in [Procs -> Docs]
  /\ todo \in [Procs -> [Items -> {"nothing", "save", "refresh", "show"}]]
  /\ save \in [Procs -> [at : {"none", "enabled", "target", "open", "fill", "rename"},
                         by : Savers, doc : Docs]]
  /\ unsaved \in [Procs -> BOOLEAN]

Idle == [i \in Items |-> "nothing"]
AtRest(p) == phase[p] = "up" /\ todo[p] = Idle

-----------------------------------------------------------------------------
(* main: the lock, and Load.                                               *)

Goes(p, ph) == phase' = [phase EXCEPT ![p] = ph]

\* Bug: the lock is taken over from its holder.
AcquireAnyway(p) ==
  /\ phase[p] = "off" /\ Goes(p, "load") /\ lock' = p
  /\ UNCHANGED <<file, tmp, mem, todo, save, unsaved>>

\* singleton.Acquire answers true.  A process that is answered false just ends.
Acquire(p) ==
  /\ phase[p] = "off" /\ Goes(p, "load")
  /\ \E checked \in LockChecks :
       /\ checked => lock = Nobody
       /\ lock' = IF checked THEN p ELSE lock
  /\ UNCHANGED <<file, tmp, mem, todo, save, unsaved>>

\* Load reads the file.
LoadFile(p) ==
  /\ phase[p] = "load" /\ file \in Docs
  /\ mem' = [mem EXCEPT ![p] = file]
  /\ Goes(p, "menu")
  /\ UNCHANGED <<file, tmp, lock, todo, save, unsaved>>

\* "Materialize a default file".
LoadDefault(p) ==
  /\ phase[p] = "load" /\ file = Absent
  /\ mem' = [mem EXCEPT ![p] = Default]
  /\ save' = [save EXCEPT ![p] = [NoSave EXCEPT !.at = "enabled"]]
  /\ Goes(p, "save")
  /\ UNCHANGED <<file, tmp, lock, todo, unsaved>>

\* The process ends: log.Fatal, a panic, Quit, or the end of the login session.
\* The lock is released, config.json.tmp stays.
Forgotten(p) ==
  /\ Goes(p, "off")
  /\ lock' = IF lock = p THEN Nobody ELSE lock
  /\ mem' = [mem EXCEPT ![p] = Default]
  /\ todo' = [todo EXCEPT ![p] = Idle]
  /\ save' = [save EXCEPT ![p] = NoSave]
  /\ unsaved' = [unsaved EXCEPT ![p] = FALSE]

\* Load fails on a file it cannot read or parse.
LoadFails(p) ==
  /\ phase[p] = "load" /\ file = Broken
  /\ Forgotten(p) /\ UNCHANGED <<file, tmp>>

Dies(p) ==
  /\ phase[p] # "off"
  /\ Forgotten(p) /\ UNCHANGED <<file, tmp>>

-----------------------------------------------------------------------------
(* The setters.  A click on an item that is not idle is dropped (systray). *)

\* What an item's setter makes of the settings: the opposite, or its value.
Chosen(doc, i) ==
  IF i = "enabled" THEN [doc EXCEPT !.enabled = ~doc.enabled]
                   ELSE [doc EXCEPT !.target = i]

\* The critical section of SetEnabled, SetTargetInput and their like.
Set(p, i) ==
  /\ phase[p] = "up" /\ todo[p][i] = "nothing"
  /\ mem' = [mem EXCEPT ![p] = Chosen(@, i)]
  /\ todo' = [todo EXCEPT ![p][i] = "save"]
  /\ UNCHANGED <<file, tmp, lock, phase, save, unsaved>>

-----------------------------------------------------------------------------
(* Save.                                                                   *)

\* Bug: a save that finds another one at work leaves everything to it.
SaveBeginsOrSkips(p, i) ==
  /\ todo[p][i] = "save"
  /\ \/ /\ save[p].at = "none"
        /\ save' = [save EXCEPT ![p] = [at |-> "enabled", by |-> i, doc |-> Default]]
        /\ UNCHANGED todo
     \/ /\ save[p].at # "none" /\ save[p].by # i
        /\ todo' = [todo EXCEPT ![p][i] = "refresh"]
        /\ UNCHANGED save
  /\ UNCHANGED <<file, tmp, lock, phase, mem, unsaved>>

\* Config.mu is locked.
SaveBegins(p, i) ==
  /\ todo[p][i] = "save" /\ save[p].at = "none"
  /\ save' = [save EXCEPT ![p] = [at |-> "enabled", by |-> i, doc |-> Default]]
  /\ UNCHANGED <<file, tmp, lock, phase, mem, todo, unsaved>>

\* json.MarshalIndent, field by field.
SaveReads(p) ==
  /\ \/ /\ save[p].at = "enabled"
        /\ save' = [save EXCEPT ![p].at = "target", ![p].doc.enabled = mem[p].enabled]
     \/ /\ save[p].at = "target"
        /\ save' = [save EXCEPT ![p].at = "open", ![p].doc.target = mem[p].target]
  /\ UNCHANGED <<file, tmp, lock, phase, mem, todo, unsaved>>

\* Bug: the settings are written to config.json itself.
OpensInPlace(p) ==
  /\ save[p].at = "open"
  /\ file' = Broken /\ tmp' = Broken
  /\ save' = [save EXCEPT ![p].at = "fill"]
  /\ UNCHANGED <<lock, phase, mem, todo, unsaved>>

\* os.WriteFile empties config.json.tmp, then fills it.
SaveOpens(p) ==
  /\ save[p].at = "open"
  /\ tmp' = Broken
  /\ save' = [save EXCEPT ![p].at = "fill"]
  /\ UNCHANGED <<file, lock, phase, mem, todo, unsaved>>

SaveFills(p) ==
  /\ save[p].at = "fill"
  /\ tmp' = save[p].doc
  /\ save' = [save EXCEPT ![p].at = "rename"]
  /\ UNCHANGED <<file, lock, phase, mem, todo, unsaved>>

\* Save returns to its caller, and Config.mu is unlocked.
Returns(p) ==
  /\ save' = [save EXCEPT ![p] = NoSave]
  /\ todo' = [todo EXCEPT ![p] = [i \in Items |-> IF i = save[p].by THEN "refresh" ELSE @[i]]]

\* os.Rename.
SaveRenames(p) ==
  /\ save[p].at = "rename" /\ tmp # Absent
  /\ file' = tmp /\ tmp' = Absent
  /\ Returns(p)
  /\ phase' = [phase EXCEPT ![p] = IF @ = "save" THEN "menu" ELSE @]
  /\ unsaved' = [unsaved EXCEPT ![p] = FALSE]
  /\ UNCHANGED <<lock, mem>>

\* The directory, the write or the rename fails, which controller.save only logs.
SaveFails(p) ==
  /\ save[p].at \in {"open", "fill", "rename"} /\ phase[p] = "up"
  /\ Returns(p)
  /\ unsaved' = [unsaved EXCEPT ![p] = TRUE]
  /\ UNCHANGED <<file, tmp, lock, phase, mem>>

\* The same during Load ends the program.
FirstSaveFails(p) ==
  /\ save[p].at \in {"open", "fill", "rename"} /\ phase[p] = "save"
  /\ Forgotten(p) /\ UNCHANGED <<file, tmp>>

Saves(p) ==
  \/ SaveReads(p) \/ SaveOpens(p) \/ SaveFills(p) \/ SaveRenames(p)
  \/ SaveFails(p) \/ FirstSaveFails(p)

-----------------------------------------------------------------------------
\* An earlier session, or the user's editor, left any file.
StoreInit ==
  /\ file \in Files /\ tmp = Absent /\ lock = Nobody
  /\ phase = [p \in Procs |-> "off"]
  /\ mem = [p \in Procs |-> Default]
  /\ todo = [p \in Procs |-> Idle]
  /\ save = [p \in Procs |-> NoSave]
  /\ unsaved = [p \in Procs |-> FALSE]

-----------------------------------------------------------------------------
(* Properties.                                                             *)

\* "Save atomically writes the config": whatever fails and wherever a process
\* dies, a file that could be loaded, or was not there, never becomes broken.
FileStaysWhole == [][file' = Broken => file = Broken]_storeVars

\* A restart finds what the user chose: once every click is dealt with, the file
\* holds the settings of the running process, unless its last save failed.
RestartRestores ==
  \A p \in Procs : AtRest(p) /\ ~unsaved[p] => file = mem[p]

\* "Acquire returns true if this is the only running instance": two processes
\* never use the file and the devices at the same time.
OneInstance == Cardinality({p \in Procs : phase[p] # "off"}) <= 1
=============================================================================
