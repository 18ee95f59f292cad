------------------------------ MODULE TrayProofs ------------------------------
(***************************************************************************)
(* What the instance lock and the file of ConfigStore promise, under every *)
(* step of Tray: for any number of processes and inputs, any monitor and   *)
(* any moment at which a process may end.                                  *)
(***************************************************************************)
EXTENDS Tray, FiniteSetTheorems, TLAPS

\* Whoever starts can take the lock: the code goes on without it where it cannot.
LockWorks == LockChecks = {TRUE}

\* Only the holder of the lock runs.
HolderRuns == LockWorks => \A p \in Procs : phase[p] # "off" => lock = p

\* Only who is up has clicks to deal with, and only who has a click or is loading saves.
SaverKnown(p) ==
  /\ phase[p] # "up" => todo[p] = Idle
  /\ save[p].at # "none" =>
       \/ phase[p] = "save" /\ save[p].by = "main"
       \/ phase[p] = "up" /\ save[p].by \in Items /\ todo[p][save[p].by] = "save"

SaversKnown == \A p \in Procs : SaverKnown(p)

\* What is about to be renamed is whole.
RenamesWhole == LockWorks => \A p \in Procs : save[p].at = "rename" => tmp # Broken

StoreInv == StoreTypeOK /\ SaversKnown /\ HolderRuns /\ RenamesWhole

SaveRecords == [at : {"none", "enabled", "target", "open", "fill", "rename"},
                by : Savers, doc : Docs]

-----------------------------------------------------------------------------
LEMMA DocIsWhole == \A d \in Docs : d # Broken
PROOF BY DEF Docs, Broken

LEMMA StoreInvInit == Init => StoreInv
<1> SUFFICES ASSUME Init PROVE StoreInv
  OBVIOUS
<1> USE ConfigStoreAssumption DEF Init, StoreInit
<1>1. Default \in Docs
  BY DEF Default, Docs
<1>2. Idle \in [Items -> {"nothing", "save", "refresh", "show"}]
  BY DEF Idle
<1>3. NoSave \in SaveRecords
  BY <1>1 DEF NoSave, Savers, SaveRecords
<1>4. StoreTypeOK
  BY <1>1, <1>2, <1>3 DEF StoreTypeOK, Files, SaveRecords
<1>5. SaversKnown /\ HolderRuns /\ RenamesWhole
  BY DEF SaversKnown, SaverKnown, HolderRuns, RenamesWhole, NoSave
<1>6. QED
  BY <1>4, <1>5 DEF StoreInv

\* The steps of the monitor and of the menu leave the store alone.
LEMMA StoreFrame ==
  ASSUME StoreInv, UNCHANGED storeVars
  PROVE  StoreInv'
PROOF BY DEF StoreInv, StoreTypeOK, SaversKnown, SaverKnown, HolderRuns, RenamesWhole, LockWorks, storeVars

LEMMA ForgottenKeeps ==
  ASSUME StoreInv, NEW p \in Procs, Forgotten(p), UNCHANGED <<file, tmp>>
  PROVE  StoreInv'
<1> USE ConfigStoreAssumption DEF StoreInv, Forgotten, Goes
<1>1. /\ Default \in Docs
      /\ Idle \in [Items -> {"nothing", "save", "refresh", "show"}]
      /\ NoSave \in SaveRecords
  BY DEF Default, Docs, Idle, NoSave, Savers, SaveRecords
<1>2. StoreTypeOK'
  BY <1>1 DEF StoreTypeOK, SaveRecords
<1>3. SaversKnown'
  BY DEF StoreTypeOK, SaversKnown, SaverKnown, NoSave
<1>4. HolderRuns'
  BY DEF StoreTypeOK, HolderRuns, LockWorks
<1>5. RenamesWhole'
  BY DEF StoreTypeOK, RenamesWhole, LockWorks, NoSave
<1>6. QED
  BY <1>2, <1>3, <1>4, <1>5

LEMMA AcquireKeeps ==
  ASSUME StoreInv, NEW p \in Procs, Acquire(p)
  PROVE  StoreInv'
<1> USE ConfigStoreAssumption DEF StoreInv, Acquire, Goes
<1>1. lock' \in {lock, p} /\ (LockWorks => lock = Nobody /\ lock' = p)
  BY DEF LockWorks
<1>2. StoreTypeOK'
  BY <1>1 DEF StoreTypeOK
<1>3. SaversKnown'
  BY DEF StoreTypeOK, SaversKnown, SaverKnown
<1>4. HolderRuns'
  BY <1>1 DEF StoreTypeOK, HolderRuns, LockWorks
<1>5. RenamesWhole'
  BY DEF RenamesWhole, LockWorks
<1>6. QED
  BY <1>2, <1>3, <1>4, <1>5

LEMMA LoadKeeps ==
  ASSUME StoreInv, NEW p \in Procs, LoadFile(p) \/ LoadDefault(p)
  PROVE  StoreInv'
<1> USE ConfigStoreAssumption DEF StoreInv, LoadFile, LoadDefault, Goes
<1>1. /\ Default \in Docs
      /\ [NoSave EXCEPT !.at = "enabled"] \in SaveRecords
      /\ [NoSave EXCEPT !.at = "enabled"].at = "enabled"
      /\ [NoSave EXCEPT !.at = "enabled"].by = "main"
  BY DEF Default, Docs, NoSave, Savers, SaveRecords
<1>2. StoreTypeOK'
  <2>1. CASE LoadFile(p)
    BY <2>1 DEF StoreTypeOK
  <2>2. CASE LoadDefault(p)
    <3>1. phase' \in [Procs -> {"off", "load", "save", "menu", "up"}]
      BY <2>2 DEF StoreTypeOK
    <3>2. mem' \in [Procs -> Docs]
      BY <1>1, <2>2 DEF StoreTypeOK
    <3>3. save' \in [Procs -> SaveRecords]
      BY <1>1, <2>2 DEF StoreTypeOK, SaveRecords
    <3>4. QED  BY <2>2, <3>1, <3>2, <3>3 DEF StoreTypeOK, SaveRecords
  <2>3. QED  BY <2>1, <2>2
<1>3. SaversKnown'
  <2>1. UNCHANGED todo /\ \A q \in Procs \ {p} : UNCHANGED <<phase[q], save[q]>>
    BY DEF StoreTypeOK
  <2>2. todo[p] = Idle
    BY DEF SaversKnown, SaverKnown
  <2>3. CASE LoadFile(p)
    <3>1. phase'[p] = "menu" /\ save'[p].at = "none"
      BY <2>3 DEF StoreTypeOK, SaversKnown, SaverKnown
    <3>2. QED  BY <2>1, <2>2, <3>1 DEF SaversKnown, SaverKnown
  <2>4. CASE LoadDefault(p)
    <3>1. phase'[p] = "save" /\ save'[p].by = "main"
      BY <1>1, <2>4 DEF StoreTypeOK
    <3>2. QED  BY <2>1, <2>2, <3>1 DEF SaversKnown, SaverKnown
  <2>5. QED  BY <2>3, <2>4
<1>4. HolderRuns'
  BY <1>1 DEF StoreTypeOK, HolderRuns, LockWorks
<1>5. RenamesWhole'
  BY <1>1 DEF StoreTypeOK, RenamesWhole, LockWorks
<1>6. QED
  BY <1>2, <1>3, <1>4, <1>5

\* A click changes the setting of an item that no Save at work is for.
LEMMA SetKeeps ==
  ASSUME StoreInv, NEW p \in Procs, NEW i \in Items, Set(p, i)
  PROVE  StoreInv'
<1> USE DEF StoreInv, Set
<1>1. Chosen(mem[p], i) \in Docs
  BY DEF StoreTypeOK, Chosen, Docs, Items
<1>2. StoreTypeOK'
  BY <1>1 DEF StoreTypeOK
<1>3. SaversKnown'
  BY DEF StoreTypeOK, SaversKnown, SaverKnown
<1>4. HolderRuns' /\ RenamesWhole'
  BY DEF HolderRuns, RenamesWhole, LockWorks
<1>5. QED
  BY <1>2, <1>3, <1>4

\* The steps of Save up to the rename.
LEMMA SaveProceeds ==
  ASSUME StoreInv, NEW p \in Procs,
         \/ \E i \in Items : SaveBegins(p, i)
         \/ SaveReads(p) \/ SaveOpens(p) \/ SaveFills(p)
  PROVE  StoreInv'
<1> USE ConfigStoreAssumption DEF StoreInv
<1>1. CASE \E i \in Items : SaveBegins(p, i)
  <2>1. PICK i \in Items : SaveBegins(p, i)
    BY <1>1
  <2> DEFINE s == [at |-> "enabled", by |-> i, doc |-> Default]
  <2>2. s \in SaveRecords /\ s.at = "enabled" /\ s.by = i
    BY DEF SaveRecords, Savers, Default, Docs
  <2>3. save' = [save EXCEPT ![p] = s] /\ UNCHANGED <<file, tmp, lock, phase, mem, todo, unsaved>>
    BY <2>1 DEF SaveBegins
  <2> HIDE DEF s
  <2>4. StoreTypeOK'
    BY <2>2, <2>3 DEF StoreTypeOK, SaveRecords
  <2>5. todo[p][i] = "save" /\ phase[p] = "up"
    BY <2>1 DEF SaveBegins, SaversKnown, SaverKnown, Idle
  <2>6. SaversKnown'
    BY <2>2, <2>3, <2>5 DEF SaversKnown, SaverKnown, StoreTypeOK
  <2>7. HolderRuns' /\ RenamesWhole'
    BY <2>2, <2>3 DEF HolderRuns, RenamesWhole, LockWorks, StoreTypeOK
  <2>8. QED  BY <2>4, <2>6, <2>7
<1>2. CASE SaveReads(p)
  <2>1. /\ save[p] \in SaveRecords
        /\ [save[p].doc EXCEPT !.enabled = mem[p].enabled] \in Docs
        /\ [save[p].doc EXCEPT !.target = mem[p].target] \in Docs
    BY DEF StoreTypeOK, SaveRecords, Docs
  <2>2. PICK s \in SaveRecords : /\ save' = [save EXCEPT ![p] = s]
                                 /\ s.at \in {"target", "open"} /\ s.by = save[p].by
    <3>1. CASE save[p].at = "enabled"
      <4> DEFINE s == [save[p] EXCEPT !.at = "target", !.doc.enabled = mem[p].enabled]
      <4>1. s \in SaveRecords /\ s.at = "target" /\ s.by = save[p].by
        BY <2>1 DEF SaveRecords
      <4>2. save' = [save EXCEPT ![p] = s]
        BY <1>2, <3>1 DEF SaveReads
      <4>3. QED  BY <4>1, <4>2
    <3>2. CASE save[p].at = "target"
      <4> DEFINE s == [save[p] EXCEPT !.at = "open", !.doc.target = mem[p].target]
      <4>1. s \in SaveRecords /\ s.at = "open" /\ s.by = save[p].by
        BY <2>1 DEF SaveRecords
      <4>2. save' = [save EXCEPT ![p] = s]
        BY <1>2, <3>2 DEF SaveReads
      <4>3. QED  BY <4>1, <4>2
    <3>3. QED  BY <1>2, <3>1, <3>2 DEF SaveReads
  <2>3. StoreTypeOK'
    BY <1>2, <2>2 DEF SaveReads, StoreTypeOK, SaveRecords
  <2>4. SaversKnown'
    BY <1>2, <2>2 DEF SaveReads, SaversKnown, SaverKnown, StoreTypeOK
  <2>5. HolderRuns' /\ RenamesWhole'
    BY <1>2, <2>2 DEF SaveReads, HolderRuns, RenamesWhole, LockWorks, StoreTypeOK
  <2>6. QED  BY <2>3, <2>4, <2>5
<1>3. CASE SaveOpens(p)
  <2>1. StoreTypeOK'
    BY <1>3 DEF SaveOpens, StoreTypeOK, Files
  <2>2. SaversKnown'
    BY <1>3 DEF SaveOpens, SaversKnown, SaverKnown, StoreTypeOK
  <2>3. HolderRuns'
    BY <1>3 DEF SaveOpens, HolderRuns, LockWorks
  <2>4. RenamesWhole'
    <3> SUFFICES ASSUME LockWorks, NEW q \in Procs, save'[q].at = "rename" PROVE FALSE
      BY DEF RenamesWhole, LockWorks
    <3>1. save[p].at = "open" /\ save'[p].at = "fill" /\ (q # p => save'[q] = save[q])
      BY <1>3 DEF SaveOpens, StoreTypeOK
    <3>2. phase[p] # "off" /\ phase[q] # "off" /\ q # p
      BY <3>1 DEF SaversKnown, SaverKnown
    <3>3. QED
      BY <3>2 DEF HolderRuns
  <2>5. QED  BY <2>1, <2>2, <2>3, <2>4
<1>4. CASE SaveFills(p)
  <2>1. save[p].doc \in Docs
    BY DEF StoreTypeOK
  <2>2. StoreTypeOK'
    BY <1>4, <2>1 DEF SaveFills, StoreTypeOK, Files
  <2>3. SaversKnown'
    BY <1>4 DEF SaveFills, SaversKnown, SaverKnown, StoreTypeOK
  <2>4. HolderRuns'
    BY <1>4 DEF SaveFills, HolderRuns, LockWorks
  <2>5. RenamesWhole'
    BY <1>4, <2>1, DocIsWhole DEF SaveFills, RenamesWhole
  <2>6. QED  BY <2>2, <2>3, <2>4, <2>5
<1>5. QED
  BY <1>1, <1>2, <1>3, <1>4

\* The ends of a Save that leave the process running.
LEMMA SaveEndsWell ==
  ASSUME StoreInv, NEW p \in Procs, SaveRenames(p) \/ SaveFails(p)
  PROVE  StoreInv'
<1> USE ConfigStoreAssumption DEF StoreInv, Returns
<1>1. NoSave \in SaveRecords /\ NoSave.at = "none"
  BY DEF NoSave, SaveRecords, Savers, Default, Docs
<1>2. [i \in Items |-> IF i = save[p].by THEN "refresh" ELSE todo[p][i]]
        \in [Items -> {"nothing", "save", "refresh", "show"}]
  BY DEF StoreTypeOK
<1>3. phase[p] # "off" /\ phase' \in [Procs -> {"off", "load", "save", "menu", "up"}]
      /\ phase'[p] # "off" /\ \A q \in Procs \ {p} : phase'[q] = phase[q]
  BY DEF SaveRenames, SaveFails, SaversKnown, SaverKnown, StoreTypeOK
<1>4. file' \in Files /\ tmp' \in Files
  BY DEF SaveRenames, SaveFails, StoreTypeOK, Files
<1>5. /\ save' = [save EXCEPT ![p] = NoSave]
      /\ todo' = [todo EXCEPT ![p] = [i \in Items |-> IF i = save[p].by THEN "refresh" ELSE todo[p][i]]]
  BY DEF SaveRenames, SaveFails, StoreTypeOK
<1>6. StoreTypeOK'
  <2>1. save' \in [Procs -> SaveRecords]
    BY <1>1, <1>5 DEF StoreTypeOK, SaveRecords
  <2>2. todo' \in [Procs -> [Items -> {"nothing", "save", "refresh", "show"}]]
    BY <1>2, <1>5 DEF StoreTypeOK
  <2>3. UNCHANGED <<lock, mem>> /\ unsaved' \in [Procs -> BOOLEAN]
    BY DEF SaveRenames, SaveFails, StoreTypeOK
  <2>4. QED  BY <1>3, <1>4, <2>1, <2>2, <2>3 DEF StoreTypeOK, SaveRecords
<1>7. SaversKnown'
  <2>1. ASSUME phase'[p] # "up" PROVE todo'[p] = Idle
    <3>1. phase[p] = "save" /\ save[p].at # "none"
      BY <2>1 DEF SaveRenames, SaveFails, SaversKnown, SaverKnown, StoreTypeOK
    <3>2. save[p].by = "main" /\ todo[p] = Idle /\ "main" \notin Items
      BY <3>1 DEF SaversKnown, SaverKnown, Items
    <3>3. QED
      BY <1>5, <3>2 DEF Idle, StoreTypeOK
  <2>2. SaverKnown(p)'
    BY <1>1, <1>5, <2>1 DEF SaverKnown, StoreTypeOK
  <2>3. ASSUME NEW q \in Procs, q # p PROVE SaverKnown(q)'
    BY <1>3, <1>5, <2>3 DEF SaversKnown, SaverKnown, StoreTypeOK
  <2>4. QED  BY <2>2, <2>3 DEF SaversKnown
<1>8. HolderRuns'
  BY <1>3 DEF SaveRenames, SaveFails, HolderRuns, LockWorks, StoreTypeOK
<1>9. RenamesWhole'
  <2>1. CASE SaveRenames(p)
    BY <1>1, <1>5, <2>1 DEF SaveRenames, RenamesWhole, LockWorks, StoreTypeOK, Absent, Broken
  <2>2. CASE SaveFails(p)
    BY <1>1, <1>5, <2>2 DEF SaveFails, RenamesWhole, LockWorks, StoreTypeOK
  <2>3. QED  BY <2>1, <2>2
<1>10. QED
  BY <1>6, <1>7, <1>8, <1>9

\* A refresh takes one item a step further, or leaves it at its boxes.
LEMMA RefreshMoves ==
  ASSUME StoreInv, NEW p \in Procs, ShowEnabled(p) \/ \E i \in Inputs : Refresh(p, i)
  PROVE  \E i \in Items, to \in {"nothing", "show"} :
           /\ todo[p][i] \in {"refresh", "show"}
           /\ todo' = [todo EXCEPT ![p][i] = to]
<1>1. CASE ShowEnabled(p)
  BY <1>1 DEF ShowEnabled, Items
<1>2. ASSUME NEW i \in Inputs, Refresh(p, i)
      PROVE  \E to \in {"nothing", "show"} :
               /\ todo[p][i] \in {"refresh", "show"}
               /\ todo' = [todo EXCEPT ![p][i] = to]
  <2>1. CASE RefreshReads(p, i)
    BY <2>1 DEF RefreshReads
  <2>2. CASE RefreshShows(p, i)
    <3>1. /\ todo[p][i] = "show"
          /\ todo' = todo \/ todo' = [todo EXCEPT ![p][i] = "nothing"]
      BY <2>2 DEF RefreshShows
    <3>2. todo = [todo EXCEPT ![p][i] = todo[p][i]]
      BY DEF StoreInv, StoreTypeOK
    <3>3. QED
      BY <3>1, <3>2
  <2>3. QED
    BY <1>2, <2>1, <2>2 DEF Refresh
<1>3. QED
  BY <1>1, <1>2 DEF Items

\* The refreshers, and the end of onReady.
LEMMA RefreshKeeps ==
  ASSUME StoreInv, NEW p \in Procs,
         \/ ShowEnabled(p) \/ Ready(p)
         \/ \E i \in Inputs : Refresh(p, i)
  PROVE  StoreInv'
<1> USE ConfigStoreAssumption DEF StoreInv, RefreshFrame, Goes
<1>1. CASE Ready(p)
  <2>1. StoreTypeOK'
    BY <1>1 DEF Ready, StoreTypeOK
  <2>2. /\ UNCHANGED <<file, tmp, lock, mem, todo, save, unsaved>> /\ phase[p] = "menu"
        /\ phase'[p] = "up" /\ \A q \in Procs \ {p} : phase'[q] = phase[q]
    BY <1>1 DEF Ready, StoreTypeOK
  <2>3. SaversKnown'
    BY <2>2 DEF SaversKnown, SaverKnown
  <2>4. HolderRuns' /\ RenamesWhole'
    BY <2>2 DEF HolderRuns, RenamesWhole, LockWorks
  <2>5. QED  BY <2>1, <2>3, <2>4
<1>2. CASE \/ ShowEnabled(p) \/ \E i \in Inputs : Refresh(p, i)
  <2>1. PICK i \in Items, to \in {"nothing", "show"} :
          /\ todo[p][i] \in {"refresh", "show"}
          /\ todo' = [todo EXCEPT ![p][i] = to]
    BY <1>2, RefreshMoves
  <2>2. UNCHANGED <<file, tmp, lock, phase, mem, save, unsaved>>
    BY <1>2 DEF ShowEnabled, Refresh, RefreshReads, RefreshShows
  <2>3. phase[p] = "up"
    BY <2>1 DEF SaversKnown, SaverKnown, Idle
  <2>4. StoreTypeOK'
    BY <2>1, <2>2 DEF StoreTypeOK
  <2>5. /\ \A q \in Procs \ {p} : todo'[q] = todo[q]
        /\ \A j \in Items : todo[p][j] = "save" => todo'[p][j] = "save"
    BY <2>1 DEF StoreTypeOK
  <2>6. SaversKnown'
    BY <2>2, <2>3, <2>5 DEF SaversKnown, SaverKnown
  <2>7. HolderRuns' /\ RenamesWhole'
    BY <2>2 DEF HolderRuns, RenamesWhole, LockWorks
  <2>8. QED  BY <2>4, <2>6, <2>7
<1>3. QED
  BY <1>1, <1>2

LEMMA StoreInvNext == StoreInv /\ [Next]_vars => StoreInv'
<1> SUFFICES ASSUME StoreInv, [Next]_vars PROVE StoreInv'
  OBVIOUS
<1>1. CASE Talks \/ UNCHANGED vars
  BY <1>1, StoreFrame DEF Talks, vars
<1>2. ASSUME NEW p \in Procs, Starts(p) PROVE StoreInv'
  BY <1>2, AcquireKeeps, LoadKeeps DEF Starts
<1>3. ASSUME NEW p \in Procs, AsksInputs(p) \/ \E i \in Inputs : TestSwitch(p, i)
      PROVE  StoreInv'
  BY <1>3, StoreFrame DEF AsksInputs, TestSwitch
<1>4. ASSUME NEW p \in Procs,
             \/ ShowEnabled(p) \/ Ready(p)
             \/ \E i \in Inputs : Refresh(p, i)
      PROVE  StoreInv'
  BY <1>4, RefreshKeeps
<1>5. ASSUME NEW p \in Procs, SaveStep(p) PROVE StoreInv'
  <2>1. CASE FirstSaveFails(p)
    BY <2>1, ForgottenKeeps DEF FirstSaveFails
  <2>2. CASE ~FirstSaveFails(p)
    BY <1>5, <2>2, SaveProceeds, SaveEndsWell DEF SaveStep, Saves
  <2>3. QED  BY <2>1, <2>2
<1>6. ASSUME NEW p \in Procs, ClickTooEarly(p) \/ Ends(p) \/ LoadErrs(p) PROVE StoreInv'
  BY <1>6, ForgottenKeeps DEF ClickTooEarly, Ends, LoadErrs, Dies, LoadFails, FirstSaveFails
<1>7. ASSUME NEW p \in Procs, NEW i \in Items, Click(p, i) PROVE StoreInv'
  BY <1>7, SetKeeps DEF Click
<1>8. QED
  BY <1>1, <1>2, <1>3, <1>4, <1>5, <1>6, <1>7 DEF Next

LEMMA StoreInvariant == Spec => []StoreInv
PROOF BY StoreInvInit, StoreInvNext, PTL DEF Spec

-----------------------------------------------------------------------------
\* Any number of processes may start and end at any moment: where the lock can be
\* taken, one at most runs.
THEOREM SingleInstance == LockWorks /\ Spec => []OneInstance
<1> SUFFICES ASSUME LockWorks PROVE Spec => []OneInstance
  OBVIOUS
<1>1. StoreInv => OneInstance
  <2> SUFFICES ASSUME StoreInv PROVE OneInstance
    OBVIOUS
  <2> DEFINE Running == {p \in Procs : phase[p] # "off"}
  <2>1. Running \subseteq {lock}
    BY DEF StoreInv, HolderRuns
  <2>2. IsFiniteSet({lock}) /\ Cardinality({lock}) = 1
    BY FS_Singleton
  <2>3. IsFiniteSet(Running) /\ Cardinality(Running) <= 1
    BY <2>1, <2>2, FS_Subset
  <2>4. QED  BY <2>3 DEF OneInstance
<1>2. QED
  BY <1>1, StoreInvariant, PTL

\* No failure, no interleaving of saves and no end of a process in the middle of
\* one turns a file that can be loaded into one that cannot.
THEOREM FileSurvives == LockWorks /\ Spec => FileStaysWhole
<1> SUFFICES ASSUME LockWorks PROVE Spec => FileStaysWhole
  OBVIOUS
<1>1. StoreInv /\ [Next]_vars => [file' = Broken => file = Broken]_storeVars
  <2> SUFFICES ASSUME StoreInv, [Next]_vars, file' # file PROVE file' # Broken
    BY DEF storeVars
  <2>1. PICK p \in Procs : SaveRenames(p)
    BY DEF Next, vars, storeVars, Talks, Starts, Acquire, LoadFile, LoadDefault, AsksInputs,
       Ready, SaveStep, Saves, SaveBegins, SaveReads, SaveOpens, SaveFills, SaveFails,
       FirstSaveFails, ShowEnabled, Refresh, RefreshReads, RefreshShows, RefreshFrame, TestSwitch,
       ClickTooEarly, Ends, LoadErrs, LoadFails, Dies, Click, Set
  <2>2. QED
    BY <2>1 DEF SaveRenames, StoreInv, RenamesWhole
<1>2. QED
  BY <1>1, StoreInvariant, PTL DEF Spec, FileStaysWhole

-----------------------------------------------------------------------------
(* What the file and an unfinished Save know of the settings.              *)

\* A click on one of these items is not saved yet.
Unwritten(p, S) == \E i \in S : todo[p][i] = "save"

\* Nor has the Save at work been begun for it.
Waits(p, S) == \E i \in S : todo[p][i] = "save" /\ ~(save[p].at # "none" /\ save[p].by = i)

\* The document agrees with the settings but for the clicks that wait.
DocAgrees(p) ==
  /\ save[p].at \in {"target", "open", "fill", "rename"} =>
       save[p].doc.enabled = mem[p].enabled \/ Waits(p, {"enabled"})
  /\ save[p].at \in {"open", "fill", "rename"} =>
       save[p].doc.target = mem[p].target \/ Waits(p, Inputs)
  /\ save[p].at = "rename" => tmp = save[p].doc

\* The file agrees but for the clicks that are not written yet.
FileAgrees(p) ==
  phase[p] \in {"menu", "up"} /\ ~unsaved[p] =>
    /\ file \in Docs
    /\ file.enabled = mem[p].enabled \/ Unwritten(p, {"enabled"})
    /\ file.target = mem[p].target \/ Unwritten(p, Inputs)

SettingsInv == \A p \in Procs : DocAgrees(p) /\ FileAgrees(p)

LEMMA SettingsInvInit == Init => SettingsInv
BY DEF Init, StoreInit, SettingsInv, DocAgrees, FileAgrees, NoSave

\* The processes that do not run keep what they have.
LEMMA OthersAgree ==
  ASSUME LockWorks, StoreInv, StoreInv', NEW p \in Procs, lock' = p \/ lock' = Nobody,
         (DocAgrees(p) /\ FileAgrees(p))'
  PROVE  SettingsInv'
<1>1. ASSUME NEW q \in Procs, q # p PROVE (DocAgrees(q) /\ FileAgrees(q))'
  <2>1. phase'[q] = "off" /\ save'[q].at = "none"
    BY <1>1, ConfigStoreAssumption DEF StoreInv, HolderRuns, SaversKnown, SaverKnown
  <2>2. QED
    BY <2>1 DEF DocAgrees, FileAgrees
<1>2. QED
  BY <1>1 DEF SettingsInv

LEMMA SettingsFrame ==
  ASSUME SettingsInv, UNCHANGED storeVars
  PROVE  SettingsInv'
BY DEF SettingsInv, DocAgrees, FileAgrees, Waits, Unwritten, storeVars

LEMMA ForgottenAgrees ==
  ASSUME LockWorks, StoreInv, NEW p \in Procs, phase[p] # "off", Forgotten(p), UNCHANGED <<file, tmp>>
  PROVE  SettingsInv'
<1>1. StoreInv'
  BY ForgottenKeeps
<1>2. phase'[p] = "off" /\ todo'[p] = Idle /\ save'[p].at = "none"
  BY DEF Forgotten, Goes, StoreInv, StoreTypeOK, NoSave
<1>3. lock' = Nobody
  BY DEF Forgotten, StoreInv, HolderRuns
<1>4. (DocAgrees(p) /\ FileAgrees(p))'
  BY <1>2 DEF DocAgrees, FileAgrees
<1>5. QED
  BY <1>1, <1>3, <1>4, OthersAgree

LEMMA StartAgrees ==
  ASSUME LockWorks, StoreInv, SettingsInv, NEW p \in Procs, Acquire(p) \/ LoadFile(p) \/ LoadDefault(p)
  PROVE  SettingsInv'
<1>1. StoreInv'
  BY AcquireKeeps, LoadKeeps
<1>2. CASE Acquire(p)
  <2>1. lock' = p /\ UNCHANGED <<todo, save, tmp, mem>> /\ phase[p] = "off" /\ phase'[p] = "load"
    BY <1>2 DEF Acquire, Goes, StoreInv, HolderRuns, LockWorks, StoreTypeOK
  <2>2. todo'[p] = Idle /\ save'[p].at = "none"
    BY <2>1 DEF StoreInv, SaversKnown, SaverKnown
  <2>3. (DocAgrees(p) /\ FileAgrees(p))'
    BY <2>1, <2>2 DEF DocAgrees, FileAgrees
  <2>4. QED
    BY <1>1, <2>1, <2>3, OthersAgree
<1>3. CASE LoadFile(p) \/ LoadDefault(p)
  <2>1. phase[p] = "load" /\ lock' = p /\ todo'[p] = Idle /\ save[p].at = "none"
    BY <1>3 DEF LoadFile, LoadDefault, StoreInv, HolderRuns, SaversKnown, SaverKnown
  <2>2. CASE LoadFile(p)
    <3>1. phase'[p] = "menu" /\ UNCHANGED <<file, save>> /\ mem'[p] = file /\ file \in Docs
      BY <2>2 DEF LoadFile, Goes, StoreInv, StoreTypeOK
    <3>2. (DocAgrees(p) /\ FileAgrees(p))'
      BY <2>1, <3>1 DEF DocAgrees, FileAgrees
    <3>3. QED
      BY <1>1, <2>1, <3>2, OthersAgree
  <2>3. CASE LoadDefault(p)
    <3>1. phase'[p] = "save" /\ save'[p].at = "enabled" /\ save'[p].by = "main"
      BY <2>3 DEF LoadDefault, Goes, StoreInv, StoreTypeOK, NoSave
    <3>2. (DocAgrees(p) /\ FileAgrees(p))'
      BY <2>1, <3>1 DEF DocAgrees, FileAgrees
    <3>3. QED
      BY <1>1, <2>1, <3>2, OthersAgree
  <2>4. QED
    BY <1>3, <2>2, <2>3
<1>4. QED
  BY <1>2, <1>3

\* A click changes the setting of an item that no Save at work is for.
LEMMA SetAgrees ==
  ASSUME LockWorks, StoreInv, SettingsInv, NEW p \in Procs, NEW i \in Items, Set(p, i)
  PROVE  SettingsInv'
<1>1. StoreInv'
  BY SetKeeps
<1>2. /\ phase[p] = "up" /\ todo[p][i] = "nothing" /\ lock' = p
      /\ UNCHANGED <<file, tmp, phase, save, unsaved>>
      /\ mem'[p] = Chosen(mem[p], i)
      /\ todo'[p][i] = "save" /\ \A j \in Items \ {i} : todo'[p][j] = todo[p][j]
  BY DEF Set, StoreInv, HolderRuns, StoreTypeOK
<1>3. SaverKnown(p) /\ DocAgrees(p) /\ FileAgrees(p)
  BY DEF SettingsInv, StoreInv, SaversKnown
<1>4. save[p].at # "none" => save[p].by # i /\ save[p].by \in Items /\ todo'[p][save[p].by] = "save"
  BY <1>2, <1>3 DEF SaverKnown
<1>5. SaverKnown(p)'
  BY <1>2, <1>4 DEF SaverKnown
<1>6. /\ Items = Inputs \cup {"enabled"} /\ "enabled" \notin Inputs
      /\ \A S \in SUBSET Items : Waits(p, S) => Waits(p, S)'
      /\ \A S \in SUBSET Items : Unwritten(p, S) => Unwritten(p, S)'
      /\ \A S \in SUBSET Items : i \in S => Unwritten(p, S)' /\ Waits(p, S)'
  BY <1>2, <1>4, ConfigStoreAssumption DEF Waits, Unwritten, Items
<1>7. CASE i = "enabled"
  <2>1. mem'[p].target = mem[p].target /\ Waits(p, {"enabled"})' /\ Unwritten(p, {"enabled"})'
    BY <1>2, <1>6, <1>7 DEF Chosen, StoreInv, StoreTypeOK, Docs
  <2>2. DocAgrees(p)'
    BY <1>2, <1>3, <1>6, <2>1 DEF DocAgrees
  <2>3. FileAgrees(p)'
    BY <1>2, <1>3, <1>6, <2>1 DEF FileAgrees
  <2>4. QED
    BY <1>1, <1>2, <1>5, <2>2, <2>3, OthersAgree
<1>8. CASE i \in Inputs
  <2>1. mem'[p].enabled = mem[p].enabled /\ Waits(p, Inputs)' /\ Unwritten(p, Inputs)'
    BY <1>2, <1>6, <1>8 DEF Chosen, StoreInv, StoreTypeOK, Docs
  <2>2. DocAgrees(p)'
    BY <1>2, <1>3, <1>6, <2>1 DEF DocAgrees
  <2>3. FileAgrees(p)'
    BY <1>2, <1>3, <1>6, <2>1 DEF FileAgrees
  <2>4. QED
    BY <1>1, <1>2, <1>5, <2>2, <2>3, OthersAgree
<1>9. QED
  BY <1>6, <1>7, <1>8

\* Until the rename a Save changes its document and config.json.tmp.
LEMMA SaveAgrees ==
  ASSUME LockWorks, StoreInv, SettingsInv, NEW p \in Procs,
         \/ \E i \in Items : SaveBegins(p, i)
         \/ SaveReads(p) \/ SaveOpens(p) \/ SaveFills(p)
  PROVE  SettingsInv'
<1>1. StoreInv'
  BY SaveProceeds
<1>2. SaverKnown(p) /\ DocAgrees(p) /\ FileAgrees(p)
  BY DEF SettingsInv, StoreInv, SaversKnown
<1>3. UNCHANGED <<file, lock, phase, mem, todo, unsaved>>
  BY DEF SaveBegins, SaveReads, SaveOpens, SaveFills
<1>4. FileAgrees(p)'
  BY <1>2, <1>3 DEF FileAgrees, Unwritten
<1>5. SUFFICES lock' = p /\ SaverKnown(p)' /\ DocAgrees(p)'
  BY <1>1, <1>4, OthersAgree
<1>6. CASE \E i \in Items : SaveBegins(p, i)
  <2>1. PICK i \in Items : /\ todo[p][i] = "save" /\ save'[p].at = "enabled" /\ save'[p].by = i
    BY <1>6 DEF SaveBegins, StoreInv, StoreTypeOK
  <2>2. phase[p] = "up" /\ lock = p
    BY <1>2, <2>1 DEF SaverKnown, Idle, StoreInv, HolderRuns
  <2>3. QED
    BY <1>2, <1>3, <2>1, <2>2 DEF SaverKnown, DocAgrees
<1>7. CASE SaveReads(p) \/ SaveOpens(p) \/ SaveFills(p)
  <2>1. save[p].at # "none" /\ save'[p].at # "none" /\ save'[p].by = save[p].by
    BY <1>7 DEF SaveReads, SaveOpens, SaveFills, StoreInv, StoreTypeOK
  <2>2. lock = p /\ SaverKnown(p)'
    BY <1>2, <1>3, <2>1 DEF SaverKnown, StoreInv, HolderRuns
  <2>3. \A S : Waits(p, S)' <=> Waits(p, S)
    BY <1>3, <2>1 DEF Waits
  <2>4. CASE SaveReads(p) /\ save[p].at = "enabled"
    <3>1. save'[p].at = "target" /\ save'[p].doc.enabled = mem[p].enabled
      BY <2>4 DEF SaveReads, StoreInv, StoreTypeOK, Docs
    <3>2. QED
      BY <1>3, <2>2, <3>1 DEF DocAgrees
  <2>5. CASE SaveReads(p) /\ save[p].at = "target"
    <3>1. /\ save'[p].at = "open" /\ save'[p].doc.target = mem[p].target
          /\ save'[p].doc.enabled = save[p].doc.enabled
      <4>1. save \in [Procs -> SaveRecords]
        BY DEF StoreInv, StoreTypeOK, SaveRecords
      <4>2. save[p].doc \in Docs
        BY <4>1 DEF SaveRecords
      <4>3. save'[p] = [save[p] EXCEPT !.at = "open", !.doc.target = mem[p].target]
        BY <2>5, <4>1 DEF SaveReads
      <4>4. save'[p].at = "open" /\ save'[p].doc = [save[p].doc EXCEPT !.target = mem[p].target]
        BY <4>1, <4>3 DEF SaveRecords
      <4>5. QED
        BY <4>2, <4>4 DEF Docs
    <3>2. QED
      BY <1>2, <1>3, <2>2, <2>3, <2>5, <3>1 DEF DocAgrees
  <2>6. CASE SaveOpens(p) \/ SaveFills(p)
    <3>1. /\ save[p].at \in {"open", "fill"} /\ save'[p].at \in {"fill", "rename"}
          /\ save'[p].doc = save[p].doc /\ (save'[p].at = "rename" => tmp' = save[p].doc)
      BY <2>6 DEF SaveOpens, SaveFills, StoreInv, StoreTypeOK
    <3>2. QED
      BY <1>2, <1>3, <2>2, <2>3, <3>1 DEF DocAgrees
  <2>7. QED
    BY <1>7, <2>4, <2>5, <2>6 DEF SaveReads
<1>8. QED
  BY <1>6, <1>7

LEMMA SaveEndAgrees ==
  ASSUME LockWorks, StoreInv, SettingsInv, NEW p \in Procs, SaveRenames(p) \/ SaveFails(p)
  PROVE  SettingsInv'
<1>1. StoreInv'
  BY SaveEndsWell
<1>2. SaverKnown(p) /\ DocAgrees(p) /\ FileAgrees(p)
  BY DEF SettingsInv, StoreInv, SaversKnown
<1>3. /\ UNCHANGED <<lock, mem>> /\ save[p].at # "none" /\ save'[p].at = "none"
      /\ todo'[p] = [i \in Items |-> IF i = save[p].by THEN "refresh" ELSE todo[p][i]]
  <2>1. UNCHANGED <<lock, mem>> /\ save[p].at # "none" /\ Returns(p)
    BY DEF SaveRenames, SaveFails
  <2>2. save'[p] = NoSave /\ NoSave.at = "none"
    BY <2>1 DEF Returns, StoreInv, StoreTypeOK, NoSave
  <2>3. todo'[p] = [i \in Items |-> IF i = save[p].by THEN "refresh" ELSE todo[p][i]]
    BY <2>1 DEF Returns, StoreInv, StoreTypeOK
  <2>4. QED
    BY <2>1, <2>2, <2>3
<1>4. lock = p
  BY <1>2, <1>3 DEF StoreInv, HolderRuns, SaverKnown
<1>5. /\ phase[p] = "save" => phase'[p] \in {"save", "menu"} /\ todo'[p] = Idle
      /\ phase[p] # "save" => phase'[p] = phase[p]
  <2>1. phase'[p] = IF phase[p] = "save" /\ SaveRenames(p) THEN "menu" ELSE phase[p]
    BY DEF SaveRenames, SaveFails, StoreInv, StoreTypeOK
  <2>2. CASE phase[p] = "save"
    <3>1. save[p].by = "main" /\ todo[p] = Idle /\ "main" \notin Items
      BY <1>2, <1>3, <2>2, ConfigStoreAssumption DEF SaverKnown, Items
    <3>2. todo'[p] = Idle
      BY <1>3, <3>1 DEF Idle
    <3>3. QED
      BY <2>1, <2>2, <3>2
  <2>3. QED
    BY <2>1, <2>2
<1>6. SaverKnown(p)' /\ DocAgrees(p)'
  BY <1>2, <1>3, <1>5 DEF SaverKnown, DocAgrees
<1>7. FileAgrees(p)'
  <2>1. CASE SaveFails(p)
    <3>1. unsaved'[p] = TRUE
      BY <2>1 DEF SaveFails, StoreInv, StoreTypeOK
    <3>2. QED
      BY <3>1 DEF FileAgrees
  <2>2. CASE SaveRenames(p)
    <3>1. save[p].at = "rename" /\ file' = save[p].doc
      BY <1>2, <2>2 DEF SaveRenames, DocAgrees
    <3>2. file' \in Docs
      BY <3>1 DEF StoreInv, StoreTypeOK
    <3>3. \A S \in SUBSET Items : Waits(p, S) => Unwritten(p, S)'
      BY <1>3 DEF Waits, Unwritten
    <3>4. {"enabled"} \in SUBSET Items /\ Inputs \in SUBSET Items
      BY DEF Items
    <3>5. QED
      BY <1>2, <1>3, <3>1, <3>2, <3>3, <3>4 DEF DocAgrees, FileAgrees
  <2>3. QED
    BY <2>1, <2>2
<1>8. QED
  BY <1>1, <1>3, <1>4, <1>6, <1>7, OthersAgree

\* The refreshers and the end of onReady have nothing to save.
LEMMA RefreshAgrees ==
  ASSUME LockWorks, StoreInv, SettingsInv, NEW p \in Procs,
         \/ ShowEnabled(p) \/ Ready(p)
         \/ \E i \in Inputs : Refresh(p, i)
  PROVE  SettingsInv'
<1>1. StoreInv'
  BY RefreshKeeps
<1>2. SaverKnown(p) /\ DocAgrees(p) /\ FileAgrees(p)
  BY DEF SettingsInv, StoreInv, SaversKnown
<1>3. CASE Ready(p)
  <2>1. /\ UNCHANGED <<file, tmp, lock, mem, todo, save, unsaved>>
        /\ phase[p] = "menu" /\ phase'[p] = "up"
    BY <1>3 DEF Ready, Goes, StoreInv, StoreTypeOK
  <2>2. lock' = p
    BY <2>1 DEF StoreInv, HolderRuns
  <2>3. (DocAgrees(p) /\ FileAgrees(p))'
    BY <1>2, <2>1 DEF DocAgrees, FileAgrees, Waits, Unwritten
  <2>4. QED
    BY <1>1, <2>2, <2>3, OthersAgree
<1>4. CASE ShowEnabled(p) \/ \E i \in Inputs : Refresh(p, i)
  <2>1. PICK i \in Items, to \in {"nothing", "show"} :
          /\ todo[p][i] \in {"refresh", "show"}
          /\ todo' = [todo EXCEPT ![p][i] = to]
    BY <1>4, RefreshMoves
  <2>2. UNCHANGED <<file, tmp, lock, phase, mem, save, unsaved>>
    BY <1>4 DEF ShowEnabled, Refresh, RefreshReads, RefreshShows, RefreshFrame
  <2>3. \A j \in Items : todo'[p][j] = "save" <=> todo[p][j] = "save"
    BY <2>1 DEF StoreInv, StoreTypeOK
  <2>4. phase[p] = "up" /\ lock' = p
    BY <1>2, <2>1, <2>2 DEF SaverKnown, Idle, StoreInv, HolderRuns
  <2>5. {"enabled"} \in SUBSET Items /\ Inputs \in SUBSET Items
    BY DEF Items
  <2>6. \A S \in SUBSET Items : (Waits(p, S)' <=> Waits(p, S)) /\ (Unwritten(p, S)' <=> Unwritten(p, S))
    BY <2>2, <2>3 DEF Waits, Unwritten
  <2>7. SaverKnown(p)'
    BY <1>2, <2>2, <2>3, <2>4 DEF SaverKnown
  <2>8. DocAgrees(p)' /\ FileAgrees(p)'
    BY <1>2, <2>2, <2>5, <2>6 DEF DocAgrees, FileAgrees
  <2>9. QED
    BY <1>1, <2>4, <2>7, <2>8, OthersAgree
<1>5. QED
  BY <1>3, <1>4

LEMMA SettingsInvNext ==
  ASSUME LockWorks, StoreInv, SettingsInv, [Next]_vars
  PROVE  SettingsInv'
<1>1. CASE Talks \/ UNCHANGED vars
  BY <1>1, SettingsFrame DEF Talks, vars
<1>2. ASSUME NEW p \in Procs, Starts(p) PROVE SettingsInv'
  BY <1>2, StartAgrees DEF Starts
<1>3. ASSUME NEW p \in Procs, AsksInputs(p) \/ \E i \in Inputs : TestSwitch(p, i)
      PROVE  SettingsInv'
  BY <1>3, SettingsFrame DEF AsksInputs, TestSwitch
<1>4. ASSUME NEW p \in Procs,
             \/ ShowEnabled(p) \/ Ready(p)
             \/ \E i \in Inputs : Refresh(p, i)
      PROVE  SettingsInv'
  BY <1>4, RefreshAgrees
<1>5. ASSUME NEW p \in Procs, SaveStep(p) PROVE SettingsInv'
  <2>1. CASE FirstSaveFails(p)
    BY <2>1, ForgottenAgrees DEF FirstSaveFails
  <2>2. CASE ~FirstSaveFails(p)
    BY <1>5, <2>2, SaveAgrees, SaveEndAgrees DEF SaveStep, Saves
  <2>3. QED  BY <2>1, <2>2
<1>6. ASSUME NEW p \in Procs, ClickTooEarly(p) \/ Ends(p) \/ LoadErrs(p) PROVE SettingsInv'
  BY <1>6, ForgottenAgrees DEF ClickTooEarly, Ends, LoadErrs, Dies, LoadFails, FirstSaveFails
<1>7. ASSUME NEW p \in Procs, NEW i \in Items, Click(p, i) PROVE SettingsInv'
  BY <1>7, SetAgrees DEF Click
<1>8. QED
  BY <1>1, <1>2, <1>3, <1>4, <1>5, <1>6, <1>7 DEF Next

\* A restart finds what the user chose: for any number of settings, in whatever
\* order the clicks' saves come to run, whatever a Save reads while later clicks
\* change the settings under it, and wherever an earlier Save failed.
THEOREM RestartFindsSettings == LockWorks /\ Spec => []RestartRestores
<1> SUFFICES ASSUME LockWorks PROVE Spec => []RestartRestores
  OBVIOUS
<1>1. StoreInv /\ SettingsInv => RestartRestores
  <2> SUFFICES ASSUME StoreInv, SettingsInv, NEW p \in Procs, AtRest(p), ~unsaved[p]
               PROVE  file = mem[p]
    BY DEF RestartRestores
  <2>1. ~Unwritten(p, {"enabled"}) /\ ~Unwritten(p, Inputs)
    BY DEF AtRest, Idle, Unwritten, Items
  <2>2. file \in Docs /\ mem[p] \in Docs /\ file.enabled = mem[p].enabled /\ file.target = mem[p].target
    BY <2>1 DEF AtRest, SettingsInv, FileAgrees, StoreInv, StoreTypeOK
  <2>3. QED
    BY <2>2 DEF Docs
<1>2. StoreInv /\ SettingsInv /\ [Next]_vars => SettingsInv'
  BY SettingsInvNext
<1>3. QED
  BY <1>1, <1>2, StoreInvariant, SettingsInvInit, PTL DEF Spec
=============================================================================
