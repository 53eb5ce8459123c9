------------------------------ MODULE ControlTool ------------------------------
(***************************************************************************)
(* The control tool (pcsccontrol) and its control file: ControlModel.java, *)
(* the actions of the window that change, save and reload it (the package  *)
(* gui) and the command line (Main.java).  Each setting that the user      *)
(* changes starts a thread that saves; a reload and the exit are threads   *)
(* too.  Writing the file can fail, and the tool can be killed at any      *)
(* step and be started again.                                              *)
(*                                                                         *)
(* A control holds the visibility and the virtual card of each physical    *)
(* chip.  Every chip is in the item list: its card files are in an include *)
(* directory.                                                              *)
(***************************************************************************)
EXTENDS Naturals, Functions

CONSTANTS
  Savers,          \* the threads of SaveAction
  Loader, Exiter,  \* the threads of ReloadAction and ExitAction (or main())
  Visibility,      \* values of Visibility.java
  Chips, Files, NoFile,
  Missing,         \* the file does not exist
  Empty, Part,     \* its length is 0; it is not a whole control
  Nothing,
  Given,           \* the control files that the tool may find at first
  MaxEvents        \* bound: starts of the tool, actions of the user, failed writes

ASSUME ThreadsAssumption == Loader \notin Savers /\ Exiter \notin Savers \union {Loader}
ASSUME VisibilityAssumption ==
  /\ "HIDE_REAL" \in Visibility
  /\ Visibility \subseteq {"HIDE_REAL", "REAL_FIRST", "REAL_LAST", "HIDE_VIRTUAL"}
ASSUME BoundsAssumption == MaxEvents \in Nat

Cards == [Chips -> Files \union {NoFile}]
Control == [show : Visibility, cards : Cards]
NoCards == [c \in Chips |-> NoFile]
Default == [show |-> "HIDE_REAL", cards |-> NoCards]

ASSUME GivenAssumption == Given \subseteq Control \union {Missing}

ASSUME NullAssumption ==
  /\ Nothing \notin Savers \union {Loader, Exiter}
  /\ \A v \in {Missing, Empty, Part, Nothing} : v \notin Control
  /\ Missing \notin {Empty, Part}

Broken == {Empty, Part}
Threads == Savers \union {Loader, Exiter}
NoItems == [c \in {} |-> NoFile]

VARIABLES
  file, backup,      \* the control file and the one with "~"
  mode,              \* the tool that runs
  active, original,  \* activeControl, originalControl
  image,             \* the marshalled bytes of a save
  got,               \* what a reload has in hand
  items,             \* session.getItems(): the file of each chip
  loaded,            \* itemCacheLoaded
  tree,              \* the objects that the tree shows
  enabled,           \* the actions of SAVE_PROFILE
  saving, writer,    \* who is in SaveAction.run(), in ControlModel.save()
  pc,
  wanted,            \* history: the settings that the user sees and asks for
  cause,             \* history: how a setting was first lost
  lost,              \* history: file and backup may both be broken
  failed,            \* history: a write has failed
  events

model == <<active, original, image>>
session == <<items, loaded, tree, got>>
locks == <<saving, writer>>
history == <<wanted, cause, lost, failed>>
vars == <<file, backup, mode, model, session, enabled, locks, pc, history, events>>

Init ==
  /\ file \in Given /\ backup = Missing
  /\ mode = "down"
  /\ active = Default /\ original = Default /\ image = Nothing
  /\ items = NoItems /\ loaded = FALSE /\ tree = "empty" /\ got = Nothing
  /\ enabled = TRUE
  /\ saving = Nothing /\ writer = Nothing
  /\ pc = [t \in Threads |-> "idle"]
  /\ wanted = Nothing /\ cause = "none" /\ lost = FALSE
  /\ failed = FALSE /\ events = 0

Goto(t, from, to) == pc[t] = from /\ pc' = [pc EXCEPT ![t] = to]

\* The user wants w, unless a setting has been lost.
Wants(w, c, lossy) ==
  /\ cause' = IF lossy /\ cause = "none" THEN c ELSE cause
  /\ wanted' = IF cause' = "none" THEN w ELSE Nothing
Event == events < MaxEvents /\ events' = events + 1
Fails == Event /\ failed' = TRUE
AtRest == \A t \in Threads : pc[t] = "idle"
isDirty == active # original

-----------------------------------------------------------------------------
(* ControlModel *)

\* Mutant: a file of length 0 is parsed as any other.
reloadUnchecked == IF file = Missing THEN Nothing ELSE file

\* What reload() makes of the file; Nothing changes when there is none, and a file that
\* is not a whole control throws.
reload == CASE file = Missing -> Nothing [] file = Empty -> Default [] OTHER -> file

\* Mutant: items without a file are left alone.
saveToControlSet(control, its) ==
  IF its = NoItems THEN [control EXCEPT !.cards = NoCards]
  ELSE [control EXCEPT !.cards =
          [c \in Chips |-> IF c \in DOMAIN its /\ its[c] # NoFile THEN its[c] ELSE @[c]]]

\* No items at all clears the control.
saveToControl(control, its) ==
  IF its = NoItems THEN [control EXCEPT !.cards = NoCards]
  ELSE [control EXCEPT !.cards =
          [c \in Chips |-> IF c \in DOMAIN its THEN its[c] ELSE @[c]]]

\* The process ends: what its threads were doing is over.
Down ==
  /\ mode' = "down" /\ pc' = [t \in Threads |-> "idle"]
  /\ saving' = Nothing /\ writer' = Nothing /\ image' = Nothing
  /\ items' = NoItems /\ loaded' = FALSE /\ tree' = "empty" /\ got' = Nothing
  /\ enabled' = TRUE

\* save() throws and its caller shows the error, or ends with it.
Throws(t) ==
  IF mode = "command" THEN Down
  ELSE /\ pc' = [pc EXCEPT ![t] = IF t = Exiter THEN "ending" ELSE "leaving"]
       /\ writer' = Nothing /\ image' = Nothing
       /\ UNCHANGED <<mode, saving, session, enabled>>

\* Mutant: the backup is made only once.
BackupOnce(t) ==
  /\ writer = Nothing /\ writer' = t
  /\ Goto(t, "saving", "opening")
  /\ image' = active
  /\ \/ /\ backup' = IF file = Missing \/ backup # Missing THEN backup ELSE file
        /\ lost' = (lost \/ file \in Broken)
        /\ UNCHANGED <<failed, events>>
     \/ /\ file # Missing /\ Fails
        /\ backup' \in {backup, Empty, Part} /\ lost' = TRUE
  /\ UNCHANGED <<file, mode, active, original, session, enabled, saving,
                 wanted, cause>>

\* A copy that fails is ignored.  Marshalling follows: nobody looks at the files between.
Backup(t) ==
  /\ writer = Nothing /\ writer' = t
  /\ Goto(t, "saving", "opening")
  /\ image' = active
  /\ \/ /\ backup' = IF file = Missing THEN backup ELSE file
        /\ lost' = (lost \/ file \in Broken)
        /\ UNCHANGED <<failed, events>>
     \/ /\ file # Missing /\ Fails
        /\ backup' \in {backup, Empty, Part} /\ lost' = TRUE
  /\ UNCHANGED <<file, mode, active, original, session, enabled, saving,
                 wanted, cause>>

Open(t) ==
  /\ pc[t] = "opening"
  /\ \/ /\ Goto(t, "opening", "writing")
        /\ file' = Empty
        /\ UNCHANGED <<mode, image, session, enabled, locks, failed, events>>
     \/ Fails /\ Throws(t) /\ UNCHANGED file
  /\ UNCHANGED <<backup, active, original, wanted, cause, lost>>

Write(t) ==
  /\ pc[t] = "writing"
  /\ \/ /\ Goto(t, "writing", "copying")
        /\ file' = image /\ image' = Nothing
        /\ UNCHANGED <<mode, session, enabled, locks, failed, events>>
     \/ Fails /\ Throws(t) /\ file' \in Broken
  /\ UNCHANGED <<backup, active, original, wanted, cause, lost>>

\* A setting that was changed since it was marshalled is taken to be saved.
CopyOf(t) ==
  /\ Goto(t, "copying", IF t \in Savers THEN "leaving" ELSE "stopping")
  /\ original' = active
  /\ writer' = Nothing
  /\ Wants(wanted, "overtaken", active # file)
  /\ UNCHANGED <<file, backup, mode, active, image, session, enabled, saving,
                 lost, failed, events>>

-----------------------------------------------------------------------------
(* The actions of the user, on the event dispatch thread *)

Click(t) == mode = "gui" /\ enabled /\ Goto(t, "idle", "starting") /\ Event

SetVisibility(t, show) ==
  LET shown == IF wanted = Nothing THEN active ELSE wanted
  IN /\ Click(t)
     /\ active' = [active EXCEPT !.show = show]
     /\ Wants([shown EXCEPT !.show = show], "too early", ~loaded /\ pc[Loader] \in {"reading", "assigning"})
     /\ UNCHANGED <<file, backup, mode, original, image, session, enabled, locks,
                    lost, failed>>

\* The object that the tree shows may no longer be one of the session.
ToggleActiveFile(t, c, f) ==
  LET shown == IF wanted = Nothing THEN active ELSE wanted
  IN /\ Click(t)
     /\ \/ /\ tree = "current"
           /\ items' = [items EXCEPT ![c] = IF @ = f THEN NoFile ELSE f]
           /\ Wants([shown EXCEPT !.cards[c] = items'[c]], "none", FALSE)
        \/ /\ tree = "old"
           /\ Wants(wanted, "old tree", TRUE)
           /\ UNCHANGED items
     /\ UNCHANGED <<file, backup, mode, model, loaded, tree, got, enabled, locks,
                    lost, failed>>

\* Save, Reload or Exit is clicked.
Command(t) ==
  /\ Click(t)
  /\ UNCHANGED <<file, backup, mode, model, session, enabled, locks, history>>

-----------------------------------------------------------------------------
(* SaveAction and ExitAction *)

Disable(t) ==
  /\ t # Loader
  /\ Goto(t, "starting", "waiting")
  /\ enabled' = FALSE
  /\ UNCHANGED <<file, backup, mode, model, session, locks, history, events>>

\* The beginning of run().  SaveAction and ExitAction have a monitor each.  A reload
\* that changes the items meanwhile ends the iteration over them.
ReplaceItems(t) ==
  LET replaced == IF loaded THEN saveToControl(active, items) ELSE active
  IN /\ t \in Savers => saving = Nothing
     /\ \/ /\ Goto(t, "waiting", "checking")
           /\ active' = replaced
           /\ Wants(wanted, "cleared", loaded /\ items = NoItems /\ replaced # active)
           /\ saving' = IF t \in Savers THEN t ELSE saving
        \/ /\ loaded /\ pc[Loader] \in {"clearing", "adding"}
           /\ Goto(t, "waiting", "ending")
           /\ active' \in {active, replaced}
           /\ Wants(wanted, "concurrent", TRUE)
           /\ UNCHANGED saving
     /\ UNCHANGED <<file, backup, mode, original, image, session, enabled, writer,
                    lost, failed, events>>

\* Only the window asks whether to save before it ends.
Check(t) ==
  LET next == IF t \in Savers \/ mode = "command" THEN "saving" ELSE "asking"
  IN /\ Goto(t, "checking", IF isDirty \/ (file = Missing /\ mode = "gui") THEN next
                            ELSE IF t \in Savers THEN "leaving" ELSE "stopping")
     /\ Wants(wanted, "default", pc'[t] \in {"leaving", "stopping"} /\ file \notin Control)
     /\ UNCHANGED <<file, backup, mode, model, session, enabled, locks,
                    lost, failed, events>>

Answer(t) ==
  /\ \/ Goto(t, "asking", "saving") /\ UNCHANGED <<wanted, cause>>
     \/ Goto(t, "asking", "stopping") /\ Wants(Nothing, "declined", TRUE)
  /\ UNCHANGED <<file, backup, mode, model, session, enabled, locks, lost, failed, events>>

Leave(t) ==
  /\ Goto(t, "leaving", "ending")
  /\ saving' = Nothing
  /\ UNCHANGED <<file, backup, mode, model, session, enabled, writer, history, events>>

\* Whoever else has disabled the actions.
Enable(t) ==
  /\ Goto(t, "ending", "idle")
  /\ enabled' = TRUE
  /\ UNCHANGED <<file, backup, mode, model, session, locks, history, events>>

\* System.exit() does not wait for other threads.
Stop(t) ==
  /\ pc[t] = "stopping"
  /\ Down
  /\ Wants(wanted, "killed", \E s \in Threads \ {t} : pc[s] # "idle")
  /\ UNCHANGED <<file, backup, active, original, lost, failed, events>>

-----------------------------------------------------------------------------
(* ReloadAction *)

Read ==
  /\ pc[Loader] \in {"starting", "reading"}
  /\ pc' = [pc EXCEPT ![Loader] = IF file = Part THEN "getting" ELSE "assigning"]
  /\ got' = IF file = Part THEN got ELSE reload
  /\ UNCHANGED <<file, backup, mode, model, items, loaded, tree, enabled, locks,
                 history, events>>

\* Settings that were changed since Read, or that wait for their thread, are gone.
Assign ==
  /\ Goto(Loader, "assigning", "getting")
  /\ active' = IF got = Nothing THEN active ELSE got
  /\ original' = active'
  /\ Wants(wanted, "reloaded", wanted \notin {Nothing, active'} \/ got # reload)
  /\ UNCHANGED <<file, backup, mode, image, session, enabled, locks, lost, failed, events>>

\* loadItemCache() makes new items, then clears the list of the session and fills it.
getItems ==
  /\ Goto(Loader, "getting", "clearing")
  /\ got' = active
  /\ tree' = IF tree = "empty" THEN "empty" ELSE "old"
  /\ Wants(wanted, "reloaded", wanted # Nothing /\ wanted.cards # active.cards)
  /\ UNCHANGED <<file, backup, mode, model, items, loaded, enabled, locks,
                 lost, failed, events>>

Clear ==
  /\ Goto(Loader, "clearing", "adding")
  /\ items' = NoItems
  /\ UNCHANGED <<file, backup, mode, model, loaded, tree, got, enabled, locks,
                 history, events>>

\* The second time with the include directories that were missing.
AddAll ==
  /\ \/ Goto(Loader, "adding", "showing")
     \/ Goto(Loader, "adding", "getting")
  /\ items' = got.cards /\ loaded' = TRUE
  /\ UNCHANGED <<file, backup, mode, model, tree, got, enabled, locks, history, events>>

\* Main.reload(), on the event dispatch thread.
Show ==
  /\ Goto(Loader, "showing", "idle")
  /\ tree' = "current" /\ got' = Nothing
  /\ UNCHANGED <<file, backup, mode, model, items, loaded, enabled, locks,
                 history, events>>

-----------------------------------------------------------------------------
(* The tool starts and is killed. *)

Begin ==
  /\ mode = "down" /\ Event
  /\ cause' = "none"
  /\ UNCHANGED <<file, backup, image, session, enabled, locks, lost, failed>>

\* The window opens and its first reload begins.
StartWindow ==
  /\ Begin
  /\ mode' = "gui"
  /\ wanted' = IF file \in Control THEN file ELSE Nothing
  /\ active' = Default /\ original' = Default
  /\ pc' = [pc EXCEPT ![Loader] = "reading"]

\* -setVisb, -setCard, -unSetCard and -unSetAll, up to saveAndExit().
StartCommand(show, cards) ==
  /\ Begin
  /\ file # Part
  /\ LET read == IF file \in Control THEN file ELSE Default
     IN /\ \/ show # read.show /\ cards = read.cards
           \/ show = read.show /\ cards \in {read.cards, NoCards}
           \/ show = read.show /\ \E c \in Chips :
                cards = [read.cards EXCEPT ![c] = cards[c]]
        /\ original' = read
  /\ active' = [show |-> show, cards |-> cards]
  /\ wanted' = active'
  /\ mode' = "command"
  /\ pc' = [pc EXCEPT ![Exiter] = "checking"]

Crash ==
  /\ mode # "down"
  /\ Down
  /\ active' = Default /\ original' = Default /\ wanted' = Nothing
  /\ UNCHANGED <<file, backup, cause, lost, failed, events>>

Next ==
  \/ \E t \in Savers \union {Exiter} :
       \/ Backup(t) \/ Open(t) \/ Write(t) \/ CopyOf(t)
       \/ Disable(t) \/ ReplaceItems(t) \/ Check(t) \/ Enable(t)
  \/ \E t \in Savers :
       \/ \E show \in Visibility : SetVisibility(t, show)
       \/ \E c \in Chips, f \in Files : ToggleActiveFile(t, c, f)
       \/ Leave(t)
  \/ \E t \in Threads : Command(t)
  \/ Answer(Exiter) \/ Stop(Exiter)
  \/ Read \/ Assign \/ getItems \/ Clear \/ AddAll \/ Show
  \/ StartWindow \/ Crash
  \/ \E show \in Visibility, cards \in Cards : StartCommand(show, cards)

Spec == Init /\ [][Next]_vars

-----------------------------------------------------------------------------
Content == Control \union {Missing, Empty, Part}

TypeOK ==
  /\ file \in Content /\ backup \in Content
  /\ mode \in {"down", "gui", "command"}
  /\ active \in Control /\ original \in Control /\ got \in Control \union {Nothing}
  /\ image \in Control \union {Nothing}
  /\ image # Nothing <=> \E t \in Threads : pc[t] \in {"opening", "writing"}
  /\ items \in Cards \union {NoItems} /\ loaded \in BOOLEAN
  /\ tree \in {"empty", "current", "old"}
  /\ enabled \in BOOLEAN /\ lost \in BOOLEAN
  /\ saving \in Savers \union {Nothing}
  /\ writer \in Threads \union {Nothing}
  /\ pc \in [Threads -> {"idle", "starting", "waiting", "checking", "asking", "saving",
                         "opening", "writing", "copying", "leaving", "ending",
                         "stopping", "reading", "assigning", "getting", "clearing",
                         "adding", "showing"}]
  /\ wanted \in Control \union {Nothing}
  /\ cause \in {"none", "overtaken", "too early", "old tree", "cleared", "concurrent",
                "default", "killed", "declined", "reloaded"}
  /\ failed \in BOOLEAN /\ events \in 0..MaxEvents

\* A setting that the user has changed is in the file, with all his other settings, when
\* the threads that save have ended, or the tool knows that it still has to be saved
\* because a write failed; and the window shows the settings that were asked for and
\* lets the user change them.  So it is but for the ways to lose a setting that "cause"
\* names (SaveAction.java:43-75, ReloadAction.java:39-101, ControlModel.java:222-263).
EditsKept ==
  AtRest /\ cause = "none" =>
    /\ wanted # Nothing => IF isDirty \/ file \notin Control THEN failed ELSE file = wanted
    /\ mode = "gui" => /\ enabled /\ tree = "current"
                       /\ active.cards = items
                       /\ wanted \in {Nothing, active}

\* What can be read back of the file, or of its backup, after a crash at any step is a
\* whole control that the tool had saved, the last one, until a backup fails or is
\* made of a broken file (ControlModel.java:222-263).
Readable ==
  CASE file \in Control -> file
    [] file \in Broken /\ backup \in Control -> backup
    [] OTHER -> Missing
Atomic == INSTANCE AtomicSave WITH
            Values <- Control, None <- Nothing, current <- active, taken <- image,
            stored <- Readable
ImplementsAtomicSave == Atomic!Spec
================================================================================
