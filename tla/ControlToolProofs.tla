--------------------------- MODULE ControlToolProofs ---------------------------
(***************************************************************************)
(* Proofs that saving is atomic (ControlTool implements AtomicSave), of    *)
(* the types, and that the user's settings are kept, for any threads,      *)
(* settings, chips and files.                                              *)
(***************************************************************************)
EXTENDS ControlTool, TLAPS

Users == Savers \union {Exiter}

\* The values that a step may put into the control that is saved.
Values ==
  /\ active \in Control
  /\ file \in Content /\ backup \in Content
  /\ got \in Control \union {Nothing}
  /\ items \in Cards \union {NoItems}
  /\ pc = [t \in Threads |-> pc[t]]

\* Only the thread that has the monitor of save() is between its steps.
Exclusive ==
  /\ \A t \in Threads : pc[t] \in {"opening", "writing", "copying"} => writer = t
  /\ \A t \in Threads : pc[t] \in {"opening", "writing"} => image \in Control
  /\ image # Nothing => \E t \in Threads : pc[t] \in {"opening", "writing"}
  /\ pc[Loader] \in {"clearing", "adding"} => got \in Control
  /\ mode = "down" => AtRest

\* The backup is as good as the file until the file is opened.
BackedUp ==
  /\ \A t \in Threads : pc[t] = "opening" /\ ~lost => backup = file /\ file \notin Broken
  /\ \A t \in Threads : pc[t] = "writing" => file = Empty
  /\ file = Missing => backup = Missing

IInv == Values /\ Exclusive /\ BackedUp
LEMMA Nulls ==
  /\ Missing \notin Broken
  /\ \A v \in {Missing, Empty, Part, Nothing} : v \notin Control
  /\ Nothing \notin Threads
  BY NullAssumption DEF Broken, Threads

LEMMA DefaultType == Default \in Control /\ NoCards \in Cards
  BY VisibilityAssumption DEF Default, Control, NoCards, Cards

LEMMA InitIInv == Init => IInv
<1> SUFFICES ASSUME Init PROVE IInv
  OBVIOUS
<1>1. Values
  BY DefaultType, GivenAssumption DEF Init, Values, Content
<1>2. Exclusive
  BY DEF Init, Exclusive, Threads, AtRest
<1>3. BackedUp
  BY DEF Init, BackedUp
<1>4. QED
  BY <1>1, <1>2, <1>3 DEF IInv

\* What a save makes of a control is a control.
LEMMA SaveToControlType ==
  ASSUME NEW control \in Control, NEW its \in Cards \union {NoItems}
  PROVE  saveToControl(control, its) \in Control
<1>1. control = [show |-> control.show, cards |-> control.cards]
      /\ control.show \in Visibility /\ control.cards \in Cards
  BY DEF Control
<1>2. CASE its = NoItems
  BY <1>1, <1>2, DefaultType DEF saveToControl, Control
<1>3. CASE its # NoItems
  <2> DEFINE f == [c \in Chips |-> IF c \in DOMAIN its THEN its[c] ELSE control.cards[c]]
  <2>1. f \in Cards
    BY <1>1, <1>3 DEF Cards
  <2>2. saveToControl(control, its) = [show |-> control.show, cards |-> f]
    BY <1>1, <1>3 DEF saveToControl
  <2>3. QED
    BY <1>1, <2>1, <2>2 DEF Control
<1>4. QED
  BY <1>2, <1>3

\* A thread that goes on outside save(), and leaves the files and the image alone.
LEMMA Elsewhere ==
  ASSUME IInv, NEW t \in Threads, NEW to,
         pc' = [pc EXCEPT ![t] = to],
         pc[t] \notin {"opening", "writing", "copying"},
         to \notin {"opening", "writing", "copying"},
         to \in {"clearing", "adding"} => got' \in Control,
         t # Loader => got' = got,
         mode' # "down",
         UNCHANGED <<file, backup, image, writer, lost>>
  PROVE  Exclusive' /\ BackedUp'
<1>1. \A s \in Threads : pc'[s] = IF s = t THEN to ELSE pc[s]
  BY DEF IInv, Values
<1>2. Loader \in Threads
  BY DEF Threads
<1>3. Exclusive'
  <2>1. (\A s \in Threads : pc[s] \in {"opening", "writing", "copying"} => writer = s)'
    BY <1>1 DEF IInv, Exclusive
  <2>2. (\A s \in Threads : pc[s] \in {"opening", "writing"} => image \in Control)'
    BY <1>1 DEF IInv, Exclusive
  <2>3. (image # Nothing => \E s \in Threads : pc[s] \in {"opening", "writing"})'
    BY <1>1 DEF IInv, Exclusive
  <2>4. (pc[Loader] \in {"clearing", "adding"} => got \in Control)'
    BY <1>1, <1>2 DEF IInv, Exclusive
  <2>5. QED
    BY <2>1, <2>2, <2>3, <2>4 DEF Exclusive
<1>4. BackedUp'
  BY <1>1 DEF IInv, BackedUp
<1>5. QED
  BY <1>3, <1>4

\* The process ends.
LEMMA DownStep ==
  ASSUME IInv, Down, active' \in Control, file' \in Content, backup' \in Content,
         file' = Missing => backup' = Missing
  PROVE  IInv'
<1>1. \A s \in Threads : pc'[s] = "idle"
  BY DEF Down
<1>2. Loader \in Threads
  BY DEF Threads
<1>3. Values'
  BY DEF Down, Values
<1>4. Exclusive' /\ BackedUp'
  BY <1>1, <1>2 DEF Down, Exclusive, BackedUp, AtRest
<1>5. QED
  BY <1>3, <1>4 DEF IInv
\* The steps of a thread outside save().
LEMMA GotoStep ==
  ASSUME IInv, NEW t \in Threads, NEW from, NEW to, Goto(t, from, to),
         from \notin {"opening", "writing", "copying"},
         to \notin {"opening", "writing", "copying"},
         to \in {"clearing", "adding"} => got' \in Control,
         t # Loader => got' = got,
         from = "idle" => mode # "down",
         mode' = mode,
         UNCHANGED <<file, backup, image, writer, lost>>
  PROVE  Exclusive' /\ BackedUp'
<1>1. pc[t] = from /\ pc' = [pc EXCEPT ![t] = to]
  BY DEF Goto
<1>2. mode # "down"
  BY <1>1 DEF IInv, Exclusive, AtRest
<1>3. QED
  BY <1>1, <1>2, Elsewhere

LEMMA SettingStep ==
  ASSUME IInv, NEW t \in Savers,
         \/ \E show \in Visibility : SetVisibility(t, show)
         \/ \E c \in Chips, f \in Files : ToggleActiveFile(t, c, f)
         \/ Command(t)
  PROVE  IInv'
<1> t \in Threads
  BY DEF Threads
<1> USE NullAssumption
<1>1. Goto(t, "idle", "starting") /\ mode = "gui"
  BY DEF SetVisibility, ToggleActiveFile, Command, Click
<1>2. UNCHANGED <<file, backup, image, writer, lost, got, mode>>
  BY DEF SetVisibility, ToggleActiveFile, Command, session, model, locks, history
<1>3. Exclusive' /\ BackedUp'
  <2>1. t # Loader
    BY ThreadsAssumption
  <2>2. QED
    BY <1>1, <1>2, <2>1, GotoStep
<1>4. active' \in Control
  <2>1. CASE \E show \in Visibility : SetVisibility(t, show)
    <3>1. PICK show \in Visibility : active' = [active EXCEPT !.show = show]
      BY <2>1 DEF SetVisibility
    <3>2. active \in Control
      BY DEF IInv, Values
    <3>3. QED
      BY <3>1, <3>2 DEF Control
  <2>2. CASE \E c \in Chips, f \in Files : ToggleActiveFile(t, c, f)
    BY <2>2 DEF ToggleActiveFile, model, IInv, Values
  <2>3. CASE Command(t)
    BY <2>3 DEF Command, model, IInv, Values
  <2>4. QED
    BY <2>1, <2>2, <2>3
<1>5. items' \in Cards \union {NoItems}
  <2>0. items \in Cards \union {NoItems}
    BY DEF IInv, Values
  <2>1. CASE \E c \in Chips, f \in Files : ToggleActiveFile(t, c, f)
    <3>1. PICK c \in Chips, f \in Files :
            \/ items' = [items EXCEPT ![c] = IF @ = f THEN NoFile ELSE f]
            \/ items' = items
      BY <2>1 DEF ToggleActiveFile
    <3>2. CASE items = NoItems
      BY <3>1, <3>2 DEF NoItems
    <3>3. CASE items \in Cards
      BY <3>1, <3>3 DEF Cards
    <3>4. QED
      BY <2>0, <3>2, <3>3
  <2>2. CASE \/ \E show \in Visibility : SetVisibility(t, show)
             \/ Command(t)
    BY <2>0, <2>2 DEF SetVisibility, Command, session
  <2>3. QED
    BY <2>1, <2>2
<1>6. Values'
  <2>1. pc' = [s \in Threads |-> pc'[s]]
    BY <1>1 DEF Goto, IInv, Values
  <2>2. QED
    BY <1>2, <1>4, <1>5, <2>1 DEF IInv, Values
<1>7. QED
  BY <1>3, <1>6 DEF IInv
LEMMA CommandStep ==
  ASSUME IInv, NEW t \in {Loader, Exiter}, Command(t)
  PROVE  IInv'
<1> t \in Threads
  BY DEF Threads
<1>1. Goto(t, "idle", "starting") /\ mode = "gui"
  BY DEF Command, Click
<1>2. UNCHANGED <<file, backup, image, writer, lost, got, mode, active, items>>
  BY DEF Command, session, model, locks, history
<1>3. Exclusive' /\ BackedUp'
  BY <1>1, <1>2, GotoStep
<1>4. Values'
  BY <1>1, <1>2 DEF Goto, IInv, Values
<1>5. QED
  BY <1>3, <1>4 DEF IInv

\* The steps of SaveAction.run() and ExitAction.run() around save().
LEMMA ActionStep ==
  ASSUME IInv, NEW t \in Users,
         Disable(t) \/ ReplaceItems(t) \/ Check(t) \/ Answer(t) \/ Leave(t) \/ Enable(t)
  PROVE  IInv'
<1> t \in Threads
  BY DEF Threads, Users
<1>1. PICK from, to :
        /\ Goto(t, from, to)
        /\ from \in {"starting", "waiting", "checking", "asking", "leaving", "ending"}
        /\ to \in {"idle", "starting", "waiting", "checking", "asking", "saving", "leaving",
                   "ending", "stopping"}
  BY DEF Disable, ReplaceItems, Check, Answer, Leave, Enable
<1>2. UNCHANGED <<file, backup, image, writer, lost, got, mode, items>>
  BY DEF Disable, ReplaceItems, Check, Answer, Leave, Enable, session, model, locks, history
<1>3. Exclusive' /\ BackedUp'
  BY <1>1, <1>2, GotoStep
<1>4. active' \in Control
  <2>1. active \in Control /\ items \in Cards \union {NoItems}
    BY DEF IInv, Values
  <2>2. active' \in {active, saveToControl(active, items)}
    BY DEF Disable, ReplaceItems, Check, Answer, Leave, Enable, model
  <2>3. QED
    BY <2>1, <2>2, SaveToControlType
<1>5. Values'
  BY <1>1, <1>2, <1>4 DEF Goto, IInv, Values
<1>6. QED
  BY <1>3, <1>5 DEF IInv

LEMMA ReloadStep ==
  ASSUME IInv, Read \/ Assign \/ getItems \/ Clear \/ AddAll \/ Show
  PROVE  IInv'
<1> Loader \in Threads
  BY DEF Threads
<1>1. PICK from, to :
        /\ Goto(Loader, from, to)
        /\ from \in {"starting", "reading", "assigning", "getting", "clearing", "adding", "showing"}
        /\ to \in {"idle", "assigning", "getting", "clearing", "adding", "showing"}
        /\ to = "clearing" => getItems
        /\ to = "adding" => Clear
        /\ AddAll => from = "adding"
  BY DEF Read, Assign, getItems, Clear, AddAll, Show, Goto
<1>2. UNCHANGED <<file, backup, image, writer, lost, mode>>
  BY DEF Read, Assign, getItems, Clear, AddAll, Show, session, model, locks, history
<1>3. active \in Control /\ file \in Content /\ got \in Control \union {Nothing}
      /\ items \in Cards \union {NoItems}
  BY DEF IInv, Values
<1>4. got' \in Control \union {Nothing}
  <2>1. file # Part => reload \in Control \union {Nothing}
    BY <1>3, DefaultType DEF reload, Content
  <2>2. CASE Read
    BY <1>3, <2>1, <2>2 DEF Read
  <2>3. CASE ~Read
    BY <1>3, <2>3 DEF Assign, getItems, Clear, AddAll, Show, session, model
  <2>4. QED
    BY <2>2, <2>3
<1>5. active' \in Control
  BY <1>3 DEF Read, Assign, getItems, Clear, AddAll, Show, model
<1>6. items' \in Cards \union {NoItems}
  <2>1. CASE AddAll
    <3>1. got \in Control
      BY <1>1, <2>1 DEF Goto, IInv, Exclusive
    <3>2. QED
      BY <2>1, <3>1 DEF AddAll, Control
  <2>2. CASE ~AddAll
    BY <1>3, <2>2 DEF Read, Assign, getItems, Clear, Show, session
  <2>3. QED
    BY <2>1, <2>2
<1>7. to \in {"clearing", "adding"} => got' \in Control
  <2>1. CASE to = "clearing"
    BY <1>1, <1>3, <2>1 DEF getItems
  <2>2. CASE to = "adding"
    BY <1>1, <2>2 DEF Clear, Goto, IInv, Exclusive
  <2>3. QED
    BY <2>1, <2>2
<1>8. Exclusive' /\ BackedUp'
  BY <1>1, <1>2, <1>7, GotoStep
<1>9. Values'
  BY <1>1, <1>2, <1>3, <1>4, <1>5, <1>6 DEF Goto, IInv, Values
<1>10. QED
  BY <1>8, <1>9 DEF IInv

LEMMA StartStep ==
  ASSUME IInv,
         \/ StartWindow
         \/ \E show \in Visibility, cards \in Cards : StartCommand(show, cards)
  PROVE  IInv'
<1> Loader \in Threads /\ Exiter \in Threads
  BY DEF Threads
<1>1. PICK t \in Threads, to \in {"reading", "checking"} : pc' = [pc EXCEPT ![t] = to]
  BY DEF StartWindow, StartCommand
<1>2. /\ UNCHANGED <<file, backup, image, writer, lost, got, items>>
      /\ mode = "down" /\ mode' # "down"
  BY DEF StartWindow, StartCommand, Begin, session, locks
<1>3. pc[t] = "idle"
  BY <1>2 DEF IInv, Exclusive, AtRest
<1>4. Exclusive' /\ BackedUp'
  BY <1>1, <1>2, <1>3, Elsewhere
<1>5. active' \in Control
  <2>1. CASE StartWindow
    BY <2>1, DefaultType DEF StartWindow
  <2>2. CASE \E show \in Visibility, cards \in Cards : StartCommand(show, cards)
    BY <2>2 DEF StartCommand, Control
  <2>3. QED
    BY <2>1, <2>2
<1>6. Values'
  BY <1>1, <1>2, <1>5 DEF IInv, Values
<1>7. QED
  BY <1>4, <1>6 DEF IInv

LEMMA EndStep ==
  ASSUME IInv, Crash \/ Stop(Exiter)
  PROVE  IInv'
<1>1. Down /\ UNCHANGED <<file, backup>> /\ active' \in {active, Default}
  BY DEF Crash, Stop
<1>2. active' \in Control /\ file \in Content /\ backup \in Content
  BY <1>1, DefaultType DEF IInv, Values
<1>3. file = Missing => backup = Missing
  BY DEF IInv, BackedUp
<1>4. QED
  BY <1>1, <1>2, <1>3, DownStep

-----------------------------------------------------------------------------
(* The steps of save() *)

LEMMA BackupStep ==
  ASSUME IInv, NEW t \in Users, Backup(t)
  PROVE  IInv'
<1> t \in Threads /\ Loader \in Threads /\ t # Loader
  BY ThreadsAssumption DEF Threads, Users
<1>1. /\ writer = Nothing /\ writer' = t
      /\ pc[t] = "saving" /\ pc' = [pc EXCEPT ![t] = "opening"]
      /\ image' = active
      /\ UNCHANGED <<file, mode, active, got, items>>
  BY DEF Backup, Goto, session
<1>2. \/ /\ backup' = IF file = Missing THEN backup ELSE file
         /\ lost' = (lost \/ file \in Broken)
      \/ file # Missing /\ backup' \in {backup, Empty, Part} /\ lost' = TRUE
  BY DEF Backup
<1>3. active \in Control /\ file \in Content /\ backup \in Content
      /\ (file = Missing => backup = Missing)
  BY DEF IInv, Values, BackedUp
<1>4. \A s \in Threads : pc'[s] = IF s = t THEN "opening" ELSE pc[s]
  BY <1>1 DEF IInv, Values
<1>5. \A s \in Threads : pc[s] \notin {"opening", "writing", "copying"}
  BY <1>1, Nulls DEF IInv, Exclusive
<1>6. Values'
  BY <1>1, <1>2, <1>3 DEF IInv, Values, Content
<1>7. Exclusive'
  <2>1. mode # "down"
    BY <1>1 DEF IInv, Exclusive, AtRest
  <2>2. QED
    BY <1>1, <1>3, <1>4, <1>5, <2>1 DEF IInv, Exclusive
<1>8. BackedUp'
  <2>1. (\A s \in Threads : pc[s] = "opening" /\ ~lost => backup = file /\ file \notin Broken)'
    BY <1>1, <1>2, <1>3, <1>4, <1>5
  <2>2. (\A s \in Threads : pc[s] = "writing" => file = Empty)'
    BY <1>4, <1>5
  <2>3. (file = Missing => backup = Missing)'
    BY <1>1, <1>2, <1>3
  <2>4. QED
    BY <2>1, <2>2, <2>3 DEF BackedUp
<1>9. QED
  BY <1>6, <1>7, <1>8 DEF IInv

LEMMA OneWriter ==
  ASSUME IInv, NEW t \in Threads, pc[t] \in {"opening", "writing", "copying"}
  PROVE  /\ \A s \in Threads \ {t} : pc[s] \notin {"opening", "writing", "copying"}
         /\ mode # "down"
         /\ t # Loader => (pc[Loader] \in {"clearing", "adding"} => got \in Control)
         /\ pc[t] = "copying" => image = Nothing
<1>1. \A s \in Threads \ {t} : pc[s] \notin {"opening", "writing", "copying"}
  BY DEF IInv, Exclusive
<1>2. mode # "down"
  BY DEF IInv, Exclusive, AtRest
<1>3. QED
  BY <1>1, <1>2 DEF IInv, Exclusive

\* The end of save(), whether it returns or throws.
LEMMA LeaveSave ==
  ASSUME IInv, NEW t \in Users, pc[t] \in {"opening", "writing", "copying"},
         NEW to \in {"leaving", "ending", "stopping"},
         pc' = [pc EXCEPT ![t] = to],
         image' = Nothing,
         UNCHANGED <<mode, active, got, items, backup>>,
         file' \in Content, file' = Missing => backup = Missing
  PROVE  IInv'
<1> t \in Threads /\ Loader \in Threads /\ t # Loader
  BY ThreadsAssumption DEF Threads, Users
<1>1. \A s \in Threads : pc'[s] = IF s = t THEN to ELSE pc[s]
  BY DEF IInv, Values
<1>2. \A s \in Threads : pc'[s] \notin {"opening", "writing", "copying"}
  BY <1>1, OneWriter
<1>3. Values'
  BY DEF IInv, Values
<1>4. Exclusive'
  <2>1. mode' # "down"
    BY OneWriter
  <2>2. (pc[Loader] \in {"clearing", "adding"} => got \in Control)'
    BY <1>1 DEF IInv, Exclusive
  <2>3. QED
    BY <1>2, <2>1, <2>2 DEF Exclusive
<1>5. BackedUp'
  BY <1>2 DEF BackedUp
<1>6. QED
  BY <1>3, <1>4, <1>5 DEF IInv

LEMMA ThrowStep ==
  ASSUME IInv, NEW t \in Users, pc[t] \in {"opening", "writing"}, Throws(t),
         UNCHANGED <<active, backup>>,
         file' \in Content, file' = Missing => backup = Missing
  PROVE  IInv'
<1>1. active' \in Control /\ backup' \in Content
  BY DEF IInv, Values
<1>2. CASE mode = "command"
  <2>1. Down
    BY <1>2 DEF Throws
  <2>2. QED
    BY <1>1, <2>1, DownStep
<1>3. CASE mode # "command"
  <2>1. PICK to \in {"leaving", "ending"} : pc' = [pc EXCEPT ![t] = to]
    BY <1>3 DEF Throws
  <2>2. image' = Nothing /\ UNCHANGED <<mode, got, items>>
    BY <1>3 DEF Throws, session
  <2>3. QED
    BY <2>1, <2>2, LeaveSave
<1>4. QED
  BY <1>2, <1>3

\* What a step of save() that succeeds does to the rest.
LEMMA GoOnStep ==
  ASSUME IInv, NEW t \in Users, NEW to,
         \/ pc[t] = "opening" /\ to = "writing" /\ file' = Empty /\ image' = image
         \/ pc[t] = "writing" /\ to = "copying" /\ file' = image /\ image' = Nothing,
         pc' = [pc EXCEPT ![t] = to],
         UNCHANGED <<mode, active, got, items, backup, writer>>
  PROVE  IInv'
<1> t \in Threads /\ Loader \in Threads /\ t # Loader
  BY ThreadsAssumption DEF Threads, Users
<1>1. \A s \in Threads : pc'[s] = IF s = t THEN to ELSE pc[s]
  BY DEF IInv, Values
<1>2. \A s \in Threads \ {t} : pc'[s] \notin {"opening", "writing", "copying"}
  BY <1>1, OneWriter
<1>3. image \in Control /\ writer = t
  BY DEF IInv, Exclusive
<1>4. Values'
  BY <1>3 DEF IInv, Values, Content
<1>5. Exclusive'
  <2>1. mode' # "down"
    BY OneWriter
  <2>2. (pc[Loader] \in {"clearing", "adding"} => got \in Control)'
    BY <1>1 DEF IInv, Exclusive
  <2>3. (\A s \in Threads : pc[s] \in {"opening", "writing", "copying"} => writer = s)'
    BY <1>2, <1>3
  <2>4. (\A s \in Threads : pc[s] \in {"opening", "writing"} => image \in Control)'
    BY <1>1, <1>2, <1>3
  <2>5. (image # Nothing => \E s \in Threads : pc[s] \in {"opening", "writing"})'
    BY <1>1
  <2>6. QED
    BY <2>1, <2>2, <2>3, <2>4, <2>5 DEF Exclusive
<1>6. BackedUp'
  BY <1>1, <1>2, <1>3, NullAssumption DEF BackedUp
<1>7. QED
  BY <1>4, <1>5, <1>6 DEF IInv

LEMMA OpenStep ==
  ASSUME IInv, NEW t \in Users, Open(t)
  PROVE  IInv'
<1>1. pc[t] = "opening" /\ UNCHANGED <<active, backup>>
  BY DEF Open
<1>2. CASE Goto(t, "opening", "writing") /\ file' = Empty
           /\ UNCHANGED <<mode, image, session, locks>>
  BY <1>1, <1>2, GoOnStep DEF Goto, session, locks
<1>3. CASE Throws(t) /\ UNCHANGED file
  BY <1>1, <1>3, ThrowStep DEF IInv, Values, BackedUp
<1>4. QED
  BY <1>2, <1>3 DEF Open

LEMMA WriteStep ==
  ASSUME IInv, NEW t \in Users, Write(t)
  PROVE  IInv'
<1>1. pc[t] = "writing" /\ UNCHANGED <<active, backup>>
  BY DEF Write
<1>2. CASE Goto(t, "writing", "copying") /\ file' = image /\ image' = Nothing
           /\ UNCHANGED <<mode, session, locks>>
  BY <1>1, <1>2, GoOnStep DEF Goto, session, locks
<1>3. CASE Throws(t) /\ file' \in Broken
  BY <1>1, <1>3, ThrowStep, Nulls DEF Broken, Content
<1>4. QED
  BY <1>2, <1>3 DEF Write

LEMMA CopyOfStep ==
  ASSUME IInv, NEW t \in Users, CopyOf(t)
  PROVE  IInv'
<1> t \in Threads
  BY DEF Threads, Users
<1>1. PICK to \in {"leaving", "stopping"} :
        pc[t] = "copying" /\ pc' = [pc EXCEPT ![t] = to]
  BY DEF CopyOf, Goto
<1>2. UNCHANGED <<file, backup, mode, active, image, got, items>>
  BY DEF CopyOf, session
<1>3. image' = Nothing
  BY <1>1, <1>2, OneWriter
<1>4. QED
  BY <1>1, <1>2, <1>3, LeaveSave DEF IInv, Values, BackedUp

LEMMA NextStep ==
  ASSUME IInv, Next
  PROVE  IInv'
<1>1. CASE \E t \in Users :
             Backup(t) \/ Open(t) \/ Write(t) \/ CopyOf(t)
  BY <1>1, BackupStep, OpenStep, WriteStep, CopyOfStep
<1>2. CASE \/ \E t \in Users : Disable(t) \/ ReplaceItems(t) \/ Check(t) \/ Enable(t)
           \/ \E t \in Savers : Leave(t)
           \/ Answer(Exiter)
  BY <1>2, ActionStep DEF Users
<1>3. CASE \/ \E t \in Savers :
                \/ \E show \in Visibility : SetVisibility(t, show)
                \/ \E c \in Chips, f \in Files : ToggleActiveFile(t, c, f)
           \/ \E t \in Threads : Command(t)
  BY <1>3, SettingStep, CommandStep DEF Threads
<1>4. CASE Read \/ Assign \/ getItems \/ Clear \/ AddAll \/ Show
  BY <1>4, ReloadStep
<1>5. CASE \/ StartWindow
           \/ \E show \in Visibility, cards \in Cards : StartCommand(show, cards)
  BY <1>5, StartStep
<1>6. CASE Crash \/ Stop(Exiter)
  BY <1>6, EndStep
<1>7. QED
  BY <1>1, <1>2, <1>3, <1>4, <1>5, <1>6 DEF Next, Users

LEMMA Stutter ==
  ASSUME IInv, UNCHANGED vars
  PROVE  IInv'
  BY DEF IInv, Values, Exclusive, BackedUp, AtRest, vars, model, session, locks, history

\* At most one thread is in save(), and while it is the backup holds what the file held
\* before it was opened (ControlModel.java:222-263, the monitor of its model).
THEOREM SaveInvariant == Spec => []IInv
<1>1. Init => IInv
  BY InitIInv
<1>2. IInv /\ [Next]_vars => IInv'
  BY NextStep, Stutter
<1>3. QED
  BY <1>1, <1>2, PTL DEF Spec

-----------------------------------------------------------------------------
(* Saving is atomic. *)

LEMMA Mapped ==
  ASSUME IInv
  PROVE  /\ active \in Control /\ image \in Control \union {Nothing}
         /\ Readable \in Control \union {Missing}
  BY DEF IInv, Values, Exclusive, Readable

LEMMA MappedAfter ==
  ASSUME IInv'
  PROVE  /\ active' \in Control /\ image' \in Control \union {Nothing}
         /\ Readable' \in Control \union {Missing}
  BY DEF IInv, Values, Exclusive, Readable

LEMMA InitAtomic == Init => Atomic!Init
<1> SUFFICES ASSUME Init PROVE Atomic!Init
  OBVIOUS
<1>1. IInv
  BY InitIInv
<1>2. QED
  BY <1>1, Mapped DEF Init, Atomic!Init

\* Only the backup tells whether the control is lost.
LEMMA LostStep ==
  ASSUME Next
  PROVE  lost' = lost \/ (lost' \in BOOLEAN /\ \E t \in Users : Backup(t))
<1>1. CASE \E t \in Users : Backup(t)
  BY <1>1, Zenon DEF Backup
<1>2. CASE \E t \in Users : Open(t) \/ Write(t) \/ CopyOf(t)
  BY <1>2 DEF Open, Write, CopyOf
<1>3. CASE \/ \E t \in Users : Disable(t) \/ ReplaceItems(t) \/ Check(t) \/ Enable(t)
           \/ \E t \in Savers : Leave(t)
           \/ Answer(Exiter)
  BY <1>3 DEF Disable, ReplaceItems, Check, Answer, Leave, Enable, history
<1>4. CASE \/ \E t \in Savers :
                \/ \E show \in Visibility : SetVisibility(t, show)
                \/ \E c \in Chips, f \in Files : ToggleActiveFile(t, c, f)
           \/ \E t \in Threads : Command(t)
  BY <1>4 DEF SetVisibility, ToggleActiveFile, Command, history
<1>5. CASE Read \/ Assign \/ getItems \/ Clear \/ AddAll \/ Show
  BY <1>5 DEF Read, Assign, getItems, Clear, AddAll, Show, history
<1>6. CASE \/ StartWindow \/ Crash \/ Stop(Exiter)
           \/ \E show \in Visibility, cards \in Cards : StartCommand(show, cards)
  BY <1>6 DEF StartWindow, StartCommand, Begin, Crash, Stop
<1>7. QED
  BY <1>1, <1>2, <1>3, <1>4, <1>5, <1>6 DEF Next, Users

\* The steps that leave the files alone, and the image too or end with it.
LEMMA QuietStep ==
  ASSUME IInv', UNCHANGED <<file, backup, lost>>, image' \in {image, Nothing}
  PROVE  Atomic!Next
<1>1. Readable' = Readable /\ active' \in Control
  BY MappedAfter DEF Readable
<1>2. CASE image' = image
  BY <1>1, <1>2 DEF Atomic!Next, Atomic!Change
<1>3. CASE image' = Nothing
  BY <1>1, <1>3 DEF Atomic!Next, Atomic!Drop
<1>4. QED
  BY <1>2, <1>3

LEMMA BackupAtomic ==
  ASSUME IInv, NEW t \in Users, Backup(t), lost \in BOOLEAN, ~lost'
  PROVE  Atomic!Next
<1>1. /\ backup' = IF file = Missing THEN backup ELSE file
      /\ lost' = (lost \/ file \in Broken)
  BY DEF Backup
<1>2. image' = active /\ UNCHANGED <<file, active>>
  BY DEF Backup
<1>3. lost' = lost /\ file \notin Broken
  BY <1>1, Zenon
<1>4. Readable' = Readable
  BY <1>1, <1>2, <1>3 DEF Readable
<1>5. QED
  BY <1>2, <1>3, <1>4 DEF Atomic!Next, Atomic!Take

LEMMA ThrowsImage ==
  ASSUME NEW t, Throws(t) PROVE image' = Nothing
  BY DEF Throws, Down

LEMMA OpenAtomic ==
  ASSUME IInv, IInv', NEW t \in Users, Open(t), ~lost
  PROVE  Atomic!Next
<1> t \in Threads
  BY DEF Threads, Users
<1>1. lost' = lost /\ backup' = backup /\ pc[t] = "opening"
  BY DEF Open
<1>2. CASE file' = Empty /\ image' = image
  <2>1. backup = file /\ file \notin Broken /\ file \in Content
    BY <1>1 DEF IInv, Values, BackedUp
  <2>2. file \in Control \union {Missing}
    BY <2>1 DEF Content, Broken
  <2>3. Readable' = Readable
    BY <1>1, <1>2, <2>1, <2>2, Nulls DEF Readable, Broken
  <2>4. QED
    BY <1>1, <1>2, <2>3, MappedAfter DEF Atomic!Next, Atomic!Change
<1>3. CASE Throws(t) /\ UNCHANGED file
  BY <1>1, <1>3, ThrowsImage, QuietStep
<1>4. QED
  BY <1>2, <1>3 DEF Open

LEMMA WriteAtomic ==
  ASSUME IInv, IInv', NEW t \in Users, Write(t)
  PROVE  Atomic!Next
<1> t \in Threads
  BY DEF Threads, Users
<1>1. lost' = lost /\ backup' = backup /\ active' = active /\ pc[t] = "writing"
  BY DEF Write
<1>2. file = Empty /\ image \in Control
  BY <1>1 DEF IInv, BackedUp, Exclusive
<1>3. CASE file' = image /\ image' = Nothing
  <2>1. Readable' = image /\ image # Nothing
    BY <1>2, <1>3, Nulls DEF Readable, Broken
  <2>2. QED
    BY <1>1, <1>3, <2>1 DEF Atomic!Next, Atomic!Store
<1>4. CASE Throws(t) /\ file' \in Broken
  <2>1. Readable' = Readable
    BY <1>1, <1>2, <1>4, Nulls DEF Readable, Broken
  <2>2. QED
    BY <1>1, <1>4, <2>1, ThrowsImage, MappedAfter DEF Atomic!Next, Atomic!Drop
<1>5. QED
  BY <1>3, <1>4 DEF Write

LEMMA QuietSteps ==
  ASSUME IInv, IInv', Next, \A t \in Users : ~(Backup(t) \/ Open(t) \/ Write(t))
  PROVE  UNCHANGED <<file, backup>> /\ image' \in {image, Nothing}
<1>1. CASE \E t \in Users : CopyOf(t) \/ Disable(t) \/ ReplaceItems(t) \/ Check(t) \/ Enable(t)
  BY <1>1 DEF CopyOf, Disable, ReplaceItems, Check, Enable, model
<1>2. CASE \/ \E t \in Savers :
                \/ \E show \in Visibility : SetVisibility(t, show)
                \/ \E c \in Chips, f \in Files : ToggleActiveFile(t, c, f)
                \/ Leave(t)
           \/ \E t \in Threads : Command(t)
           \/ Answer(Exiter)
  BY <1>2 DEF SetVisibility, ToggleActiveFile, Command, Leave, Answer, model
<1>3. CASE Read \/ Assign \/ getItems \/ Clear \/ AddAll \/ Show
  BY <1>3 DEF Read, Assign, getItems, Clear, AddAll, Show, model
<1>4. CASE \/ StartWindow \/ Crash \/ Stop(Exiter)
           \/ \E show \in Visibility, cards \in Cards : StartCommand(show, cards)
  BY <1>4 DEF StartWindow, StartCommand, Begin, Crash, Stop, Down
<1>5. QED
  BY <1>1, <1>2, <1>3, <1>4 DEF Next, Users

LEMMA AtomicStep ==
  ASSUME IInv, IInv', lost \in BOOLEAN, Next
  PROVE  Atomic!Next
<1>1. CASE lost'
  BY <1>1, MappedAfter DEF Atomic!Next, Atomic!Lose
<1>2. CASE ~lost'
  <2>1. CASE \E t \in Users : Backup(t)
    BY <1>2, <2>1, BackupAtomic
  <2>2. CASE \A t \in Users : ~Backup(t)
    <3>1. lost' = lost
      BY <2>2, LostStep
    <3>2. CASE \E t \in Users : Open(t)
      BY <1>2, <3>1, <3>2, OpenAtomic
    <3>3. CASE \E t \in Users : Write(t)
      BY <3>3, WriteAtomic
    <3>4. CASE \A t \in Users : ~(Backup(t) \/ Open(t) \/ Write(t))
      BY <3>1, <3>4, QuietSteps, QuietStep
    <3>5. QED
      BY <2>2, <3>2, <3>3, <3>4
  <2>3. QED
    BY <2>1, <2>2
<1>3. QED
  BY <1>1, <1>2

LEMMA LostType == Spec => [](lost \in BOOLEAN)
<1>1. Init => lost \in BOOLEAN
  BY DEF Init
<1>2. lost \in BOOLEAN /\ [Next]_vars => (lost \in BOOLEAN)'
  BY LostStep DEF vars, history
<1>3. QED
  BY <1>1, <1>2, PTL DEF Spec

\* What can be read back of the file or of its backup after a crash is replaced by what a
\* save has taken in one step or not at all (ControlModel.java:222-263), for any threads,
\* settings, chips and files, however many writes fail.
THEOREM Refinement == Spec => ImplementsAtomicSave
<1>1. Init => Atomic!Init
  BY InitAtomic
<1>2. IInv /\ IInv' /\ lost \in BOOLEAN /\ [Next]_vars => [Atomic!Next]_(Atomic!vars)
  <2>1. CASE Next
    BY <2>1, AtomicStep
  <2>2. CASE UNCHANGED vars
    BY <2>2 DEF vars, model, history, Atomic!vars, Readable
  <2>3. QED
    BY <2>1, <2>2
<1>3. QED
  BY <1>1, <1>2, SaveInvariant, LostType, PTL DEF Spec, ImplementsAtomicSave, Atomic!Spec

-----------------------------------------------------------------------------
(* Types *)

Places == {"idle", "starting", "waiting", "checking", "asking", "saving",
           "opening", "writing", "copying", "leaving", "ending",
           "stopping", "reading", "assigning", "getting", "clearing",
           "adding", "showing"}
Causes == {"none", "overtaken", "too early", "old tree", "cleared", "concurrent",
           "default", "killed", "declined", "reloaded"}

\* The types that saving does not depend on.
OtherTypes ==
  /\ mode \in {"down", "gui", "command"}
  /\ original \in Control
  /\ loaded \in BOOLEAN /\ enabled \in BOOLEAN /\ lost \in BOOLEAN /\ failed \in BOOLEAN
  /\ tree \in {"empty", "current", "old"}
  /\ saving \in Savers \union {Nothing}
  /\ writer \in Threads \union {Nothing}
  /\ pc \in [Threads -> Places]
  /\ wanted \in Control \union {Nothing}
  /\ cause \in Causes
  /\ events \in 0..MaxEvents

\* What the tree shows is there.
Shown ==
  /\ tree = "current" => items \in Cards /\ pc[Loader] \notin {"clearing", "adding"}
  /\ pc[Loader] = "showing" => items \in Cards

LEMMA WantsType ==
  ASSUME NEW w, NEW c, NEW lossy, Wants(w, c, lossy)
  PROVE  wanted' \in {w, Nothing} /\ cause' \in {c, cause}
  BY DEF Wants

\* The steps of other threads leave the tree alone.
LEMMA ShownStays ==
  ASSUME Shown, NEW t \in Threads \ {Loader}, NEW to, pc \in [Threads -> Places],
         pc' = [pc EXCEPT ![t] = to],
         UNCHANGED <<items, tree>>
  PROVE  Shown'
<1>1. pc'[Loader] = pc[Loader]
  OBVIOUS
<1>2. QED
  BY <1>1 DEF Shown

LEMMA GotoType ==
  ASSUME NEW t \in Threads, NEW from, NEW to \in Places, pc \in [Threads -> Places],
         Goto(t, from, to)
  PROVE  pc' \in [Threads -> Places]
  BY DEF Goto

LEMMA EventType ==
  ASSUME events \in 0..MaxEvents, Event
  PROVE  events' \in 0..MaxEvents
  BY BoundsAssumption DEF Event

LEMMA DownType ==
  ASSUME Down
  PROVE  /\ mode' = "down" /\ pc' \in [Threads -> Places]
         /\ saving' = Nothing /\ writer' = Nothing /\ loaded' = FALSE
         /\ tree' = "empty" /\ enabled' = TRUE
  BY DEF Down, Places

LEMMA ThrowsType ==
  ASSUME OtherTypes, NEW t \in Threads, Throws(t)
  PROVE  /\ mode' \in {"down", "gui", "command"} /\ pc' \in [Threads -> Places]
         /\ saving' \in Savers \union {Nothing} /\ writer' \in Threads \union {Nothing}
         /\ loaded' \in BOOLEAN /\ enabled' \in BOOLEAN
         /\ tree' \in {"empty", "current", "old"}
<1>1. CASE mode = "command"
  BY <1>1, DownType DEF Throws
<1>2. CASE mode # "command"
  <2>1. pc' \in [Threads -> Places]
    BY <1>2 DEF Throws, OtherTypes, Places
  <2>2. QED
    BY <1>2, <2>1 DEF Throws, OtherTypes, session
<1>3. QED
  BY <1>1, <1>2

LEMMA SaveTypes ==
  ASSUME IInv, OtherTypes, NEW t \in Users,
         Backup(t) \/ Open(t) \/ Write(t) \/ CopyOf(t)
  PROVE  OtherTypes'
<1> t \in Threads
  BY DEF Threads, Users
<1>1. CASE Backup(t)
  <2>1. pc' \in [Threads -> Places]
    BY <1>1, GotoType DEF Backup, OtherTypes, Places
  <2>2. events' \in 0..MaxEvents /\ failed' \in BOOLEAN
    BY <1>1, EventType DEF Backup, Fails, OtherTypes
  <2>3. lost' \in BOOLEAN
    BY <1>1, Zenon DEF Backup, OtherTypes
  <2>4. QED
    BY <1>1, <2>1, <2>2, <2>3 DEF Backup, OtherTypes, session
<1>2. CASE Open(t) \/ Write(t)
  <2>1. events' \in 0..MaxEvents /\ failed' \in BOOLEAN
    BY <1>2, EventType DEF Open, Write, Fails, OtherTypes
  <2>2. UNCHANGED <<original, wanted, cause, lost>>
    BY <1>2 DEF Open, Write
  <2>3. CASE Throws(t)
    BY <2>1, <2>2, <2>3, ThrowsType DEF OtherTypes
  <2>4. CASE /\ Goto(t, "opening", "writing") \/ Goto(t, "writing", "copying")
             /\ UNCHANGED <<mode, session, enabled, locks>>
    <3>1. pc' \in [Threads -> Places]
      BY <2>4, GotoType DEF OtherTypes, Places
    <3>2. QED
      BY <2>1, <2>2, <2>4, <3>1 DEF OtherTypes, session, locks
  <2>5. QED
    BY <1>2, <2>3, <2>4 DEF Open, Write
<1>3. CASE CopyOf(t)
  <2>1. pc' \in [Threads -> Places]
    BY <1>3, GotoType DEF CopyOf, OtherTypes, Places
  <2>2. wanted' \in Control \union {Nothing} /\ cause' \in Causes
    BY <1>3 DEF CopyOf, Wants, OtherTypes, Causes
  <2>3. original' \in Control
    BY <1>3 DEF CopyOf, IInv, Values
  <2>4. QED
    BY <1>3, <2>1, <2>2, <2>3 DEF CopyOf, OtherTypes, session
<1>4. QED
  BY <1>1, <1>2, <1>3

LEMMA ActionTypes ==
  ASSUME OtherTypes, NEW t \in Users,
         Disable(t) \/ ReplaceItems(t) \/ Check(t) \/ Answer(t) \/ Leave(t) \/ Enable(t)
  PROVE  OtherTypes'
<1> t \in Threads
  BY DEF Threads, Users
<1>1. pc' \in [Threads -> Places]
  <2>1. PICK from, to : Goto(t, from, to) /\ to \in Places
    BY DEF Disable, ReplaceItems, Check, Answer, Leave, Enable, Places
  <2>2. QED
    BY <2>1, GotoType DEF OtherTypes
<1>2. wanted' \in Control \union {Nothing} /\ cause' \in Causes
  <2>1. CASE Disable(t) \/ Leave(t) \/ Enable(t)
    BY <2>1 DEF Disable, Leave, Enable, history, OtherTypes
  <2>2. CASE ReplaceItems(t)
    <3>1. wanted' \in {wanted, Nothing} /\ cause' \in {"cleared", "concurrent", cause}
      BY <2>2, WantsType DEF ReplaceItems
    <3>2. QED
      BY <3>1 DEF OtherTypes, Causes
  <2>3. CASE Check(t)
    <3>1. wanted' \in {wanted, Nothing} /\ cause' \in {"default", cause}
      BY <2>3, WantsType DEF Check
    <3>2. QED
      BY <3>1 DEF OtherTypes, Causes
  <2>4. CASE Answer(t)
    <3>1. wanted' \in {wanted, Nothing} /\ cause' \in {"declined", cause}
      BY <2>4, WantsType DEF Answer
    <3>2. QED
      BY <3>1 DEF OtherTypes, Causes
  <2>5. QED
    BY <2>1, <2>2, <2>3, <2>4
<1>3. saving' \in Savers \union {Nothing}
  BY DEF Disable, ReplaceItems, Check, Answer, Leave, Enable, locks, OtherTypes
<1>4. UNCHANGED <<mode, original, loaded, tree, writer, lost, failed, events>>
      /\ enabled' \in {enabled, TRUE, FALSE}
  BY DEF Disable, ReplaceItems, Check, Answer, Leave, Enable, model, session, locks, history
<1>5. QED
  BY <1>1, <1>2, <1>3, <1>4 DEF OtherTypes

LEMMA ClickTypes ==
  ASSUME IInv, IInv', OtherTypes, Shown, NEW t \in Threads,
         \/ t \in Savers /\ \E show \in Visibility : SetVisibility(t, show)
         \/ t \in Savers /\ \E c \in Chips, f \in Files : ToggleActiveFile(t, c, f)
         \/ Command(t)
  PROVE  OtherTypes'
<1>1. Click(t)
  BY DEF SetVisibility, ToggleActiveFile, Command
<1>2. pc' \in [Threads -> Places] /\ events' \in 0..MaxEvents
  BY <1>1, GotoType, EventType DEF Click, OtherTypes, Places
<1>3. wanted' \in Control \union {Nothing} /\ cause' \in Causes
  <2> DEFINE shown == IF wanted = Nothing THEN active ELSE wanted
  <2>1. shown \in Control
    BY DEF IInv, Values, OtherTypes
  <2>2. CASE \E show \in Visibility : SetVisibility(t, show)
    <3>1. PICK show \in Visibility : SetVisibility(t, show)
      BY <2>2
    <3>2. [shown EXCEPT !.show = show] \in Control
      BY <2>1 DEF Control
    <3>3. /\ wanted' \in {[shown EXCEPT !.show = show], Nothing}
          /\ cause' \in {"too early", cause}
      BY <3>1, WantsType DEF SetVisibility
    <3>4. QED
      BY <3>2, <3>3 DEF OtherTypes, Causes
  <2>3. CASE \E c \in Chips, f \in Files : ToggleActiveFile(t, c, f)
    <3>1. PICK c \in Chips, f \in Files : ToggleActiveFile(t, c, f)
      BY <2>3
    <3>2. CASE Wants(wanted, "old tree", TRUE)
      BY <3>2 DEF Wants, OtherTypes, Causes
    <3>3. CASE /\ tree = "current"
               /\ items' = [items EXCEPT ![c] = IF @ = f THEN NoFile ELSE f]
               /\ Wants([shown EXCEPT !.cards[c] = items'[c]], "none", FALSE)
      <4>1. items'[c] \in Files \union {NoFile}
        <5>1. items \in Cards
          BY <3>3 DEF Shown
        <5>2. QED
          BY <3>3, <5>1 DEF Cards
      <4>2. [shown EXCEPT !.cards[c] = items'[c]] \in Control
        BY <2>1, <4>1 DEF Control, Cards
      <4>3. QED
        BY <3>3, <4>2 DEF Wants, OtherTypes, Causes
    <3>4. QED
      BY <3>1, <3>2, <3>3 DEF ToggleActiveFile
  <2>4. CASE Command(t)
    BY <2>4 DEF Command, history, OtherTypes
  <2>5. QED
    BY <2>2, <2>3, <2>4
<1>4. UNCHANGED <<mode, original, loaded, tree, enabled, saving, writer, lost, failed>>
  BY DEF SetVisibility, ToggleActiveFile, Command, model, session, locks, history
<1>5. QED
  BY <1>2, <1>3, <1>4 DEF OtherTypes

LEMMA ReloadTypes ==
  ASSUME IInv', OtherTypes, Read \/ Assign \/ getItems \/ Clear \/ AddAll \/ Show
  PROVE  OtherTypes'
<1> Loader \in Threads
  BY DEF Threads
<1>1. pc' \in [Threads -> Places]
  <2>1. PICK from, to : Goto(Loader, from, to) /\ to \in Places
    BY DEF Read, Assign, getItems, Clear, AddAll, Show, Goto, Places
  <2>2. QED
    BY <2>1, GotoType DEF OtherTypes
<1>2. wanted' \in Control \union {Nothing} /\ cause' \in Causes
  <2>1. \/ UNCHANGED <<wanted, cause>>
        \/ wanted' \in {wanted, Nothing} /\ cause' \in {"reloaded", cause}
    BY WantsType DEF Read, Assign, getItems, Clear, AddAll, Show, history
  <2>2. QED
    BY <2>1 DEF OtherTypes, Causes
<1>3. original' \in Control
  <2>1. original' \in {original, active'}
    BY DEF Read, Assign, getItems, Clear, AddAll, Show, model
  <2>2. QED
    BY <2>1 DEF OtherTypes, IInv, Values
<1>4. /\ UNCHANGED <<mode, enabled, saving, writer, lost, failed, events>>
      /\ tree' \in {tree, "empty", "old", "current"} /\ loaded' \in {loaded, TRUE}
  BY DEF Read, Assign, getItems, Clear, AddAll, Show, model, session, locks, history
<1>5. QED
  BY <1>1, <1>2, <1>3, <1>4 DEF OtherTypes

LEMMA StartTypes ==
  ASSUME OtherTypes,
         \/ StartWindow
         \/ \E show \in Visibility, cards \in Cards : StartCommand(show, cards)
  PROVE  OtherTypes'
<1>1. pc' \in [Threads -> Places]
  BY DEF StartWindow, StartCommand, OtherTypes, Places
<1>2. Begin /\ mode' \in {"gui", "command"}
  BY DEF StartWindow, StartCommand
<1>3. events' \in 0..MaxEvents
  BY <1>2, EventType DEF Begin, OtherTypes
<1>4. wanted' \in Control \union {Nothing} /\ original' \in Control
  BY DefaultType DEF StartWindow, StartCommand, Control
<1>5. QED
  BY <1>1, <1>2, <1>3, <1>4 DEF Begin, OtherTypes, session, locks, Causes

LEMMA EndTypes ==
  ASSUME OtherTypes, Crash \/ Stop(Exiter)
  PROVE  OtherTypes'
<1>1. Down /\ UNCHANGED <<lost, failed, events>> /\ original' \in {original, Default}
  BY DEF Crash, Stop
<1>2. wanted' \in Control \union {Nothing} /\ cause' \in Causes
  <2>1. CASE Crash
    BY <2>1 DEF Crash, OtherTypes
  <2>2. CASE Stop(Exiter)
    <3>1. wanted' \in {wanted, Nothing} /\ cause' \in {"killed", cause}
      BY <2>2, WantsType DEF Stop
    <3>2. QED
      BY <3>1 DEF OtherTypes, Causes
  <2>3. QED
    BY <2>1, <2>2
<1>3. QED
  BY <1>1, <1>2, DownType, DefaultType DEF OtherTypes

LEMMA ShownStep ==
  ASSUME IInv, OtherTypes, Shown, [Next]_vars
  PROVE  Shown'
<1> Loader \in Threads /\ Users \subseteq Threads \ {Loader}
  BY ThreadsAssumption DEF Threads, Users
<1> pc \in [Threads -> Places]
  BY DEF OtherTypes
<1>1. CASE \E t \in Users : Open(t) \/ Write(t)
  <2>1. PICK t \in Users : Open(t) \/ Write(t)
    BY <1>1
  <2>2. CASE Throws(t)
    <3>1. CASE mode = "command"
      BY <2>2, <3>1 DEF Throws, Down, Shown
    <3>2. CASE mode # "command"
      BY <2>2, <3>2, ShownStays DEF Throws, session
    <3>3. QED
      BY <3>1, <3>2
  <2>3. CASE ~Throws(t)
    BY <2>1, <2>3, ShownStays DEF Open, Write, Goto, session
  <2>4. QED
    BY <2>2, <2>3
<1>2. CASE \E t \in Users :
             \/ Backup(t) \/ CopyOf(t) \/ Disable(t) \/ ReplaceItems(t)
             \/ Check(t) \/ Answer(t) \/ Leave(t) \/ Enable(t)
  <2>1. PICK t, from, to :
          t \in Users /\ Goto(t, from, to) /\ UNCHANGED <<items, tree>>
    BY <1>2 DEF Backup, CopyOf, Disable, ReplaceItems, Check, Answer, Leave, Enable, session
  <2>2. QED
    BY <2>1, ShownStays DEF Goto
<1>3. CASE \E t \in Users :
             Command(t) \/ \E show \in Visibility : SetVisibility(t, show)
  <2>1. PICK t \in Users : Goto(t, "idle", "starting") /\ UNCHANGED <<items, tree>>
    BY <1>3 DEF Command, SetVisibility, Click, session
  <2>2. QED
    BY <2>1, ShownStays DEF Goto
<1>4. CASE \E t \in Savers, c \in Chips, f \in Files : ToggleActiveFile(t, c, f)
  <2>1. PICK t \in Savers, c \in Chips, f \in Files : ToggleActiveFile(t, c, f)
    BY <1>4
  <2>2. pc'[Loader] = pc[Loader] /\ tree' = tree
    BY <2>1 DEF ToggleActiveFile, Click, Goto, Users
  <2>3. items \in Cards => items' \in Cards
    BY <2>1 DEF ToggleActiveFile, Cards
  <2>4. QED
    BY <2>2, <2>3 DEF Shown
<1>5. CASE Read \/ Assign \/ getItems \/ Clear \/ AddAll \/ Show
  <2>1. pc[Loader] = "adding" => got.cards \in Cards
    BY DEF IInv, Exclusive, Control
  <2>2. QED
    BY <1>5, <2>1 DEF Read, Assign, getItems, Clear, AddAll, Show, Goto, Shown, session
<1>6. CASE Command(Loader)
  BY <1>6 DEF Command, Click, Goto, Shown, session
<1>7. CASE \/ StartWindow
           \/ \E show \in Visibility, cards \in Cards : StartCommand(show, cards)
  <2>1. PICK t \in Threads, to \in {"reading", "checking"} : pc' = [pc EXCEPT ![t] = to]
    BY <1>7 DEF StartWindow, StartCommand, Threads
  <2>2. pc'[Loader] \in {pc[Loader], "reading", "checking"}
    BY <2>1
  <2>3. UNCHANGED <<items, tree>>
    BY <1>7 DEF StartWindow, StartCommand, Begin, session
  <2>4. QED
    BY <2>2, <2>3 DEF Shown
<1>8. CASE Crash \/ Stop(Exiter)
  BY <1>8 DEF Crash, Stop, Down, Shown
<1>9. CASE UNCHANGED vars
  BY <1>9 DEF Shown, vars, session
<1>10. QED
  BY <1>1, <1>2, <1>3, <1>4, <1>5, <1>6, <1>7, <1>8, <1>9 DEF Next, Users, Threads

LEMMA OtherTypesStep ==
  ASSUME IInv, IInv', OtherTypes, Shown, [Next]_vars
  PROVE  OtherTypes'
<1>1. CASE \E t \in Users :
             Backup(t) \/ Open(t) \/ Write(t) \/ CopyOf(t)
  BY <1>1, SaveTypes
<1>2. CASE \/ \E t \in Users : Disable(t) \/ ReplaceItems(t) \/ Check(t) \/ Enable(t)
           \/ \E t \in Savers : Leave(t)
           \/ Answer(Exiter)
  BY <1>2, ActionTypes DEF Users
<1>3. CASE \/ \E t \in Savers :
                \/ \E show \in Visibility : SetVisibility(t, show)
                \/ \E c \in Chips, f \in Files : ToggleActiveFile(t, c, f)
           \/ \E t \in Threads : Command(t)
  BY <1>3, ClickTypes DEF Threads
<1>4. CASE Read \/ Assign \/ getItems \/ Clear \/ AddAll \/ Show
  BY <1>4, ReloadTypes
<1>5. CASE \/ StartWindow
           \/ \E show \in Visibility, cards \in Cards : StartCommand(show, cards)
  BY <1>5, StartTypes
<1>6. CASE Crash \/ Stop(Exiter)
  BY <1>6, EndTypes
<1>7. CASE UNCHANGED vars
  BY <1>7 DEF OtherTypes, vars, model, session, locks, history
<1>8. QED
  BY <1>1, <1>2, <1>3, <1>4, <1>5, <1>6, <1>7 DEF Next, Users

\* The types that SaveInvariant leaves out, and that something is shown.
LEMMA TypesInvariant == Spec => [](OtherTypes /\ Shown)
<1>1. Init => OtherTypes /\ Shown
  <2> SUFFICES ASSUME Init PROVE OtherTypes /\ Shown
    OBVIOUS
  <2>1. pc \in [Threads -> Places]
    BY DEF Init, Places
  <2>2. Shown
    BY DEF Init, Shown, Threads
  <2>3. events \in 0..MaxEvents
    BY BoundsAssumption DEF Init
  <2>4. cause \in Causes
    BY DEF Init, Causes
  <2>5. QED
    BY <2>1, <2>2, <2>3, <2>4, DefaultType DEF Init, OtherTypes
<1>2. IInv /\ IInv' /\ OtherTypes /\ Shown /\ [Next]_vars => OtherTypes' /\ Shown'
  BY OtherTypesStep, ShownStep
<1>3. QED
  BY <1>1, <1>2, SaveInvariant, PTL DEF Spec

\* Every variable of the control tool stays in its type, and a save has marshalled bytes
\* exactly between its backup and the end of its write (ControlModel.java:222-263).
THEOREM TypeCorrect == Spec => []TypeOK
<1>1. IInv /\ OtherTypes => TypeOK
  BY NullAssumption DEF IInv, Values, Exclusive, OtherTypes, TypeOK, Places, Causes
<1>2. QED
  BY <1>1, SaveInvariant, TypesInvariant, PTL

-----------------------------------------------------------------------------
(* What the user asks for is kept.  The settings that the window shows are *)
(* those of "wanted", or Default when there was nothing to be read; the    *)
(* invariant says where each part of them is while the threads run.        *)
\* The settings that the window shows.
Settings == IF wanted = Nothing THEN Default ELSE wanted

\* The first reload has not yet made the control of the file the active one.
Initial == mode = "gui" /\ ~loaded /\ pc[Loader] \in {"reading", "assigning"}

\* A thread that may still copy the items, and one that may still save.
Copies == mode = "gui" /\ \E t \in Savers : pc[t] \in {"starting", "waiting"}
Saves == \E t \in Users :
  pc[t] \in {"starting", "waiting", "checking", "asking", "saving", "opening", "writing", "copying"}

\* Where a thread that has disabled the actions may be.
Busy == {"waiting", "checking", "asking", "saving", "opening", "writing", "copying", "leaving",
         "ending", "stopping"}

\* Only the window has items and a tree, a command runs one thread, and the actions are
\* disabled only while a thread runs that enables them again.
ModeInv ==
  /\ mode = "down" => /\ items = NoItems /\ ~loaded /\ tree = "empty" /\ enabled
                      /\ \A t \in Threads : pc[t] = "idle"
  /\ mode = "command" => /\ ~loaded /\ enabled /\ items = NoItems
                         /\ \A t \in Threads \ {Exiter} : pc[t] = "idle"
                         /\ pc[Exiter] \in {"checking", "saving", "opening", "writing", "copying",
                                            "stopping"}
  /\ ~enabled => \E t \in Users : pc[t] \in Busy

\* Without items the tree is empty, and it is that of the session unless a reload is
\* replacing the items.
TreeInv ==
  mode = "gui" =>
    /\ ~loaded => /\ pc[Loader] \in {"reading", "assigning", "getting", "clearing", "adding"}
                  /\ items = NoItems /\ tree = "empty"
    /\ loaded /\ pc[Loader] \in {"idle", "starting", "assigning"} => tree = "current"
    /\ loaded => pc[Loader] # "reading"
    /\ pc[Loader] \in {"clearing", "adding", "showing"} => tree # "current"
    /\ pc[Loader] = "adding" => items = NoItems

\* Nothing has been asked for, and there was no control to be read.
NothingWanted ==
  wanted = Nothing /\ mode = "gui" =>
    /\ active = Default /\ original = Default
    /\ file \in Control => file = Default
    /\ image \in {Nothing, Default}
    /\ pc[Loader] = "assigning" => got \in {Nothing, Default}

\* The items are the cards of the settings, and so is what a reload makes them from.
ItemsInv ==
  mode = "gui" =>
    /\ Initial => active = Default /\ original = Default
    /\ loaded /\ pc[Loader] # "adding" => items = Settings.cards
    /\ pc[Loader] \in {"clearing", "adding"} => got.cards = Settings.cards
    /\ pc[Loader] \in {"clearing", "adding", "showing"} \/ (~loaded /\ ~Initial) =>
         active.cards = Settings.cards

\* The file holds what was asked for before the first reload has ended; afterwards it holds
\* the control that was saved last, the visibility asked for is in the active control, and
\* the cards are too, or a thread has yet to copy them from the items.
WantedInv ==
  wanted # Nothing =>
    /\ isDirty \/ file \notin Control => failed \/ Saves
    /\ IF Initial
       THEN /\ file = wanted /\ (pc[Loader] = "assigning" => got = wanted)
            /\ \A t \in Threads : pc[t] \notin {"asking", "saving", "opening", "writing", "copying"}
       ELSE /\ file \in Control /\ (\A t \in Threads : pc[t] # "copying") => file = original
            /\ active.show = wanted.show
            /\ active.cards = wanted.cards \/ Copies

\* So it is until a setting is lost.
KeptInv == cause = "none" => NothingWanted /\ ItemsInv /\ WantedInv

-----------------------------------------------------------------------------
\* The steps of a thread of the user keep the modes.
LEMMA UserModes ==
  ASSUME Values, ModeInv, TreeInv, NEW t \in Users, NEW to, pc' = [pc EXCEPT ![t] = to],
         pc[t] # "idle" \/ mode = "gui",
         mode' = mode, UNCHANGED <<loaded, tree>>,
         items' = items \/ (mode = "gui" /\ tree = "current"),
         enabled' = TRUE \/ to \in Busy,
         mode = "command" => /\ enabled' = enabled /\ items' = items
                             /\ to \in {"saving", "opening", "writing", "copying", "stopping"}
  PROVE  ModeInv' /\ TreeInv'
<1>1. /\ t \in Threads /\ Exiter \in Threads /\ Loader \in Threads /\ t # Loader
      /\ \A s \in Threads : pc'[s] = IF s = t THEN to ELSE pc[s]
  BY ThreadsAssumption DEF Users, Threads, Values
<1>2. mode # "down"
  BY <1>1 DEF ModeInv
<1>3. ModeInv'
  <2>1. mode' = "command" =>
          /\ ~loaded' /\ enabled' /\ items' = NoItems
          /\ \A s \in Threads \ {Exiter} : pc'[s] = "idle"
          /\ pc'[Exiter] \in {"checking", "saving", "opening", "writing", "copying", "stopping"}
    BY <1>1, <1>2 DEF ModeInv
  <2>2. enabled' = TRUE \/ \E s \in Users : pc'[s] \in Busy
    BY <1>1
  <2> QED BY <1>2, <2>1, <2>2 DEF ModeInv
<1>4. TreeInv'
  BY <1>1 DEF TreeInv
<1> QED BY <1>3, <1>4

\* The steps of a reload keep the modes, and only the window reloads.
LEMMA LoaderModes ==
  ASSUME Values, OtherTypes, ModeInv, TreeInv,
         Command(Loader) \/ Read \/ Assign \/ getItems \/ Clear \/ AddAll \/ Show
  PROVE  ModeInv' /\ TreeInv' /\ mode = "gui" /\ mode' = "gui"
<1>0. /\ Loader \in Threads /\ Loader # Exiter /\ Loader \notin Users
      /\ Users \subseteq Threads
  BY ThreadsAssumption DEF Threads, Users
<1>1. PICK to : pc' = [pc EXCEPT ![Loader] = to]
  BY DEF Command, Click, Goto, Read, Assign, getItems, Clear, AddAll, Show
<1>2. \A s \in Threads : pc'[s] = IF s = Loader THEN to ELSE pc[s]
  BY <1>0, <1>1 DEF Values
<1>3. mode = "gui" /\ mode' = "gui"
  <2>1. /\ pc[Loader] # "idle" \/ mode = "gui"
        /\ mode' = mode
    BY DEF Command, Click, Goto, Read, Assign, getItems, Clear, AddAll, Show
  <2>2. mode \in {"down", "gui", "command"}
    BY DEF OtherTypes
  <2> QED BY <1>0, <2>1, <2>2 DEF ModeInv
<1>4. ModeInv'
  <2>1. enabled' = enabled
    BY DEF Command, Read, Assign, getItems, Clear, AddAll, Show
  <2>2. ~enabled' => \E t \in Users : pc'[t] \in Busy
    BY <1>0, <1>2, <2>1 DEF ModeInv
  <2> QED BY <1>3, <2>2 DEF ModeInv
<1>5. TreeInv'
  <2>1. CASE Command(Loader)
    BY <1>0, <1>2, <1>3, <2>1 DEF Command, Click, Goto, session, TreeInv, Values
  <2>2. CASE Read
    BY <1>0, <1>2, <1>3, <2>2 DEF Read, TreeInv, Values
  <2>3. CASE Assign
    BY <1>0, <1>2, <1>3, <2>3 DEF Assign, Goto, session, TreeInv, Values
  <2>4. CASE getItems
    BY <1>0, <1>2, <1>3, <2>4 DEF getItems, Goto, TreeInv, Values
  <2>5. CASE Clear
    BY <1>0, <1>2, <1>3, <2>5 DEF Clear, Goto, TreeInv, Values
  <2>6. CASE AddAll
    BY <1>0, <1>2, <1>3, <2>6 DEF AddAll, Goto, TreeInv, Values
  <2>7. CASE Show
    BY <1>0, <1>2, <1>3, <2>7 DEF Show, Goto, TreeInv, Values
  <2> QED BY <2>1, <2>2, <2>3, <2>4, <2>5, <2>6, <2>7
<1> QED BY <1>3, <1>4, <1>5

\* A process that ends leaves nothing behind.
LEMMA DownModes == ASSUME Down PROVE ModeInv' /\ TreeInv'
  BY DEF Down, ModeInv, TreeInv

\* The modes hold when the tool starts.
LEMMA StartModes ==
  ASSUME Values, ModeInv,
         \/ StartWindow
         \/ \E show \in Visibility, cards \in Cards : StartCommand(show, cards)
  PROVE  ModeInv' /\ TreeInv'
<1>0. Loader \in Threads /\ Exiter \in Threads /\ Loader # Exiter
  BY ThreadsAssumption DEF Threads
<1>1. /\ items = NoItems /\ ~loaded /\ tree = "empty" /\ enabled
      /\ \A t \in Threads : pc[t] = "idle"
      /\ UNCHANGED <<items, loaded, tree, enabled>>
  BY DEF StartWindow, StartCommand, Begin, ModeInv, session
<1>2. CASE StartWindow
  BY <1>0, <1>1, <1>2 DEF StartWindow, ModeInv, TreeInv, Values
<1>3. CASE \E show \in Visibility, cards \in Cards : StartCommand(show, cards)
  <2>1. mode' = "command" /\ pc' = [pc EXCEPT ![Exiter] = "checking"]
    BY <1>3 DEF StartCommand
  <2> QED BY <1>0, <1>1, <2>1 DEF ModeInv, TreeInv, Values
<1> QED BY <1>2, <1>3

\* The steps of save() keep the modes.
LEMMA SaveModes ==
  ASSUME Values, OtherTypes, ModeInv, TreeInv, NEW t \in Users,
         Backup(t) \/ Open(t) \/ Write(t) \/ CopyOf(t)
  PROVE  ModeInv' /\ TreeInv'
<1>0. t \in Threads
  BY DEF Users, Threads
<1>1. CASE Throws(t) /\ pc[t] # "idle"
  <2>1. CASE mode = "command"
    BY <1>1, <2>1, DownModes DEF Throws
  <2>2. CASE mode # "command"
    <3>1. PICK to \in Busy : pc' = [pc EXCEPT ![t] = to]
      BY <1>1, <2>2 DEF Throws, Busy
    <3>2. mode' = mode /\ UNCHANGED <<loaded, tree>> /\ items' = items
      BY <1>1, <2>2 DEF Throws, session
    <3> QED BY <1>1, <2>2, <3>1, <3>2, UserModes
  <2> QED BY <2>1, <2>2
<1>2. CASE ~Throws(t)
  <2>1. PICK from, to :
          /\ from # "idle" /\ to \in Busy /\ Goto(t, from, to)
          /\ mode = "command" => to \in {"saving", "opening", "writing", "copying", "stopping"}
    <3>1. t \in Savers => mode # "command"
      <4>1. t # Exiter \/ t \notin Savers
        BY ThreadsAssumption
      <4>2. pc[t] # "idle"
        BY DEF Backup, Open, Write, CopyOf, Goto
      <4> QED BY <1>0, <4>1, <4>2 DEF ModeInv
    <3> QED BY <1>2, <3>1 DEF Backup, Open, Write, CopyOf, Busy
  <2>2. pc' = [pc EXCEPT ![t] = to] /\ pc[t] # "idle"
    BY <2>1 DEF Goto
  <2>3. mode' = mode /\ UNCHANGED <<loaded, tree>> /\ items' = items /\ enabled' = enabled
    BY <1>2 DEF Backup, Open, Write, CopyOf, session
  <2> QED BY <2>1, <2>2, <2>3, UserModes
<1>3. Throws(t) => pc[t] # "idle"
  BY DEF Backup, Open, Write, CopyOf, Goto
<1> QED BY <1>1, <1>2, <1>3

\* The steps around save() keep the modes.
LEMMA ActionModes ==
  ASSUME Values, OtherTypes, ModeInv, TreeInv, NEW t \in Users,
         \/ Disable(t) \/ ReplaceItems(t) \/ Check(t) \/ Enable(t)
         \/ t \in Savers /\ Leave(t)
         \/ t = Exiter /\ Answer(t)
  PROVE  ModeInv' /\ TreeInv'
<1>0. t \in Threads /\ (t \in Savers => t # Exiter)
  BY ThreadsAssumption DEF Users, Threads
<1>1. PICK from, to :
        /\ from \in {"starting", "waiting", "checking", "asking", "leaving", "ending"}
        /\ Goto(t, from, to)
        /\ to \in Busy \/ enabled' = TRUE
        /\ mode = "command" /\ from = "checking" =>
             enabled' = enabled /\ to \in {"saving", "stopping", "leaving"}
        /\ t # Exiter \/ to # "leaving" \/ from # "checking"
  <2> DEFINE Moves(from, to) ==
        /\ from \in {"starting", "waiting", "checking", "asking", "leaving", "ending"}
        /\ Goto(t, from, to)
        /\ to \in Busy \/ enabled' = TRUE
        /\ mode = "command" /\ from = "checking" =>
             enabled' = enabled /\ to \in {"saving", "stopping", "leaving"}
        /\ t # Exiter \/ to # "leaving" \/ from # "checking"
  <2>1. CASE Disable(t)
    <3>1. Moves("starting", "waiting")
      BY <2>1 DEF Disable, Busy
    <3> QED BY <3>1
  <2>2. CASE ReplaceItems(t)
    <3>1. Moves("waiting", "checking") \/ Moves("waiting", "ending")
      BY <2>2 DEF ReplaceItems, Busy
    <3> QED BY <3>1
  <2>3. CASE Check(t)
    <3>1. PICK to : /\ Goto(t, "checking", to)
                    /\ to \in {"saving", "asking", "leaving", "stopping"}
                    /\ mode = "command" => to # "asking"
                    /\ t = Exiter => to # "leaving"
      BY <1>0, <2>3 DEF Check
    <3>2. enabled' = enabled
      BY <2>3 DEF Check
    <3>3. Moves("checking", to)
      BY <3>1, <3>2 DEF Busy
    <3> QED BY <3>3
  <2>4. CASE Enable(t)
    <3>1. Moves("ending", "idle")
      BY <2>4 DEF Enable
    <3> QED BY <3>1
  <2>5. CASE Leave(t)
    <3>1. Moves("leaving", "ending")
      BY <2>5 DEF Leave, Busy
    <3> QED BY <3>1
  <2>6. CASE Answer(t)
    <3>1. Moves("asking", "saving") \/ Moves("asking", "stopping")
      BY <2>6 DEF Answer, Busy
    <3> QED BY <3>1
  <2> QED BY <2>1, <2>2, <2>3, <2>4, <2>5, <2>6
<1>2. pc' = [pc EXCEPT ![t] = to] /\ pc[t] = from
  BY <1>1 DEF Goto
<1>3. mode' = mode /\ UNCHANGED <<loaded, tree>> /\ items' = items
  BY DEF Disable, ReplaceItems, Check, Enable, Leave, Answer, session
<1>4. mode = "command" => t = Exiter /\ from = "checking"
  BY <1>0, <1>1, <1>2 DEF ModeInv
<1>5. mode = "command" => enabled' = enabled /\ to \in {"saving", "stopping"}
  BY <1>1, <1>4
<1>6. pc[t] # "idle"
  BY <1>1, <1>2
<1> QED BY <1>1, <1>2, <1>3, <1>5, <1>6, UserModes

\* The user can click while the actions are enabled.
LEMMA ClickModes ==
  ASSUME Values, OtherTypes, ModeInv, TreeInv, NEW t \in Users,
         \/ t \in Savers /\ \E show \in Visibility : SetVisibility(t, show)
         \/ t \in Savers /\ \E c \in Chips, f \in Files : ToggleActiveFile(t, c, f)
         \/ Command(t)
  PROVE  ModeInv' /\ TreeInv'
<1>1. /\ mode = "gui" /\ enabled = TRUE /\ pc' = [pc EXCEPT ![t] = "starting"]
      /\ mode' = mode /\ UNCHANGED <<loaded, tree, enabled>>
      /\ items' = items \/ tree = "current"
  BY DEF SetVisibility, ToggleActiveFile, Command, Click, Goto, session, OtherTypes
<1> QED BY <1>1, UserModes

\* Every step keeps the modes.
LEMMA ModesStep ==
  ASSUME Values, OtherTypes, ModeInv, TreeInv, [Next]_vars
  PROVE  ModeInv' /\ TreeInv'
<1>1. CASE \E t \in Users : Backup(t) \/ Open(t) \/ Write(t) \/ CopyOf(t)
  BY <1>1, SaveModes
<1>2. CASE \/ \E t \in Users : Disable(t) \/ ReplaceItems(t) \/ Check(t) \/ Enable(t)
           \/ \E t \in Savers : Leave(t)
           \/ Answer(Exiter)
  BY <1>2, ActionModes DEF Users
<1>3. CASE \/ \E t \in Savers :
                \/ \E show \in Visibility : SetVisibility(t, show)
                \/ \E c \in Chips, f \in Files : ToggleActiveFile(t, c, f)
           \/ \E t \in Users : Command(t)
  BY <1>3, ClickModes DEF Users
<1>4. CASE Command(Loader) \/ Read \/ Assign \/ getItems \/ Clear \/ AddAll \/ Show
  BY <1>4, LoaderModes
<1>5. CASE \/ StartWindow
           \/ \E show \in Visibility, cards \in Cards : StartCommand(show, cards)
  BY <1>5, StartModes
<1>6. CASE Crash \/ Stop(Exiter)
  BY <1>6, DownModes DEF Crash, Stop
<1>7. CASE UNCHANGED vars
  BY <1>7 DEF ModeInv, TreeInv, vars, session
<1> QED
  BY <1>1, <1>2, <1>3, <1>4, <1>5, <1>6, <1>7 DEF Next, Users, Threads

\* What the invariant says while no setting is lost.
Kept == NothingWanted /\ ItemsInv /\ WantedInv

\* Where a thread is that has something to save.
AtSave == {"asking", "saving", "opening", "writing", "copying"}

\* A step of a thread of the user that leaves the settings and the items alone.
LEMMA UserKept ==
  ASSUME Values, Kept, NEW t \in Users, NEW to, pc' = [pc EXCEPT ![t] = to],
         UNCHANGED <<mode, active, items, loaded, got, wanted>>,
         wanted = Nothing /\ mode = "gui" =>
           /\ original' = Default
           /\ file' \in Control => file' = Default
           /\ image' \in {Nothing, Default},
         Initial => original' = Default,
         wanted # Nothing /\ Initial => file' = file /\ to \notin AtSave,
         wanted # Nothing /\ (active # original' \/ file' \notin Control) => failed' \/ Saves',
         wanted # Nothing /\ ~Initial /\ file' \in Control
           /\ (\A s \in Threads : pc'[s] # "copying") => file' = original',
         wanted # Nothing /\ ~Initial =>
           \/ t \notin Savers
           \/ pc[t] \in {"starting", "waiting"} => to \in {"starting", "waiting"}
           \/ active.cards = wanted.cards
  PROVE  Kept'
<1>1. /\ t \in Threads /\ Loader \in Threads /\ t # Loader /\ Savers \subseteq Threads
      /\ \A s \in Threads : pc'[s] = IF s = t THEN to ELSE pc[s]
      /\ pc'[Loader] = pc[Loader]
  BY ThreadsAssumption DEF Users, Threads, Values
<1>2. Initial' = Initial /\ Settings' = Settings
  BY <1>1 DEF Initial, Settings
<1>3. NothingWanted'
  BY <1>1 DEF Kept, NothingWanted
<1>4. ItemsInv'
  <2>1. ItemsInv
    BY DEF Kept
  <2> QED BY <1>1, <1>2, <2>1 DEF ItemsInv
<1>5. WantedInv'
  <2>1. SUFFICES ASSUME wanted # Nothing PROVE WantedInv'
    BY DEF WantedInv
  <2>2. (isDirty \/ file \notin Control => failed \/ Saves)'
    BY <2>1 DEF isDirty
  <2>3. Initial => /\ file' = wanted /\ (pc'[Loader] = "assigning" => got' = wanted)
                   /\ \A s \in Threads : pc'[s] \notin AtSave
    BY <1>1, <2>1 DEF Kept, WantedInv, AtSave
  <2>4. ~Initial => active'.show = wanted.show /\ (active'.cards = wanted.cards \/ Copies')
    <3>1. SUFFICES ASSUME ~Initial PROVE active'.show = wanted.show /\ (active'.cards = wanted.cards \/ Copies')
      OBVIOUS
    <3>2. active.show = wanted.show /\ (active.cards = wanted.cards \/ Copies)
      BY <2>1, <3>1 DEF Kept, WantedInv
    <3>3. Copies /\ active.cards # wanted.cards => Copies'
      <4>1. SUFFICES ASSUME Copies, active.cards # wanted.cards PROVE Copies'
        OBVIOUS
      <4>2. PICK s \in Savers : pc[s] \in {"starting", "waiting"}
        BY <4>1 DEF Copies
      <4>3. pc'[s] \in {"starting", "waiting"}
        BY <1>1, <2>1, <3>1, <4>1, <4>2
      <4> QED BY <4>1, <4>3 DEF Copies
    <3> QED BY <3>2, <3>3
  <2>5. ~Initial /\ file' \in Control /\ (\A s \in Threads : pc'[s] # "copying") => file' = original'
    BY <2>1
  <2>6. wanted' = wanted /\ Initial' = Initial
    BY <1>2
  <2> QED BY <2>2, <2>3, <2>4, <2>5, <2>6 DEF WantedInv, AtSave
<1> QED BY <1>3, <1>4, <1>5 DEF Kept

\* Where a thread may still save.
Saving == {"starting", "waiting", "checking", "asking", "saving", "opening", "writing", "copying"}

\* It may save nothing, if there is nothing to be saved.
LEMMA GoesOn ==
  ASSUME Values, Kept, NEW t \in Users, NEW to, pc' = [pc EXCEPT ![t] = to],
         UNCHANGED <<file, mode, active, original, items, loaded, got, wanted>>,
         image' \in {image, Nothing, active},
         failed => failed',
         to # "copying", pc[t] # "copying",
         wanted # Nothing /\ Initial => to \notin AtSave,
         pc[t] \in Saving => to \in Saving \/ failed' \/ (~isDirty /\ file \in Control),
         pc[t] \in {"starting", "waiting"} => to \in {"starting", "waiting"}
  PROVE  Kept'
<1>1. /\ t \in Threads /\ Users \subseteq Threads
      /\ \A s \in Threads : pc'[s] = IF s = t THEN to ELSE pc[s]
  BY DEF Users, Threads, Values
<1>2. wanted = Nothing /\ mode = "gui" =>
           /\ original' = Default
           /\ file' \in Control => file' = Default
           /\ image' \in {Nothing, Default}
  BY DEF Kept, NothingWanted
<1>3. Initial => original' = Default
  BY DEF Kept, ItemsInv, Initial
<1>4. wanted # Nothing /\ (active # original' \/ file' \notin Control) => failed' \/ Saves'
  <2>1. SUFFICES ASSUME wanted # Nothing, isDirty \/ file \notin Control, ~failed' PROVE Saves'
    BY DEF isDirty
  <2>2. Saves
    BY <2>1 DEF Kept, WantedInv
  <2>3. PICK s \in Users : pc[s] \in Saving
    BY <2>2 DEF Saves, Saving
  <2>4. pc'[s] \in Saving
    BY <1>1, <2>1, <2>3
  <2> QED BY <2>4 DEF Saves, Saving
<1>5. wanted # Nothing /\ ~Initial /\ file' \in Control
           /\ (\A s \in Threads : pc'[s] # "copying") => file' = original'
  BY <1>1 DEF Kept, WantedInv
<1> QED BY <1>2, <1>3, <1>4, <1>5, UserKept

-----------------------------------------------------------------------------
\* Only the settings that are asked for are kept in mind.
LEMMA KeptBefore == ASSUME KeptInv, cause = "none" PROVE Kept
  BY DEF KeptInv, Kept

\* They need only hold while none is lost.
LEMMA KeptAfter == ASSUME cause' = "none" => Kept' PROVE KeptInv'
  BY DEF KeptInv, Kept

\* No step of run() around save() loses a setting unnoticed.
LEMMA ActionKept ==
  ASSUME IInv, OtherTypes, ModeInv, TreeInv, KeptInv, NEW t \in Users,
         \/ Disable(t) \/ Check(t) \/ Enable(t) \/ Command(t)
         \/ t \in Savers /\ Leave(t)
         \/ t = Exiter /\ Answer(t)
  PROVE  KeptInv'
<1>1. SUFFICES ASSUME cause' = "none" PROVE Kept'
  BY KeptAfter
<1>2. cause = "none" /\ wanted' = wanted
  BY <1>1 DEF Disable, Check, Enable, Command, Leave, Answer, history, Wants
<1>3. Kept /\ Values
  BY <1>2, KeptBefore DEF IInv
<1>4. /\ UNCHANGED <<file, mode, active, original, items, loaded, got, wanted, image, failed>>
  BY <1>2 DEF Disable, Check, Enable, Command, Leave, Answer, history, session, model
<1>5. PICK to :
        /\ pc' = [pc EXCEPT ![t] = to]
        /\ to # "copying" /\ pc[t] # "copying"
        /\ wanted # Nothing /\ Initial => to \notin AtSave
        /\ pc[t] \in Saving => to \in Saving \/ (~isDirty /\ file \in Control)
        /\ pc[t] \in {"starting", "waiting"} => to \in {"starting", "waiting"}
  <2> DEFINE Moves(to) ==
        /\ pc' = [pc EXCEPT ![t] = to]
        /\ to # "copying" /\ pc[t] # "copying"
        /\ wanted # Nothing /\ Initial => to \notin AtSave
        /\ pc[t] \in Saving => to \in Saving \/ (~isDirty /\ file \in Control)
        /\ pc[t] \in {"starting", "waiting"} => to \in {"starting", "waiting"}
  <2>1. CASE Disable(t)
    <3>1. Moves("waiting")
      BY <2>1 DEF Disable, Goto, Saving, AtSave
    <3> QED BY <3>1
  <2>2. CASE Check(t)
    <3>1. PICK to \in {"saving", "asking", "leaving", "stopping"} :
             /\ Goto(t, "checking", to)
             /\ to \in {"saving", "asking"} => isDirty \/ file = Missing
             /\ to \in {"leaving", "stopping"} => ~isDirty
      BY <2>2 DEF Check
    <3>2. pc'[t] = to
      BY <1>3, <3>1 DEF Goto, Values, Users, Threads
    <3>3. to \in {"leaving", "stopping"} => file \in Control
      BY <1>1, <2>2, <3>2 DEF Check, Wants
    <3>4. wanted # Nothing /\ Initial => ~isDirty /\ file # Missing
      <4>1. Missing \notin Control /\ Nothing \notin Control
        BY NullAssumption
      <4>2. wanted # Nothing => wanted \in Control
        BY DEF OtherTypes
      <4> QED BY <1>3, <4>1, <4>2 DEF Kept, ItemsInv, WantedInv, isDirty, Initial
    <3>5. Moves(to)
      BY <3>1, <3>3, <3>4 DEF Goto, Saving, AtSave
    <3> QED BY <3>5
  <2>3. CASE Enable(t)
    <3>1. Moves("idle")
      BY <2>3 DEF Enable, Goto, Saving, AtSave
    <3> QED BY <3>1
  <2>4. CASE Command(t)
    <3>1. Moves("starting")
      BY <2>4 DEF Command, Click, Goto, Saving, AtSave
    <3> QED BY <3>1
  <2>5. CASE Leave(t)
    <3>1. Moves("ending")
      BY <2>5 DEF Leave, Goto, Saving, AtSave
    <3> QED BY <3>1
  <2>6. CASE Answer(t) /\ t = Exiter
    <3>1. Goto(t, "asking", "saving")
      BY <1>1, <2>6 DEF Answer, Wants
    <3>2. wanted # Nothing => ~Initial
      <4>1. pc[t] = "asking" /\ t \in Threads
        BY <3>1 DEF Goto, Users, Threads
      <4> QED BY <1>3, <4>1 DEF Kept, WantedInv
    <3>3. Moves("saving")
      BY <3>1, <3>2 DEF Goto, Saving, AtSave
    <3> QED BY <3>3
  <2> QED BY <2>1, <2>2, <2>3, <2>4, <2>5, <2>6
<1> QED BY <1>3, <1>4, <1>5, GoesOn

\* A write that fails is remembered.
LEMMA ThrowsKept ==
  ASSUME Values, Kept, OtherTypes, NEW t \in Users, Throws(t),
         pc[t] \in {"opening", "writing"},
         \A s \in Threads \ {t} : pc[s] # "copying",
         UNCHANGED <<active, original, wanted>>,
         failed' = TRUE,
         file' = file \/ file' \notin Control
  PROVE  Kept'
<1>1. t \in Threads
  BY DEF Users, Threads
<1>2. \A s \in Threads : pc[s] # "copying"
  BY <1>1
<1>3. wanted # Nothing => ~Initial
  BY <1>1 DEF Kept, WantedInv
<1>4. wanted # Nothing /\ file' \in Control => file' = original
  BY <1>2, <1>3 DEF Kept, WantedInv
<1>5. CASE mode = "command"
  <2>1. mode' = "down" /\ ~Initial' /\ ~Copies'
    BY <1>5 DEF Throws, Down, Initial, Copies
  <2>2. NothingWanted' /\ ItemsInv'
    BY <2>1 DEF NothingWanted, ItemsInv
  <2>3. WantedInv'
    <3>1. wanted # Nothing => active.show = wanted.show /\ active.cards = wanted.cards
      BY <1>3, <1>5 DEF Kept, WantedInv, Copies
    <3> QED BY <1>4, <2>1, <3>1 DEF WantedInv
  <2> QED BY <2>2, <2>3 DEF Kept
<1>6. CASE mode # "command"
  <2>1. PICK to \in {"ending", "leaving"} : pc' = [pc EXCEPT ![t] = to]
    BY <1>6 DEF Throws
  <2>2. UNCHANGED <<mode, active, items, loaded, got, wanted>> /\ image' = Nothing
    BY <1>6 DEF Throws, session
  <2>3. wanted = Nothing /\ mode = "gui" =>
           /\ original' = Default
           /\ file' \in Control => file' = Default
           /\ image' \in {Nothing, Default}
    BY <2>2 DEF Kept, NothingWanted
  <2>4. Initial => original' = Default
    BY DEF Kept, ItemsInv, Initial
  <2>5. wanted # Nothing /\ Initial => file' = file /\ to \notin AtSave
    BY <1>3
  <2>6. pc[t] \notin {"starting", "waiting"}
    OBVIOUS
  <2> QED BY <1>4, <2>1, <2>2, <2>3, <2>4, <2>5, <2>6, UserKept
<1> QED BY <1>5, <1>6

\* No step of save() loses a setting unnoticed.
LEMMA SaveKept ==
  ASSUME IInv, OtherTypes, ModeInv, KeptInv, NEW t \in Users,
         Backup(t) \/ Open(t) \/ Write(t) \/ CopyOf(t)
  PROVE  KeptInv'
<1>1. SUFFICES ASSUME cause' = "none" PROVE Kept'
  BY KeptAfter
<1>2. cause = "none" /\ wanted' = wanted
  BY <1>1 DEF Backup, Open, Write, CopyOf, Wants
<1>3. Kept /\ Values
  BY <1>2, KeptBefore DEF IInv
<1>4. /\ t \in Threads
      /\ \A to : pc' = [pc EXCEPT ![t] = to] => pc'[t] = to
      /\ active \in Control
  BY <1>3 DEF Users, Threads, Values
<1>5. pc[t] \in {"saving", "opening", "writing", "copying"}
  BY DEF Backup, Open, Write, CopyOf, Goto
<1>6. wanted # Nothing => ~Initial
  BY <1>3, <1>4, <1>5 DEF Kept, WantedInv
<1>7. CASE Backup(t)
  <2>1. /\ pc' = [pc EXCEPT ![t] = "opening"] /\ pc[t] = "saving"
        /\ UNCHANGED <<file, mode, active, original, items, loaded, got, wanted>>
        /\ image' = active
        /\ failed => failed'
    BY <1>7 DEF Backup, Goto, session, Fails
  <2> QED BY <1>3, <1>6, <2>1, GoesOn DEF Saving
<1>8. CASE (Open(t) \/ Write(t)) /\ Fails /\ Throws(t) /\ (file' = file \/ file' \in Broken)
  <2>1. pc[t] \in {"opening", "writing"} /\ UNCHANGED <<active, original, wanted>>
        /\ failed' = TRUE
    BY <1>2, <1>8 DEF Open, Write, Fails
  <2>2. \A s \in Threads \ {t} : pc[s] # "copying"
    BY <1>4, <2>1, OneWriter
  <2>3. file' = file \/ file' \notin Control
    BY <1>8, Nulls DEF Broken
  <2> QED BY <1>3, <1>8, <2>1, <2>2, <2>3, ThrowsKept
<1>9. CASE \/ Goto(t, "opening", "writing") /\ Open(t) /\ file' = Empty
           \/ Goto(t, "writing", "copying") /\ Write(t) /\ file' = image
  <2>1. PICK to \in {"writing", "copying"} :
          /\ pc' = [pc EXCEPT ![t] = to]
          /\ to = "writing" => file' = Empty /\ Open(t)
          /\ to = "copying" => file' = image /\ Write(t)
    BY <1>9 DEF Goto
  <2>2. to # pc[t] /\ pc[t] \in {"opening", "writing"}
    BY <1>9, <2>1 DEF Goto, Open, Write
  <2>3. UNCHANGED <<mode, active, original, items, loaded, got, wanted>>
        /\ image' \in {image, Nothing}
    <3>1. ~Throws(t)
      BY <1>4, <2>1 DEF Throws, Down
    <3> QED BY <1>2, <2>1, <3>1 DEF Open, Write, session
  <2>4. image \in Control
    BY <1>4, <2>2 DEF IInv, Exclusive
  <2>5. wanted = Nothing /\ mode = "gui" =>
           /\ original' = Default
           /\ file' \in Control => file' = Default
           /\ image' \in {Nothing, Default}
    BY <1>3, <2>1, <2>3, <2>4, Nulls DEF Kept, NothingWanted
  <2>6. Initial => original' = Default
    BY <1>3, <2>3 DEF Kept, ItemsInv, Initial
  <2>7. Saves'
    BY <1>4, <2>1 DEF Saves
  <2>8. file' \in Control => pc'[t] = "copying"
    BY <1>4, <2>1, Nulls
  <2> QED BY <1>3, <1>4, <1>6, <2>1, <2>2, <2>3, <2>5, <2>6, <2>7, <2>8, UserKept
<1>10. CASE CopyOf(t)
  <2>1. PICK to \in {"leaving", "stopping"} : Goto(t, "copying", to)
    BY <1>10 DEF CopyOf
  <2>2. active = file
    BY <1>1, <1>10 DEF CopyOf, Wants
  <2>3. /\ UNCHANGED <<file, mode, active, items, loaded, got, wanted, image>>
        /\ original' = active
    BY <1>2, <1>10 DEF CopyOf, session
  <2>4. wanted = Nothing /\ mode = "gui" =>
           /\ original' = Default
           /\ file' \in Control => file' = Default
           /\ image' \in {Nothing, Default}
    BY <1>3, <2>3 DEF Kept, NothingWanted
  <2>5. Initial => original' = Default
    BY <1>3, <2>3 DEF Kept, ItemsInv, Initial
  <2>6. pc' = [pc EXCEPT ![t] = to] /\ pc[t] = "copying"
    BY <2>1 DEF Goto
  <2> QED BY <1>3, <1>4, <1>6, <2>2, <2>3, <2>4, <2>5, <2>6, UserKept
<1>11. Open(t) => \/ Goto(t, "opening", "writing") /\ file' = Empty
                  \/ Fails /\ Throws(t) /\ file' = file
  BY DEF Open
<1>12. Write(t) => \/ Goto(t, "writing", "copying") /\ file' = image
                   \/ Fails /\ Throws(t) /\ file' \in Broken
  BY DEF Write
<1> QED BY <1>7, <1>8, <1>9, <1>10, <1>11, <1>12

\* A save of all the items makes them the cards of the control.
LEMMA SavesItems ==
  ASSUME NEW control \in Control, NEW its \in Cards
  PROVE  saveToControl(control, its) = [show |-> control.show, cards |-> its]
<1>1. control = [show |-> control.show, cards |-> control.cards]
      /\ its = [c \in Chips |-> its[c]]
  BY DEF Control, Cards
<1>2. CASE its = NoItems
  <2>1. Chips = {}
    BY <1>1, <1>2 DEF NoItems
  <2>2. NoCards = its
    BY <1>1, <2>1 DEF NoCards
  <2> QED BY <1>1, <1>2, <2>2 DEF saveToControl
<1>3. CASE its # NoItems
  <2>1. [c \in Chips |-> IF c \in DOMAIN its THEN its[c] ELSE control.cards[c]] = its
    BY <1>1
  <2> QED BY <1>1, <1>3, <2>1 DEF saveToControl
<1> QED BY <1>2, <1>3

\* There is always a control that the window shows.
LEMMA SettingsType ==
  ASSUME OtherTypes
  PROVE  Settings \in Control /\ Settings.cards \in Cards /\ Settings.show \in Visibility
         /\ Nothing \notin Control
  BY DefaultType, Nulls DEF Settings, OtherTypes, Control

\* The items that are copied are the cards that the user asks for.
LEMMA ReplaceKept ==
  ASSUME IInv, OtherTypes, ModeInv, TreeInv, KeptInv, NEW t \in Users, ReplaceItems(t)
  PROVE  KeptInv'
<1>1. SUFFICES ASSUME cause' = "none" PROVE Kept'
  BY KeptAfter
<1> DEFINE replaced == IF loaded THEN saveToControl(active, items) ELSE active
<1>2. /\ cause = "none" /\ wanted' = wanted
      /\ Goto(t, "waiting", "checking")
      /\ active' = replaced
      /\ loaded /\ items = NoItems => active' = active
  BY <1>1 DEF ReplaceItems, Wants
<1> HIDE DEF replaced
<1>3. Kept /\ Values
  BY <1>2, KeptBefore DEF IInv
<1>4. /\ t \in Threads /\ Loader \in Threads /\ t # Loader /\ Savers \subseteq Threads
      /\ Exiter \in Threads
      /\ \A s \in Threads : pc'[s] = IF s = t THEN "checking" ELSE pc[s]
      /\ pc[t] = "waiting"
      /\ pc'[Loader] = pc[Loader]
  BY <1>2, <1>3, ThreadsAssumption DEF Users, Threads, Values, Goto
<1>5. UNCHANGED <<file, mode, original, image, items, loaded, got, failed>>
  BY DEF ReplaceItems, session
<1>6. mode = "gui"
  <2>1. mode \in {"down", "gui", "command"}
    BY DEF OtherTypes
  <2> QED BY <1>4, <2>1 DEF ModeInv
<1>7. Initial' = Initial /\ Settings' = Settings
  BY <1>2, <1>4, <1>5 DEF Initial, Settings
<1>8. Settings \in Control /\ Settings.cards \in Cards /\ active \in Control
  BY <1>3, SettingsType DEF Values
<1>9. /\ Initial => active' = active
      /\ ~Initial => active' = [show |-> active.show, cards |-> Settings.cards]
  <2>1. active = [show |-> active.show, cards |-> active.cards]
    BY <1>8 DEF Control
  <2>2. CASE ~loaded
    <3>1. active' = active
      BY <1>2, <2>2 DEF replaced
    <3> QED BY <1>3, <1>6, <2>1, <2>2, <3>1 DEF Kept, ItemsInv
  <2>3. CASE loaded /\ pc[Loader] = "adding"
    <3>1. active' = active
      BY <1>2, <1>6, <2>3 DEF TreeInv
    <3> QED BY <1>3, <1>6, <2>1, <2>3, <3>1 DEF Kept, ItemsInv, Initial
  <2>4. CASE loaded /\ pc[Loader] # "adding"
    <3>1. items = Settings.cards
      BY <1>3, <1>6, <2>4 DEF Kept, ItemsInv
    <3>2. active' = saveToControl(active, items)
      BY <1>2, <2>4 DEF replaced
    <3> QED BY <1>8, <2>4, <3>1, <3>2, SavesItems DEF Initial
  <2> QED BY <2>2, <2>3, <2>4
<1>10. NothingWanted'
  <2>1. SUFFICES ASSUME wanted = Nothing PROVE NothingWanted'
    BY <1>2 DEF NothingWanted
  <2>2. active = Default /\ Settings = Default
    BY <1>3, <1>6, <2>1 DEF Kept, NothingWanted, Settings
  <2>3. active' = Default
    BY <1>9, <2>2 DEF Default
  <2> QED BY <1>2, <1>3, <1>4, <1>5, <2>3 DEF Kept, NothingWanted
<1>11. ItemsInv'
  <2>1. ~Initial => active'.cards = Settings.cards
    BY <1>9
  <2>2. Initial => active' = active
    BY <1>9
  <2>3. pc[Loader] \in {"clearing", "adding", "showing"} => ~Initial
    BY DEF Initial
  <2>4. ItemsInv
    BY <1>3 DEF Kept
  <2> QED BY <1>4, <1>5, <1>7, <2>1, <2>2, <2>3, <2>4 DEF ItemsInv
<1>12. WantedInv'
  <2>1. SUFFICES ASSUME wanted # Nothing PROVE WantedInv'
    BY <1>2 DEF WantedInv
  <2>2. Saves'
    BY <1>4 DEF Saves
  <2>3. ~Initial => active'.show = wanted.show /\ active'.cards = wanted.cards
    BY <1>3, <1>9, <2>1 DEF Kept, WantedInv, Settings
  <2>4. WantedInv
    BY <1>3 DEF Kept
  <2> QED BY <1>2, <1>4, <1>5, <1>7, <2>1, <2>2, <2>3, <2>4 DEF WantedInv
<1> QED BY <1>10, <1>11, <1>12 DEF Kept

\* What the user sees of the settings has the cards of the control or those asked for.
LEMMA ClickKept ==
  ASSUME IInv, OtherTypes, ModeInv, TreeInv, Kept, NEW t \in Savers,
         mode = "gui", mode' = mode, ~Initial,
         pc[t] = "idle", pc' = [pc EXCEPT ![t] = "starting"],
         UNCHANGED <<file, original, image, loaded, got, failed>>,
         wanted' \in Control,
         active'.show = wanted'.show, active'.cards = active.cards,
         loaded /\ pc[Loader] # "adding" => items' = wanted'.cards,
         pc[Loader] \in {"clearing", "adding", "showing"} \/ ~loaded =>
           wanted'.cards = Settings.cards
  PROVE  Kept'
<1>1. /\ t \in Threads /\ Loader \in Threads /\ t # Loader /\ Savers \subseteq Threads
      /\ \A s \in Threads : pc'[s] = IF s = t THEN "starting" ELSE pc[s]
      /\ pc'[Loader] = pc[Loader] /\ t \in Users
  BY ThreadsAssumption DEF Users, Threads, IInv, Values
<1>2. ~Initial' /\ wanted' # Nothing /\ Settings' = wanted'
  BY <1>1, Nulls DEF Initial, Settings
<1>3. Saves' /\ Copies'
  BY <1>1 DEF Saves, Copies
<1>4. file \in Control /\ (\A s \in Threads : pc'[s] # "copying") => file = original
  BY <1>1 DEF Kept, NothingWanted, WantedInv
<1>5. NothingWanted'
  BY <1>2 DEF NothingWanted
<1>6. ItemsInv'
  BY <1>1, <1>2 DEF Kept, ItemsInv
<1>7. WantedInv'
  BY <1>2, <1>3, <1>4 DEF WantedInv
<1> QED BY <1>5, <1>6, <1>7 DEF Kept

\* A visibility that the user chooses is active at once, and will be saved.
LEMMA VisibilityKept ==
  ASSUME IInv, OtherTypes, ModeInv, TreeInv, KeptInv, NEW t \in Savers,
         NEW show \in Visibility, SetVisibility(t, show)
  PROVE  KeptInv'
<1>1. SUFFICES ASSUME cause' = "none" PROVE Kept'
  BY KeptAfter
<1>2. /\ cause = "none" /\ ~(~loaded /\ pc[Loader] \in {"reading", "assigning"})
      /\ wanted' = [IF wanted = Nothing THEN active ELSE wanted EXCEPT !.show = show]
  BY <1>1 DEF SetVisibility, Wants
<1>3. Kept
  BY <1>2, KeptBefore
<1>4. /\ mode = "gui" /\ mode' = mode /\ pc[t] = "idle" /\ pc' = [pc EXCEPT ![t] = "starting"]
      /\ UNCHANGED <<file, original, image, loaded, got, failed, items>>
      /\ active' = [active EXCEPT !.show = show]
  BY DEF SetVisibility, Click, Goto, session
<1>5. ~Initial
  BY <1>2 DEF Initial
<1>6. Settings = IF wanted = Nothing THEN active ELSE wanted
  BY <1>3, <1>4 DEF Settings, Kept, NothingWanted
<1>7. Settings \in Control /\ active \in Control
  BY SettingsType DEF IInv, Values
<1>8. wanted' = [show |-> show, cards |-> Settings.cards] /\ wanted' \in Control
      /\ active' = [show |-> show, cards |-> active.cards]
  BY <1>2, <1>4, <1>6, <1>7 DEF Control
<1>9. wanted'.show = show /\ wanted'.cards = Settings.cards
      /\ active'.show = show /\ active'.cards = active.cards
  BY <1>8
<1>10. loaded /\ pc[Loader] # "adding" => items' = wanted'.cards
  BY <1>3, <1>4, <1>9 DEF Kept, ItemsInv
<1> QED BY <1>3, <1>4, <1>5, <1>8, <1>9, <1>10, ClickKept

\* A card that the user chooses is in the items, and will be copied and saved.
LEMMA ToggleKept ==
  ASSUME IInv, OtherTypes, ModeInv, TreeInv, KeptInv, NEW t \in Savers,
         NEW c \in Chips, NEW f \in Files, ToggleActiveFile(t, c, f)
  PROVE  KeptInv'
<1>1. SUFFICES ASSUME cause' = "none" PROVE Kept'
  BY KeptAfter
<1>2. /\ cause = "none" /\ tree = "current"
      /\ items' = [items EXCEPT ![c] = IF @ = f THEN NoFile ELSE f]
      /\ wanted' = [IF wanted = Nothing THEN active ELSE wanted EXCEPT !.cards[c] = items'[c]]
  BY <1>1 DEF ToggleActiveFile, Wants
<1>3. Kept
  BY <1>2, KeptBefore
<1>4. /\ mode = "gui" /\ mode' = mode /\ pc[t] = "idle" /\ pc' = [pc EXCEPT ![t] = "starting"]
      /\ UNCHANGED <<file, active, original, image, loaded, got, failed>>
  BY DEF ToggleActiveFile, Click, Goto, model
<1>5. loaded /\ pc[Loader] \notin {"clearing", "adding", "showing"}
  BY <1>2, <1>4 DEF TreeInv
<1>6. ~Initial
  BY <1>5 DEF Initial
<1>7. Settings = IF wanted = Nothing THEN active ELSE wanted
  BY <1>3, <1>4 DEF Settings, Kept, NothingWanted
<1>8. Settings \in Control /\ active \in Control /\ items = Settings.cards
  BY <1>3, <1>4, <1>5, SettingsType DEF IInv, Values, Kept, ItemsInv
<1>9. items' \in Cards /\ items' = [Settings.cards EXCEPT ![c] = items'[c]]
  BY <1>2, <1>8 DEF Control, Cards
<1>10. wanted' = [show |-> Settings.show, cards |-> [Settings.cards EXCEPT ![c] = items'[c]]]
  BY <1>2, <1>7, <1>8 DEF Control
<1>11. wanted' = [show |-> Settings.show, cards |-> items']
  BY <1>9, <1>10
<1>12. wanted' \in Control /\ wanted'.show = Settings.show /\ wanted'.cards = items'
  BY <1>8, <1>9, <1>11 DEF Control
<1>13. active.show = Settings.show
  BY <1>3, <1>6, <1>7 DEF Kept, WantedInv
<1> QED BY <1>3, <1>4, <1>5, <1>6, <1>12, <1>13, ClickKept

\* A reload takes what the file says, or nothing changes.
LEMMA LoaderKept ==
  ASSUME IInv, OtherTypes, ModeInv, TreeInv, KeptInv,
         Command(Loader) \/ Read \/ Assign \/ getItems \/ Clear \/ AddAll \/ Show
  PROVE  KeptInv'
<1>1. SUFFICES ASSUME cause' = "none" PROVE Kept'
  BY KeptAfter
<1>2. cause = "none" /\ wanted' = wanted
  BY <1>1 DEF Command, Read, Assign, getItems, Clear, AddAll, Show, history, Wants
<1>3. Kept /\ Values
  BY <1>2, KeptBefore DEF IInv
<1>4. mode = "gui" /\ mode' = "gui"
  BY <1>3, LoaderModes
<1>5. PICK to :
        /\ pc' = [pc EXCEPT ![Loader] = to]
        /\ to \in {"starting", "assigning", "getting", "clearing", "adding", "showing", "idle"}
        /\ pc[Loader] \in {"idle", "starting", "reading", "assigning", "getting", "clearing",
                           "adding", "showing"}
  BY DEF Command, Click, Read, Assign, getItems, Clear, AddAll, Show, Goto
<1>6. /\ Loader \in Threads /\ Loader \notin Users /\ Savers \subseteq Users /\ Users \subseteq Threads
      /\ \A s \in Threads : pc'[s] = IF s = Loader THEN to ELSE pc[s]
      /\ pc'[Loader] = to
      /\ \A from, x : Goto(Loader, from, x) => pc[Loader] = from /\ to = x
  BY <1>3, <1>5, ThreadsAssumption DEF Users, Threads, Values, Goto
<1>7. UNCHANGED <<file, image, failed>>
  BY DEF Command, Read, Assign, getItems, Clear, AddAll, Show, history, model
<1>8. /\ Saves' = Saves /\ Copies' = Copies /\ Settings' = Settings
      /\ (\A s \in Threads : pc'[s] # "copying") <=> (\A s \in Threads : pc[s] # "copying")
      /\ \A s \in Threads : pc'[s] \in AtSave => pc[s] \in AtSave
  <2>1. \A s \in Users : pc'[s] = pc[s]
    BY <1>6
  <2>2. Saves' = Saves
    BY <2>1 DEF Saves
  <2>3. Copies' = Copies
    BY <1>4, <1>6, <2>1 DEF Copies
  <2>4. \A s \in Threads : pc'[s] \in AtSave => pc[s] \in AtSave
    BY <1>5, <1>6 DEF AtSave
  <2> QED BY <1>2, <1>5, <1>6, <2>2, <2>3, <2>4 DEF Settings
<1>9. /\ active \in Control /\ file \in Content /\ Settings \in Control
      /\ Nothing \notin Control /\ Part \notin Control /\ Empty \notin Control
      /\ Missing \notin Control
      /\ wanted \in Control \union {Nothing}
  BY <1>3, SettingsType, Nulls DEF Values, OtherTypes
<1>10. file # Part => reload = IF file = Missing THEN Nothing ELSE IF file = Empty THEN Default ELSE file
  BY <1>9, NullAssumption DEF reload
<1>11. CASE Command(Loader)
  <2>1. to = "starting" /\ pc[Loader] = "idle" /\ UNCHANGED <<active, original, items, loaded, got>>
    BY <1>6, <1>11 DEF Command, Click, session, model
  <2>2. ~Initial /\ ~Initial' /\ loaded
    BY <1>4, <1>6, <2>1 DEF Initial, TreeInv
  <2>3. NothingWanted'
    BY <1>2, <1>3, <1>4, <1>6, <1>7, <2>1 DEF Kept, NothingWanted
  <2>4. ItemsInv'
    BY <1>3, <1>4, <1>6, <1>8, <2>1, <2>2 DEF Kept, ItemsInv
  <2>5. WantedInv'
    BY <1>2, <1>3, <1>7, <1>8, <2>1, <2>2 DEF Kept, WantedInv, isDirty
  <2> QED BY <2>3, <2>4, <2>5 DEF Kept
<1>12. CASE Read
  <2>1. /\ to = IF file = Part THEN "getting" ELSE "assigning"
        /\ pc[Loader] \in {"starting", "reading"}
        /\ got' = IF file = Part THEN got ELSE reload
        /\ UNCHANGED <<active, original, items, loaded>>
    <3>1. pc' = [pc EXCEPT ![Loader] = IF file = Part THEN "getting" ELSE "assigning"]
      BY <1>12 DEF Read
    <3> QED BY <1>3, <1>6, <1>12, <3>1 DEF Read, model, Values
  <2>2. Initial <=> ~loaded
    BY <1>4, <2>1 DEF Initial, TreeInv
  <2>3. Initial' <=> ~loaded /\ file # Part
    BY <1>4, <1>6, <2>1 DEF Initial
  <2>4. Initial /\ wanted # Nothing => file = wanted /\ file # Part
    BY <1>3, <1>9 DEF Kept, WantedInv
  <2>5. NothingWanted'
    <3>1. SUFFICES ASSUME wanted = Nothing PROVE NothingWanted'
      BY <1>2 DEF NothingWanted
    <3>2. NothingWanted
      BY <1>3 DEF Kept
    <3>3. file # Part => reload \in {Nothing, Default}
      BY <1>4, <1>9, <1>10, <3>1, <3>2 DEF NothingWanted, Content
    <3> QED BY <1>4, <1>6, <1>7, <2>1, <3>1, <3>2, <3>3 DEF NothingWanted
  <2>6. ItemsInv'
    <3>1. Initial => active = Default /\ original = Default
      BY <1>3, <1>4 DEF Kept, ItemsInv
    <3>2. Initial /\ ~Initial' => Settings = Default
      BY <2>2, <2>3, <2>4 DEF Settings
    <3>3. loaded => items = Settings.cards
      BY <1>3, <1>4, <2>1 DEF Kept, ItemsInv
    <3>4. to \in {"getting", "assigning"}
      BY <2>1
    <3>5. (~loaded /\ ~Initial => active.cards = Settings.cards)'
      <4>1. SUFFICES ASSUME ~loaded, ~Initial' PROVE active.cards = Settings.cards
        BY <1>8, <2>1
      <4> QED BY <2>2, <3>1, <3>2, <4>1
    <3>6. (Initial => active = Default /\ original = Default)'
      BY <2>1, <2>2, <2>3, <3>1
    <3>7. (loaded => items = Settings.cards)'
      BY <1>8, <2>1, <3>3
    <3> QED BY <1>6, <3>4, <3>5, <3>6, <3>7 DEF ItemsInv
  <2>7. WantedInv'
    <3>1. SUFFICES ASSUME wanted # Nothing PROVE WantedInv'
      BY <1>2 DEF WantedInv
    <3>2. WantedInv
      BY <1>3 DEF Kept
    <3>3. isDirty' = isDirty
      BY <2>1 DEF isDirty
    <3>4. CASE Initial
      <4>1. Initial' /\ file = wanted /\ got' = wanted
        BY <1>9, <1>10, <2>1, <2>2, <2>3, <2>4, <3>1, <3>4
      <4> QED BY <1>2, <1>7, <1>8, <3>1, <3>2, <3>3, <3>4, <4>1 DEF WantedInv, AtSave
    <3>5. CASE ~Initial
      <4>1. ~Initial'
        BY <2>2, <2>3, <3>5
      <4> QED BY <1>2, <1>7, <1>8, <2>1, <3>1, <3>2, <3>3, <3>5, <4>1 DEF WantedInv
    <3> QED BY <3>4, <3>5
  <2> QED BY <2>5, <2>6, <2>7 DEF Kept
<1>13. CASE Assign
  <2>1. /\ to = "getting" /\ pc[Loader] = "assigning"
        /\ active' = IF got = Nothing THEN active ELSE got
        /\ original' = active'
        /\ wanted \in {Nothing, active'} /\ got = reload
        /\ UNCHANGED <<items, loaded, got>>
    BY <1>1, <1>6, <1>13 DEF Assign, Wants, session
  <2>2. ~Initial'
    BY <1>6, <2>1 DEF Initial
  <2>3. NothingWanted'
    BY <1>2, <1>3, <1>4, <1>6, <1>7, <2>1 DEF Kept, NothingWanted
  <2>4. ~loaded => active'.cards = Settings.cards
    BY <1>2, <1>4, <2>1, <2>3 DEF NothingWanted, Settings
  <2>5. loaded => items = Settings.cards
    BY <1>3, <1>4, <2>1 DEF Kept, ItemsInv
  <2>6. ItemsInv'
    BY <1>6, <1>8, <2>1, <2>2, <2>4, <2>5 DEF ItemsInv
  <2>7. WantedInv'
    <3>1. SUFFICES ASSUME wanted # Nothing PROVE WantedInv'
      BY <1>2 DEF WantedInv
    <3>2. file \in Control => file = original'
      BY <1>9, <1>10, <2>1
    <3>3. ~isDirty' /\ active' = wanted
      BY <2>1, <3>1 DEF isDirty
    <3>4. file \notin Control => failed \/ Saves
      BY <1>3, <3>1 DEF Kept, WantedInv
    <3> QED BY <1>2, <1>7, <1>8, <2>2, <3>2, <3>3, <3>4 DEF WantedInv
  <2> QED BY <2>3, <2>6, <2>7 DEF Kept
<1>14. CASE getItems \/ Clear \/ AddAll \/ Show
  <2>1. /\ pc[Loader] \in {"getting", "clearing", "adding", "showing"}
        /\ pc[Loader] = "getting" => getItems
        /\ pc[Loader] = "clearing" => Clear
        /\ pc[Loader] = "adding" => AddAll
        /\ pc[Loader] = "showing" => Show
        /\ to \in {"clearing", "adding", "showing", "getting", "idle"}
        /\ to = "clearing" => getItems
        /\ to = "adding" => Clear
        /\ to = "showing" => AddAll
        /\ to = "getting" => AddAll
        /\ to = "idle" => Show
        /\ UNCHANGED <<active, original>>
    BY <1>6, <1>14 DEF getItems, Clear, AddAll, Show, model
  <2>2. ~Initial /\ ~Initial'
    BY <1>6, <2>1 DEF Initial
  <2>3. NothingWanted'
    BY <1>2, <1>3, <1>4, <1>6, <1>7, <2>1 DEF Kept, NothingWanted
  <2>4. WantedInv'
    BY <1>2, <1>3, <1>7, <1>8, <2>1, <2>2 DEF Kept, WantedInv, isDirty
  <2>5. ItemsInv
    BY <1>3 DEF Kept
  <2>6. ItemsInv'
    <3>1. CASE getItems
      <4>1. /\ to = "clearing" /\ pc[Loader] = "getting"
            /\ got' = active /\ UNCHANGED <<items, loaded>>
            /\ wanted # Nothing => wanted.cards = active.cards
        BY <1>1, <1>6, <3>1 DEF getItems, Wants
      <4>2. active.cards = Settings.cards
        BY <1>3, <1>4, <4>1 DEF Kept, NothingWanted, Settings
      <4> QED BY <1>4, <1>6, <1>8, <2>1, <2>2, <2>5, <4>1, <4>2 DEF ItemsInv
    <3>2. CASE Clear
      <4>1. to = "adding" /\ pc[Loader] = "clearing" /\ UNCHANGED <<loaded, got>>
        BY <1>6, <3>2 DEF Clear
      <4> QED BY <1>4, <1>6, <1>8, <2>1, <2>2, <2>5, <4>1 DEF ItemsInv
    <3>3. CASE AddAll
      <4>1. /\ to \in {"showing", "getting"} /\ pc[Loader] = "adding"
            /\ items' = got.cards /\ loaded' = TRUE /\ got' = got
        BY <1>6, <3>3 DEF AddAll
      <4> QED BY <1>4, <1>6, <1>8, <2>1, <2>2, <2>5, <4>1 DEF ItemsInv
    <3>4. CASE Show
      <4>1. to = "idle" /\ pc[Loader] = "showing" /\ UNCHANGED <<items, loaded>>
        BY <1>6, <3>4 DEF Show
      <4> QED BY <1>4, <1>6, <1>8, <2>1, <2>2, <2>5, <4>1 DEF ItemsInv
    <3> QED BY <1>14, <3>1, <3>2, <3>3, <3>4
  <2> QED BY <2>3, <2>4, <2>6 DEF Kept
<1> QED BY <1>11, <1>12, <1>13, <1>14

\* The tool starts with the settings of the file, or with those of the command.
LEMMA StartKept ==
  ASSUME IInv, OtherTypes, ModeInv,
         \/ StartWindow
         \/ \E show \in Visibility, cards \in Cards : StartCommand(show, cards)
  PROVE  KeptInv'
<1>1. /\ mode = "down" /\ ~loaded
      /\ \A t \in Threads : pc[t] = "idle"
      /\ UNCHANGED <<file, image, items, loaded, tree>>
  BY DEF StartWindow, StartCommand, Begin, ModeInv, session
<1>2. image = Nothing
  BY <1>1 DEF IInv, Exclusive
<1>3. Loader \in Threads /\ Exiter \in Threads /\ Exiter \in Users /\ Loader # Exiter
  BY ThreadsAssumption DEF Threads, Users
<1>4. Nothing \notin Control
  BY Nulls
<1>5. CASE StartWindow
  <2>1. /\ mode' = "gui" /\ active' = Default /\ original' = Default
        /\ wanted' = IF file \in Control THEN file ELSE Nothing
        /\ pc'[Loader] = "reading" /\ \A s \in Threads \ {Loader} : pc'[s] = "idle"
    BY <1>1, <1>3, <1>5 DEF StartWindow, IInv, Values
  <2>2. Initial'
    BY <1>1, <2>1 DEF Initial
  <2>3. NothingWanted' /\ ItemsInv'
    BY <1>1, <1>2, <1>4, <2>1, <2>2 DEF NothingWanted, ItemsInv
  <2>4. WantedInv'
    BY <1>1, <1>4, <2>1, <2>2 DEF WantedInv, isDirty
  <2> QED BY <2>3, <2>4 DEF KeptInv
<1>6. CASE \E show \in Visibility, cards \in Cards : StartCommand(show, cards)
  <2>1. /\ mode' = "command" /\ active' \in Control /\ wanted' = active'
        /\ file \in Control => original' = file
        /\ pc' = [pc EXCEPT ![Exiter] = "checking"]
    BY <1>6 DEF StartCommand, Control
  <2>2. pc'[Exiter] = "checking"
    BY <1>3, <2>1 DEF IInv, Values
  <2>3. Saves' /\ ~Initial'
    BY <1>3, <2>1, <2>2 DEF Saves, Initial
  <2>4. NothingWanted' /\ ItemsInv'
    BY <2>1 DEF NothingWanted, ItemsInv
  <2>5. WantedInv'
    BY <1>1, <2>1, <2>3 DEF WantedInv
  <2> QED BY <2>4, <2>5 DEF KeptInv
<1> QED BY <1>5, <1>6

\* When the tool has ended, what was asked for is in the file, or a write failed.
LEMMA EndKept ==
  ASSUME IInv, OtherTypes, ModeInv, KeptInv, Crash \/ Stop(Exiter)
  PROVE  KeptInv'
<1>1. mode' = "down" /\ ~Initial' /\ NothingWanted' /\ ItemsInv'
  BY DEF Crash, Stop, Down, Initial, NothingWanted, ItemsInv
<1>2. CASE Crash
  BY <1>1, <1>2 DEF Crash, KeptInv, WantedInv
<1>3. CASE Stop(Exiter)
  <2>1. SUFFICES ASSUME cause' = "none", wanted # Nothing, wanted' = wanted PROVE WantedInv'
    BY <1>1, <1>3 DEF KeptInv, Stop, Wants, WantedInv
  <2>2. /\ cause = "none" /\ \A s \in Threads \ {Exiter} : pc[s] = "idle"
        /\ pc[Exiter] = "stopping" /\ UNCHANGED <<file, active, original, failed>>
    BY <1>3, <2>1 DEF Stop, Wants
  <2>3. /\ Loader \in Threads \ {Exiter} /\ Users \subseteq Threads
        /\ Savers \subseteq Threads \ {Exiter}
    BY ThreadsAssumption DEF Threads, Users
  <2>4. ~Saves /\ ~Copies /\ ~Initial /\ (\A s \in Threads : pc[s] # "copying")
    BY <2>2, <2>3 DEF Saves, Copies, Initial
  <2>5. WantedInv
    BY <2>2 DEF KeptInv
  <2> QED BY <1>1, <2>1, <2>2, <2>4, <2>5 DEF WantedInv, isDirty
<1> QED BY <1>2, <1>3

\* Every step keeps what is asked for.
LEMMA KeptStep ==
  ASSUME IInv, OtherTypes, ModeInv, TreeInv, KeptInv, [Next]_vars
  PROVE  KeptInv'
<1>1. CASE \E t \in Users : Backup(t) \/ Open(t) \/ Write(t) \/ CopyOf(t)
  BY <1>1, SaveKept
<1>2. CASE \/ \E t \in Users : Disable(t) \/ Check(t) \/ Enable(t) \/ Command(t)
           \/ \E t \in Savers : Leave(t)
           \/ Answer(Exiter)
  BY <1>2, ActionKept DEF Users
<1>3. CASE \E t \in Users : ReplaceItems(t)
  BY <1>3, ReplaceKept
<1>4. CASE \E t \in Savers : \E show \in Visibility : SetVisibility(t, show)
  BY <1>4, VisibilityKept
<1>5. CASE \E t \in Savers : \E c \in Chips, f \in Files : ToggleActiveFile(t, c, f)
  BY <1>5, ToggleKept
<1>6. CASE Command(Loader) \/ Read \/ Assign \/ getItems \/ Clear \/ AddAll \/ Show
  BY <1>6, LoaderKept
<1>7. CASE \/ StartWindow
           \/ \E show \in Visibility, cards \in Cards : StartCommand(show, cards)
  BY <1>7, StartKept
<1>8. CASE Crash \/ Stop(Exiter)
  BY <1>8, EndKept
<1>9. CASE UNCHANGED vars
  <2>1. UNCHANGED <<file, mode, active, original, image, items, loaded, got, pc, wanted, cause,
                    failed>>
    BY <1>9 DEF vars, model, session, history
  <2>2. Initial' = Initial /\ Copies' = Copies /\ Saves' = Saves /\ isDirty' = isDirty
        /\ Settings' = Settings
    BY <2>1 DEF Initial, Copies, Saves, isDirty, Settings
  <2> QED BY <2>1, <2>2 DEF KeptInv, NothingWanted, ItemsInv, WantedInv
<1> QED
  BY <1>1, <1>2, <1>3, <1>4, <1>5, <1>6, <1>7, <1>8, <1>9 DEF Next, Users, Threads

\* At first nothing is asked for.
LEMMA KeptInit == Init => ModeInv /\ TreeInv /\ KeptInv
<1>1. SUFFICES ASSUME Init PROVE ModeInv /\ TreeInv /\ KeptInv
  OBVIOUS
<1>2. \A t \in Threads : pc[t] = "idle"
  BY <1>1 DEF Init
<1> QED BY <1>1, <1>2 DEF Init, ModeInv, TreeInv, KeptInv, NothingWanted, ItemsInv, WantedInv

\* With all threads at rest, nothing is left to be copied or saved.
LEMMA KeptImplies ==
  ASSUME IInv, OtherTypes, ModeInv, TreeInv, KeptInv
  PROVE  EditsKept
<1>1. SUFFICES ASSUME AtRest, cause = "none"
      PROVE  /\ wanted # Nothing => IF isDirty \/ file \notin Control THEN failed ELSE file = wanted
             /\ mode = "gui" => /\ enabled /\ tree = "current"
                                /\ active.cards = items
                                /\ wanted \in {Nothing, active}
  BY DEF EditsKept
<1>2. Kept
  BY <1>1, KeptBefore
<1>3. /\ \A t \in Threads : pc[t] = "idle"
      /\ Loader \in Threads /\ Users \subseteq Threads /\ Savers \subseteq Threads
  BY <1>1 DEF AtRest, Threads, Users
<1>4. ~Initial /\ ~Saves /\ ~Copies
  BY <1>3 DEF Initial, Saves, Copies
<1>5. wanted # Nothing => active = wanted
  <2>1. SUFFICES ASSUME wanted # Nothing PROVE active = wanted
    OBVIOUS
  <2>2. active \in Control /\ wanted \in Control
    BY <2>1 DEF IInv, Values, OtherTypes
  <2>3. active.show = wanted.show /\ active.cards = wanted.cards
    BY <1>2, <1>4, <2>1 DEF Kept, WantedInv
  <2> QED BY <2>2, <2>3 DEF Control
<1>6. wanted # Nothing => IF isDirty \/ file \notin Control THEN failed ELSE file = wanted
  <2>1. SUFFICES ASSUME wanted # Nothing
        PROVE IF isDirty \/ file \notin Control THEN failed ELSE file = wanted
    OBVIOUS
  <2>2. isDirty \/ file \notin Control => failed
    BY <1>2, <1>4, <2>1 DEF Kept, WantedInv
  <2>3. file \in Control => file = original
    BY <1>2, <1>3, <1>4, <2>1 DEF Kept, WantedInv
  <2> QED BY <1>5, <2>1, <2>2, <2>3 DEF isDirty
<1>7. mode = "gui" => /\ enabled /\ tree = "current"
                      /\ active.cards = items
                      /\ wanted \in {Nothing, active}
  <2>1. SUFFICES ASSUME mode = "gui"
        PROVE  enabled /\ tree = "current" /\ active.cards = items /\ wanted \in {Nothing, active}
    OBVIOUS
  <2>2. enabled
    BY <1>3 DEF ModeInv, Busy
  <2>3. loaded /\ tree = "current"
    BY <1>3, <2>1 DEF TreeInv
  <2>4. items = Settings.cards
    BY <1>2, <1>3, <2>1, <2>3 DEF Kept, ItemsInv
  <2>5. active.cards = Settings.cards
    BY <1>2, <1>5, <2>1 DEF Kept, NothingWanted, Settings
  <2> QED BY <1>5, <2>2, <2>3, <2>4, <2>5
<1> QED BY <1>6, <1>7

\* A setting that the user has changed is in the file with all his other settings when the
\* threads that save have ended, or the tool knows that a write failed; the window shows
\* what was asked for and its actions are enabled again.  So it is in every behaviour in
\* which no setting is lost in a way that "cause" names (SaveAction.java:43-75,
\* ReloadAction.java:39-101, ControlModel.java:222-263).
THEOREM EditsKeptHolds == Spec => []EditsKept
<1>1. IInv /\ OtherTypes /\ ModeInv /\ TreeInv /\ KeptInv /\ [Next]_vars
        => ModeInv' /\ TreeInv' /\ KeptInv'
  BY ModesStep, KeptStep DEF IInv
<1>2. IInv /\ OtherTypes /\ ModeInv /\ TreeInv /\ KeptInv => EditsKept
  BY KeptImplies
<1>3. QED
  BY <1>1, <1>2, KeptInit, SaveInvariant, TypesInvariant, PTL DEF Spec
================================================================================
