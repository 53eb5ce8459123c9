--------------------------- MODULE CardReaderMonitor ---------------------------
(***************************************************************************)
(* The card readers in the window of the control tool: the thread of       *)
(* CardReaderMonitorImpl.java that watches them, the menu that             *)
(* CardReaderMenuUpdator.java keeps on the event dispatch thread, and the  *)
(* threads of CardUnblockAction.java, which pause the monitor, talk to a   *)
(* card and resume the monitor.  ExitAction.java stops it.                 *)
(*                                                                         *)
(* A status is read at one instant.  The fields run and exit are not       *)
(* volatile; the calls of each loop make a write visible to it.            *)
(***************************************************************************)
EXTENDS Naturals, SequencesExt

CONSTANTS
  Readers, NoReader,
  Plugged,     \* the readers with a card when the tool starts; the others come later
  Monitors, Unblockers,  \* slots for the threads of the monitor and of unblocks
  NoThread,
  MaxEvents    \* bound: status changes, clicks, failed calls and exits together

ASSUME ReadersAssumption == IsFiniteSet(Readers) /\ Plugged \subseteq Readers
ASSUME NullAssumption == NoReader \notin Readers /\ NoThread \notin Unblockers
ASSUME BoundsAssumption == MaxEvents \in Nat

VARIABLES
  status,      \* of the readers, in the PC/SC library
  terms,       \* terms and termsCardPresent: the status that was reported last
  events,      \* the Runnables of invokeLater() that have not run
  menu,        \* the items of the Unblock menu; "empty" is a disabled one
  run, exit,
  monitor,     \* where each thread of the monitor is
  unblocker,   \* where each thread of an unblock is
  daemon,      \* where the thread is that talks to the card: "late" and "overrun" are
               \* "starting" and "connected" when run() no longer waits for it
  lock,        \* who is in CardUnblockAction.run()
  currentRdr,
  asked,       \* the reader whose item was clicked
  opened,      \* the reader of the CardSession
  edt,         \* the reader of the click that the event dispatch thread handles
  exiter,      \* ExitAction
  causes,      \* history: races that were lost
  happened     \* counts the bounded events

readers == <<status, terms, events, menu>>
unblock == <<unblocker, daemon, lock, currentRdr, asked, opened, edt>>
vars == <<readers, run, exit, monitor, unblock, exiter, causes, happened>>

\* new Thread().start() in the first free slot; there must be one.
Started(thread) == [thread EXCEPT ![CHOOSE t \in DOMAIN thread : thread[t] = "none"] = "starting"]

Absent == [r \in Readers |-> "absent"]

Init ==
  /\ status = [r \in Readers |-> IF r \in Plugged THEN "card" ELSE "absent"]
  /\ terms = Absent /\ menu = Absent /\ events = <<>>
  /\ run = FALSE /\ exit = FALSE
  /\ monitor = Started([m \in Monitors |-> "none"])
  /\ unblocker = [u \in Unblockers |-> "none"] /\ daemon = [u \in Unblockers |-> "none"]
  /\ lock = NoThread /\ currentRdr = NoReader
  /\ asked = [u \in Unblockers |-> NoReader] /\ opened = [u \in Unblockers |-> NoReader]
  /\ edt = NoReader
  /\ exiter = "none"
  /\ causes = {}
  /\ happened = 0

Up == exiter # "stopped"
Goto(m, from, to) == Up /\ monitor[m] = from /\ monitor' = [monitor EXCEPT ![m] = to]
Move(u, from, to) == Up /\ unblocker[u] = from /\ unblocker' = [unblocker EXCEPT ![u] = to]
Happens == happened < MaxEvents /\ happened' = happened + 1

-----------------------------------------------------------------------------
(* CardReaderMenuUpdator *)

Item(shown, e) ==
  CASE e.kind = "cardAdded" -> "card"
    [] e.kind = "cardRemoved" -> IF shown = "absent" THEN "absent" ELSE "empty"
    [] e.kind = "readerAdded" -> IF shown = "absent" THEN "empty" ELSE shown
    [] e.kind = "readerRemoved" -> "absent"

\* readerRemoved(null) removes all items.
Updated(shown, e) ==
  IF e.reader = NoReader THEN Absent ELSE [shown EXCEPT ![e.reader] = Item(@, e)]

Dispatch ==
  /\ Up /\ edt = NoReader
  /\ events # <<>>
  /\ menu' = Updated(menu, Head(events)) /\ events' = Tail(events)
  /\ UNCHANGED <<status, terms, run, exit, monitor, unblock, exiter, causes, happened>>

-----------------------------------------------------------------------------
(* CardReaderMonitorImpl *)

\* What getStatusChange() reports of a reader.
Change(r, before, after) ==
  CASE after = "absent" -> [kind |-> "readerRemoved", reader |-> r]
    [] after = "card" -> [kind |-> "cardAdded", reader |-> r]
    [] after = "empty" /\ before = "absent" -> [kind |-> "readerAdded", reader |-> r]
    [] OTHER -> [kind |-> "cardRemoved", reader |-> r]

\* Mutant: a reader that is removed is not reported.
ReportedPresent(new) ==
  SetToSeq({Change(r, terms[r], new[r]) : r \in {q \in Readers :
              new[q] # terms[q] /\ new[q] # "absent"}})

Reported(new) ==
  SetToSeq({Change(r, terms[r], new[r]) : r \in {q \in Readers : new[q] # terms[q]}})

\* The monitor begins; pause() may come in between.
Begin(m) ==
  /\ \/ Goto(m, "starting", "begun") /\ run' = TRUE /\ UNCHANGED exit
     \/ /\ Goto(m, "begun", IF run THEN "listing" ELSE "leaving")
        /\ exit' = FALSE /\ UNCHANGED run
  /\ UNCHANGED <<readers, unblock, exiter, causes, happened>>

\* getStatusChange().  isCardPresent() that fails counts as no card; list() that fails
\* has lost the status already, which nobody is told when the monitor is paused.
GetStatusChange(m) ==
  /\ Goto(m, "listing", IF run THEN "waiting" ELSE "leaving")
  /\ \/ /\ terms' = status /\ events' = events \o Reported(status)
        /\ UNCHANGED <<causes, happened>>
     \/ /\ Happens
        /\ \E r \in Readers : LET new == [status EXCEPT ![r] = "empty"]
             IN status[r] = "card" /\ terms' = new /\ events' = events \o Reported(new)
        /\ UNCHANGED causes
     \/ /\ Happens
        /\ terms' = Absent
        /\ IF run
           THEN /\ events' = Append(events, [kind |-> "readerRemoved", reader |-> NoReader])
                /\ UNCHANGED causes
           ELSE causes' = causes \union {"silent"} /\ UNCHANGED events
  /\ UNCHANGED <<status, menu, run, exit, unblock, exiter>>

Changed(m) ==
  /\ Goto(m, "waiting", IF run THEN "listing" ELSE "leaving")
  /\ UNCHANGED <<readers, run, exit, unblock, exiter, causes, happened>>

\* waitForChange() throws, which happens when there is no reader.
NoReaders(m) ==
  /\ Goto(m, "waiting", IF run THEN "sleeping" ELSE "leaving")
  /\ UNCHANGED <<readers, run, exit, unblock, exiter, causes, happened>>

\* waitForChange() or wait() ends after LISTREADER_INTERVAL.
TimedOut(m) ==
  /\ \/ ~run /\ Goto(m, "waiting", "leaving")
     \/ Goto(m, "sleeping", IF run THEN "waiting" ELSE "leaving")
  /\ UNCHANGED <<readers, run, exit, unblock, exiter, causes, happened>>

\* Mutant: the notify() of pause() that waits is not backed by exit.
LeaveUnannounced(m) ==
  /\ Goto(m, "leaving", "none")
  /\ UNCHANGED <<readers, run, exit, unblock, exiter, causes, happened>>

Leave(m) ==
  /\ Goto(m, "leaving", "none")
  /\ exit' = TRUE
  /\ UNCHANGED <<readers, run, unblock, exiter, causes, happened>>

\* The first statement of pause(); the notify() only ends a wait sooner.
Pause ==
  /\ run' = FALSE
  /\ causes' = IF \E m \in Monitors : monitor[m] \in {"starting", "begun"}
               THEN causes \union {"beginning"} ELSE causes

-----------------------------------------------------------------------------
(* CardUnblockAction *)

\* A slot for a thread of an unblock; a click without one is not considered.
Idle(u) == unblocker[u] = "none" /\ daemon[u] = "none"

Click(r) ==
  /\ Up /\ edt = NoReader
  /\ Happens
  /\ menu[r] = "card" /\ \E u \in Unblockers : Idle(u)
  /\ edt' = r
  /\ UNCHANGED <<readers, run, exit, monitor, unblocker, daemon, lock, currentRdr,
                 asked, opened, exiter, causes>>

\* actionPerformed() needs the monitor that run() holds.
ActionPerformed ==
  /\ Up /\ edt # NoReader /\ lock = NoThread
  /\ edt' = NoReader
  /\ IF edt = currentRdr
     THEN UNCHANGED <<unblocker, currentRdr, asked, causes>>
     ELSE /\ LET u == CHOOSE t \in Unblockers : Idle(t)
             IN /\ Move(u, "none", "starting")
                /\ asked' = [asked EXCEPT ![u] = edt]
          /\ currentRdr' = edt
          /\ causes' = IF currentRdr # NoReader THEN causes \union {"second click"} ELSE causes
  /\ UNCHANGED <<readers, run, exit, monitor, daemon, lock, opened, exiter, happened>>

\* Mutant: run() is not synchronized.
EnterTogether(u) ==
  /\ lock' = u
  /\ Move(u, "starting", "pausing")
  /\ Pause
  /\ UNCHANGED <<readers, exit, monitor, daemon, currentRdr, asked, opened, edt,
                 exiter, happened>>

Enter(u) ==
  /\ lock = NoThread /\ lock' = u
  /\ Move(u, "starting", "pausing")
  /\ Pause
  /\ UNCHANGED <<readers, exit, monitor, daemon, currentRdr, asked, opened, edt,
                 exiter, happened>>

\* Mutant: pause() does not wait for the thread to end.
PausedAtOnce(u) ==
  /\ Move(u, "pausing", "unblocking")
  /\ daemon' = [daemon EXCEPT ![u] = "starting"]
  /\ UNCHANGED <<readers, run, exit, monitor, lock, currentRdr, asked, opened, edt,
                 exiter, causes, happened>>

Paused(u) ==
  /\ exit
  /\ Move(u, "pausing", "unblocking")
  /\ daemon' = [daemon EXCEPT ![u] = "starting"]
  /\ UNCHANGED <<readers, run, exit, monitor, lock, currentRdr, asked, opened, edt,
                 exiter, causes, happened>>

\* countDown(), which ends the daemon; it may be too late for the thread that waits.
CountedDown(u) == IF unblocker[u] = "unblocking" THEN "done" ELSE "none"

\* The daemon makes a CardSession and connects to the card.
CreateCardSession(u) ==
  /\ Up /\ daemon[u] \in {"starting", "late"}
  /\ IF currentRdr # NoReader /\ terms[currentRdr] # "absent"
     THEN /\ opened' = [opened EXCEPT ![u] = currentRdr]
          /\ daemon' = [daemon EXCEPT ![u] = IF @ = "late" THEN "overrun" ELSE "connected"]
     ELSE daemon' = [daemon EXCEPT ![u] = CountedDown(u)] /\ UNCHANGED opened
  /\ UNCHANGED <<readers, run, exit, monitor, unblocker, lock, currentRdr, asked, edt,
                 exiter, causes, happened>>

Disconnect(u) ==
  /\ Up /\ daemon[u] \in {"connected", "overrun"}
  /\ daemon' = [daemon EXCEPT ![u] = CountedDown(u)]
  /\ opened' = [opened EXCEPT ![u] = NoReader]
  /\ UNCHANGED <<readers, run, exit, monitor, unblocker, lock, currentRdr, asked, edt,
                 exiter, causes, happened>>

\* The latch or its timeout of 15 s, and resume().  The daemon is interrupted, which ends
\* neither the start of it nor a command that is with the card.
LeftBehind(d) ==
  CASE d = "starting" -> "late" [] d = "connected" -> "overrun" [] OTHER -> "none"

Resume(u) ==
  /\ Move(u, "unblocking", "ending")
  /\ \E m \in Monitors : monitor[m] = "none"
  /\ monitor' = Started(monitor)
  /\ lock' = NoThread
  /\ daemon' = [daemon EXCEPT ![u] = LeftBehind(@)]
  /\ causes' = IF exiter = "pausing" THEN causes \union {"exiting"} ELSE causes
  /\ UNCHANGED <<readers, run, exit, currentRdr, asked, opened, edt, exiter, happened>>

End(u) ==
  /\ lock = NoThread
  /\ Move(u, "ending", "none")
  /\ currentRdr' = NoReader
  /\ asked' = [asked EXCEPT ![u] = NoReader]
  /\ UNCHANGED <<readers, run, exit, monitor, daemon, lock, opened, edt, exiter,
                 causes, happened>>

-----------------------------------------------------------------------------
(* ExitAction calls stop() and System.exit(). *)

Stop ==
  /\ exiter = "none" /\ exiter' = "pausing"
  /\ Happens
  /\ Pause
  /\ UNCHANGED <<readers, exit, monitor, unblock>>

Stopped ==
  /\ exiter = "pausing" /\ exit
  /\ exiter' = "stopped"
  /\ UNCHANGED <<readers, run, exit, monitor, unblock, causes, happened>>

Plug(r) ==
  /\ Up /\ Happens
  /\ \E s \in {"absent", "empty", "card"} \ {status[r]} : status' = [status EXCEPT ![r] = s]
  /\ UNCHANGED <<terms, events, menu, run, exit, monitor, unblock, exiter, causes>>

MonitorStep(m) == Begin(m) \/ GetStatusChange(m) \/ TimedOut(m) \/ Leave(m)
UnblockStep(u) == Enter(u) \/ Paused(u) \/ Resume(u) \/ End(u)

Next ==
  \/ \E m \in Monitors : MonitorStep(m) \/ Changed(m) \/ NoReaders(m)
  \/ \E u \in Unblockers : UnblockStep(u) \/ CreateCardSession(u) \/ Disconnect(u)
  \/ \E r \in Readers : Click(r) \/ Plug(r)
  \/ Dispatch \/ ActionPerformed \/ Stop \/ Stopped

\* Threads run and waits end; a card may never answer.
Fairness ==
  /\ \A m \in Monitors : WF_vars(MonitorStep(m))
  /\ \A u \in Unblockers : WF_vars(UnblockStep(u))
  /\ WF_vars(Dispatch) /\ WF_vars(ActionPerformed) /\ WF_vars(Stopped)

Spec == Init /\ [][Next]_vars /\ Fairness

-----------------------------------------------------------------------------
Status == [Readers -> {"absent", "empty", "card"}]

TypeOK ==
  /\ status \in Status /\ terms \in Status /\ menu \in Status
  /\ \A i \in DOMAIN events :
       events[i].kind \in {"readerAdded", "readerRemoved", "cardAdded", "cardRemoved"}
  /\ run \in BOOLEAN /\ exit \in BOOLEAN
  /\ monitor \in [Monitors ->
       {"none", "starting", "begun", "listing", "waiting", "sleeping", "leaving"}]
  /\ unblocker \in [Unblockers -> {"none", "starting", "pausing", "unblocking", "ending"}]
  /\ daemon \in [Unblockers -> {"none", "starting", "connected", "done", "late", "overrun"}]
  /\ lock \in Unblockers \union {NoThread}
  /\ lock # NoThread <=> \E u \in Unblockers : unblocker[u] \in {"pausing", "unblocking"}
  /\ currentRdr \in Readers \union {NoReader} /\ edt \in Readers \union {NoReader}
  /\ asked \in [Unblockers -> Readers \union {NoReader}]
  /\ opened \in [Unblockers -> Readers \union {NoReader}]
  /\ exiter \in {"none", "pausing", "stopped"}
  /\ causes \subseteq {"silent", "beginning", "second click", "exiting"}

\* The menu is what the monitor saw last as soon as the events that wait have run,
\* through pauses, resumes and monitors that run at the same time, unless a list
\* failed while the monitor was being paused (CardReaderMonitorImpl.java:164-227,
\* CardReaderMenuUpdator.java:41-102).
MenuTrue == "silent" \notin causes => FoldLeft(Updated, menu, events) = terms

\* No thread watches the readers while run() waits for a card, nor as long as a card is
\* connected; and until the unblock has ended that is in the reader whose item was
\* clicked: unless the monitor was paused before its thread had begun, another item was
\* clicked before the first unblock had ended, or run() has given up the wait for this
\* card ("overrun"), which goes on being unblocked under a monitor
\* (CardUnblockAction.java:42-126, CardReaderMonitor.java:44-49).
UnblockAlone ==
  \A u \in Unblockers :
    /\ unblocker[u] = "unblocking" \/ daemon[u] = "connected" =>
         "beginning" \in causes \/ \A m \in Monitors : monitor[m] = "none"
    /\ opened[u] # NoReader /\ "second click" \notin causes
         => asked[u] \in {opened[u], NoReader}

\* An unblock ends, and with it the wait of the event dispatch thread for its monitor, and
\* the tool can exit, if no thread of the monitor is paused before it has begun and none is
\* resumed while the tool exits; else pause() may wait for ever
\* (CardReaderMonitorImpl.java:53-66).
UnblockEnds ==
  LET busy == edt # NoReader \/ exiter = "pausing" \/ \E u \in Unblockers : unblocker[u] # "none"
      early == causes \intersect {"beginning", "exiting"} # {}
  IN busy ~> (~busy \/ exiter = "stopped" \/ early)
================================================================================
