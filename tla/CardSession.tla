----------------------------- MODULE CardSession ------------------------------
(***************************************************************************)
(* One connection of an application to a reader that has a virtual card:   *)
(* the SoftCard, its Transaction and the calls of pcscproxy/WinscardImpl.cpp *)
(* that keep the virtual and the physical card together.  A call is one    *)
(* step: the application makes one at a time on this connection.           *)
(*                                                                         *)
(* The physical card is external: it has a selected file, and the files    *)
(* are there when the eID applet is selected.  Other applications use it   *)
(* whenever this one has no transaction on it.  Unless Reliable, a command *)
(* may fail without effect, and a transaction may not begin or not end.    *)
(***************************************************************************)
EXTENDS Naturals

CONSTANTS
  SoftFiles,   \* files of the virtual card
  HardFiles,   \* files of the physical card's eID applet
  Root,        \* the root directory, 3F00
  HasApplet,   \* whether the physical card has the eID applet
  Reliable,    \* whether the calls to the physical card succeed
  MaxNest      \* bound: transactions on each of the two cards

ASSUME FilesAssumption == Root \in SoftFiles \intersect HardFiles
ASSUME FlagsAssumption == HasApplet \in BOOLEAN /\ Reliable \in BOOLEAN
ASSUME MaxNestAssumption == MaxNest \in Nat

VARIABLES
  isDataLoaded,    \* the data of the virtual card has been read from its file
  selected,        \* the file selected on the virtual card
  lastCmdToCard,   \* the virtual card answered the last command
  transaction,     \* cnt and isJustStarted of the Transaction
  nest,            \* transactions this connection holds on the physical card
  card,            \* the physical card
  result,          \* what the last call returned
  pending,         \* history: the card that holds the rest of the last answer
  sent,            \* history: this transaction had a request for the physical card
  synced,          \* history: the first of those was executed, with the data loaded,
                   \* and the application has selected no other file since
  overended        \* history: in this transaction one was ended on the physical card
                   \* that loadSoftData() had not been able to begin

soft == <<isDataLoaded, selected, lastCmdToCard>>
history == <<pending, sent, synced, overended>>
vars == <<soft, transaction, nest, card, result, history>>

\* SCARD_F_INTERNAL_ERROR is returned for a file that is refused and for a card that
\* fails: the two are kept apart here.
Results == {"SUCCESS", "HARD_ERROR", "NOT_AVAILABLE", "REFUSED", "FAILED"}
InternalError == {"REFUSED", "FAILED"}

\* The other applications may have left the physical card at any file.
Init ==
  /\ isDataLoaded = FALSE
  /\ selected = Root
  /\ lastCmdToCard = FALSE
  /\ transaction = [cnt |-> 0, isJustStarted |-> FALSE]
  /\ nest = 0
  /\ card \in [applet : {HasApplet}, selected : HardFiles]
  /\ result = "SUCCESS"
  /\ pending = "none"
  /\ sent = FALSE
  /\ synced = FALSE
  /\ overended = FALSE

-----------------------------------------------------------------------------
(* The Transaction object, used by one thread *)

aquire(x) == [cnt |-> x.cnt + 1, isJustStarted |-> x.cnt = 0 \/ x.isJustStarted]

\* Mutant: the count is lowered without a test for 0.
releaseUntested(x) ==
  [cnt |-> x.cnt - 1, isJustStarted |-> x.cnt # 1 /\ x.isJustStarted]

release(x) ==
  LET n == IF x.cnt > 0 THEN x.cnt - 1 ELSE 0
  IN  [cnt |-> n, isJustStarted |-> n # 0 /\ x.isJustStarted]

\* Mutant: the mark is asked for and left.
justStartedKept(x) == x

justStarted(x) == [x EXCEPT !.isJustStarted = FALSE]

-----------------------------------------------------------------------------
(* The physical card: the answers a command may get, each with the card after it *)

Answer(sw, c) == {[sw |-> sw, card |-> c]}

Failure(c) == IF Reliable THEN {} ELSE Answer("failed", c)

HardSelectFile(c, f) ==
  Failure(c) \union
    IF c.applet /\ f \in HardFiles
    THEN Answer("ok", [c EXCEPT !.selected = f])
    ELSE Answer("refused", c)

HardSelectApplet(c) ==
  Failure(c) \union
    IF HasApplet THEN Answer("ok", [applet |-> TRUE, selected |-> Root])
                 ELSE Answer("refused", c)

\* Transactions held after an attempt to begin and to end one.
HardBegin(n) == {n + 1} \union (IF Reliable THEN {} ELSE {n})

HardEnd(n) == {IF n > 0 THEN n - 1 ELSE 0} \union (IF Reliable THEN {} ELSE {n})

-----------------------------------------------------------------------------
(* What the proxy sends to the physical card by itself *)

\* Mutants: the file is not tried again after the applet has been selected, and the
\* applet is not selected at all.
setSelectedOnce(c, f) ==
  LET tries == HardSelectFile(c, f)
  IN  {a \in tries : a.sw # "refused"}
        \union UNION {HardSelectApplet(a.card) : a \in {b \in tries : b.sw = "refused"}}

setSelectedWithoutApplet(c, f) == HardSelectFile(c, f)

\* When the file is refused, the applet is selected and the file tried once more.
setSelectedOnHardCard(c, f) ==
  LET tries == HardSelectFile(c, f)
      applets == UNION {HardSelectApplet(a.card) : a \in {b \in tries : b.sw = "refused"}}
  IN  {a \in tries : a.sw # "refused"}
        \union {a \in applets : a.sw # "ok"}
        \union UNION {HardSelectFile(a.card, f) : a \in {b \in applets : b.sw = "ok"}}

\* The applet is selected, whatever comes of it, and the card asked for its chip number;
\* its transaction is ended whether or not it could be begun.  The data is then found or
\* not: that stands for the card's answer and for the virtual card file.
loadSoftData ==
  /\ nest < MaxNest
  /\ \E n \in HardBegin(nest) : nest' \in HardEnd(n)
  /\ overended' = (overended \/ (transaction.cnt > 0 /\ nest' < nest))
  /\ \E a \in HardSelectApplet(card) : card' = a.card

-----------------------------------------------------------------------------
(* The calls of the application *)

\* Mutant: the virtual card begins whatever the physical one answers.
BeginUnconditionally ==
  /\ nest < MaxNest /\ transaction.cnt < MaxNest
  /\ nest' \in HardBegin(nest)
  /\ transaction' = aquire(transaction)
  /\ sent' = (transaction.cnt > 0 /\ sent)
  /\ result' = IF nest' > nest THEN "SUCCESS" ELSE "HARD_ERROR"
  /\ UNCHANGED <<soft, card, pending, synced, overended>>

\* The virtual card follows when the physical one has begun.
SCardBeginTransaction ==
  /\ nest < MaxNest /\ transaction.cnt < MaxNest
  /\ nest' \in HardBegin(nest)
  /\ IF nest' > nest
     THEN /\ transaction' = aquire(transaction)
          /\ sent' = (transaction.cnt > 0 /\ sent)
          /\ result' = "SUCCESS"
     ELSE /\ result' = "HARD_ERROR"
          /\ UNCHANGED <<transaction, sent>>
  /\ UNCHANGED <<soft, card, pending, synced, overended>>

SCardEndTransaction ==
  /\ nest' \in HardEnd(nest)
  /\ IF nest' < nest
     THEN /\ transaction' = release(transaction)
          /\ synced' = (transaction.cnt > 1 /\ synced)
          /\ overended' = (transaction.cnt > 1 /\ overended)
          /\ result' = "SUCCESS"
     ELSE /\ result' = "HARD_ERROR"
          /\ UNCHANGED <<transaction, synced, overended>>
  /\ UNCHANGED <<soft, card, pending, sent>>

\* A command for the virtual card, whose data cannot be loaded.
DataNotFound ==
  /\ ~isDataLoaded
  /\ loadSoftData
  /\ result' = "NOT_AVAILABLE"
  /\ pending' = "none"
  /\ UNCHANGED <<soft, transaction, sent, synced>>

\* Mutant: setLastCmdToCard(true) is forgotten.
SoftTransmitUnmarked(f) ==
  /\ IF isDataLoaded THEN UNCHANGED <<nest, card, overended>> ELSE loadSoftData
  /\ isDataLoaded' = TRUE
  /\ selected' = f
  /\ transaction' = release(aquire(transaction))
  /\ result' = "SUCCESS"
  /\ synced' = (synced /\ f = selected)
  /\ UNCHANGED <<lastCmdToCard, sent>>

\* SoftCard::transmit() takes and releases the transaction around a command that
\* leaves f selected; the data is loaded first.
SoftTransmit(f) ==
  /\ IF isDataLoaded THEN UNCHANGED <<nest, card, overended>> ELSE loadSoftData
  /\ isDataLoaded' = TRUE
  /\ selected' = f
  /\ transaction' = release(aquire(transaction))
  /\ lastCmdToCard' = TRUE
  /\ result' = "SUCCESS"
  /\ synced' = (synced /\ f = selected)
  /\ UNCHANGED sent

\* A file that is not found leaves the selected one selected.
SelectFile ==
  /\ \E f \in SoftFiles : SoftTransmit(f)
  /\ pending' = "none"

\* READ BINARY answers at once, GET CARD DATA may leave a rest.
ReadCommand ==
  /\ SoftTransmit(IF isDataLoaded THEN selected ELSE Root)
  /\ pending' \in {"none", "soft"}

\* Any other command, for the physical card.
HardTransmit ==
  /\ transaction' = justStarted(transaction)
  /\ sent' = (sent \/ transaction.cnt > 0)
  /\ \E a \in IF transaction.isJustStarted /\ isDataLoaded
              THEN setSelectedOnHardCard(card, selected)
              ELSE Answer("ok", card) :
       /\ card' = a.card
       /\ IF a.sw = "ok"
          THEN /\ result' \in {"SUCCESS"} \union (IF Reliable THEN {} ELSE {"HARD_ERROR"})
               /\ lastCmdToCard' = FALSE
               /\ pending' \in {"none", "hard"}
               /\ synced' = (synced \/ (transaction.cnt > 0 /\ ~sent /\ isDataLoaded))
          ELSE /\ result' = IF a.sw = "refused" THEN "REFUSED" ELSE "FAILED"
               /\ pending' = "none"
               /\ UNCHANGED <<lastCmdToCard, synced>>
  /\ UNCHANGED <<isDataLoaded, selected, nest, overended>>

\* The rest of an answer is asked of the card that gave its beginning.
GetResponse ==
  /\ pending # "none"
  /\ IF lastCmdToCard THEN ReadCommand ELSE HardTransmit

-----------------------------------------------------------------------------
\* Another application selects a file or another applet.
OtherApplication ==
  /\ nest = 0
  /\ \E a \in BOOLEAN, f \in HardFiles :
       (a => HasApplet) /\ card' = [applet |-> a, selected |-> f]
  /\ UNCHANGED <<soft, transaction, nest, result, history>>

Next ==
  \/ SCardBeginTransaction \/ SCardEndTransaction
  \/ DataNotFound \/ SelectFile \/ ReadCommand \/ HardTransmit \/ GetResponse
  \/ OtherApplication

Spec == Init /\ [][Next]_vars

-----------------------------------------------------------------------------
TypeOK ==
  /\ isDataLoaded \in BOOLEAN
  /\ selected \in SoftFiles
  /\ lastCmdToCard \in BOOLEAN
  /\ transaction \in [cnt : Nat, isJustStarted : BOOLEAN]
  /\ nest \in Nat
  /\ card \in [applet : BOOLEAN, selected : HardFiles]
  /\ result \in Results
  /\ pending \in {"none", "soft", "hard"}
  /\ sent \in BOOLEAN
  /\ synced \in BOOLEAN
  /\ overended \in BOOLEAN

\* The virtual card is in a transaction only while the physical card is in as many, for
\* the calls that fail half-way too: what is selected and executed in a transaction of
\* the virtual card is out of the reach of other applications.  The exception is a
\* transaction in which loadSoftData() could not begin its own and ended one all the
\* same (WinscardImpl.cpp:73-94, 154-175, 601-612).
VirtualInsidePhysical == ~overended => transaction.cnt <= nest

\* "if within transaction set the selected EF/DF on the hard reader first"
\* (WinscardImpl.cpp:310), as far as the code does it: once the first command of a
\* transaction that goes to the physical card has been executed with the data loaded,
\* both cards have the same file selected until the application selects another one
\* or the transaction ends, on the physical card by mistake included.
StaysSynced ==
  synced /\ ~overended => card.selected = selected

\* "if within transaction set the selected EF/DF on the hard reader first": a command
\* the physical card executes in a transaction finds the file selected that the
\* application selected.
WithinTransactionSynced ==
  [][HardTransmit /\ transaction.cnt > 0 /\ isDataLoaded /\ result' \notin InternalError
       => card'.selected = selected]_vars

\* The steps that may move the selection of the physical card: another application's, the
\* loading of the data, which selects the applet each time it is tried, in a transaction
\* or not (WinscardImpl.cpp:601-612), and the first request of a transaction that goes to
\* the physical card.  So once the data is loaded the proxy moves it at most once in a
\* transaction and never outside one: no later command, a GET RESPONSE among them, loses
\* the state that an earlier one left on the physical card (WinscardImpl.cpp:311).
OneSelectPerTransaction ==
  [][\/ UNCHANGED card
     \/ OtherApplication
     \/ ~isDataLoaded /\ (DataNotFound \/ SelectFile \/ ReadCommand)
     \/ isDataLoaded /\ HardTransmit /\ transaction.cnt > 0 /\ ~sent]_vars

\* The rest of an answer is asked of the card that holds it, and asking it of the virtual
\* card never loads the data anew (WinscardImpl.cpp:293-325).
RestIsRouted ==
  /\ pending = "soft" => lastCmdToCard /\ isDataLoaded
  /\ pending = "hard" => ~lastCmdToCard

\* A command is refused for the selected file only when the physical card has no such
\* file: whatever other applications left selected, the second try finds the file
\* (WinscardImpl.cpp:533-582).
RefusedOnlyIfMissing ==
  [][HardTransmit /\ result' = "REFUSED" => ~HasApplet \/ selected \notin HardFiles]_vars
==============================================================================
