-------------------------- MODULE CardSessionProofs ---------------------------
(***************************************************************************)
(* Proofs about CardSession for any files, any depth of transactions, and  *)
(* a physical card that may fail.                                          *)
(***************************************************************************)
EXTENDS CardSession, TLAPS

\* isJustStarted is up exactly in a transaction none of whose requests has gone to the
\* physical card: this is what makes the one select of a transaction the first.
MarkInv == transaction.isJustStarted <=> transaction.cnt > 0 /\ ~sent

\* Both cards agree, from the first command the physical card executes in a
\* transaction, while that transaction keeps the other applications out.
SyncInv ==
  synced => /\ sent /\ transaction.cnt > 0 /\ isDataLoaded
            /\ ~overended => card.selected = selected

\* GET RESPONSE goes to the virtual card only once its data is loaded.
RestInv == RestIsRouted /\ (lastCmdToCard => isDataLoaded)

IInv ==
  /\ TypeOK
  /\ VirtualInsidePhysical
  /\ MarkInv
  /\ SyncInv
  /\ RestInv

-----------------------------------------------------------------------------
(* What the helpers do to a transaction and to a card *)

TransactionType == [cnt : Nat, isJustStarted : BOOLEAN]
CardType == [applet : BOOLEAN, selected : HardFiles]
AnswerType == [sw : {"ok", "refused", "failed"}, card : CardType]

\* aquire() counts one more and marks an outermost transaction.
LEMMA AquireCounts ==
  ASSUME NEW x \in TransactionType
  PROVE  /\ aquire(x) \in TransactionType
         /\ aquire(x).cnt = x.cnt + 1
         /\ aquire(x).isJustStarted = (x.cnt = 0 \/ x.isJustStarted)
BY DEF aquire, TransactionType

\* release() counts one less, if any, and leaves no mark when it counts none.
LEMMA ReleaseCounts ==
  ASSUME NEW x \in TransactionType
  PROVE  /\ release(x) \in TransactionType
         /\ release(x).cnt = IF x.cnt > 0 THEN x.cnt - 1 ELSE 0
         /\ release(x).isJustStarted <=> x.isJustStarted /\ release(x).cnt > 0
<1> DEFINE n == IF x.cnt > 0 THEN x.cnt - 1 ELSE 0
           mark == n # 0 /\ x.isJustStarted
<1>1. n \in Nat /\ mark \in BOOLEAN
  BY DEF TransactionType
<1>2. release(x) = [cnt |-> n, isJustStarted |-> mark]
  BY DEF release
<1>3. mark <=> x.isJustStarted /\ n # 0
  OBVIOUS
<1> HIDE DEF n, mark
<1>4. release(x) \in TransactionType /\ release(x).cnt = n /\ release(x).isJustStarted = mark
  BY <1>1, <1>2 DEF TransactionType
<1>5. release(x).isJustStarted <=> x.isJustStarted /\ release(x).cnt > 0
  BY <1>1, <1>3, <1>4
<1>6. release(x).cnt = IF x.cnt > 0 THEN x.cnt - 1 ELSE 0
  BY <1>4 DEF n
<1> QED BY <1>4, <1>5, <1>6

\* The transaction that transmit() takes around a command leaves the count, and marks
\* nothing.
LEMMA TransmitCounts ==
  ASSUME NEW x \in TransactionType,
         x.isJustStarted => x.cnt > 0
  PROVE  /\ release(aquire(x)) \in TransactionType
         /\ release(aquire(x)).cnt = x.cnt
         /\ release(aquire(x)).isJustStarted <=> x.isJustStarted
<1>1. aquire(x) \in TransactionType /\ aquire(x).cnt = x.cnt + 1
      /\ aquire(x).isJustStarted = (x.cnt = 0 \/ x.isJustStarted)
  BY AquireCounts
<1>2. release(aquire(x)) \in TransactionType /\ release(aquire(x)).cnt = x.cnt
  BY <1>1, ReleaseCounts DEF TransactionType
<1>3. release(aquire(x)).isJustStarted <=> aquire(x).isJustStarted /\ x.cnt > 0
  BY <1>1, <1>2, ReleaseCounts
<1>4. aquire(x).isJustStarted <=> x.cnt = 0 \/ x.isJustStarted
  BY <1>1
<1> QED BY <1>2, <1>3, <1>4 DEF TransactionType

\* Every answer leaves a card, with a file of its own selected.
LEMMA SelectAnswers ==
  ASSUME NEW c \in CardType, NEW f
  PROVE  /\ HardSelectFile(c, f) \subseteq AnswerType
         /\ HardSelectApplet(c) \subseteq AnswerType
         /\ \A a \in HardSelectFile(c, f) : a.sw = "ok" => a.card.selected = f
<1> DEFINE d == [applet |-> TRUE, selected |-> Root]
<1>1. HardSelectFile(c, f) \subseteq AnswerType
  BY DEF HardSelectFile, Answer, Failure, CardType, AnswerType
<1>2. HardSelectApplet(c) \subseteq AnswerType
  <2>1. d \in CardType
    BY FilesAssumption DEF CardType
  <2> HIDE DEF d
  <2>2. Answer("ok", d) \subseteq AnswerType
    BY <2>1 DEF Answer, AnswerType
  <2>3. Failure(c) \subseteq AnswerType /\ Answer("refused", c) \subseteq AnswerType
    BY DEF Answer, Failure, AnswerType
  <2>4. HardSelectApplet(c) \subseteq Failure(c) \union Answer("ok", d) \union Answer("refused", c)
    BY DEF HardSelectApplet, d
  <2> QED BY <2>2, <2>3, <2>4
<1>3. ASSUME NEW a \in HardSelectFile(c, f), a.sw = "ok"
      PROVE  a.card.selected = f
  BY <1>3 DEF HardSelectFile, Answer, Failure, CardType
<1> QED BY <1>1, <1>2, <1>3

\* When setSelectedOnHardCard() succeeds the file is selected.
LEMMA SetSelectedAnswers ==
  ASSUME NEW c \in CardType, NEW f, NEW a \in setSelectedOnHardCard(c, f)
  PROVE  a \in AnswerType /\ (a.sw = "ok" => a.card.selected = f)
<1> DEFINE tries == HardSelectFile(c, f)
           refusals == {b \in tries : b.sw = "refused"}
           applets == UNION {HardSelectApplet(b.card) : b \in refusals}
<1>1. tries \subseteq AnswerType /\ \A b \in tries : b.sw = "ok" => b.card.selected = f
  BY SelectAnswers
<1>2. \A b \in refusals : b.card \in CardType
  BY <1>1 DEF AnswerType
<1>3. applets \subseteq AnswerType
  <2>1. \A b \in refusals : HardSelectApplet(b.card) \subseteq AnswerType
    BY <1>2, SelectAnswers
  <2> QED BY <2>1
<1>4. CASE a \in tries
  BY <1>1, <1>4
<1>5. CASE a \in {b \in applets : b.sw # "ok"}
  BY <1>3, <1>5
<1>6. CASE \E b \in applets : a \in HardSelectFile(b.card, f)
  <2>1. PICK b \in applets : a \in HardSelectFile(b.card, f)
    BY <1>6
  <2>2. b.card \in CardType
    BY <1>3 DEF AnswerType
  <2> QED BY <2>1, <2>2, SelectAnswers
<1> QED BY <1>4, <1>5, <1>6 DEF setSelectedOnHardCard

\* loadSoftData() leaves the transactions the connection had, or one more when its own
\* cannot be ended, or one less when its own could not be begun.
LEMMA LoadKeeps ==
  ASSUME TypeOK, loadSoftData
  PROVE  /\ nest' \in Nat /\ card' \in CardType /\ overended' \in BOOLEAN
         /\ overended => overended'
         /\ overended' \/ nest' >= nest \/ transaction.cnt = 0
<1>1. nest \in Nat /\ transaction.cnt \in Nat
  BY DEF TypeOK
<1>2. nest' \in Nat
  BY <1>1 DEF loadSoftData, HardBegin, HardEnd
<1>3. card \in CardType
  BY DEF TypeOK, CardType
<1>4. card' \in CardType
  BY <1>3, SelectAnswers DEF loadSoftData, AnswerType
<1>5. overended' = (overended \/ (transaction.cnt > 0 /\ nest' < nest))
  BY DEF loadSoftData
<1>6. nest' < nest \/ nest' >= nest
  BY <1>1, <1>2
<1>7. transaction.cnt > 0 \/ transaction.cnt = 0
  BY <1>1
<1>8. overended' \in BOOLEAN
  BY <1>5
<1> QED BY <1>2, <1>4, <1>5, <1>6, <1>7, <1>8

-----------------------------------------------------------------------------
(* The inductive invariant *)

\* It holds when the SoftCard is constructed.
LEMMA InitIInv == Init => IInv
<1> SUFFICES ASSUME Init PROVE IInv
  OBVIOUS
<1>1. card \in [applet : BOOLEAN, selected : HardFiles]
  BY FlagsAssumption DEF Init
<1>2. transaction \in [cnt : Nat, isJustStarted : BOOLEAN]
  BY DEF Init
<1>3. TypeOK
  BY FilesAssumption, <1>1, <1>2 DEF Init, TypeOK, Results
<1>4. VirtualInsidePhysical /\ MarkInv /\ SyncInv /\ RestInv
  BY DEF Init, VirtualInsidePhysical, MarkInv, SyncInv, RestInv, RestIsRouted
<1> QED BY <1>3, <1>4 DEF IInv

\* A begin marks an outermost transaction and clears what was sent in the last.
LEMMA BeginStep == IInv /\ SCardBeginTransaction => IInv'
<1> SUFFICES ASSUME IInv, SCardBeginTransaction PROVE IInv'
  OBVIOUS
<1> USE DEF IInv
<1>1. transaction \in TransactionType /\ nest \in Nat
  BY DEF TypeOK, TransactionType
<1>2. nest' \in {nest, nest + 1}
  BY DEF SCardBeginTransaction, HardBegin
<1>3. CASE nest' = nest
  <2>1. UNCHANGED <<soft, transaction, card, history>> /\ result' = "HARD_ERROR"
    BY <1>1, <1>3 DEF SCardBeginTransaction, history
  <2> QED BY <1>3, <2>1 DEF TypeOK, VirtualInsidePhysical, MarkInv, SyncInv, RestInv,
             RestIsRouted, Results, soft, history
<1>4. CASE nest' = nest + 1
  <2>1. /\ transaction' = aquire(transaction)
        /\ sent' = (transaction.cnt > 0 /\ sent)
        /\ result' = "SUCCESS"
        /\ UNCHANGED <<soft, card, pending, synced, overended>>
    BY <1>1, <1>4 DEF SCardBeginTransaction
  <2>2. /\ transaction' \in TransactionType
        /\ transaction'.cnt = transaction.cnt + 1
        /\ transaction'.isJustStarted = (transaction.cnt = 0 \/ transaction.isJustStarted)
    BY <1>1, <2>1, AquireCounts
  <2>3. TypeOK'
    BY <1>1, <1>4, <2>1, <2>2 DEF TypeOK, Results, soft, TransactionType
  <2>4. VirtualInsidePhysical'
    BY <1>1, <1>4, <2>1, <2>2 DEF VirtualInsidePhysical, TransactionType
  <2>5. MarkInv'
    <3>1. transaction'.isJustStarted <=> transaction.cnt = 0 \/ transaction.isJustStarted
      BY <2>2
    <3>2. sent' <=> transaction.cnt > 0 /\ sent
      BY <2>1
    <3> QED BY <1>1, <2>2, <3>1, <3>2 DEF MarkInv, TransactionType
  <2>6. SyncInv' /\ RestInv'
    <3>1. sent' <=> transaction.cnt > 0 /\ sent
      BY <2>1
    <3> QED BY <1>1, <2>1, <2>2, <3>1 DEF SyncInv, RestInv, RestIsRouted, soft, TransactionType
  <2> QED BY <2>3, <2>4, <2>5, <2>6
<1> QED BY <1>2, <1>3, <1>4

\* An end takes one transaction from both, and the outermost leaves no mark.
LEMMA EndStep == IInv /\ SCardEndTransaction => IInv'
<1> SUFFICES ASSUME IInv, SCardEndTransaction PROVE IInv'
  OBVIOUS
<1> USE DEF IInv
<1>1. transaction \in TransactionType /\ nest \in Nat
  BY DEF TypeOK, TransactionType
<1>2. nest' = nest \/ (nest > 0 /\ nest' = nest - 1)
  BY <1>1 DEF SCardEndTransaction, HardEnd
<1>3. CASE nest' = nest
  <2>1. UNCHANGED <<soft, transaction, card, history>> /\ result' = "HARD_ERROR"
    BY <1>1, <1>3 DEF SCardEndTransaction, history
  <2> QED BY <1>3, <2>1 DEF TypeOK, VirtualInsidePhysical, MarkInv, SyncInv, RestInv,
             RestIsRouted, Results, soft, history
<1>4. CASE nest > 0 /\ nest' = nest - 1
  <2>1. /\ transaction' = release(transaction)
        /\ synced' = (transaction.cnt > 1 /\ synced)
        /\ overended' = (transaction.cnt > 1 /\ overended)
        /\ result' = "SUCCESS"
        /\ UNCHANGED <<soft, card, pending, sent>>
    BY <1>1, <1>4 DEF SCardEndTransaction
  <2>2. /\ transaction' \in TransactionType
        /\ transaction'.cnt = IF transaction.cnt > 0 THEN transaction.cnt - 1 ELSE 0
        /\ transaction'.isJustStarted <=> transaction.isJustStarted /\ transaction'.cnt > 0
    BY <1>1, <2>1, ReleaseCounts
  <2>3. TypeOK'
    BY <1>1, <1>4, <2>1, <2>2 DEF TypeOK, Results, soft, TransactionType
  <2>4. VirtualInsidePhysical'
    <3>1. ~overended' => ~(transaction.cnt > 1) \/ ~overended
      BY <2>1
    <3> QED BY <1>1, <1>4, <2>2, <3>1 DEF VirtualInsidePhysical, TransactionType
  <2>5. MarkInv'
    BY <2>1, <2>2 DEF MarkInv
  <2>6. SyncInv' /\ RestInv'
    <3>1. synced' => transaction.cnt > 1 /\ synced /\ (~overended' => ~overended)
      BY <2>1
    <3> QED BY <1>1, <2>1, <2>2, <3>1 DEF SyncInv, RestInv, RestIsRouted, soft, TransactionType
  <2> QED BY <2>3, <2>4, <2>5, <2>6
<1> QED BY <1>2, <1>3, <1>4

\* Data that is not found leaves the virtual card alone; the cards cannot have been in
\* step, since the data was not loaded.
LEMMA NotFoundStep == IInv /\ DataNotFound => IInv'
<1> SUFFICES ASSUME IInv, DataNotFound PROVE IInv'
  OBVIOUS
<1> USE DEF IInv
<1>1. /\ nest' \in Nat /\ card' \in CardType /\ overended' \in BOOLEAN
      /\ overended => overended'
      /\ overended' \/ nest' >= nest \/ transaction.cnt = 0
  BY LoadKeeps DEF DataNotFound
<1>2. UNCHANGED <<soft, transaction, sent, synced>> /\ result' = "NOT_AVAILABLE"
      /\ pending' = "none" /\ ~isDataLoaded
  BY DEF DataNotFound
<1>3. TypeOK'
  BY <1>1, <1>2 DEF TypeOK, Results, soft, CardType
<1>4. VirtualInsidePhysical'
  BY <1>1, <1>2 DEF VirtualInsidePhysical, TypeOK
<1>5. MarkInv' /\ SyncInv' /\ RestInv'
  BY <1>2 DEF MarkInv, SyncInv, RestInv, RestIsRouted, soft
<1> QED BY <1>3, <1>4, <1>5

\* A command of the virtual card moves the selection of the virtual card only.
LEMMA SoftStep ==
  ASSUME IInv, NEW f \in SoftFiles, SoftTransmit(f), pending' \in {"none", "soft"}
  PROVE  IInv'
<1> USE DEF IInv
<1>1. transaction \in TransactionType /\ nest \in Nat /\ card \in CardType
  BY DEF TypeOK, TransactionType, CardType
<1>2. /\ nest' \in Nat /\ card' \in CardType /\ overended' \in BOOLEAN
      /\ overended => overended'
      /\ overended' \/ nest' >= nest \/ transaction.cnt = 0
  <2>1. CASE isDataLoaded
    <3>1. nest' = nest /\ card' = card /\ overended' = overended
      BY <2>1 DEF SoftTransmit
    <3>2. overended \in BOOLEAN
      BY DEF TypeOK
    <3> QED BY <1>1, <3>1, <3>2
  <2>2. CASE ~isDataLoaded
    BY <2>2, LoadKeeps DEF SoftTransmit
  <2> QED BY <2>1, <2>2
<1>3. /\ isDataLoaded' = TRUE /\ selected' = f /\ lastCmdToCard' = TRUE
      /\ result' = "SUCCESS" /\ synced' = (synced /\ f = selected) /\ sent' = sent
      /\ isDataLoaded => card' = card
      /\ transaction' = release(aquire(transaction))
  BY DEF SoftTransmit
<1>4. /\ transaction' \in TransactionType
      /\ transaction'.cnt = transaction.cnt
      /\ transaction'.isJustStarted <=> transaction.isJustStarted
  BY <1>1, <1>3, TransmitCounts DEF MarkInv
<1>5. TypeOK'
  BY <1>2, <1>3, <1>4 DEF TypeOK, Results, TransactionType, CardType
<1>6. VirtualInsidePhysical'
  BY <1>1, <1>2, <1>4 DEF VirtualInsidePhysical, TransactionType
<1>7. MarkInv'
  BY <1>3, <1>4 DEF MarkInv
<1>8. SyncInv'
  <2>1. synced' => synced /\ f = selected
    BY <1>3
  <2>2. synced' => sent' /\ transaction'.cnt > 0 /\ isDataLoaded'
    BY <1>3, <1>4, <2>1 DEF SyncInv
  <2>3. synced' /\ ~overended' => card'.selected = selected'
    BY <1>2, <1>3, <2>1 DEF SyncInv
  <2> QED BY <2>2, <2>3 DEF SyncInv
<1>9. RestInv'
  BY <1>3 DEF RestInv, RestIsRouted
<1> QED BY <1>5, <1>6, <1>7, <1>8, <1>9

\* READ BINARY and GET CARD DATA.
LEMMA ReadStep == IInv /\ ReadCommand => IInv'
<1> SUFFICES ASSUME IInv, ReadCommand PROVE IInv'
  OBVIOUS
<1> DEFINE f == IF isDataLoaded THEN selected ELSE Root
<1>1. f \in SoftFiles
  BY FilesAssumption DEF IInv, TypeOK
<1>2. SoftTransmit(f) /\ pending' \in {"none", "soft"}
  BY DEF ReadCommand
<1> HIDE DEF f
<1> QED BY <1>1, <1>2, SoftStep

\* A command of the physical card: the mark is used up, and when the file was selected
\* for it the cards are in step.
LEMMA HardStep == IInv /\ HardTransmit => IInv'
<1> SUFFICES ASSUME IInv, HardTransmit PROVE IInv'
  OBVIOUS
<1> USE DEF IInv
<1>1. transaction \in TransactionType /\ nest \in Nat /\ card \in CardType
  BY DEF TypeOK, TransactionType, CardType
<1>2. /\ transaction' = justStarted(transaction)
      /\ sent' = (sent \/ transaction.cnt > 0)
      /\ UNCHANGED <<isDataLoaded, selected, nest, overended>>
  BY DEF HardTransmit
<1>3. /\ transaction' \in TransactionType
      /\ transaction'.cnt = transaction.cnt
      /\ ~transaction'.isJustStarted
  BY <1>1, <1>2 DEF justStarted, TransactionType
<1> DEFINE select == transaction.isJustStarted /\ isDataLoaded
           answers == IF select THEN setSelectedOnHardCard(card, selected)
                                ELSE Answer("ok", card)
<1>4. PICK a \in answers :
        /\ card' = a.card
        /\ a.sw = "ok" => /\ result' \in {"SUCCESS", "HARD_ERROR"}
                          /\ lastCmdToCard' = FALSE
                          /\ pending' \in {"none", "hard"}
                          /\ synced' = (synced \/ (transaction.cnt > 0 /\ ~sent /\ isDataLoaded))
        /\ a.sw # "ok" => /\ result' \in InternalError
                          /\ pending' = "none"
                          /\ UNCHANGED <<lastCmdToCard, synced>>
  BY DEF HardTransmit, InternalError
<1>5. /\ card' \in CardType
      /\ select /\ a.sw = "ok" => card'.selected = selected
      /\ ~select => a.sw = "ok" /\ card' = card
  <2>1. CASE select
    BY <1>1, <1>4, <2>1, SetSelectedAnswers DEF AnswerType
  <2>2. CASE ~select
    BY <1>1, <1>4, <2>2 DEF Answer
  <2> QED BY <2>1, <2>2
<1> HIDE DEF answers
<1>6. TypeOK'
  BY <1>2, <1>3, <1>4, <1>5 DEF TypeOK, Results, InternalError, TransactionType, CardType
<1>7. VirtualInsidePhysical' /\ MarkInv'
  BY <1>2, <1>3 DEF VirtualInsidePhysical, MarkInv
<1>8. RestInv'
  BY <1>2, <1>4 DEF RestInv, RestIsRouted
<1>9. SyncInv'
  <2>1. synced' => synced \/ (transaction.cnt > 0 /\ ~sent /\ isDataLoaded /\ a.sw = "ok")
    BY <1>4
  <2> QED BY <2>1, <1>2, <1>3, <1>4, <1>5 DEF SyncInv, MarkInv
<1> QED BY <1>6, <1>7, <1>8, <1>9

\* The other applications act only when no transaction keeps them out.
LEMMA OtherStep == IInv /\ OtherApplication => IInv'
<1> SUFFICES ASSUME IInv, OtherApplication PROVE IInv'
  OBVIOUS
<1> USE DEF IInv
<1>1. nest = 0 /\ UNCHANGED <<soft, transaction, nest, result, history>>
  BY DEF OtherApplication
<1>2. card' \in CardType
  BY DEF OtherApplication, CardType
<1>3. synced => overended
  BY <1>1 DEF SyncInv, VirtualInsidePhysical, TypeOK
<1> QED BY <1>1, <1>2, <1>3 DEF TypeOK, VirtualInsidePhysical, MarkInv, SyncInv, RestInv,
           RestIsRouted, Results, soft, history, CardType

\* Every step preserves the invariant.
LEMMA NextIInv == IInv /\ [Next]_vars => IInv'
<1> SUFFICES ASSUME IInv, [Next]_vars PROVE IInv'
  OBVIOUS
<1>1. CASE SelectFile
  BY <1>1, SoftStep DEF SelectFile
<1>2. CASE GetResponse
  BY <1>2, ReadStep, HardStep DEF GetResponse
<1>3. CASE UNCHANGED vars
  BY <1>3 DEF vars, soft, history, IInv, TypeOK, VirtualInsidePhysical, MarkInv, SyncInv,
     RestInv, RestIsRouted
<1> QED BY <1>1, <1>2, <1>3, BeginStep, EndStep, NotFoundStep, ReadStep, HardStep, OtherStep
    DEF Next

\* The invariant holds in every state.
THEOREM Invariance == Spec => []IInv
BY InitIInv, NextIInv, PTL DEF Spec

\* Every variable keeps its type.
THEOREM TypeCorrect == Spec => []TypeOK
BY Invariance, PTL DEF IInv

\* The virtual card is never in more transactions than the physical card, whichever of
\* the calls to the physical card fail: a file selected and a command executed in a
\* transaction are out of the reach of other applications.
THEOREM VirtualInsidePhysicalHolds == Spec => []VirtualInsidePhysical
BY Invariance, PTL DEF IInv

\* From the first command of a transaction that the physical card executes, both cards
\* have the same file selected until the application selects another one or the
\* transaction ends.
THEOREM StaysSyncedHolds == Spec => []StaysSynced
<1>1. IInv => StaysSynced
  BY DEF IInv, SyncInv, StaysSynced
<1> QED BY <1>1, Invariance, PTL

\* GET RESPONSE goes to the card that holds the rest of the last answer.
THEOREM RestIsRoutedHolds == Spec => []RestIsRouted
BY Invariance, PTL DEF IInv, RestInv

\* Once the data is loaded the proxy moves the selection of the physical card for the
\* first command of a transaction only, and never outside one: every step of the calls is
\* looked at, and none but the loading of the data moves it otherwise.
THEOREM OneSelectPerTransactionHolds == Spec => OneSelectPerTransaction
<1> DEFINE Moves == \/ UNCHANGED card
                    \/ OtherApplication
                    \/ ~isDataLoaded /\ (DataNotFound \/ SelectFile \/ ReadCommand)
                    \/ isDataLoaded /\ HardTransmit /\ transaction.cnt > 0 /\ ~sent
<1>1. IInv /\ [Next]_vars => Moves
  <2> SUFFICES ASSUME IInv, [Next]_vars PROVE Moves
    OBVIOUS
  <2>1. CASE HardTransmit
    <3>1. transaction.isJustStarted => transaction.cnt > 0 /\ ~sent
      BY DEF IInv, MarkInv
    <3>2. ~(transaction.isJustStarted /\ isDataLoaded) => UNCHANGED card
      BY <2>1 DEF HardTransmit, Answer
    <3> QED BY <2>1, <3>1, <3>2
  <2>2. CASE SelectFile \/ ReadCommand \/ DataNotFound
    BY <2>2 DEF SelectFile, ReadCommand, SoftTransmit, DataNotFound
  <2>3. CASE SCardBeginTransaction \/ SCardEndTransaction
    BY <2>3 DEF SCardBeginTransaction, SCardEndTransaction
  <2>4. CASE UNCHANGED vars
    BY <2>4 DEF vars
  <2> QED BY <2>1, <2>2, <2>3, <2>4 DEF Next, GetResponse
<1>2. IInv /\ [Next]_vars => [Moves]_vars
  BY <1>1
<1> QED BY <1>2, Invariance, PTL DEF OneSelectPerTransaction, Spec

\* A card that has the file never refuses it in the end: when another applet is
\* selected, the second try finds it.
LEMMA SecondTryFinds ==
  ASSUME HasApplet, NEW c \in CardType, NEW f \in HardFiles,
         NEW a \in setSelectedOnHardCard(c, f)
  PROVE  a.sw # "refused"
<1> DEFINE d == [applet |-> TRUE, selected |-> Root]
           tries == HardSelectFile(c, f)
           applets == UNION {HardSelectApplet(b.card) : b \in {e \in tries : e.sw = "refused"}}
<1>1. \A e : \A b \in Failure(e) : b.sw = "failed"
  BY DEF Failure, Answer
<1>2. ASSUME NEW e \in CardType, NEW b \in HardSelectApplet(e)
      PROVE  b.sw = "failed" \/ (b.sw = "ok" /\ b.card = d)
  <2>1. HardSelectApplet(e) = Failure(e) \union Answer("ok", d)
    BY DEF HardSelectApplet
  <2> HIDE DEF d
  <2> QED BY <1>1, <1>2, <2>1 DEF Answer
<1>3. ASSUME NEW e \in CardType, e.applet, NEW b \in HardSelectFile(e, f)
      PROVE  b.sw # "refused"
  BY <1>1, <1>3 DEF HardSelectFile, Answer
<1>4. \A b \in tries : b.card \in CardType
  BY SelectAnswers DEF AnswerType
<1>5. ASSUME NEW b \in applets
      PROVE  b.sw = "failed" \/ (b.sw = "ok" /\ b.card = d)
  <2>1. PICK e \in {b1 \in tries : b1.sw = "refused"} : b \in HardSelectApplet(e.card)
    OBVIOUS
  <2> HIDE DEF tries, applets, d
  <2>2. e.card \in CardType
    BY <1>4
  <2> QED BY <1>2, <2>1, <2>2
<1>6. d \in CardType /\ d.applet
  BY FilesAssumption DEF CardType
<1>7. CASE a \in {b \in tries : b.sw # "refused"}
  BY <1>7
<1>8. CASE a \in {b \in applets : b.sw # "ok"}
  BY <1>5, <1>8
<1>9. CASE \E b \in {e \in applets : e.sw = "ok"} : a \in HardSelectFile(b.card, f)
  BY <1>3, <1>5, <1>6, <1>9
<1> QED BY <1>7, <1>8, <1>9 DEF setSelectedOnHardCard

\* A command is refused for the selected file only when the physical card has no such
\* file, whatever other applications left selected and whichever commands fail.
THEOREM RefusedOnlyIfMissingHolds == Spec => RefusedOnlyIfMissing
<1>1. IInv /\ HardTransmit /\ result' = "REFUSED" => ~HasApplet \/ selected \notin HardFiles
  <2> SUFFICES ASSUME IInv, HardTransmit, result' = "REFUSED",
                      HasApplet, selected \in HardFiles
               PROVE  FALSE
    OBVIOUS
  <2>1. card \in CardType
    BY DEF IInv, TypeOK, CardType
  <2>2. \A a \in setSelectedOnHardCard(card, selected) \union Answer("ok", card) :
          a.sw # "refused"
    BY <2>1, SecondTryFinds DEF Answer
  <2> QED BY <2>2 DEF HardTransmit
<1> QED BY <1>1, Invariance, PTL DEF RefusedOnlyIfMissing
==============================================================================
