------------------------ MODULE SoftCardCommandsProofs ------------------------
(***************************************************************************)
(* Proofs about SoftCardCommands, for any virtual cards, any sizes of      *)
(* files and buffers and any requests.                                     *)
(***************************************************************************)
EXTENDS SoftCardCommands, WellFoundedInduction, SequenceTheorems, TLAPS

\* With the types, what an application has been told about the rest is inductive.
IInv == TypeOK /\ AnswerFits /\ RestIsAnnounced

-----------------------------------------------------------------------------
(* The size of a file *)

\* A set of numbers up to n has a largest one.
LEMMA MaxIsLargest ==
  ASSUME NEW n \in Nat, NEW S, S \subseteq 0 .. n, S # {}
  PROVE  Max(S) \in S
<1> DEFINE T == {n - x : x \in S}
           R == OpToRel(<, Nat)
<1>1. T \subseteq Nat /\ T # {}
  <2>1. \A x \in S : x \in Nat /\ n - x \in Nat
    OBVIOUS
  <2>2. PICK x \in S : TRUE
    OBVIOUS
  <2>3. n - x \in T
    OBVIOUS
  <2> QED BY <2>1, <2>3
<1>2. PICK t \in T : \A u \in T : ~ (<<u, t>> \in R)
  <2> HIDE DEF T, R
  <2>1. IsWellFoundedOn(R, Nat)
    BY NatLessThanWellFounded DEF R
  <2> QED BY <1>1, <2>1, WFMin
<1>3. \A u \in T : ~ (u < t)
  BY <1>1, <1>2 DEF OpToRel
<1>4. PICK x \in S : t = n - x
  OBVIOUS
<1>5. \A y \in S : x >= y
  <2> TAKE y \in S
  <2>1. n - y \in T
    OBVIOUS
  <2>2. ~ (n - y < n - x)
    BY <1>3, <1>4, <2>1
  <2>3. x \in 0 .. n /\ y \in 0 .. n
    OBVIOUS
  <2> HIDE DEF T, R
  <2> QED BY <2>2, <2>3
<1> QED BY <1>5 DEF Max

\* A file has a size, whichever list it is in.
LEMMA SizeIsNat ==
  ASSUME NEW files \in Seq(Entries), NEW n
  PROVE  Size(files, n) \in Nat
<1> DEFINE entries == {i \in DOMAIN files : files[i].path = n}
<1>1. CASE entries = {}
  BY <1>1 DEF Size
<1>2. CASE entries # {}
  <2>1. entries \subseteq 0 .. Len(files) /\ Len(files) \in Nat
    OBVIOUS
  <2>2. Max(entries) \in entries
    <3> HIDE DEF entries
    <3> QED BY <1>2, <2>1, MaxIsLargest
  <2>3. files[Max(entries)] \in Entries
    BY <2>2
  <2> QED BY <1>2, <2>3 DEF Size, Entries
<1> QED BY <1>1, <1>2

-----------------------------------------------------------------------------
(* Answers *)

\* What AnswerFits asks of the answer.
Fits(a) ==
  /\ a.count <= a.room
  /\ a.code = "SUCCESS" =>
       /\ a.count + 2 <= a.room
       /\ a.length = IF a.count = 256 THEN 2 ELSE a.count + 2

Says(a, sw, sw2, count) == a.sw = sw /\ a.sw2 = sw2 /\ a.count = count

\* An answer with data that has been found to fit is well formed and says what it should.
LEMMA DataAnswers ==
  ASSUME NEW sw \in StatusWords, NEW sw2 \in 0 .. 255, NEW first \in Nat,
         NEW le \in 0 .. 256, NEW room \in Nat, le + 2 <= room
  PROVE  /\ Data(sw, sw2, first, le, room) \in Answers
         /\ Fits(Data(sw, sw2, first, le, room))
         /\ Says(Data(sw, sw2, first, le, room), sw, sw2, le)
<1>1. sw2 % 256 = sw2
  OBVIOUS
<1> DEFINE length == (le % 256) + 2
<1>2. length \in Nat /\ length = IF le = 256 THEN 2 ELSE le + 2
  OBVIOUS
<1>3. Data(sw, sw2, first, le, room)
        = [code |-> "SUCCESS", sw |-> sw, sw2 |-> sw2, first |-> first,
           count |-> le, room |-> room, length |-> length]
  BY <1>1 DEF Data
<1> HIDE DEF length
<1> QED BY <1>2, <1>3 DEF Answers, Fits, Says, StatusWords

\* An answer that has not got the room is well formed.
LEMMA InsufficientAnswers ==
  ASSUME NEW room \in Nat
  PROVE  /\ Insufficient(0, 0, room) \in Answers
         /\ Fits(Insufficient(0, 0, room))
         /\ Says(Insufficient(0, 0, room), "none", 0, 0)
BY DEF Says, Insufficient, Answers, Fits, StatusWords

\* An answer of status bytes is well formed, and has no data.
LEMMA StatusAnswers ==
  ASSUME NEW sw \in StatusWords, NEW sw2 \in 0 .. 255, NEW room \in Nat
  PROVE  /\ Status(sw, sw2, room) \in Answers
         /\ Fits(Status(sw, sw2, room))
         /\ \/ Says(Status(sw, sw2, room), sw, sw2, 0)
            \/ Says(Status(sw, sw2, room), "none", 0, 0)
<1> PICK a : a = Status(sw, sw2, room)
  OBVIOUS
<1>1. PICK zero \in 0 .. 256 : zero = 0
  OBVIOUS
<1>2. CASE zero + 2 <= room
  <2>1. a = Data(sw, sw2, zero, zero, room) /\ zero \in Nat
    BY <1>1 DEF Status
  <2>2. a \in Answers /\ Fits(a) /\ Says(a, sw, sw2, zero)
    BY ZenonT(60), <1>2, <2>1, DataAnswers
  <2> QED BY <1>1, <2>2
<1>3. CASE ~ (zero + 2 <= room)
  <2>1. a = Insufficient(0, 0, room)
    BY <1>1, <1>3 DEF Status, Data
  <2> QED BY <2>1, InsufficientAnswers
<1> QED BY <1>2, <1>3

LEMMA LeIsPositive == ASSUME NEW b \in LeBytes PROVE Le(b) \in 1 .. 256
<1>1. b \in 0 .. 255
  BY RequestsAssumption
<1> QED BY <1>1 DEF Le

\* When nothing is copied the answer has no data: it names the length that is there, or
\* there is no room.
LEMMA NotCopiedAnswers ==
  ASSUME NEW first \in Nat, NEW la \in 1 .. 256, NEW le \in 1 .. 256, NEW room \in Nat
  PROVE  /\ NotCopied(first, la, le, room) \in Answers
         /\ Fits(NotCopied(first, la, le, room))
         /\ \/ Says(NotCopied(first, la, le, room), "6C", la, 0)
            \/ Says(NotCopied(first, la, le, room), "none", 0, 0)
<1> PICK a : a = NotCopied(first, la, le, room)
  OBVIOUS
<1>1. CASE le > la
  <2>1. PICK sw \in StatusWords : sw = "6C"
    BY DEF StatusWords
  <2>2. la \in 0 .. 255
    BY <1>1
  <2>3. a = Status(sw, la, room)
    BY <1>1, <2>1 DEF NotCopied
  <2>4. a \in Answers /\ Fits(a) /\ (Says(a, sw, la, 0) \/ Says(a, "none", 0, 0))
    BY <2>2, <2>3, StatusAnswers
  <2> QED BY <2>1, <2>4
<1>2. CASE ~ (le > la)
  <2>1. a = Insufficient(0, 0, room)
    BY <1>2 DEF NotCopied
  <2> QED BY <2>1, InsufficientAnswers
<1> QED BY <1>1, <1>2

\* A part of the card data, and what it says about the rest.
LEMMA CardDataPartAnswers ==
  ASSUME NEW first \in Nat, NEW la \in 1 .. CardDataLen,
         NEW le \in 1 .. 256, NEW room \in Nat
  PROVE  /\ CardDataPart(first, la, le, room) \in Answers
         /\ Fits(CardDataPart(first, la, le, room))
         /\ Copies(la, le, room) =>
              Says(CardDataPart(first, la, le, room),
                   IF le < la THEN "61" ELSE "9000", IF le < la THEN la - le ELSE 0, le)
         /\ ~Copies(la, le, room) =>
              \/ Says(CardDataPart(first, la, le, room), "6C", la, 0)
              \/ Says(CardDataPart(first, la, le, room), "none", 0, 0)
<1> PICK a : a = CardDataPart(first, la, le, room)
  OBVIOUS
<1>1. la \in 1 .. 28 /\ la \in 1 .. 256
  BY DEF CardDataLen
<1>2. CASE ~Copies(la, le, room)
  <2>1. a = NotCopied(first, la, le, room)
    BY <1>2 DEF CardDataPart
  <2>2. a \in Answers /\ Fits(a) /\ (Says(a, "6C", la, 0) \/ Says(a, "none", 0, 0))
    BY ZenonT(60), <1>1, <2>1, NotCopiedAnswers
  <2> QED BY <1>2, <2>2, Zenon
<1>3. CASE Copies(la, le, room)
  <2>1. PICK sw \in StatusWords, n \in 0 .. 255 :
          /\ sw = IF le < la THEN "61" ELSE "9000"
          /\ n = IF le < la THEN la - le ELSE 0
    BY <1>1 DEF StatusWords
  <2>2. le + 2 <= room /\ le \in 0 .. 256
    BY <1>1, <1>3 DEF Copies
  <2>3. a = Data(sw, n, first, le, room)
    BY <1>3, <2>1 DEF CardDataPart
  <2>4. a \in Answers /\ Fits(a) /\ Says(a, sw, n, le)
    BY ZenonT(60), <2>2, <2>3, DataAnswers
  <2> QED BY <1>3, <2>1, <2>4, Zenon
<1> QED BY <1>2, <1>3, Zenon

\* A part of a file; an answer that names another length names one that is answered.
LEMMA FilePartAnswers ==
  ASSUME TypeOK, NEW o \in Nat, NEW le \in 1 .. 256, NEW room \in Nat
  PROVE  /\ FilePart(o, le, room) \in Answers
         /\ Fits(FilePart(o, le, room))
         /\ FileRetryIsAnswered(o, le, room)
<1> PICK a : a = FilePart(o, le, room)
  OBVIOUS
<1> DEFINE la == Size(fs, selected)
<1>1. la \in Nat
  BY SizeIsNat DEF TypeOK
<1> HIDE DEF la
<1>2. CASE isDir(selected) \/ la = 0 \/ o >= la
  <2>1. PICK sw \in StatusWords :
          sw \notin {"6C", "61"} /\ a = Status(sw, 0, room)
    BY <1>2 DEF FilePart, la, StatusWords
  <2>2. PICK zero \in 0 .. 255 : zero = 0
    OBVIOUS
  <2>3. a = Status(sw, zero, room)
    BY <2>1, <2>2
  <2>4. a \in Answers /\ Fits(a) /\ (Says(a, sw, zero, 0) \/ Says(a, "none", 0, 0))
    BY <2>3, StatusAnswers
  <2> QED BY <2>1, <2>4 DEF Says, FileRetryIsAnswered
<1>3. CASE ~ isDir(selected) /\ la # 0 /\ ~ (o >= la)
  <2>1. PICK n \in Nat : n = la - o /\ n >= 1
    BY <1>1, <1>3
  <2>2. PICK sw \in StatusWords, zero \in 0 .. 255 : sw = "9000" /\ zero = 0
    BY DEF StatusWords
  <2>3. CASE Copies(n, le, room)
    <3>1. a = Data(sw, zero, o, le, room)
      BY <1>3, <2>1, <2>2, <2>3 DEF FilePart, la
    <3>2. le + 2 <= room /\ le \in 0 .. 256
      BY <2>3 DEF Copies
    <3>3. a \in Answers /\ Fits(a) /\ Says(a, sw, zero, le)
      BY ZenonT(60), <3>1, <3>2, DataAnswers
    <3> QED BY <2>2, <3>3 DEF Says, FileRetryIsAnswered
  <2>4. CASE ~Copies(n, le, room) /\ le > n
    <3>1. a = NotCopied(o, n, le, room) /\ n \in 1 .. 256
      BY <1>3, <2>1, <2>4 DEF FilePart, la
    <3>2. a \in Answers /\ Fits(a) /\ (Says(a, "6C", n, 0) \/ Says(a, "none", 0, 0))
      BY ZenonT(60), <3>1, NotCopiedAnswers
    <3>3. PICK room2 \in Nat : room2 = 258
      OBVIOUS
    <3>4. PICK b : b = FilePart(o, n, room2)
      OBVIOUS
    <3>5. Le(n) = n /\ Copies(n, n, room2)
      BY <2>1, <3>1, <3>3 DEF Le, Copies
    <3>6. n \in 0 .. 256 /\ n + 2 <= room2
      BY <3>1, <3>3
    <3>7. b = Data(sw, zero, o, n, room2)
      BY <1>3, <2>1, <2>2, <3>4, <3>5 DEF FilePart, la
    <3>8. Says(b, sw, zero, n)
      <4> HIDE <3>3
      <4> QED BY <3>6, <3>7, DataAnswers
    <3> QED BY <2>2, <3>2, <3>3, <3>4, <3>5, <3>8 DEF Says, FileRetryIsAnswered
  <2>5. CASE ~Copies(n, le, room) /\ ~ (le > n)
    <3>1. a = Insufficient(0, 0, room)
      BY <1>3, <2>1, <2>5 DEF FilePart, NotCopied, la
    <3> QED BY <3>1, InsufficientAnswers DEF Says, FileRetryIsAnswered
  <2> QED BY <2>3, <2>4, <2>5
<1> QED BY <1>2, <1>3

-----------------------------------------------------------------------------
(* The steps *)

\* AnswerFits is Fits of the last answer.
LEMMA AnswerFitsIsFits == (AnswerFits <=> Fits(answer)) /\ (AnswerFits' <=> Fits(answer'))
BY DEF AnswerFits, Fits

LEMMA InitInv == Init => IInv
<1> SUFFICES ASSUME Init PROVE IInv
  OBVIOUS
<1>1. answer \in Answers /\ Fits(answer)
  <2>1. answer = Insufficient(0, 0, 0)
    BY DEF Init
  <2> QED BY <2>1, InsufficientAnswers
<1>2. <<>> \in Nodes(fs) /\ fs \in Seq(Entries)
  BY DEF Init, Nodes
<1>3. responseBuffer \in [first : Nat, count : 0 .. CardDataLen]
  BY DEF Init, Empty, CardDataLen
<1>4. isDataLoaded \in BOOLEAN /\ selected \in Nodes(fs)
  BY <1>2 DEF Init
<1>5. got \in Nat /\ announced \in 0 .. CardDataLen
  BY DEF Init, CardDataLen
<1>6. TypeOK
  BY <1>1, <1>2, <1>3, <1>4, <1>5 DEF TypeOK
<1>7. RestIsAnnounced
  BY DEF Init, RestIsAnnounced
<1> QED BY <1>1, <1>6, <1>7, AnswerFitsIsFits DEF IInv

\* The types after a step with card data.
LEMMA CardDataTypes ==
  ASSUME IInv, UNCHANGED <<isDataLoaded, fs, selected>>, answer' \in Answers,
         responseBuffer' \in [first : Nat, count : 0 .. CardDataLen],
         got' \in Nat, announced' \in 0 .. CardDataLen
  PROVE  TypeOK'
<1>1. selected' \in Nodes(fs') /\ fs' \in Seq(Entries) /\ isDataLoaded' \in BOOLEAN
  BY DEF IInv, TypeOK
<1> QED BY <1>1 DEF TypeOK

\* A new answer is all that a step changes.
LEMMA AnswerKeeps ==
  ASSUME IInv, answer' \in Answers, Fits(answer'),
         UNCHANGED <<isDataLoaded, fs, selected, responseBuffer, history>>
  PROVE  IInv'
<1>1. TypeOK'
  BY DEF IInv, TypeOK, history
<1>2. RestIsAnnounced'
  BY DEF IInv, RestIsAnnounced, history
<1> QED BY <1>1, <1>2, AnswerFitsIsFits DEF IInv

LEMMA RefusedKeeps ==
  ASSUME IInv, NEW sw \in StatusWords, Refused(sw)
  PROVE  IInv'
<1>1. PICK room \in Rooms : answer' = Status(sw, 0, room)
  BY DEF Refused
<1>2. PICK zero \in 0 .. 255 : zero = 0
  OBVIOUS
<1>3. room \in Nat /\ answer' = Status(sw, zero, room)
  BY <1>1, <1>2, RequestsAssumption
<1>4. answer' \in Answers /\ Fits(answer')
  BY <1>3, StatusAnswers
<1> QED BY <1>4, AnswerKeeps DEF Refused

\* The file found is one of the card's.
LEMMA SelectKeeps ==
  ASSUME IInv, NEW found, Select(found)
  PROVE  IInv'
<1>1. CASE found = {} /\ Refused("6A82")
  <2>1. PICK sw \in StatusWords : sw = "6A82"
    BY DEF StatusWords
  <2> QED BY <1>1, <2>1, RefusedKeeps
<1>2. ASSUME NEW f \in Nodes(fs), NEW room \in Rooms,
             selected' = f, answer' = Status("9000", 0, room),
             UNCHANGED <<isDataLoaded, fs, responseBuffer, history>>
      PROVE  IInv'
  <2>1. PICK sw \in StatusWords, zero \in 0 .. 255 : sw = "9000" /\ zero = 0
    BY DEF StatusWords
  <2>2. room \in Nat /\ answer' = Status(sw, zero, room)
    BY <1>2, <2>1, RequestsAssumption
  <2>3. answer' \in Answers /\ Fits(answer')
    BY <2>2, StatusAnswers
  <2>4. selected' \in Nodes(fs')
    BY <1>2
  <2>5. TypeOK'
    BY <1>2, <2>3, <2>4 DEF IInv, TypeOK, history
  <2>6. RestIsAnnounced'
    BY <1>2 DEF IInv, RestIsAnnounced, history
  <2> QED BY <2>3, <2>5, <2>6, AnswerFitsIsFits DEF IInv
<1> QED BY <1>1, <1>2 DEF Select

LEMMA NextInv == IInv /\ [Next]_vars => IInv'
<1> SUFFICES ASSUME IInv, [Next]_vars PROVE IInv'
  OBVIOUS
<1> USE DEF CardDataLen
<1>0. "6D00" \in StatusWords /\ "6B00" \in StatusWords /\ "6A86" \in StatusWords
        /\ "6A87" \in StatusWords
  BY DEF StatusWords
<1>1. CASE loadFromFile
  <2>1. fs' \in Seq(Entries)
    BY <1>1, CardsAssumption DEF loadFromFile
  <2>2. selected' \in Nodes(fs')
    BY <1>1 DEF loadFromFile, Nodes
  <2>3. TypeOK'
    BY <1>1, <2>1, <2>2 DEF loadFromFile, IInv, TypeOK, history
  <2>4. RestIsAnnounced' /\ AnswerFits'
    BY <1>1 DEF loadFromFile, IInv, RestIsAnnounced, AnswerFits, history
  <2> QED BY <2>3, <2>4 DEF IInv
<1>2. CASE getCardData
  <2>1. CASE Refused("6D00") \/ Refused("6B00")
    BY <1>0, <2>1, RefusedKeeps
  <2>2. ASSUME NEW b \in LeBytes, NEW room \in Rooms,
               answer' = CardDataPart(0, CardDataLen, Le(b), room),
               responseBuffer' = IF Copies(CardDataLen, Le(b), room) /\ Le(b) < CardDataLen
                                 THEN Rest(0, CardDataLen, Le(b))
                                 ELSE responseBuffer,
               IF answer'.sw \in {"61", "9000"}
               THEN got' = answer'.count /\ announced' = answer'.sw2
               ELSE UNCHANGED history,
               UNCHANGED <<isDataLoaded, fs, selected>>
        PROVE  IInv'
    <3>1. PICK first \in Nat, la \in 1 .. CardDataLen, le \in 1 .. 256 :
            first = 0 /\ la = CardDataLen /\ le = Le(b)
      BY LeIsPositive
    <3>2. room \in Nat
      BY RequestsAssumption
    <3>3. answer' = CardDataPart(first, la, le, room)
      BY <2>2, <3>1
    <3>4. /\ answer' \in Answers
          /\ Fits(answer')
          /\ Copies(la, le, room) =>
               Says(answer', IF le < la THEN "61" ELSE "9000", IF le < la THEN la - le ELSE 0, le)
          /\ ~Copies(la, le, room) => Says(answer', "6C", la, 0) \/ Says(answer', "none", 0, 0)
      BY <3>2, <3>3, CardDataPartAnswers
    <3>5. CASE Copies(la, le, room) /\ le < la
      <4>1. got' = le /\ announced' = la - le
        BY <2>2, <3>4, <3>5 DEF Says
      <4>2. responseBuffer' = [first |-> le, count |-> la - le]
        BY <2>2, <3>1, <3>5 DEF Rest
      <4>3. got' \in Nat /\ announced' \in 0 .. CardDataLen
        BY <3>5, <4>1
      <4>4. responseBuffer' \in [first : Nat, count : 0 .. CardDataLen]
        BY <3>5, <4>2
      <4>5. TypeOK'
        BY <2>2, <3>4, <4>3, <4>4, CardDataTypes
      <4>6. RestIsAnnounced'
        BY <3>1, <3>5, <4>1, <4>2 DEF RestIsAnnounced
      <4> QED BY <3>4, <4>5, <4>6, AnswerFitsIsFits DEF IInv
    <3>6. CASE Copies(la, le, room) /\ ~ (le < la)
      <4>1. got' = le /\ announced' = 0
        BY <2>2, <3>4, <3>6 DEF Says
      <4>2. responseBuffer' = responseBuffer
        BY <2>2, <3>1, <3>6
      <4>3. got' \in Nat /\ announced' \in 0 .. CardDataLen
        BY <4>1
      <4>4. TypeOK'
        BY <2>2, <3>4, <4>2, <4>3, CardDataTypes DEF IInv, TypeOK
      <4>5. RestIsAnnounced'
        BY <4>1 DEF RestIsAnnounced
      <4> QED BY <3>4, <4>4, <4>5, AnswerFitsIsFits DEF IInv
    <3>7. CASE ~Copies(la, le, room)
      <4>1. UNCHANGED history
        BY <2>2, <3>4, <3>7 DEF Says
      <4>2. responseBuffer' = responseBuffer
        BY <2>2, <3>1, <3>7
      <4> QED BY <2>2, <3>4, <4>1, <4>2, AnswerKeeps
    <3> QED BY <3>5, <3>6, <3>7
  <2> QED BY <1>2, <2>1, <2>2 DEF getCardData
<1>3. CASE getResponse
  <2>1. CASE Refused("6D00") \/ Refused("6B00")
    BY <1>0, <2>1, RefusedKeeps
  <2>2. ASSUME responseBuffer.count > 0, NEW b \in LeBytes, NEW room \in Rooms,
               answer' = CardDataPart(responseBuffer.first, responseBuffer.count, Le(b), room),
               responseBuffer' =
                 IF ~Copies(responseBuffer.count, Le(b), room) THEN responseBuffer
                 ELSE IF Le(b) < responseBuffer.count
                 THEN Rest(responseBuffer.first, responseBuffer.count, Le(b))
                 ELSE Empty,
               IF announced > 0 /\ answer'.sw \in {"61", "9000"}
               THEN got' = got + answer'.count /\ announced' = answer'.sw2
               ELSE UNCHANGED history,
               UNCHANGED <<isDataLoaded, fs, selected>>
        PROVE  IInv'
    <3>0. responseBuffer.first \in Nat /\ responseBuffer.count \in 1 .. CardDataLen
      <4>1. responseBuffer \in [first : Nat, count : 0 .. CardDataLen]
        BY DEF IInv, TypeOK
      <4> QED BY <2>2, <4>1
    <3>1. PICK first \in Nat, la \in 1 .. CardDataLen, le \in 1 .. 256 :
            first = responseBuffer.first /\ la = responseBuffer.count /\ le = Le(b)
      <4> HIDE DEF CardDataLen
      <4> QED BY <3>0, LeIsPositive
    <3>2. room \in Nat
      BY RequestsAssumption
    <3>3. answer' = CardDataPart(first, la, le, room)
      BY <2>2, <3>1
    <3>4. /\ answer' \in Answers
          /\ Fits(answer')
          /\ Copies(la, le, room) =>
               Says(answer', IF le < la THEN "61" ELSE "9000", IF le < la THEN la - le ELSE 0, le)
          /\ ~Copies(la, le, room) => Says(answer', "6C", la, 0) \/ Says(answer', "none", 0, 0)
      BY <3>2, <3>3, CardDataPartAnswers
    <3>5. got \in Nat /\ announced \in 0 .. CardDataLen
      BY DEF IInv, TypeOK
    <3>6. announced > 0 => first = got /\ la = announced /\ got + announced = CardDataLen
      BY <3>1 DEF IInv, RestIsAnnounced
    <3>7. CASE Copies(la, le, room) /\ le < la
      <4>1. IF announced > 0 THEN got' = got + le /\ announced' = la - le ELSE UNCHANGED history
        BY <2>2, <3>4, <3>7 DEF Says
      <4>2. responseBuffer' = [first |-> first + le, count |-> la - le]
        BY <2>2, <3>1, <3>7 DEF Rest
      <4>3. got' \in Nat /\ announced' \in 0 .. CardDataLen
        BY <3>5, <3>7, <4>1 DEF history
      <4>4. responseBuffer' \in [first : Nat, count : 0 .. CardDataLen]
        BY <3>7, <4>2
      <4>5. TypeOK'
        BY <2>2, <3>4, <4>3, <4>4, CardDataTypes
      <4>6. RestIsAnnounced'
        BY <3>5, <3>6, <3>7, <4>1, <4>2 DEF RestIsAnnounced, history
      <4> QED BY <3>4, <4>5, <4>6, AnswerFitsIsFits DEF IInv
    <3>8. CASE Copies(la, le, room) /\ ~ (le < la)
      <4>1. IF announced > 0 THEN got' = got + le /\ announced' = 0 ELSE UNCHANGED history
        BY <2>2, <3>4, <3>8 DEF Says
      <4>2. responseBuffer' = [first |-> 0, count |-> 0]
        BY <2>2, <3>1, <3>8 DEF Empty
      <4>3. got' \in Nat /\ announced' \in 0 .. CardDataLen
        BY <3>5, <4>1 DEF history
      <4>4. responseBuffer' \in [first : Nat, count : 0 .. CardDataLen]
        BY <4>2
      <4>5. TypeOK'
        BY <2>2, <3>4, <4>3, <4>4, CardDataTypes
      <4>6. RestIsAnnounced'
        BY <3>5, <4>1 DEF RestIsAnnounced, history
      <4> QED BY <3>4, <4>5, <4>6, AnswerFitsIsFits DEF IInv
    <3>9. CASE ~Copies(la, le, room)
      <4>1. UNCHANGED history
        BY <2>2, <3>4, <3>9 DEF Says
      <4>2. responseBuffer' = responseBuffer
        BY <2>2, <3>1, <3>9
      <4> QED BY <2>2, <3>4, <4>1, <4>2, AnswerKeeps
    <3> QED BY <3>7, <3>8, <3>9
  <2> QED BY <1>3, <2>1, <2>2 DEF getResponse
<1>4. CASE readBinary
  <2>1. CASE Refused("6D00")
    BY <1>0, <2>1, RefusedKeeps
  <2>2. ASSUME NEW o \in Offsets, NEW b \in LeBytes, NEW room \in Rooms,
               answer' = FilePart(o, Le(b), room),
               UNCHANGED <<isDataLoaded, fs, selected, responseBuffer, history>>
        PROVE  IInv'
    <3>1. o \in Nat /\ Le(b) \in 1 .. 256 /\ room \in Nat /\ TypeOK
      BY RequestsAssumption, LeIsPositive DEF IInv
    <3>2. answer' \in Answers /\ Fits(answer')
      BY <2>2, <3>1, FilePartAnswers
    <3> QED BY <2>2, <3>2, AnswerKeeps
  <2> QED BY <1>4, <2>1, <2>2 DEF readBinary
<1>5. CASE selectFile
  <2>1. CASE \E sw \in StatusWords : Refused(sw)
    BY <2>1, RefusedKeeps
  <2>2. CASE \E found : Select(found)
    BY <2>2, SelectKeeps
  <2> QED BY <1>0, <1>5, <2>1, <2>2 DEF selectFile
<1>6. CASE UNCHANGED vars
  BY <1>6 DEF vars, history, IInv, TypeOK, AnswerFits, RestIsAnnounced
<1> QED BY <1>1, <1>2, <1>3, <1>4, <1>5, <1>6 DEF Next

-----------------------------------------------------------------------------
(* The theorems *)

\* The length that an answer names for the card data is one that is answered.
LEMMA CardDataRetry ==
  ASSUME NEW first \in Nat, NEW la \in 1 .. CardDataLen, NEW le \in 1 .. 256,
         NEW room \in Nat
  PROVE  CardDataRetryIsAnswered(first, la, le, room)
<1> SUFFICES ASSUME CardDataPart(first, la, le, room).sw = "6C"
             PROVE  CardDataPart(first, la,
                      Le(CardDataPart(first, la, le, room).sw2), 258).sw = "9000"
  BY DEF CardDataRetryIsAnswered
<1> PICK a : a = CardDataPart(first, la, le, room)
  OBVIOUS
<1>1. la \in 1 .. 28 /\ la \in 1 .. 256
  BY DEF CardDataLen
<1>2. a.sw2 = la
  <2>1. CASE Copies(la, le, room)
    <3>1. Says(a, IF le < la THEN "61" ELSE "9000", IF le < la THEN la - le ELSE 0, le)
      BY <2>1, CardDataPartAnswers
    <3> QED BY <3>1 DEF Says
  <2>2. CASE ~Copies(la, le, room)
    <3>1. Says(a, "6C", la, 0) \/ Says(a, "none", 0, 0)
      BY <2>2, CardDataPartAnswers
    <3> QED BY <3>1 DEF Says
  <2> QED BY <2>1, <2>2
<1>3. PICK room2 \in Nat : room2 = 258
  OBVIOUS
<1>4. PICK b : b = CardDataPart(first, la, la, room2)
  OBVIOUS
<1>5. Le(la) = la /\ Copies(la, la, room2)
  BY <1>1, <1>3 DEF Le, Copies
<1>6. Says(b, IF la < la THEN "61" ELSE "9000", IF la < la THEN la - la ELSE 0, la)
  <2> HIDE <1>3
  <2> QED BY <1>1, <1>4, <1>5, CardDataPartAnswers
<1>7. b.sw = "9000"
  BY <1>1, <1>6 DEF Says
<1> QED BY <1>2, <1>3, <1>4, <1>5, <1>7

\* So it is wherever the variables have their types.
LEMMA TypeOKRetry == TypeOK => RetryIsAnswered
<1> SUFFICES ASSUME TypeOK, NEW b \in LeBytes, NEW room \in Rooms
             PROVE  /\ \A o \in Offsets : FileRetryIsAnswered(o, Le(b), room)
                    /\ CardDataRetryIsAnswered(0, CardDataLen, Le(b), room)
                    /\ responseBuffer.count > 0 =>
                         CardDataRetryIsAnswered(responseBuffer.first, responseBuffer.count,
                                                 Le(b), room)
  BY DEF RetryIsAnswered
<1>1. Le(b) \in 1 .. 256 /\ room \in Nat
  BY LeIsPositive, RequestsAssumption
<1>2. \A o \in Offsets : FileRetryIsAnswered(o, Le(b), room)
  BY <1>1, RequestsAssumption, FilePartAnswers
<1>3. CardDataLen \in 1 .. CardDataLen /\ 0 \in Nat
  BY DEF CardDataLen
<1>4. responseBuffer.count > 0 =>
        responseBuffer.first \in Nat /\ responseBuffer.count \in 1 .. CardDataLen
  <2>1. responseBuffer \in [first : Nat, count : 0 .. CardDataLen] /\ CardDataLen \in Nat
    BY DEF TypeOK, CardDataLen
  <2> QED BY <2>1
<1> QED BY <1>1, <1>2, <1>3, <1>4, CardDataRetry

\* The inductive invariant holds.
LEMMA SpecInv == Spec => []IInv
BY InitInv, NextInv, PTL DEF Spec

\* The types, with the selected file always a file of the loaded card.
THEOREM TypeCorrect == Spec => []TypeOK
<1>1. IInv => TypeOK
  BY DEF IInv
<1> QED BY <1>1, SpecInv, PTL

\* No answer is written past the end of the application's buffer, and its length is right
\* (Carddata.cpp:63-84).
THEOREM AnswerFitsHolds == Spec => []AnswerFits
<1>1. IInv => AnswerFits
  BY DEF IInv
<1> QED BY <1>1, SpecInv, PTL

\* What an answer has announced is what GET RESPONSE gives, on from the last byte, for
\* requests of any length (SoftCard.cpp:261-320).
THEOREM RestIsAnnouncedHolds == Spec => []RestIsAnnounced
<1>1. IInv => RestIsAnnounced
  BY DEF IInv
<1> QED BY <1>1, SpecInv, PTL

\* The right length is told, for files and requests of any size (Carddata.cpp:51-61).
THEOREM RetryIsAnsweredHolds == Spec => []RetryIsAnswered
<1>1. IInv => RetryIsAnswered
  BY TypeOKRetry DEF IInv
<1> QED BY <1>1, SpecInv, PTL

-----------------------------------------------------------------------------
(* Files as paths, and the tree they form *)

\* The first k ids of a path.
Cut(p, k) == SubSeq(p, 1, k)

\* A cut has as many ids as asked for, those of the path.
LEMMA Cuts ==
  ASSUME NEW p \in Seq(FIDs), NEW k \in 0 .. Len(p)
  PROVE  /\ Cut(p, k) \in Seq(FIDs) /\ Len(Cut(p, k)) = k
         /\ \A i \in 1 .. k : Cut(p, k)[i] = p[i]
         /\ k = 0 => Cut(p, k) = <<>>
<1>1. \A i \in 1 .. k : p[i] \in FIDs
  OBVIOUS
<1>2. /\ SubSeq(p, 1, k) \in Seq(FIDs)
      /\ Len(SubSeq(p, 1, k)) = IF 1 <= k THEN k - 1 + 1 ELSE 0
      /\ \A i \in 1 .. k - 1 + 1 : SubSeq(p, 1, k)[i] = p[1 + i - 1]
  BY <1>1, SubSeqProperties
<1>3. \A i \in 1 .. k : i \in 1 .. k - 1 + 1 /\ 1 + i - 1 = i
  OBVIOUS
<1> QED BY <1>2, <1>3 DEF Cut

\* Two paths with the same ids are the same.
LEMMA SamePath ==
  ASSUME NEW p \in Seq(FIDs), NEW q \in Seq(FIDs), Len(p) = Len(q),
         \A i \in 1 .. Len(p) : p[i] = q[i]
  PROVE  p = q
  BY SeqEqual

\* A directory on a path has its first ids.
LEMMA PrefixIs ==
  ASSUME NEW p \in Seq(FIDs), NEW q \in Seq(FIDs)
  PROVE  /\ IsPrefix(p, q) <=> Len(p) <= Len(q) /\ \A i \in 1 .. Len(p) : p[i] = q[i]
         /\ IsStrictPrefix(p, q) <=> Len(p) < Len(q) /\ \A i \in 1 .. Len(p) : p[i] = q[i]
<1>1. Len(p) \in Nat /\ Len(q) \in Nat
  OBVIOUS
<1>2. IsPrefix(p, q) <=> Len(p) <= Len(q) /\ \A i \in 1 .. Len(p) : p[i] = q[i]
  <2>1. CASE ~(Len(p) <= Len(q))
    BY <2>1 DEF IsPrefix
  <2>2. CASE Len(p) <= Len(q)
    <3>1. /\ Cut(p, Len(p)) \in Seq(FIDs) /\ Len(Cut(p, Len(p))) = Len(p)
          /\ \A i \in 1 .. Len(p) : Cut(p, Len(p))[i] = p[i]
      BY <1>1, Cuts
    <3>2. /\ Cut(q, Len(p)) \in Seq(FIDs) /\ Len(Cut(q, Len(p))) = Len(p)
          /\ \A i \in 1 .. Len(p) : Cut(q, Len(p))[i] = q[i]
      BY <1>1, <2>2, Cuts
    <3>3. (\A i \in 1 .. Len(p) : p[i] = q[i]) => Cut(p, Len(p)) = Cut(q, Len(p))
      BY <3>1, <3>2, SamePath
    <3>4. Cut(p, Len(p)) = Cut(q, Len(p)) => \A i \in 1 .. Len(p) : p[i] = q[i]
      BY <3>1, <3>2
    <3> QED BY <2>2, <3>3, <3>4 DEF IsPrefix, Cut
  <2> QED BY <2>1, <2>2
<1>3. Len(p) = Len(q) /\ (\A i \in 1 .. Len(p) : p[i] = q[i]) => p = q
  BY SamePath
<1> QED BY <1>1, <1>2, <1>3 DEF IsStrictPrefix

\* A file of the tree is on the path of an entry, and so are the directories it is in.
LEMMA NodesType ==
  ASSUME NEW files \in Seq(Entries), NEW n \in Nodes(files)
  PROVE  /\ n \in Seq(FIDs) /\ Len(n) \in Nat
         /\ \A k \in 0 .. Len(n) : Cut(n, k) \in Nodes(files)
         /\ n # <<>> => \E i \in DOMAIN files : IsPrefix(n, files[i].path)
<1>1. CASE n = <<>>
  <2>1. n \in Seq(FIDs) /\ Len(n) = 0 /\ 0 \in 0 .. Len(n)
    BY <1>1
  <2>2. Cut(n, 0) = <<>>
    BY <2>1, Cuts
  <2> QED BY <1>1, <2>1, <2>2 DEF Nodes
<1>2. CASE n # <<>>
  <2>1. PICK i \in DOMAIN files : n \in Prefixes(files[i].path)
    BY <1>2 DEF Nodes
  <2>2. PICK l \in 0 .. Len(files[i].path) : n = Cut(files[i].path, l)
    BY <2>1 DEF Prefixes, Cut
  <2> DEFINE p == files[i].path
  <2>3. p \in Seq(FIDs) /\ Len(p) \in Nat
    <3>1. files[i] \in Entries
      OBVIOUS
    <3> QED BY <3>1 DEF Entries
  <2> HIDE DEF p
  <2>4. n \in Seq(FIDs) /\ Len(n) = l /\ l <= Len(p) /\ \A j \in 1 .. l : n[j] = p[j]
    BY <2>2, <2>3, Cuts DEF p
  <2>5. ASSUME NEW k \in 0 .. Len(n) PROVE Cut(n, k) \in Nodes(files)
    <3>1. k \in 0 .. Len(p)
      BY <2>3, <2>4
    <3>2. Cut(n, k) \in Seq(FIDs) /\ Len(Cut(n, k)) = k /\ \A j \in 1 .. k : Cut(n, k)[j] = n[j]
      BY <2>4, Cuts
    <3>3. Cut(p, k) \in Seq(FIDs) /\ Len(Cut(p, k)) = k /\ \A j \in 1 .. k : Cut(p, k)[j] = p[j]
      BY <2>3, <3>1, Cuts
    <3>4. Cut(n, k) = Cut(p, k)
      BY <2>4, <3>2, <3>3, SamePath
    <3> QED BY <3>1, <3>4 DEF Nodes, Prefixes, Cut, p
  <2>6. IsPrefix(n, p)
    BY <2>3, <2>4, PrefixIs
  <2> QED BY <2>4, <2>5, <2>6 DEF p
<1> QED BY <1>1, <1>2

\* A set of numbers has a smallest one.
LEMMA MinIsSmallest ==
  ASSUME NEW S \in SUBSET Nat, S # {}
  PROVE  Min(S) \in S /\ \A y \in S : Min(S) <= y
<1> DEFINE R == OpToRel(<, Nat)
<1>1. PICK x \in S : \A y \in S : ~ (<<y, x>> \in R)
  <2>1. IsWellFoundedOn(R, Nat)
    BY NatLessThanWellFounded DEF R
  <2> HIDE DEF R
  <2> QED BY <2>1, WFMin
<1>2. \A y \in S : ~ (y < x)
  BY <1>1 DEF OpToRel
<1>3. \A y \in S : x <= y
  <2> HIDE DEF R
  <2> QED BY <1>2
<1> QED BY <1>3 DEF Min

\* The first entry through a file is one of the list.
LEMMA FirstEntry ==
  ASSUME NEW files \in Seq(Entries), NEW n \in Nodes(files), n # <<>>
  PROVE  /\ First(files, n) \in DOMAIN files /\ First(files, n) \in Nat
         /\ IsPrefix(n, files[First(files, n)].path)
<1> DEFINE through == {i \in DOMAIN files : IsPrefix(n, files[i].path)}
<1>1. through # {}
  BY NodesType
<1>2. through \in SUBSET Nat
  OBVIOUS
<1>3. Min(through) \in through
  <2> HIDE DEF through
  <2> QED BY <1>1, <1>2, MinIsSmallest
<1> QED BY <1>2, <1>3 DEF First

\* Two files of a directory do not have the same first entry.
LEMMA OneOfThem ==
  ASSUME NEW files \in Seq(Entries), NEW c \in Nodes(files), NEW e \in Nodes(files),
         Len(c) = Len(e), c # <<>>, First(files, c) = First(files, e)
  PROVE  c = e
<1>1. c \in Seq(FIDs) /\ e \in Seq(FIDs)
  BY NodesType
<1>2. e # <<>>
  BY <1>1
<1> DEFINE p == files[First(files, c)].path
<1>3. First(files, c) \in DOMAIN files /\ IsPrefix(c, p) /\ IsPrefix(e, p)
  BY <1>2, FirstEntry
<1>4. p \in Seq(FIDs)
  <2>1. files[First(files, c)] \in Entries
    BY <1>3
  <2> QED BY <2>1 DEF Entries
<1> HIDE DEF p
<1>5. \A i \in 1 .. Len(c) : c[i] = e[i]
  BY <1>1, <1>3, <1>4, PrefixIs
<1> QED BY <1>1, <1>5, SamePath

\* The file below d on the way to n.
Toward(d, n) == Cut(n, Len(d) + 1)

\* It is a child of d, and the file itself or a directory it is in.
LEMMA OnTheWay ==
  ASSUME NEW files \in Seq(Entries), NEW d \in Nodes(files), NEW n \in Nodes(files),
         IsStrictPrefix(d, n)
  PROVE  /\ Toward(d, n) \in Children(files, d)
         /\ n # Toward(d, n) => IsStrictPrefix(Toward(d, n), n)
         /\ Len(d) < Len(n)
<1>1. d \in Seq(FIDs) /\ n \in Seq(FIDs) /\ Len(d) \in Nat /\ Len(n) \in Nat
  BY NodesType
<1>2. Len(d) < Len(n) /\ \A i \in 1 .. Len(d) : d[i] = n[i]
  BY <1>1, PrefixIs
<1> DEFINE c == Toward(d, n)
<1>3. c \in Seq(FIDs) /\ Len(c) = Len(d) + 1 /\ \A i \in 1 .. Len(d) + 1 : c[i] = n[i]
  BY <1>1, <1>2, Cuts DEF Toward
<1>4. c \in Nodes(files)
  BY <1>1, <1>2, NodesType DEF Toward
<1> HIDE DEF c
<1>5. IsPrefix(d, c)
  BY <1>1, <1>2, <1>3, PrefixIs
<1>6. n # c => Len(c) < Len(n)
  BY <1>1, <1>2, <1>3, SamePath
<1>7. n # c => IsStrictPrefix(c, n)
  BY <1>1, <1>3, <1>6, PrefixIs
<1>8. c \in Children(files, d)
  BY <1>3, <1>4, <1>5 DEF Children
<1> QED BY <1>2, <1>7, <1>8 DEF c

\* What is below a child of d, or the child itself, is below d, by way of that child.
LEMMA BelowChild ==
  ASSUME NEW files \in Seq(Entries), NEW d \in Nodes(files), NEW c \in Children(files, d),
         NEW n \in Nodes(files), n = c \/ IsStrictPrefix(c, n)
  PROVE  /\ IsStrictPrefix(d, n) /\ Toward(d, n) = c
         /\ c \in Nodes(files) /\ c # <<>> /\ Len(c) = Len(d) + 1
<1>1. c \in Nodes(files) /\ Len(c) = Len(d) + 1 /\ IsPrefix(d, c)
  BY DEF Children
<1>2. /\ d \in Seq(FIDs) /\ n \in Seq(FIDs) /\ c \in Seq(FIDs)
      /\ Len(d) \in Nat /\ Len(n) \in Nat
  BY <1>1, NodesType
<1>3. \A i \in 1 .. Len(d) : d[i] = c[i]
  BY <1>1, <1>2, PrefixIs
<1>4. Len(c) <= Len(n) /\ \A i \in 1 .. Len(c) : c[i] = n[i]
  BY <1>2, PrefixIs
<1>5. IsStrictPrefix(d, n)
  <2>1. Len(d) < Len(n) /\ \A i \in 1 .. Len(d) : i \in 1 .. Len(c)
    BY <1>1, <1>2, <1>4
  <2>2. \A i \in 1 .. Len(d) : d[i] = n[i]
    BY <1>3, <1>4, <2>1
  <2> QED BY <1>2, <2>1, <2>2, PrefixIs
<1>6. /\ Toward(d, n) \in Seq(FIDs) /\ Len(Toward(d, n)) = Len(d) + 1
      /\ \A i \in 1 .. Len(d) + 1 : Toward(d, n)[i] = n[i]
  BY <1>1, <1>2, <1>4, Cuts DEF Toward
<1>7. Toward(d, n) = c
  BY <1>1, <1>2, <1>4, <1>6, SamePath
<1>8. c # <<>>
  BY <1>1, <1>2
<1> QED BY <1>1, <1>5, <1>7, <1>8

-----------------------------------------------------------------------------
(* The order of the files *)

\* Of two files below d the one comes first whose directory in d, or itself, comes first.
LEMMA BeforeIs ==
  ASSUME NEW files \in Seq(Entries), NEW d \in Nodes(files),
         NEW n \in Nodes(files), IsStrictPrefix(d, n),
         NEW m \in Nodes(files), IsStrictPrefix(d, m),
         Toward(d, n) # Toward(d, m)
  PROVE  Before(files, n, m) <=> First(files, Toward(d, n)) < First(files, Toward(d, m))
<1>1. /\ d \in Seq(FIDs) /\ n \in Seq(FIDs) /\ m \in Seq(FIDs)
      /\ Len(d) \in Nat /\ Len(n) \in Nat /\ Len(m) \in Nat
  BY NodesType
<1>2. /\ Len(d) < Len(n) /\ \A i \in 1 .. Len(d) : d[i] = n[i]
      /\ Len(d) < Len(m) /\ \A i \in 1 .. Len(d) : d[i] = m[i]
  BY <1>1, PrefixIs
<1>3. ~ \A i \in 1 .. Len(d) + 1 : n[i] = m[i]
  <2>1. SUFFICES ASSUME \A i \in 1 .. Len(d) + 1 : n[i] = m[i] PROVE FALSE
    OBVIOUS
  <2>2. Len(d) + 1 \in 0 .. Len(n) /\ Len(d) + 1 \in 0 .. Len(m)
    BY <1>1, <1>2
  <2>3. /\ Toward(d, n) \in Seq(FIDs) /\ Len(Toward(d, n)) = Len(d) + 1
        /\ \A i \in 1 .. Len(d) + 1 : Toward(d, n)[i] = n[i]
    BY <1>1, <2>2, Cuts DEF Toward
  <2>4. /\ Toward(d, m) \in Seq(FIDs) /\ Len(Toward(d, m)) = Len(d) + 1
        /\ \A i \in 1 .. Len(d) + 1 : Toward(d, m)[i] = m[i]
    BY <1>1, <2>2, Cuts DEF Toward
  <2>5. Toward(d, n) = Toward(d, m)
    BY <2>1, <2>3, <2>4, SamePath
  <2> QED BY <2>5
<1>4. \A k \in 0 .. Len(n) : k <= Len(m) =>
        (Cut(n, k) = Cut(m, k) <=> \A i \in 1 .. k : n[i] = m[i])
  <2> TAKE k \in 0 .. Len(n)
  <2>1. SUFFICES ASSUME k <= Len(m)
        PROVE  Cut(n, k) = Cut(m, k) <=> \A i \in 1 .. k : n[i] = m[i]
    OBVIOUS
  <2>2. k \in 0 .. Len(m)
    BY <1>1, <2>1
  <2>3. /\ Cut(n, k) \in Seq(FIDs) /\ Len(Cut(n, k)) = k
        /\ \A i \in 1 .. k : Cut(n, k)[i] = n[i]
    BY <1>1, Cuts
  <2>4. /\ Cut(m, k) \in Seq(FIDs) /\ Len(Cut(m, k)) = k
        /\ \A i \in 1 .. k : Cut(m, k)[i] = m[i]
    BY <1>1, <2>2, Cuts
  <2>5. (\A i \in 1 .. k : n[i] = m[i]) => Cut(n, k) = Cut(m, k)
    BY <2>3, <2>4, SamePath
  <2>6. Cut(n, k) = Cut(m, k) => \A i \in 1 .. k : n[i] = m[i]
    BY <2>3, <2>4
  <2> QED BY <2>5, <2>6
<1>5. ASSUME First(files, Toward(d, n)) < First(files, Toward(d, m))
      PROVE  Before(files, n, m)
  <2> DEFINE k == Len(d) + 1
  <2>1. k \in 1 .. Len(n) /\ k <= Len(m) /\ k - 1 = Len(d)
    BY <1>1, <1>2
  <2>2. Cut(n, Len(d)) = Cut(m, Len(d))
    <3>1. Len(d) \in 0 .. Len(n) /\ Len(d) <= Len(m)
      BY <1>1, <1>2
    <3>2. \A i \in 1 .. Len(d) : n[i] = m[i]
      BY <1>1, <1>2
    <3> QED BY <1>4, <3>1, <3>2
  <2>3. /\ SubSeq(n, 1, k - 1) = SubSeq(m, 1, k - 1)
        /\ First(files, SubSeq(n, 1, k)) < First(files, SubSeq(m, 1, k))
    BY <1>5, <2>1, <2>2 DEF Cut, Toward
  <2> HIDE DEF k
  <2> QED BY <2>1, <2>3 DEF Before
<1>6. ASSUME Before(files, n, m)
      PROVE  First(files, Toward(d, n)) < First(files, Toward(d, m))
  <2>1. ~ IsStrictPrefix(n, m)
    BY <1>1, <1>2, <1>3, PrefixIs
  <2>2. PICK k \in 1 .. Len(n) :
          /\ k <= Len(m)
          /\ Cut(n, k - 1) = Cut(m, k - 1)
          /\ First(files, Cut(n, k)) < First(files, Cut(m, k))
    BY <1>6, <2>1 DEF Before, Cut
  <2>3. \A i \in 1 .. k - 1 : n[i] = m[i]
    <3>1. k - 1 \in 0 .. Len(n) /\ k - 1 <= Len(m)
      BY <1>1, <2>2
    <3> QED BY <1>4, <2>2, <3>1
  <2>4. k <= Len(d) + 1
    BY <1>1, <1>3, <2>3
  <2>5. Cut(n, k) # Cut(m, k)
    <3>1. Cut(n, k) \in Nodes(files) /\ Cut(n, k) # <<>>
      <4>1. k \in 0 .. Len(n) /\ k # 0
        BY <1>1
      <4>2. Cut(n, k) \in Nodes(files)
        BY <4>1, NodesType
      <4>3. Len(Cut(n, k)) = k
        BY <1>1, <4>1, Cuts
      <4> QED BY <4>1, <4>2, <4>3
    <3>2. First(files, Cut(n, k)) \in Nat
      BY <3>1, FirstEntry
    <3> QED BY <2>2, <3>2
  <2>6. ~ (k <= Len(d))
    <3>1. SUFFICES ASSUME k <= Len(d) PROVE FALSE
      OBVIOUS
    <3>2. \A i \in 1 .. k : i \in 1 .. Len(d)
      BY <1>1, <3>1
    <3>3. \A i \in 1 .. k : n[i] = m[i]
      BY <1>2, <3>2
    <3>4. k \in 0 .. Len(n) /\ k <= Len(m)
      BY <1>1, <2>2
    <3> QED BY <1>4, <2>5, <3>3, <3>4
  <2>7. k = Len(d) + 1
    BY <1>1, <2>4, <2>6
  <2> QED BY <2>2, <2>7 DEF Toward
<1> QED BY <1>5, <1>6

\* A directory comes before what is in it, and not after it.
LEMMA NotAfter ==
  ASSUME NEW files \in Seq(Entries), NEW c \in Nodes(files), NEW n \in Nodes(files),
         IsStrictPrefix(c, n)
  PROVE  ~ Before(files, n, c)
<1>1. /\ c \in Seq(FIDs) /\ n \in Seq(FIDs) /\ Len(c) \in Nat /\ Len(n) \in Nat
  BY NodesType
<1>2. Len(c) < Len(n) /\ \A i \in 1 .. Len(c) : c[i] = n[i]
  BY <1>1, PrefixIs
<1>3. SUFFICES ASSUME Before(files, n, c) PROVE FALSE
  OBVIOUS
<1>4. ~ IsStrictPrefix(n, c)
  BY <1>1, <1>2, PrefixIs
<1>5. PICK k \in 1 .. Len(n) :
        k <= Len(c) /\ First(files, Cut(n, k)) < First(files, Cut(c, k))
  BY <1>3, <1>4 DEF Before, Cut
<1>6. k \in 0 .. Len(n) /\ k \in 0 .. Len(c) /\ k # 0
  BY <1>1, <1>5
<1>7. /\ Cut(n, k) \in Seq(FIDs) /\ Len(Cut(n, k)) = k /\ \A i \in 1 .. k : Cut(n, k)[i] = n[i]
  BY <1>1, <1>6, Cuts
<1>8. /\ Cut(c, k) \in Seq(FIDs) /\ Len(Cut(c, k)) = k /\ \A i \in 1 .. k : Cut(c, k)[i] = c[i]
  BY <1>1, <1>6, Cuts
<1>9. Cut(n, k) = Cut(c, k)
  <2>1. \A i \in 1 .. k : Cut(n, k)[i] = Cut(c, k)[i]
    <3>1. \A i \in 1 .. k : i \in 1 .. Len(c)
      BY <1>1, <1>6
    <3> QED BY <1>2, <1>7, <1>8, <3>1
  <2> QED BY <1>7, <1>8, <2>1, SamePath
<1>10. Cut(n, k) \in Nodes(files) /\ Cut(n, k) # <<>>
  BY <1>6, <1>7, NodesType
<1>11. First(files, Cut(n, k)) \in Nat
  BY <1>10, FirstEntry
<1> QED BY <1>5, <1>9, <1>11

\* Two paths agree only up to where one of them comes first.
LEMMA AgreeUpTo ==
  ASSUME NEW files \in Seq(Entries), NEW n \in Nodes(files), NEW m \in Nodes(files),
         NEW k \in 1 .. Len(n), k <= Len(m),
         First(files, Cut(n, k)) < First(files, Cut(m, k)),
         NEW l \in 0 .. Len(n), l <= Len(m), Cut(n, l) = Cut(m, l)
  PROVE  l < k
<1>1. n \in Seq(FIDs) /\ m \in Seq(FIDs) /\ Len(n) \in Nat /\ Len(m) \in Nat
  BY NodesType
<1>2. SUFFICES ASSUME k <= l PROVE FALSE
  BY <1>1
<1>3. k \in 0 .. Len(n) /\ k \in 0 .. Len(m) /\ l \in 0 .. Len(m)
  BY <1>1
<1>4. /\ Cut(n, k) \in Seq(FIDs) /\ Len(Cut(n, k)) = k
      /\ \A i \in 1 .. k : Cut(n, k)[i] = n[i]
  BY <1>1, <1>3, Cuts
<1>5. /\ Cut(m, k) \in Seq(FIDs) /\ Len(Cut(m, k)) = k
      /\ \A i \in 1 .. k : Cut(m, k)[i] = m[i]
  BY <1>1, <1>3, Cuts
<1>6. \A i \in 1 .. l : Cut(n, l)[i] = n[i] /\ Cut(m, l)[i] = m[i]
  BY <1>1, <1>3, Cuts
<1>7. \A i \in 1 .. k : i \in 1 .. l
  BY <1>2
<1>8. \A i \in 1 .. k : Cut(n, k)[i] = Cut(m, k)[i]
  BY <1>4, <1>5, <1>6, <1>7
<1>9. Cut(n, k) = Cut(m, k)
  BY <1>4, <1>5, <1>8, SamePath
<1>10. Cut(n, k) \in Nodes(files) /\ Cut(n, k) # <<>>
  BY <1>3, <1>4, NodesType
<1>11. First(files, Cut(n, k)) \in Nat
  BY <1>10, FirstEntry
<1> QED BY <1>9, <1>11

\* Of two files at most one comes before the other.
LEMMA OnlyOneBefore ==
  ASSUME NEW files \in Seq(Entries), NEW n \in Nodes(files), NEW m \in Nodes(files),
         Before(files, n, m), Before(files, m, n)
  PROVE  FALSE
<1>1. Len(n) \in Nat /\ Len(m) \in Nat
  BY NodesType
<1>2. ~ IsStrictPrefix(n, m) /\ ~ IsStrictPrefix(m, n)
  BY NotAfter
<1>3. PICK k \in 1 .. Len(n) :
        /\ k <= Len(m)
        /\ Cut(n, k - 1) = Cut(m, k - 1)
        /\ First(files, Cut(n, k)) < First(files, Cut(m, k))
  BY <1>2 DEF Before, Cut
<1>4. PICK j \in 1 .. Len(m) :
        /\ j <= Len(n)
        /\ Cut(m, j - 1) = Cut(n, j - 1)
        /\ First(files, Cut(m, j)) < First(files, Cut(n, j))
  BY <1>2 DEF Before, Cut
<1>5. /\ k - 1 \in 0 .. Len(m) /\ k - 1 <= Len(n)
      /\ j - 1 \in 0 .. Len(n) /\ j - 1 <= Len(m)
  BY <1>1, <1>3, <1>4
<1>6. j - 1 < k
  BY <1>3, <1>4, <1>5, AgreeUpTo
<1>7. k - 1 < j
  BY <1>3, <1>4, <1>5, AgreeUpTo
<1>8. j = k
  BY <1>6, <1>7
<1>9. First(files, Cut(n, k)) \in Nat /\ First(files, Cut(m, k)) \in Nat
  <2>1. k \in 0 .. Len(n) /\ k \in 0 .. Len(m) /\ k # 0
    BY <1>1, <1>3
  <2>2. n \in Seq(FIDs) /\ m \in Seq(FIDs)
    BY NodesType
  <2>3. Len(Cut(n, k)) = k /\ Len(Cut(m, k)) = k
    BY <2>1, <2>2, Cuts
  <2>4. /\ Cut(n, k) \in Nodes(files) /\ Cut(n, k) # <<>>
        /\ Cut(m, k) \in Nodes(files) /\ Cut(m, k) # <<>>
    BY <2>1, <2>3, NodesType
  <2> QED BY <2>4, FirstEntry
<1> QED BY <1>3, <1>4, <1>8, <1>9

-----------------------------------------------------------------------------
(* The first file with an id, directory by directory *)

\* The files with the id below d.
HitsBelow(files, d, id) == {n \in Nodes(files) : IsStrictPrefix(d, n) /\ Last(n) = id}

\* What is found at a child, and the children where something is found.
AtChild(files, c, id) == IF Last(c) = id THEN {c} ELSE FirstBelow(files, c, id)
ChildHits(files, d, id) == {c \in Children(files, d) : AtChild(files, c, id) # {}}
FirstChildren(files, d, id) ==
  {c \in ChildHits(files, d, id) :
     \A e \in ChildHits(files, d, id) : First(files, c) <= First(files, e)}

\* Where there is a file with the id, one is the first.
Finds(files, d, id) == HitsBelow(files, d, id) # {} => FirstBelow(files, d, id) # {}

LEMMA FirstBelowIs ==
  ASSUME NEW files, NEW d, NEW id, NEW n
  PROVE  n \in FirstBelow(files, d, id) <=>
           /\ n \in HitsBelow(files, d, id)
           /\ \A m \in HitsBelow(files, d, id) \ {n} : Before(files, n, m)
  BY DEF FirstBelow, HitsBelow

\* What is below a child, or the child, is below the directory.
LEMMA HitsOfChild ==
  ASSUME NEW files \in Seq(Entries), NEW d \in Nodes(files), NEW id,
         NEW c \in Children(files, d)
  PROVE  /\ HitsBelow(files, c, id) \subseteq HitsBelow(files, d, id)
         /\ AtChild(files, c, id) \subseteq HitsBelow(files, d, id)
         /\ \A n \in HitsBelow(files, c, id) : Toward(d, n) = c
         /\ \A n \in AtChild(files, c, id) : Toward(d, n) = c
<1>1. \A n \in Nodes(files) : n = c \/ IsStrictPrefix(c, n) =>
        IsStrictPrefix(d, n) /\ Toward(d, n) = c
  BY BelowChild
<1>2. c \in Nodes(files)
  BY DEF Children
<1>3. \A n \in AtChild(files, c, id) : n \in Nodes(files) /\ Last(n) = id /\ (n = c \/ IsStrictPrefix(c, n))
  BY <1>2, FirstBelowIs DEF AtChild, HitsBelow
<1> QED BY <1>1, <1>3 DEF HitsBelow

\* Each file with the id is found at the child on the way to it.
LEMMA ChildOfHit ==
  ASSUME NEW files \in Seq(Entries), NEW d \in Nodes(files), NEW id,
         NEW n \in HitsBelow(files, d, id)
  PROVE  /\ Toward(d, n) \in Children(files, d)
         /\ n = Toward(d, n) \/ n \in HitsBelow(files, Toward(d, n), id)
         /\ n # Toward(d, n) => IsStrictPrefix(Toward(d, n), n)
  BY OnTheWay DEF HitsBelow

\* If every child finds, something is found at the child on the way to a file with the id.
LEMMA FoundAtChild ==
  ASSUME NEW files \in Seq(Entries), NEW d \in Nodes(files), NEW id,
         \A e \in Children(files, d) : Finds(files, e, id),
         NEW n \in HitsBelow(files, d, id)
  PROVE  Toward(d, n) \in ChildHits(files, d, id)
<1>1. /\ Toward(d, n) \in Children(files, d)
      /\ n = Toward(d, n) \/ n \in HitsBelow(files, Toward(d, n), id)
  BY ChildOfHit
<1>2. n \in HitsBelow(files, Toward(d, n), id) => FirstBelow(files, Toward(d, n), id) # {}
  BY <1>1 DEF Finds
<1>3. n = Toward(d, n) => Last(Toward(d, n)) = id
  BY DEF HitsBelow
<1> QED BY <1>1, <1>2, <1>3 DEF ChildHits, AtChild

\* The first below d is the first at the first child where there is one.
LEMMA FromChild ==
  ASSUME NEW files \in Seq(Entries), NEW d \in Nodes(files), NEW id,
         \A e \in Children(files, d) : Finds(files, e, id),
         NEW c \in FirstChildren(files, d, id), NEW n \in AtChild(files, c, id)
  PROVE  n \in FirstBelow(files, d, id)
<1>1. c \in Children(files, d) /\ c \in Nodes(files)
  BY DEF FirstChildren, ChildHits, Children
<1>2. n \in HitsBelow(files, d, id) /\ Toward(d, n) = c
  BY <1>1, HitsOfChild
<1>3. ASSUME NEW m \in HitsBelow(files, d, id) \ {n}
      PROVE  Before(files, n, m)
  <2> DEFINE e == Toward(d, m)
  <2>1. e \in ChildHits(files, d, id) /\ e \in Children(files, d) /\ e \in Nodes(files)
    BY FoundAtChild DEF ChildHits, Children
  <2>2. /\ m = e \/ m \in HitsBelow(files, e, id)
        /\ m # e => IsStrictPrefix(e, m)
    BY ChildOfHit
  <2> HIDE DEF e
  <2>3. CASE e # c
    <3>1. First(files, c) <= First(files, e)
      BY <2>1 DEF FirstChildren
    <3>2. /\ c # <<>> /\ e # <<>> /\ Len(c) = Len(e)
      BY <1>1, <2>1, BelowChild
    <3>3. First(files, c) # First(files, e)
      BY <1>1, <2>1, <2>3, <3>2, OneOfThem
    <3>4. First(files, c) \in Nat /\ First(files, e) \in Nat
      BY <1>1, <2>1, <3>2, FirstEntry
    <3>5. First(files, Toward(d, n)) < First(files, Toward(d, m))
      BY <1>2, <3>1, <3>3, <3>4 DEF e
    <3>6. Toward(d, n) # Toward(d, m)
      BY <1>2, <2>3 DEF e
    <3>7. n \in Nodes(files) /\ IsStrictPrefix(d, n) /\ m \in Nodes(files) /\ IsStrictPrefix(d, m)
      BY <1>2 DEF HitsBelow
    <3> QED BY <3>5, <3>6, <3>7, BeforeIs
  <2>4. CASE e = c /\ Last(c) = id
    <3>1. n = c
      BY <2>4 DEF AtChild
    <3> QED BY <2>2, <2>4, <3>1 DEF Before
  <2>5. CASE e = c /\ Last(c) # id
    <3>1. n \in FirstBelow(files, c, id) /\ m # c
      BY <2>5 DEF AtChild, HitsBelow
    <3>2. m \in HitsBelow(files, c, id)
      BY <2>2, <2>5, <3>1
    <3> QED BY <3>1, <3>2, FirstBelowIs
  <2> QED BY <2>3, <2>4, <2>5
<1> QED BY <1>2, <1>3, FirstBelowIs

\* And the first below d is found at the first child where something is.
LEMMA ToChild ==
  ASSUME NEW files \in Seq(Entries), NEW d \in Nodes(files), NEW id,
         NEW n \in FirstBelow(files, d, id)
  PROVE  Toward(d, n) \in FirstChildren(files, d, id) /\ n \in AtChild(files, Toward(d, n), id)
<1> DEFINE c == Toward(d, n)
<1>1. n \in HitsBelow(files, d, id) /\ \A m \in HitsBelow(files, d, id) \ {n} : Before(files, n, m)
  BY FirstBelowIs
<1>2. /\ c \in Children(files, d) /\ c \in Nodes(files)
      /\ n = c \/ n \in HitsBelow(files, c, id)
      /\ n # c => IsStrictPrefix(c, n)
  BY <1>1, ChildOfHit DEF Children
<1>3. n \in Nodes(files) /\ IsStrictPrefix(d, n) /\ Last(n) = id
  BY <1>1 DEF HitsBelow
<1> HIDE DEF c
<1>4. n \in AtChild(files, c, id)
  <2>1. CASE Last(c) = id
    <3>1. c \in HitsBelow(files, d, id)
      BY <1>2, <2>1, HitsOfChild DEF AtChild
    <3>2. n # c => Before(files, n, c) /\ ~Before(files, n, c)
      BY <1>1, <1>2, <1>3, <3>1, NotAfter
    <3> QED BY <2>1, <3>2 DEF AtChild
  <2>2. CASE Last(c) # id
    <3>1. n \in HitsBelow(files, c, id)
      BY <1>2, <1>3, <2>2
    <3>2. \A m \in HitsBelow(files, c, id) \ {n} : Before(files, n, m)
      BY <1>1, <1>2, HitsOfChild
    <3> QED BY <2>2, <3>1, <3>2, FirstBelowIs DEF AtChild
  <2> QED BY <2>1, <2>2
<1>5. ASSUME NEW e \in ChildHits(files, d, id)
      PROVE  First(files, c) <= First(files, e)
  <2>1. e \in Children(files, d) /\ e \in Nodes(files)
    BY DEF ChildHits, Children
  <2>2. PICK m : m \in AtChild(files, e, id)
    BY DEF ChildHits
  <2>3. m \in HitsBelow(files, d, id) /\ Toward(d, m) = e
    BY <2>1, <2>2, HitsOfChild
  <2>4. m \in Nodes(files) /\ IsStrictPrefix(d, m)
    BY <2>3 DEF HitsBelow
  <2>5. c # <<>> /\ e # <<>>
    BY <1>2, <2>1, BelowChild
  <2>6. First(files, c) \in Nat /\ First(files, e) \in Nat
    BY <1>2, <2>1, <2>5, FirstEntry
  <2>7. e # c => First(files, c) < First(files, e)
    <3>1. SUFFICES ASSUME e # c PROVE First(files, c) < First(files, e)
      OBVIOUS
    <3>2. Before(files, n, m)
      BY <1>1, <2>3, <3>1 DEF c
    <3>3. Toward(d, n) # Toward(d, m)
      BY <2>3, <3>1 DEF c
    <3>4. First(files, Toward(d, n)) < First(files, Toward(d, m))
      BY <1>3, <2>4, <3>2, <3>3, BeforeIs
    <3> QED BY <2>3, <3>4 DEF c
  <2> QED BY <2>6, <2>7
<1> QED BY <1>2, <1>4, <1>5 DEF FirstChildren, ChildHits, c

-----------------------------------------------------------------------------
(* The search *)

\* No path of the list is longer than some number.
LEMMA DepthIsBounded ==
  ASSUME NEW files \in Seq(Entries)
  PROVE  \E l \in Nat : \A n \in Nodes(files) : Len(n) <= l
<1> DEFINE Bound(k, l) == \A i \in 1 .. k : Len(files[i].path) <= l
           Unbounded == {k \in 0 .. Len(files) : ~ \E l \in Nat : Bound(k, l)}
<1>1. \A i \in 1 .. Len(files) : files[i].path \in Seq(FIDs) /\ Len(files[i].path) \in Nat
  <2>1. \A i \in 1 .. Len(files) : files[i] \in Entries
    OBVIOUS
  <2> QED BY <2>1 DEF Entries
<1>2. Unbounded = {}
  <2>1. SUFFICES ASSUME Unbounded # {} PROVE FALSE
    OBVIOUS
  <2>2. Unbounded \in SUBSET Nat
    OBVIOUS
  <2>3. PICK k \in Unbounded : \A j \in Unbounded : k <= j
    <3> HIDE DEF Unbounded
    <3> QED BY <2>1, <2>2, MinIsSmallest
  <2>4. k # 0
    <3>1. Bound(0, 0)
      OBVIOUS
    <3> HIDE DEF Bound
    <3> QED BY <3>1
  <2>5. k - 1 \in 0 .. Len(files) /\ ~(k <= k - 1)
    BY <2>4
  <2>6. PICK l \in Nat : Bound(k - 1, l)
    <3> HIDE DEF Bound
    <3> QED BY <2>3, <2>5
  <2>7. k \in 1 .. Len(files)
    BY <2>4
  <2> DEFINE len == Len(files[k].path)
             m == IF l <= len THEN len ELSE l
  <2>8. len \in Nat
    BY <1>1, <2>7
  <2> HIDE DEF len
  <2>9. m \in Nat /\ l <= m /\ len <= m
    BY <2>8
  <2> HIDE DEF m
  <2>10. \A i \in 1 .. k - 1 : Len(files[i].path) \in Nat /\ Len(files[i].path) <= l
    <3>1. \A i \in 1 .. k - 1 : i \in 1 .. Len(files)
      BY <2>7
    <3> QED BY <1>1, <2>6, <3>1
  <2>11. Bound(k, m)
    <3>1. ASSUME NEW i \in 1 .. k PROVE Len(files[i].path) <= m
      <4>1. i = k \/ i \in 1 .. k - 1
        BY <2>7
      <4>2. CASE i = k
        BY <2>9, <4>2 DEF len
      <4>3. CASE i \in 1 .. k - 1
        <5> DEFINE x == Len(files[i].path)
        <5>1. x \in Nat /\ x <= l
          BY <2>10, <4>3
        <5> HIDE DEF x
        <5>2. x <= m
          BY <2>9, <5>1
        <5> QED BY <5>2 DEF x
      <4> QED BY <4>1, <4>2, <4>3
    <3> QED BY <3>1
  <2> HIDE DEF Bound
  <2> QED BY <2>9, <2>11
<1>3. PICK l \in Nat : Bound(Len(files), l)
  <2>1. Len(files) \in 0 .. Len(files)
    OBVIOUS
  <2> HIDE DEF Bound
  <2> QED BY <1>2, <2>1
<1>4. ASSUME NEW n \in Nodes(files) PROVE Len(n) <= l
  <2>1. CASE n = <<>>
    BY <2>1
  <2>2. CASE n # <<>>
    <3>1. PICK i \in DOMAIN files : IsPrefix(n, files[i].path)
      BY <2>2, NodesType
    <3>2. i \in 1 .. Len(files)
      OBVIOUS
    <3>3. n \in Seq(FIDs) /\ Len(n) \in Nat
      BY NodesType
    <3>4. Len(n) <= Len(files[i].path)
      BY <1>1, <3>1, <3>2, <3>3, PrefixIs
    <3>5. Len(files[i].path) <= l
      BY <1>3, <3>2
    <3> QED BY <1>1, <3>2, <3>3, <3>4, <3>5
  <2> QED BY <2>1, <2>2
<1> QED BY <1>4

\* Of any files of the tree one is as deep as any other.
LEMMA DeepestOne ==
  ASSUME NEW files \in Seq(Entries), NEW F \in SUBSET Nodes(files), F # {}
  PROVE  \E n \in F : \A m \in F : Len(m) <= Len(n)
<1>1. PICK l \in Nat : \A n \in Nodes(files) : Len(n) <= l
  BY DepthIsBounded
<1>2. \A n \in F : Len(n) \in Nat /\ Len(n) <= l
  BY <1>1, NodesType
<1> DEFINE D == {l - Len(n) : n \in F}
<1>3. D \in SUBSET Nat /\ D # {}
  BY <1>2
<1>4. PICK x \in D : \A y \in D : x <= y
  <2> HIDE DEF D
  <2> QED BY <1>3, MinIsSmallest
<1>5. PICK n \in F : x = l - Len(n)
  OBVIOUS
<1>6. ASSUME NEW m \in F PROVE Len(m) <= Len(n)
  <2>1. l - Len(m) \in D
    OBVIOUS
  <2>2. l - Len(n) <= l - Len(m)
    BY <1>4, <1>5, <2>1
  <2> HIDE DEF D
  <2> QED BY <1>2, <2>2
<1> QED BY <1>6

\* Some child is the first of those where there is something.
LEMMA FirstChild ==
  ASSUME NEW files \in Seq(Entries), NEW d \in Nodes(files), NEW id,
         ChildHits(files, d, id) # {}
  PROVE  FirstChildren(files, d, id) # {}
<1> DEFINE firsts == {First(files, c) : c \in ChildHits(files, d, id)}
<1>1. \A c \in ChildHits(files, d, id) : First(files, c) \in Nat
  <2> TAKE c \in ChildHits(files, d, id)
  <2>1. c \in Children(files, d) /\ c \in Nodes(files)
    BY DEF ChildHits, Children
  <2>2. c # <<>>
    BY <2>1, BelowChild
  <2> QED BY <2>1, <2>2, FirstEntry
<1>2. firsts \in SUBSET Nat /\ firsts # {}
  BY <1>1
<1>3. PICK x \in firsts : \A y \in firsts : x <= y
  <2> HIDE DEF firsts
  <2> QED BY <1>2, MinIsSmallest
<1>4. PICK c \in ChildHits(files, d, id) : x = First(files, c)
  OBVIOUS
<1>5. \A e \in ChildHits(files, d, id) : First(files, c) <= First(files, e)
  BY <1>3, <1>4
<1> QED BY <1>5 DEF FirstChildren

\* Below every directory there is a first file with the id, if there is any.
LEMMA EachFinds ==
  ASSUME NEW files \in Seq(Entries), NEW id, NEW d \in Nodes(files)
  PROVE  Finds(files, d, id)
<1> DEFINE F == {n \in Nodes(files) : ~Finds(files, n, id)}
<1>1. SUFFICES ASSUME F # {} PROVE FALSE
  OBVIOUS
<1>2. PICK n \in F : \A m \in F : Len(m) <= Len(n)
  <2>1. F \in SUBSET Nodes(files)
    OBVIOUS
  <2> HIDE DEF F
  <2> QED BY <1>1, <2>1, DeepestOne
<1>3. n \in Nodes(files) /\ Len(n) \in Nat
  BY NodesType
<1>4. \A e \in Children(files, n) : Finds(files, e, id)
  <2> TAKE e \in Children(files, n)
  <2>1. e \in Nodes(files) /\ Len(e) = Len(n) + 1
    BY DEF Children
  <2>2. e \notin F
    BY <1>2, <1>3, <2>1
  <2> QED BY <2>1, <2>2
<1>5. PICK h : h \in HitsBelow(files, n, id)
  BY DEF Finds
<1>6. ChildHits(files, n, id) # {}
  BY <1>3, <1>4, <1>5, FoundAtChild
<1>7. PICK c : c \in FirstChildren(files, n, id)
  BY <1>3, <1>6, FirstChild
<1>8. PICK f : f \in AtChild(files, c, id)
  BY <1>7 DEF FirstChildren, ChildHits
<1>9. f \in FirstBelow(files, n, id)
  BY <1>3, <1>4, <1>7, <1>8, FromChild
<1> QED BY <1>9 DEF Finds

\* What the search makes of what it finds below the children.
Search(files, found, id, n) ==
  LET hits == {c \in Children(files, n) : Last(c) = id \/ found[c] # {}}
  IN  UNION {IF Last(c) = id THEN {c} ELSE found[c] :
               c \in {h \in hits : \A e \in hits : First(files, h) <= First(files, e)}}

\* The first file is what the search makes of the first files below the children.
LEMMA FirstBelowIsSearch ==
  ASSUME NEW files \in Seq(Entries), NEW d \in Nodes(files), NEW id,
         NEW found, \A c \in Children(files, d) : found[c] = FirstBelow(files, c, id)
  PROVE  Search(files, found, id, d) = FirstBelow(files, d, id)
<1>1. {c \in Children(files, d) : Last(c) = id \/ found[c] # {}} = ChildHits(files, d, id)
  <2>1. \A c \in Children(files, d) :
          AtChild(files, c, id) # {} <=> Last(c) = id \/ found[c] # {}
    BY DEF AtChild
  <2> QED BY <2>1 DEF ChildHits
<1>2. \A c \in FirstChildren(files, d, id) :
        AtChild(files, c, id) = IF Last(c) = id THEN {c} ELSE found[c]
  BY DEF AtChild, FirstChildren, ChildHits
<1>3. Search(files, found, id, d) =
        UNION {IF Last(c) = id THEN {c} ELSE found[c] : c \in FirstChildren(files, d, id)}
  BY <1>1 DEF Search, FirstChildren
<1>4. \A n : n \in Search(files, found, id, d) <=>
              \E c \in FirstChildren(files, d, id) : n \in AtChild(files, c, id)
  BY <1>2, <1>3
<1>5. \A e \in Children(files, d) : Finds(files, e, id)
  BY EachFinds DEF Children
<1>6. \A n : n \in Search(files, found, id, d) => n \in FirstBelow(files, d, id)
  BY <1>4, <1>5, FromChild
<1>7. \A n : n \in FirstBelow(files, d, id) => n \in Search(files, found, id, d)
  BY <1>4, ToChild
<1> QED BY <1>6, <1>7

\* Only one function is its own search: searchId() returns the first file with the id.
LEMMA SearchFindsFirst ==
  ASSUME NEW files \in Seq(Entries), NEW d \in Nodes(files), NEW id
  PROVE  searchId(files, d, id) = FirstBelow(files, d, id)
<1> DEFINE IsSearch(f) == f = [n \in Nodes(files) |-> Search(files, f, id, n)]
           found == CHOOSE f : IsSearch(f)
           first == [n \in Nodes(files) |-> FirstBelow(files, n, id)]
<1>1. searchId(files, d, id) = found[d]
  BY DEF searchId, Search
<1>2. IsSearch(first)
  <2>1. \A n \in Nodes(files) : Search(files, first, id, n) = FirstBelow(files, n, id)
    <3> TAKE n \in Nodes(files)
    <3>1. \A c \in Children(files, n) : first[c] = FirstBelow(files, c, id)
      BY DEF Children
    <3> HIDE DEF first
    <3> QED BY <3>1, FirstBelowIsSearch
  <2> QED BY <2>1
<1>3. IsSearch(found)
  <2> HIDE DEF IsSearch
  <2> QED BY <1>2
<1>4. \A n \in Nodes(files) : found[n] = Search(files, found, id, n)
  <2>1. \A f : IsSearch(f) => \A n \in Nodes(files) : f[n] = Search(files, f, id, n)
    OBVIOUS
  <2> HIDE DEF IsSearch, found
  <2> QED BY <1>3, <2>1
<1> DEFINE F == {n \in Nodes(files) : found[n] # FirstBelow(files, n, id)}
<1>5. F = {}
  <2>1. SUFFICES ASSUME F # {} PROVE FALSE
    OBVIOUS
  <2>2. PICK n \in F : \A m \in F : Len(m) <= Len(n)
    <3>1. F \in SUBSET Nodes(files)
      OBVIOUS
    <3> HIDE DEF F
    <3> QED BY <2>1, <3>1, DeepestOne
  <2>3. n \in Nodes(files) /\ Len(n) \in Nat
    BY NodesType
  <2> HIDE DEF found
  <2>4. \A c \in Children(files, n) : found[c] = FirstBelow(files, c, id)
    <3> TAKE c \in Children(files, n)
    <3>1. c \in Nodes(files) /\ Len(c) = Len(n) + 1
      BY DEF Children
    <3>2. c \notin F
      BY <2>2, <2>3, <3>1
    <3> QED BY <3>1, <3>2
  <2>5. Search(files, found, id, n) = FirstBelow(files, n, id)
    <3> HIDE DEF F
    <3> QED BY <2>3, <2>4, FirstBelowIsSearch
  <2> QED BY <1>4, <2>3, <2>5
<1> HIDE DEF found
<1> QED BY <1>1, <1>5

\* The first file with the id is found, in any list of files, from any directory
\* (FileStructure.cpp:116-130).
THEOREM SearchIsDepthFirstHolds == Spec => []SearchIsDepthFirst
<1>1. TypeOK => SearchIsDepthFirst
  BY SearchFindsFirst DEF TypeOK, SearchIsDepthFirst
<1> QED BY <1>1, TypeCorrect, PTL

\* A search comes to one file: if there is no file below the directory with the id
\* nothing is found, and if there are some, exactly one of them is, however many
\* directories have a file of that name and in whatever order they were made
\* (FileStructure.cpp:116-130).
THEOREM SearchFindsOneFile ==
  ASSUME NEW files \in Seq(Entries), NEW d \in Nodes(files), NEW id
  PROVE  IF HitsBelow(files, d, id) = {}
         THEN searchId(files, d, id) = {}
         ELSE \E n \in HitsBelow(files, d, id) : searchId(files, d, id) = {n}
<1>1. searchId(files, d, id) = FirstBelow(files, d, id)
  BY SearchFindsFirst
<1>2. FirstBelow(files, d, id) = {n \in HitsBelow(files, d, id) :
                                    \A m \in HitsBelow(files, d, id) \ {n} : Before(files, n, m)}
  BY DEF FirstBelow, HitsBelow
<1>3. HitsBelow(files, d, id) \subseteq Nodes(files)
  BY DEF HitsBelow
<1>4. CASE HitsBelow(files, d, id) = {}
  BY <1>1, <1>2, <1>4
<1>5. CASE HitsBelow(files, d, id) # {}
  <2>1. FirstBelow(files, d, id) # {}
    BY <1>5, EachFinds DEF Finds
  <2>2. PICK n : n \in FirstBelow(files, d, id)
    BY <2>1
  <2>3. ASSUME NEW m \in FirstBelow(files, d, id), m # n PROVE FALSE
    <3>1. Before(files, n, m) /\ Before(files, m, n)
      BY <1>2, <2>2, <2>3
    <3>2. n \in Nodes(files) /\ m \in Nodes(files)
      BY <1>2, <1>3, <2>2
    <3> QED BY <3>1, <3>2, OnlyOneBefore
  <2>4. FirstBelow(files, d, id) = {n}
    BY <2>2, <2>3
  <2>5. n \in HitsBelow(files, d, id)
    BY <1>2, <2>2
  <2> QED BY <1>1, <1>5, <2>4, <2>5
<1> QED BY <1>4, <1>5
==============================================================================
