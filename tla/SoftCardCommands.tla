--------------------------- MODULE SoftCardCommands ---------------------------
(***************************************************************************)
(* The commands a virtual card answers (pcscproxy/SoftCard.cpp, with the   *)
(* answers of Carddata.cpp).  Bytes are counted, not shown: the data of an *)
(* answer is the position of its first byte in the file or in the card     *)
(* data, and how many there are.                                           *)
(***************************************************************************)
EXTENDS FileStructure

CONSTANTS
  Cards,       \* the virtual card files: whether readable, chip number, files
  HardChip,    \* the chip number of the physical card: its first 11 bytes, the other 5
  Paths,       \* paths an application selects
  AidLens,     \* lengths of the application ids it selects
  LeBytes,     \* last bytes of its requests: how much data is expected
  Offsets,     \* where it reads a file
  Rooms        \* sizes of its buffers

CardDataLen == 28      \* chip number, version numbers and life cycle

Entries == [path : Seq(FIDs), size : Nat]

ASSUME IdsAssumption ==
  DirIds \subseteq FIDs /\ ROOT_ID \in FIDs /\ BELPIC_DIR_ID \in FIDs
ASSUME CardsAssumption ==
  \A c \in Cards : c.readable \in BOOLEAN /\ c.files \in Seq(Entries)
ASSUME RequestsAssumption ==
  LeBytes \subseteq 0 .. 255 /\ Offsets \subseteq Nat /\ Rooms \subseteq Nat

VARIABLES
  isDataLoaded,   \* chipnr, versionnumbers and fs are there
  fs,             \* the files of the virtual card
  selected,       \* the selected one
  responseBuffer, \* the rest of the card data: first byte and number of bytes
  answer,         \* the answer to the last command
  got,            \* history: card data delivered since the last GET CARD DATA
  announced       \* history: how much more its answers say there is

history == <<got, announced>>
vars == <<isDataLoaded, fs, selected, responseBuffer, answer, history>>

-----------------------------------------------------------------------------
(* Answers: result, status bytes, data, and the length before and after *)

StatusWords ==
  {"none", "9000", "61", "6C", "6D00", "6B00", "6986", "6A82", "6A86", "6A87"}

\* The buffer is too small; le bytes have been copied to it.
Insufficient(first, le, room) ==
  [code |-> "INSUFFICIENT_BUFFER", sw |-> "none", sw2 |-> 0, first |-> first,
   count |-> le, room |-> room, length |-> room]

\* Status bytes behind le bytes of data, which are copied first; the length of the data
\* is cast to a byte.
Data(sw, sw2, first, le, room) ==
  IF le + 2 > room
  THEN Insufficient(first, le, room)
  ELSE [code |-> "SUCCESS", sw |-> sw, sw2 |-> sw2 % 256, first |-> first,
        count |-> le, room |-> room, length |-> (le % 256) + 2]

\* Status bytes only.
Status(sw, sw2, room) == Data(sw, sw2, 0, 0, room)

Le(b) == IF b = 0 THEN 256 ELSE b

\* Mutants: no room is left for the status bytes, and the room is not tested.
CopiesTight(la, le, room) == le <= la /\ le <= room

CopiesUntested(la, le, room) == le <= la

\* The data is copied when so much is there and there is room for it.
Copies(la, le, room) == le <= la /\ le + 2 <= room

\* Mutant: the length announced is counted from the beginning.
NotCopiedAt0(first, la, le, room) ==
  IF le > la THEN Status("6C", first + la, room) ELSE Insufficient(0, 0, room)

\* What is answered when it is not: la bytes are there, from first on.
NotCopied(first, la, le, room) ==
  IF le > la THEN Status("6C", la, room) ELSE Insufficient(0, 0, room)

\* The next part of the card data.
CardDataPart(first, la, le, room) ==
  IF ~Copies(la, le, room) THEN NotCopied(first, la, le, room)
  ELSE IF le < la THEN Data("61", la - le, first, le, room)
  ELSE Data("9000", 0, first, le, room)

\* A part of the selected file.
FilePart(offset, le, room) ==
  LET la == Size(fs, selected)
  IN  IF isDir(selected) THEN Status("6986", 0, room)
      ELSE IF la = 0 THEN Status("6D00", 0, room)
      ELSE IF offset >= la THEN Status("6B00", 0, room)
      ELSE IF ~Copies(la - offset, le, room) THEN NotCopied(offset, la - offset, le, room)
      ELSE Data("9000", 0, offset, le, room)

\* Mutant: the status bytes are counted with the data.
RestBehindStatus(first, la, le) == [first |-> first + le, count |-> la + 2 - le]

\* What is left of la bytes after le of them.
Rest(first, la, le) == [first |-> first + le, count |-> la - le]

Empty == [first |-> 0, count |-> 0]

-----------------------------------------------------------------------------
Init ==
  /\ isDataLoaded = FALSE
  /\ fs = <<>>
  /\ selected = <<>>
  /\ responseBuffer = Empty
  /\ answer = Insufficient(0, 0, 0)
  /\ got = 0
  /\ announced = 0

\* The chip number is compared over the length of the version numbers, 11 of its 16 bytes.
\* All files have to be added; otherwise the card stays as it was.
loadFromFile ==
  /\ ~isDataLoaded
  /\ \E c \in Cards :
       /\ c.readable
       /\ c.chip[1] = HardChip[1]
       /\ addAll(c.files) = Len(c.files)
       /\ fs' = c.files
  /\ isDataLoaded' = TRUE
  /\ selected' = <<>>
  /\ UNCHANGED <<responseBuffer, answer, history>>

\* A command without the data it needs, or with parameters it does not take.
Refused(sw) ==
  /\ \E room \in Rooms : answer' = Status(sw, 0, room)
  /\ UNCHANGED <<isDataLoaded, fs, selected, responseBuffer, history>>

getCardData ==
  \/ ~isDataLoaded /\ Refused("6D00")
  \/ isDataLoaded /\ Refused("6B00")
  \/ /\ isDataLoaded
     /\ \E b \in LeBytes, room \in Rooms :
          /\ answer' = CardDataPart(0, CardDataLen, Le(b), room)
          /\ responseBuffer' = IF Copies(CardDataLen, Le(b), room) /\ Le(b) < CardDataLen
                               THEN Rest(0, CardDataLen, Le(b))
                               ELSE responseBuffer
     /\ IF answer'.sw \in {"61", "9000"}
        THEN got' = answer'.count /\ announced' = answer'.sw2
        ELSE UNCHANGED history
     /\ UNCHANGED <<isDataLoaded, fs, selected>>

\* A rest that no answer announced is given as well.
getResponse ==
  \/ Refused("6B00")
  \/ responseBuffer.count = 0 /\ Refused("6D00")
  \/ /\ responseBuffer.count > 0
     /\ \E b \in LeBytes, room \in Rooms :
          LET first == responseBuffer.first
              la == responseBuffer.count
          IN  /\ answer' = CardDataPart(first, la, Le(b), room)
              /\ responseBuffer' = IF ~Copies(la, Le(b), room) THEN responseBuffer
                                   ELSE IF Le(b) < la THEN Rest(first, la, Le(b))
                                   ELSE Empty
     /\ IF announced > 0 /\ answer'.sw \in {"61", "9000"}
        THEN got' = got + answer'.count /\ announced' = answer'.sw2
        ELSE UNCHANGED history
     /\ UNCHANGED <<isDataLoaded, fs, selected>>

readBinary ==
  \/ ~isDataLoaded /\ Refused("6D00")
  \/ /\ isDataLoaded
     /\ \E o \in Offsets, b \in LeBytes, room \in Rooms : answer' = FilePart(o, Le(b), room)
     /\ UNCHANGED <<isDataLoaded, fs, selected, responseBuffer, history>>

\* The file found is selected, also when there is no room for the answer.
Select(found) ==
  \/ found = {} /\ Refused("6A82")
  \/ \E f \in Nodes(fs), room \in Rooms :
       /\ f \in found
       /\ selected' = f
       /\ answer' = Status("9000", 0, room)
       /\ UNCHANGED <<isDataLoaded, fs, responseBuffer, history>>

\* By file id, by path with or without the root in front, by application id; refused are
\* ids of another length, paths of an odd one and other ways to select.
selectFile ==
  \/ ~isDataLoaded /\ Refused("6D00")
  \/ /\ isDataLoaded
     /\ \/ \E id \in FIDs : Select(selectByFID(fs, selected, id))
        \/ \E p \in Paths :
             Select(searchPath(fs, IF Head(p) = ROOT_ID THEN Tail(p) ELSE p))
        \/ Select({})
        \/ \E aid \in {"applet", "belpic", "other"}, len \in AidLens :
             5 <= len /\ len <= 16 /\ Select(searchAid(fs, aid, len))
        \/ \E sw \in {"6A86", "6A87"} : Refused(sw)

Next == loadFromFile \/ getCardData \/ getResponse \/ readBinary \/ selectFile

Spec == Init /\ [][Next]_vars

-----------------------------------------------------------------------------
Answers ==
  [code : {"SUCCESS", "INSUFFICIENT_BUFFER"}, sw : StatusWords, sw2 : 0 .. 255,
   first : Nat, count : 0 .. 256, room : Nat, length : Nat]

\* The types of the variables; the selected file is one of the card, the rest of the card
\* data never more than there is.
TypeOK ==
  /\ isDataLoaded \in BOOLEAN
  /\ fs \in Seq(Entries)
  /\ selected \in Nodes(fs)
  /\ responseBuffer \in [first : Nat, count : 0 .. CardDataLen]
  /\ answer \in Answers
  /\ got \in Nat
  /\ announced \in 0 .. CardDataLen

\* No answer is written past the end of the application's buffer, and the length given
\* back is that of data and status bytes, but for 256 bytes of data, where the cast to a
\* byte leaves the status bytes only (Carddata.cpp:63-84).
AnswerFits ==
  /\ answer.count <= answer.room
  /\ answer.code = "SUCCESS" =>
       /\ answer.count + 2 <= answer.room
       /\ answer.length = IF answer.count = 256 THEN 2 ELSE answer.count + 2

\* While the last answer with card data has announced more, exactly that follows:
\* whatever was refused, read or selected in between, GET RESPONSE goes on behind the
\* last byte delivered, and all 28 bytes come, each once (SoftCard.cpp:261-320).
RestIsAnnounced ==
  announced > 0 =>
    /\ responseBuffer = [first |-> got, count |-> announced]
    /\ got + announced = CardDataLen

\* When a request for a part of the selected file, or of the card data, is answered with
\* the right length, a request for that length is answered with the data.
FileRetryIsAnswered(offset, le, room) ==
  LET a == FilePart(offset, le, room)
  IN  a.sw = "6C" => FilePart(offset, Le(a.sw2), 258).sw = "9000"

CardDataRetryIsAnswered(first, la, le, room) ==
  LET a == CardDataPart(first, la, le, room)
  IN  a.sw = "6C" => CardDataPart(first, la, Le(a.sw2), 258).sw = "9000"

\* An application that is told the right length gets the data when it asks again: the
\* byte in the answer is neither cut off nor counted from the wrong place
\* (Carddata.cpp:51-61).
RetryIsAnswered ==
  isDataLoaded =>
    \A b \in LeBytes, room \in Rooms :
      /\ \A o \in Offsets : FileRetryIsAnswered(o, Le(b), room)
      /\ CardDataRetryIsAnswered(0, CardDataLen, Le(b), room)
      /\ responseBuffer.count > 0 =>
           CardDataRetryIsAnswered(responseBuffer.first, responseBuffer.count, Le(b), room)

\* A search for a file id finds the first such file in the order of the virtual card file,
\* a directory before what is in it, however deep; and none only if there is none
\* (FileStructure.cpp:116-130).
SearchIsDepthFirst ==
  isDataLoaded =>
    \A d \in Nodes(fs), id \in FIDs : searchId(fs, d, id) = FirstBelow(fs, d, id)
==============================================================================
