------------------------------ MODULE ReaderList ------------------------------
(***************************************************************************)
(* Lists of the readers and their status, for an application of several    *)
(* threads: SCardListReaders() and SCardGetStatusChange() of               *)
(* pcscproxy/WinscardImpl.cpp, the list that SoftReaderManager.cpp makes   *)
(* of it, and the order that Control.cpp reads in the control file.        *)
(*                                                                         *)
(* The PC/SC library gives the names of the readers that are plugged in.   *)
(* Each has a virtual reader, known to the manager once a list has been    *)
(* made.  A status call keeps pointers to the names of virtual readers and *)
(* blocks in the PC/SC library with them, while lists of other threads     *)
(* make and delete readers.  What the code reads through a pointer to a    *)
(* deleted reader is undefined: any outcome here but the end of the        *)
(* program, which nothing follows.                                         *)
(***************************************************************************)
EXTENDS Integers, FiniteSetsExt, SequencesExt

CONSTANTS
  Threads,
  Readers,       \* the names of physical readers, in alphabetical order
  NameLength,    \* the length of each
  PrefixLetters, \* those that begin with one of the letters of "!Virtual "
  PrefixLength,  \* SOFTREADER_NAME_PREFIX.size()
  Arrays,        \* the names and states that SCardGetStatusChange() is called with
  MaxStatusCalls, \* bound: status calls at a time
  NULL

ASSUME ReadersAssumption ==
  /\ Readers \subseteq Nat /\ IsFiniteSet(Readers)
  /\ NameLength \in [Readers -> Nat \ {0}]
  /\ PrefixLetters \subseteq Readers /\ PrefixLength \in Nat \ {0}

ListReaderOrder == {"REAL_FIRST", "REAL_LAST", "HIDE_REAL", "HIDE_VIRTUAL"}

\* The name of a physical reader, or that of its virtual reader.
Hard(r) == [soft |-> FALSE, hard |-> r]
Soft(r) == [soft |-> TRUE, hard |-> r]
Names == [soft : BOOLEAN, hard : Readers]

States == {"unaware", "unknown", "present"}

\* Where a status call is: in its first loop, in the PC/SC library, in its second loop.
StatusCalls == {"finding", "adding", "waiting", "refinding", "updating"}

ASSUME ArraysAssumption ==
  \A a \in Arrays : /\ a.names \in Seq(Names) /\ a.names # <<>>
                    /\ a.states \in [DOMAIN a.names -> States]

VARIABLES
  present,     \* PC/SC library: the readers that are plugged in
  fileSize,    \* Control: there was a control file when it was made
  readers,     \* SoftReaderManager: the hard names of the soft readers
  asked,       \* the length that was got last for no buffer, and for which names
  call,        \* the call each thread is in
  result       \* what the last step returned: a list, with its order and whether it fits
               \* its buffer; or the states for an array of names, with what the PC/SC
               \* library answered and the soft readers made or deleted meanwhile

vars == <<present, fileSize, readers, asked, call, result>>

Idle == [pc |-> "idle"]
Crashed == [pc |-> "crashed"]

Init ==
  /\ present \in SUBSET Readers
  /\ fileSize \in BOOLEAN
  /\ readers = {}
  /\ asked = [names |-> {}, length |-> 0]
  /\ call = [t \in Threads |-> Idle]
  /\ result = Idle

Enter(t, c) == call[t] = Idle /\ call' = [call EXCEPT ![t] = c]

-----------------------------------------------------------------------------
(* Control *)

\* What the control file shows may change at any time.  The buffer was made for the file
\* that there was when the program began: one that came later is not read.
getVisibility(controlFile) ==
  IF controlFile # NULL /\ fileSize THEN controlFile ELSE "REAL_LAST"

Visibilities == {getVisibility(f) : f \in ListReaderOrder \union {NULL}}

-----------------------------------------------------------------------------
(* SoftReaderManager *)

Size(name) == NameLength[name.hard] + (IF name.soft THEN PrefixLength ELSE 0)

\* A multistring of these names: each is terminated, and so is the whole.
MultiString(names) == SumFunctionOnSet([n \in Names |-> Size(n) + 1], names) + 1

\* Mutant: without the terminator of the list.
calcListReadersLengthOpen(hardnames) ==
  2 * SumFunctionOnSet(NameLength, hardnames)
    + Cardinality(hardnames) * PrefixLength + 2 * Cardinality(hardnames)

calcListReadersLength(hardnames) ==
  IF hardnames = {} THEN 2
  ELSE 2 * SumFunctionOnSet(NameLength, hardnames)
         + Cardinality(hardnames) * PrefixLength + 2 * Cardinality(hardnames) + 1

\* 0 == find_first_of(prefix): the name begins with any letter of the prefix.
LooksSoft(n) == n.soft \/ n.hard \in PrefixLetters

\* The prefix sorts before the name of any physical reader.
compare(a, b) ==
  \/ a.soft /\ ~b.soft
  \/ a.soft = b.soft /\ a.hard < b.hard

\* Mutant: a name that looks virtual is put after every other.
cmpVirtualNameFirstNot(a, b) ==
  IF LooksSoft(a) = LooksSoft(b) THEN compare(a, b) ELSE LooksSoft(b)

cmpVirtualNameFirst(a, b) ==
  IF LooksSoft(a) = LooksSoft(b) THEN compare(a, b) ELSE LooksSoft(a)

cmpVirtualNameLast(a, b) ==
  IF LooksSoft(a) = LooksSoft(b) THEN compare(a, b) ELSE LooksSoft(b)

precedes(order, a, b) ==
  CASE order = "REAL_FIRST" -> cmpVirtualNameLast(a, b)
    [] order = "REAL_LAST" -> cmpVirtualNameFirst(a, b)
    [] OTHER -> compare(a, b)

\* A set of names, sorted: each stands behind all those that precede it.
Sorted(names, order) ==
  [i \in 1..Cardinality(names) |->
     CHOOSE n \in names : Cardinality({m \in names : precedes(order, m, n)}) = i - 1]

\* The names that a list shows.
Shown(hardnames, order) ==
  {n \in Names : /\ n.hard \in hardnames
                 /\ n.soft => order # "HIDE_VIRTUAL"
                 /\ ~n.soft => order # "HIDE_REAL"}

returnListNames(hardnames, order) == Sorted(Shown(hardnames, order), order)

\* A list for these names deletes the other readers: what points to one is freed memory.
Mark(from, name, hardnames) ==
  IF from = "reader" /\ name.hard \in readers \ hardnames THEN "deleted" ELSE from

\* What is left of s's call: a status call has the pointer to the reader it found last and
\* those to the names in realReaderStates.
Freed(s, hardnames) ==
  LET c == call[s]
  IN IF c.pc \in StatusCalls
     THEN [c EXCEPT
             !.sr = Mark(c.sr, c.names[c.i], hardnames),
             !.real = [k \in DOMAIN c.real |->
                         [c.real[k] EXCEPT
                            !.from = Mark(c.real[k].from, c.real[k].name, hardnames)]],
             !.moved = c.moved \union (readers \ hardnames) \union (hardnames \ readers)]
     ELSE c

createSoftReaders(t, order) ==
  LET hardnames == call[t].names
      names == returnListNames(hardnames, order)
  IN /\ call[t].pc = "listing"
     /\ readers' = hardnames
     /\ result' = [pc |-> "listing", names |-> names, order |-> order,
                   fits |-> call[t].room # NULL => MultiString(ToSet(names)) <= call[t].room]
     /\ call' = [s \in Threads |-> IF s = t THEN Idle ELSE Freed(s, hardnames)]
     /\ UNCHANGED <<present, fileSize, asked>>

\* getSoftReaderByName(name, N_SOFT) finds a soft reader.
getSoftReaderByName(n) == n.soft /\ n.hard \in readers

-----------------------------------------------------------------------------
(* SCardListReaders(), whose call of the PC/SC library fails without readers *)

\* mszReaders == NULL: the length only.  That the library failed is not looked at: the
\* length is then that of whatever the buffer had in it.
ListReadersLength(t) ==
  /\ call[t] = Idle
  /\ \E found \in IF present # {} THEN {present} ELSE SUBSET Readers :
       asked' = [names |-> present, length |-> calcListReadersLength(found)]
  /\ result' = Idle
  /\ UNCHANGED <<present, fileSize, readers, call>>

\* SCARD_AUTOALLOCATE: the buffer gets the length that is needed.  Without readers the
\* library gives no buffer, and the names are read through a null pointer.
ListReadersAllocated(t) ==
  /\ IF present # {}
     THEN Enter(t, [pc |-> "listing", names |-> present,
                    room |-> calcListReadersLength(present)])
     ELSE call[t] = Idle /\ call' = [s \in Threads |-> Crashed]
  /\ result' = Idle
  /\ UNCHANGED <<present, fileSize, readers, asked>>

\* A buffer of the length the thread asked for, whose room is not known to be enough when
\* other readers have been plugged in.  The PC/SC library wants room for its own names;
\* the test for an insufficient buffer compares with the length of these.
ListReadersBuffer(t) ==
  LET pcchReaders == MultiString({Hard(r) : r \in present})
  IN /\ present # {} /\ pcchReaders <= asked.length
     /\ ~(calcListReadersLength(present) < pcchReaders)
     /\ Enter(t, [pc |-> "listing", names |-> present,
                  room |-> IF present \subseteq asked.names THEN asked.length ELSE NULL])
     /\ result' = Idle
     /\ UNCHANGED <<present, fileSize, readers, asked>>

-----------------------------------------------------------------------------
(* SCardGetStatusChange() *)

\* A name in realReaderStates and its state: it is the string of the caller, that of a
\* soft reader, or was that of a soft reader.
Entries == [name : Names, from : {"caller", "reader", "deleted"}, state : States]

\* The name to look for: that of the element, or the hard name of the reader found.
hardReaderName(c) ==
  [name |-> IF c.sr = "caller" THEN c.names[c.i] ELSE Hard(c.names[c.i].hard),
   from |-> c.sr, state |-> c.states[c.i]]

\* strcmp() of two names, which says anything of freed memory.
Same(a, b) == a.from # "deleted" /\ b.from # "deleted" /\ a.name = b.name
MayBeSame(a, b) == a.from = "deleted" \/ b.from = "deleted" \/ a.name = b.name

\* The first element with that name; 0 for none.
GetState(pStates, e) ==
  {k \in DOMAIN pStates :
     MayBeSame(pStates[k], e) /\ \A j \in 1..(k - 1) : ~Same(pStates[j], e)}
    \union {k \in {0} : \A j \in DOMAIN pStates : ~Same(pStates[j], e)}

\* A loop over the elements goes on with the next, or is done.
NextElement(c, again, done) ==
  LET last == c.i = Len(c.names)
  IN [c EXCEPT !.i = IF last THEN 1 ELSE @ + 1, !.pc = IF last THEN done ELSE again,
               !.sr = "caller"]

Continue(t, c) ==
  /\ call' = [call EXCEPT ![t] = c]
  /\ result' = Idle
  /\ UNCHANGED <<present, fileSize, readers, asked>>

GetStatusChange(t, names, states) ==
  /\ call[t] = Idle
  /\ Cardinality({s \in Threads : call[s].pc \in StatusCalls}) < MaxStatusCalls
  /\ Continue(t, [pc |-> "finding", names |-> names, states |-> states, real |-> <<>>,
                  i |-> 1, sr |-> "caller", moved |-> {}])

\* Each loop looks the element's reader up under the mutex of the manager, gives that
\* back and uses the reader.
FindReader(t) ==
  LET c == call[t]
  IN /\ c.pc \in {"finding", "refinding"}
     /\ Continue(t, [c EXCEPT
                       !.sr = IF getSoftReaderByName(c.names[c.i]) THEN "reader" ELSE "caller",
                       !.pc = IF @ = "finding" THEN "adding" ELSE "updating"])

\* The names for the PC/SC library, each once, with the state of the first element that
\* asks for it.
AddState(t) ==
  LET c == call[t]
      e == hardReaderName(c)
  IN /\ c.pc = "adding"
     /\ \E k \in GetState(c.real, e) :
          Continue(t, NextElement([c EXCEPT !.real = IF k = 0 THEN Append(@, e) ELSE @],
                                  "finding", "waiting"))

\* What the PC/SC library knows of a name.
Known(e) ==
  IF e.from = "deleted" THEN {"unknown", "present"}
  ELSE {IF e.name.soft \/ e.name.hard \notin present THEN "unknown" ELSE "present"}

\* It returns with the states of all, or with an error and what it was given.
pSCardGetStatusChange(t) ==
  LET c == call[t]
      answers == {answer \in [DOMAIN c.real -> States] :
                    \A k \in DOMAIN c.real : answer[k] \in Known(c.real[k])}
  IN /\ c.pc = "waiting"
     /\ \E real \in {c.real} \union
                   {[k \in DOMAIN c.real |-> [c.real[k] EXCEPT !.state = answer[k]]]
                    : answer \in answers} :
          Continue(t, [c EXCEPT !.pc = "refinding", !.real = real])

\* The element gets this state, and the call returns after the last.
Update(t, state) ==
  LET c == call[t]
      updated == [c EXCEPT !.states[c.i] = state]
  IN IF c.i < Len(c.names)
     THEN Continue(t, NextElement(updated, "refinding", "returned"))
     ELSE /\ call' = [call EXCEPT ![t] = Idle]
          /\ result' = updated
          /\ UNCHANGED <<present, fileSize, readers, asked>>

\* Mutant: every element is looked up by its own name.
UpdateStatesByName(t) ==
  LET c == call[t]
  IN /\ c.pc = "updating"
     /\ \E k \in GetState(c.real, hardReaderName([c EXCEPT !.sr = "caller"])) :
          Update(t, IF k = 0 THEN c.states[c.i] ELSE c.real[k].state)

\* Mutant: the state is used that was not found.
UpdateStatesUnchecked(t) ==
  LET c == call[t]
  IN /\ c.pc = "updating"
     /\ \E k \in GetState(c.real, hardReaderName(c)) :
          Update(t, IF k = 0 THEN NULL ELSE c.real[k].state)

UpdateStates(t) ==
  LET c == call[t]
  IN /\ c.pc = "updating"
     /\ \E k \in GetState(c.real, hardReaderName(c)) :
          Update(t, IF k = 0 THEN c.states[c.i] ELSE c.real[k].state)

-----------------------------------------------------------------------------
Plug(r) ==
  /\ present' \in {present \union {r}, present \ {r}}
  /\ result' = Idle
  /\ UNCHANGED <<fileSize, readers, asked, call>>

Next ==
  \/ \E t \in Threads :
       \/ ListReadersLength(t) \/ ListReadersAllocated(t) \/ ListReadersBuffer(t)
       \/ \E order \in Visibilities : createSoftReaders(t, order)
       \/ \E a \in Arrays : GetStatusChange(t, a.names, a.states)
       \/ FindReader(t) \/ AddState(t) \/ pSCardGetStatusChange(t) \/ UpdateStates(t)
  \/ \E r \in Readers : Plug(r)

Spec == Init /\ [][Next]_vars

-----------------------------------------------------------------------------
StatusCall ==
  [pc : StatusCalls, names : Seq(Names), states : Seq(States), real : Seq(Entries),
   i : Nat, sr : {"caller", "reader", "deleted"}, moved : SUBSET Readers]

Call ==
  {Idle, Crashed}
    \union [pc : {"listing"}, names : SUBSET Readers, room : Nat \union {NULL}]
    \union StatusCall

TypeOK ==
  /\ present \subseteq Readers
  /\ fileSize \in BOOLEAN
  /\ readers \subseteq Readers
  /\ asked \in [names : SUBSET Readers, length : Nat]
  /\ call \in [Threads -> Call]
  /\ result \in {Idle} \union [pc : {"listing"}, names : Seq(Names), order : ListReaderOrder,
                                fits : BOOLEAN] \union StatusCall

\* A list is never longer than its buffer, in no order and for no lengths of names, when
\* the buffer was allocated for it or has the length that was asked for before, and no
\* other reader has been plugged in since (WinscardImpl.cpp:183-230).
ListFits == result.pc = "listing" => result.fits

\* A list has each name that may be seen once: no physical one before a virtual one for
\* REAL_LAST, and the reverse for REAL_FIRST, except for physical readers whose names
\* begin with a letter of the prefix (SoftReaderManager.cpp:158-183, 246-279).
ListOrdered ==
  result.pc = "listing" =>
    \A i, j \in DOMAIN result.names : i < j =>
      LET a == result.names[i]
          b == result.names[j]
      IN /\ a # b
         /\ result.order = "REAL_LAST" => a.soft \/ ~b.soft
         /\ result.order = "REAL_FIRST" => ~a.soft \/ b.soft \/ b.hard \in PrefixLetters
         /\ result.order = "HIDE_REAL" => a.soft /\ b.soft
         /\ result.order = "HIDE_VIRTUAL" => ~a.soft /\ ~b.soft
         /\ a.soft = b.soft /\ LooksSoft(a) = LooksSoft(b) => a.hard < b.hard

\* The places of a name in realReaderStates, and whether a freed name stands before them.
Places(real, name) == {k \in DOMAIN real : real[k].from # "deleted" /\ real[k].name = name}
Blurred(real, name) ==
  \E k \in DOMAIN real :
    real[k].from = "deleted" /\ \A j \in 1..(k - 1) : j \notin Places(real, name)

HardName(n) == IF getSoftReaderByName(n) THEN Hard(n.hard) ELSE n

Reported(c, i) ==
  LET n == c.names[i]
  IN \/ n.soft /\ n.hard \in c.moved
     \/ Blurred(c.real, HardName(n))
     \/ \E k \in Places(c.real, HardName(n)) : c.states[i] = c.real[k].state

\* Each element of a status call gets what the PC/SC library answered for its physical
\* reader, so that a virtual reader and its physical one agree, unless a list of another
\* thread has made or deleted its soft reader since the call began, or has deleted one
\* whose name the call still points to, at a place where the search for the physical
\* reader comes by (WinscardImpl.cpp:436-467).
StatusReported ==
  result.pc = "updating" => \A i \in DOMAIN result.names : Reported(result, i)
===============================================================================
