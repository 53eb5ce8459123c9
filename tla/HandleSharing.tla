---------------------------- MODULE HandleSharing -----------------------------
(***************************************************************************)
(* What SCardConnect() and SCardDisconnect() promise an application of the *)
(* proxy about card handles.  A successful connect yields a handle of the  *)
(* reader that was asked for, a new one or one that is in use already; a   *)
(* handle stays connected as long as anybody uses it, and is given back to *)
(* the PC/SC library by the last user.                                     *)
(***************************************************************************)
CONSTANTS
  Users,      \* the SCARDHANDLE variables of the application
  Readers,
  Handles,
  NoReader, NoHandle

VARIABLES
  handle,       \* the card handle each user has, or NoHandle
  szReader,     \* the reader it asked for
  connectedTo   \* the reader each handle is connected to, or NoReader

vars == <<handle, szReader, connectedTo>>

Init ==
  /\ handle = [u \in Users |-> NoHandle]
  /\ szReader = [u \in Users |-> NoReader]
  /\ connectedTo = [h \in Handles |-> NoReader]

Give(u, r, h) ==
  /\ handle[u] = NoHandle
  /\ handle' = [handle EXCEPT ![u] = h]
  /\ szReader' = [szReader EXCEPT ![u] = r]

Open(u, r, h) ==
  /\ connectedTo[h] = NoReader
  /\ Give(u, r, h)
  /\ connectedTo' = [connectedTo EXCEPT ![h] = r]

Share(u, r, h) ==
  /\ connectedTo[h] = r
  /\ Give(u, r, h)
  /\ UNCHANGED connectedTo

Close(u) ==
  LET h == handle[u]
  IN /\ h # NoHandle
     /\ handle' = [handle EXCEPT ![u] = NoHandle]
     /\ szReader' = [szReader EXCEPT ![u] = NoReader]
     /\ connectedTo' = IF \E v \in Users \ {u} : handle[v] = h
                       THEN connectedTo
                       ELSE [connectedTo EXCEPT ![h] = NoReader]

Next ==
  \E u \in Users :
    \/ \E r \in Readers, h \in Handles : Open(u, r, h) \/ Share(u, r, h)
    \/ Close(u)

Spec == Init /\ [][Next]_vars
==============================================================================
