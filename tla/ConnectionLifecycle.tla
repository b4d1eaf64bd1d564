------------------------- MODULE ConnectionLifecycle -------------------------
(***************************************************************************)
(* What the library promises to its client about a connection.  A          *)
(* connection address is free, is waiting for a client to connect, is      *)
(* open, or is being torn down.  on_connect opens it and gives the client  *)
(* the turn; a call gives the turn up; the next callback gives it back.    *)
(* on_disconnect comes last, once, and never while the client has the      *)
(* turn; only then can the address serve another connection.               *)
(***************************************************************************)
CONSTANT Connections

VARIABLES phase, turn

lifeVars == <<phase, turn>>

Init ==
  /\ phase = [c \in Connections |-> "free"]
  /\ turn = [c \in Connections |-> FALSE]

Move(c, from, to) ==
  /\ phase[c] = from
  /\ phase' = [phase EXCEPT ![c] = to]

PostAccept(c) ==
  /\ Move(c, "free", "accepting")
  /\ UNCHANGED turn

OnConnect(c) ==
  /\ Move(c, "accepting", "open")
  /\ turn' = [turn EXCEPT ![c] = TRUE]

OnIo(c) ==
  /\ phase[c] = "open"
  /\ ~ turn[c]
  /\ turn' = [turn EXCEPT ![c] = TRUE]
  /\ UNCHANGED phase

Call(c) ==
  /\ phase[c] = "open"
  /\ turn[c]
  /\ turn' = [turn EXCEPT ![c] = FALSE]
  /\ UNCHANGED phase

OnDisconnect(c) ==
  /\ ~ turn[c]
  /\ Move(c, "open", "closing")
  /\ UNCHANGED turn

Release(c) ==
  /\ Move(c, "closing", "free")
  /\ UNCHANGED turn

Next ==
  \E c \in Connections :
    \/ PostAccept(c) \/ OnConnect(c) \/ OnIo(c)
    \/ Call(c) \/ OnDisconnect(c) \/ Release(c)

Spec == Init /\ [][Next]_lifeVars
==============================================================================
