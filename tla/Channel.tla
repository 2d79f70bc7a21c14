------------------------------- MODULE Channel -------------------------------
(***************************************************************************)
(* What the session with the IRC server promises to the code above it: the *)
(* commands that were accepted reach the server, and the server's lines    *)
(* reach their handlers, each once, whole and in order.                    *)
(*                                                                         *)
(* A stream is a sequence of units; a unit is its own position in the      *)
(* stream, so a stream is intact when its n-th unit is n.                  *)
(***************************************************************************)
EXTENDS Naturals, Sequences

CONSTANTS
  CmdLen,      \* units of a command, CR and LF included
  LineLen      \* units of a line from the server, CR and LF included

VARIABLES
  accepted,    \* units of the commands accepted from the client
  toServer,    \* the units the server has read
  produced,    \* units of the lines the server has sent
  handled      \* the units of the lines that were handled

streams == <<accepted, toServer, produced, handled>>

Following(stream, n) == [i \in 1 .. n |-> Len(stream) + i]

Init ==
  /\ accepted = 0 /\ toServer = <<>>
  /\ produced = 0 /\ handled = <<>>

Accept ==
  /\ accepted' = accepted + CmdLen
  /\ UNCHANGED <<toServer, produced, handled>>

Deliver ==
  /\ \E n \in 1 .. accepted - Len(toServer) :
       toServer' = toServer \o Following(toServer, n)
  /\ UNCHANGED <<accepted, produced, handled>>

Produce ==
  /\ produced' = produced + LineLen
  /\ UNCHANGED <<accepted, toServer, handled>>

Handle ==
  /\ Len(handled) + LineLen <= produced
  /\ handled' = handled \o Following(handled, LineLen)
  /\ UNCHANGED <<accepted, toServer, produced>>

Next == Accept \/ Deliver \/ Produce \/ Handle

Spec == Init /\ [][Next]_streams
===============================================================================
