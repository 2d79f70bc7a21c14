------------------------------- MODULE Transfer -------------------------------
(***************************************************************************)
(* What a user of xdccget relies on, whatever happens to sessions, sockets *)
(* and runs of the program in between: a file in the target directory      *)
(* comes into being empty and only ever grows, by the next blocks of the   *)
(* bot's file, until it is whole, and a download is counted as finished by *)
(* the very step that writes the last of them.                             *)
(***************************************************************************)
EXTENDS Integers

CONSTANTS
  Files,    \* names of the files the bots offer
  FileLen   \* the true length of each, in blocks

VARIABLES
  held,     \* blocks of the bot's file that the directory holds, or Absent
  done      \* files whose download this run of the program has counted

vars == <<held, done>>

Absent == -1

Init ==
  /\ held \in [Files -> Nat \cup {Absent}]
  /\ \A f \in Files : held[f] <= FileLen[f]
  /\ done = {}

Create(f) ==
  /\ held[f] = Absent
  /\ held' = [held EXCEPT ![f] = 0]
  /\ UNCHANGED done

\* The next n blocks, of a download that is not counted by them.
Receive(f, n) ==
  /\ held[f] >= 0 /\ held[f] + n <= FileLen[f]
  /\ held' = [held EXCEPT ![f] = @ + n]
  /\ UNCHANGED done

\* The last n blocks.
Finish(f, n) ==
  /\ held[f] >= 0 /\ held[f] + n = FileLen[f]
  /\ held' = [held EXCEPT ![f] = @ + n]
  /\ done' = done \cup {f}

\* The program is run again and finds its files as they were.
Restart ==
  /\ done' = {}
  /\ UNCHANGED held

Next ==
  \/ Restart
  \/ \E f \in Files :
       Create(f) \/ \E n \in 1 .. FileLen[f] : Receive(f, n) \/ Finish(f, n)

Spec == Init /\ [][Next]_vars
===============================================================================
