---------------------------- MODULE Conversation ----------------------------
(***************************************************************************)
(* What the two ends of a chat promise their users, keys, envelopes and    *)
(* channel aside: an end shows only messages that were written to it, each *)
(* newer than what it has shown; messages may be lost.  An end that is     *)
(* restarted may go back to what it had shown earlier.                     *)
(***************************************************************************)
EXTENDS Naturals

CONSTANTS
  Parties,
  Numbers   \* of the messages of an end

VARIABLES
  written,  \* the messages that have left for an end
  shown,    \* those it has shown
  newest    \* the newest of them that it remembers

vars == <<written, shown, newest>>

Init ==
  /\ written = [p \in Parties |-> {}]
  /\ shown = [p \in Parties |-> {}]
  /\ newest = [p \in Parties |-> 0]

Write(p) ==
  /\ \E n \in Numbers : written' = [written EXCEPT ![p] = @ \cup {n}]
  /\ UNCHANGED <<shown, newest>>

Show(p) ==
  /\ \E n \in written[p] :
       /\ n > newest[p]
       /\ newest' = [newest EXCEPT ![p] = n]
       /\ shown' = [shown EXCEPT ![p] = @ \cup {n}]
  /\ UNCHANGED written

Restart(p) ==
  /\ \E n \in 0..newest[p] : newest' = [newest EXCEPT ![p] = n]
  /\ UNCHANGED <<written, shown>>

Next == \E p \in Parties : Write(p) \/ Show(p) \/ Restart(p)

Spec == Init /\ [][Next]_vars
=============================================================================
