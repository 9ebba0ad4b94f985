----------------------------- MODULE WeeklyBook -----------------------------
(***************************************************************************)
(* What the recording loop promises of the table of retrospectives: while  *)
(* a week is played its page is open, and its prediction may be written    *)
(* again, at the latest by who began before the week was over; in the week *)
(* that follows the page is closed, with the prediction it had; the season *)
(* never moves on from an open page; nothing is ever written on a closed   *)
(* one.                                                                    *)
(***************************************************************************)
EXTENDS Naturals

CONSTANTS Weeks, Predictions, Blank

VARIABLES current, book

Open(prediction)   == [state |-> "open", prediction |-> prediction]
Closed(prediction) == [state |-> "closed", prediction |-> prediction]

Init ==
  /\ current = 1
  /\ book = [w \in Weeks |-> Blank]

Write(week) ==
  /\ week \in {current - 1, current}
  /\ book[week] = Blank \/ \E p \in Predictions : book[week] = Open(p)
  /\ \E p \in Predictions : book' = [book EXCEPT ![week] = Open(p)]
  /\ UNCHANGED current

Close(week) ==
  /\ week = current - 1
  /\ \E p \in Predictions :
       /\ book[week] = Open(p)
       /\ book' = [book EXCEPT ![week] = Closed(p)]
  /\ UNCHANGED current

MoveOn ==
  /\ current + 1 \in Weeks
  /\ current - 1 \in Weeks => \A p \in Predictions : book[current - 1] # Open(p)
  /\ current' = current + 1
  /\ UNCHANGED book

Next == MoveOn \/ \E week \in Weeks : Write(week) \/ Close(week)

Spec == Init /\ [][Next]_<<current, book>>
=============================================================================
