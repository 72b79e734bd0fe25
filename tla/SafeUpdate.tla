------------------------------ MODULE SafeUpdate ----------------------------
(***************************************************************************)
(* What an update of production promises, whatever dies or fails on the    *)
(* way: the disk changes only while an update is open, and an update ends  *)
(* as updated (the disk is exactly the goal), as restored (the disk is     *)
(* exactly what it was), as accepted (a dead update whose code passed the  *)
(* post-tests) or with an alarm for a person.  Deploy implements it.       *)
(***************************************************************************)
CONSTANT Disks

VARIABLES
  disk,    \* checkout and virtualenv of production
  home,    \* the disk when the update began
  goal,    \* the disk the update is to reach
  status   \* how the update stands

vars == <<disk, home, goal, status>>

Ends == {"updated", "restored", "accepted", "alarm"}

Init ==
  /\ disk \in Disks /\ home = disk /\ goal = disk
  /\ status = "restored"

Start ==
  /\ status \in Ends /\ status' = "updating"
  /\ home' = disk /\ goal' \in Disks
  /\ UNCHANGED disk

Work ==
  /\ status = "updating"
  /\ disk' \in Disks
  /\ UNCHANGED <<home, goal, status>>

End ==
  /\ status = "updating" /\ status' \in Ends
  /\ status' = "updated" => disk = goal
  /\ status' = "restored" => disk = home
  /\ status' = "accepted" => disk.head = goal.head
  /\ UNCHANGED <<disk, home, goal>>

Next == Start \/ Work \/ End

Spec == Init /\ [][Next]_vars
=============================================================================
