-------------------------- MODULE SnapshotChannel --------------------------
(***************************************************************************)
(* What the directory of dumps promises a controller: it is shown whole    *)
(* snapshots of the current run of kprobe, each as it was published, never *)
(* an older one after a newer one.  It may be shown one again, and may     *)
(* miss some.  After a restart over old files it is behind, and shown      *)
(* anything, until the new run has caught up with them.                    *)
(***************************************************************************)
EXTENDS Integers, Sequences

CONSTANT Lines

VARIABLES
  published,  \* the snapshots of this run so far, snapshot 0 first
  behind,     \* older files hide them
  seen,       \* the number of the one last shown, or -1
  got         \* what was last shown

vars == <<published, behind, seen, got>>

Init == published = <<>> /\ behind = FALSE /\ seen = -1 /\ got = <<>>

Publish ==
  /\ published' \in Seq(Seq(Lines))
  /\ Len(published') = Len(published) + 1
  /\ SubSeq(published', 1, Len(published)) = published
  /\ UNCHANGED <<behind, seen, got>>

Show ==
  /\ ~behind
  /\ \E n \in 0 .. Len(published) - 1 :
       n >= seen /\ seen' = n /\ got' = published[n + 1]
  /\ UNCHANGED <<published, behind>>

Restart ==
  /\ published' = <<>> /\ seen' = -1
  /\ behind' \in BOOLEAN
  /\ UNCHANGED got

ShowOld ==
  /\ behind /\ behind' \in BOOLEAN
  /\ got' \in Seq(Lines)
  /\ UNCHANGED <<published, seen>>

CatchUp ==
  /\ behind /\ behind' = FALSE
  /\ UNCHANGED <<published, seen, got>>

Next == Publish \/ Show \/ Restart \/ ShowOld \/ CatchUp

Spec == Init /\ [][Next]_vars
=============================================================================
