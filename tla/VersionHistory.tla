--------------------------- MODULE VersionHistory ---------------------------
(***************************************************************************)
(* What a document promises its user, with no table and no buffer: a line  *)
(* of versions with a cursor on it.  An edit drops the versions after the  *)
(* cursor and adds one; undo and redo move the cursor and bring back       *)
(* exactly the version there; merging drops the version before the cursor. *)
(* Once an operation has been torn half-way nothing is promised any more.  *)
(***************************************************************************)
EXTENDS Integers, Sequences

VARIABLES versions, cur, content, torn
vars == <<versions, cur, content, torn>>

Init ==
  /\ versions = <<content>>
  /\ cur = 1
  /\ torn = FALSE

Edit ==
  /\ versions' = Append(SubSeq(versions, 1, cur), content')
  /\ cur' = cur + 1

Move(to) ==
  /\ to \in 1 .. Len(versions)
  /\ cur' = to
  /\ content' = versions[to]
  /\ UNCHANGED versions

Undo == Move(cur - 1)
Redo == Move(cur + 1)

Merge ==
  /\ cur > 2
  /\ cur = Len(versions)
  /\ versions' = Append(SubSeq(versions, 1, cur - 2), content)
  /\ cur' = cur - 1
  /\ UNCHANGED content

Next ==
  \/ /\ ~ torn /\ ~ torn'
     /\ Edit \/ Undo \/ Redo \/ Merge
  \/ torn'

Spec == Init /\ [][Next]_vars
=============================================================================
