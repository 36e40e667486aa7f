------------------------ MODULE RelationEffectsProps ------------------------
(***************************************************************************)
(* What the effects of a plan promise (core/relations.ts,                  *)
(* core/apply/commitEnvelope.ts).  What a draft whose replacement is not   *)
(* one row for one row, or a message the plan itself seats, leads to is    *)
(* excepted, each by a history variable: README, section 7.                *)
(***************************************************************************)
EXTENDS RelationEffects

(* Between two rows of a chat that the server sends, its count follows the *)
(* messages it really has: arrivals, failures, cascades, rollbacks and     *)
(* replacements of drafts move both or neither, in whatever order they     *)
(* come.  The chats of unpaired drafts are excepted; what a plan does that *)
(* speaks of one message three times is part of the drift.                 *)
CountFollowsRows ==
    \A c \in Chats :
        rows[c] # Absent /\ (\A d \in unpaired : ChatOf[d] # c) => Excess(rows, c) = drift[c]

(* A commit that takes a chat or an author away leaves no message of it    *)
(* behind, not even one that came in the same commit, but one the commit   *)
(* itself had destroyed and brought again (relations.ts:347-349).          *)
NoOrphans ==
    [][\A id \in Chats \cup Authors :
          rows[id] # Absent /\ rows'[id] = Absent =>
              \A m \in Messages \ revived' :
                  rows'[m] # Absent => id \notin {ChatOf[m], AuthorOf[m]}]_vars

(* No chat goes on showing a draft that the row of an answer or of an      *)
(* event has replaced, unless it was unpaired.                             *)
SwapIsFollowed ==
    \A c \in Chats, d \in swapped \ unpaired : rows[c] # Absent => rows[c].last # d

(* The count of a chat that comes, changed, with an event stands, whatever *)
(* comes and goes beside it in the same plan, cascades left aside.         *)
ToldIsKept == overruled = {}

(* A message is a member of the box its row names and of no other, and of  *)
(* none when it is gone: through moves, replacements with the places of    *)
(* the draft, cascades, landings and rollbacks.  The messages astray are   *)
(* excepted.                                                               *)
SeatsFollowRows ==
    \A m \in Messages \ astray : {b \in Boxes : m \in seats[b]} = {rows[m]} \ {Absent}

=============================================================================
