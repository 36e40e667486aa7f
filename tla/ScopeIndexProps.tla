-------------------------- MODULE ScopeIndexProps --------------------------
(***************************************************************************)
(* What the order keys of a scope promise (module ScopeIndex).             *)
(*                                                                         *)
(* The properties except what follows a collision: a destroyed row is      *)
(* restored at the key it had (modelWrites.ts:71), and a row that joined   *)
(* or was renumbered meanwhile may have that key.                          *)
(***************************************************************************)
EXTENDS ScopeIndex

(* The next start reads the index of this one: no sequence of answers,     *)
(* events, optimistic writes and their endings makes a value that hydrate  *)
(* drops with every membership of the scope, and no landing is refused.    *)
IndexIsReadable ==
    collided \/ (IsScopeIndexValue(entries) /\ ~refused)

(* The keys say what the server and the order of arrival say: the rows     *)
(* whose place they decide are members and stand in their order, whatever  *)
(* drafts are held among them and whichever rows came and went.            *)
OrderIsKept ==
    collided \/ Those(IdsOf(entries), ToSet(expected)) = expected

(* No answer of the server, no retention and no restart takes the draft of *)
(* an open insert out of the scope.                                        *)
DraftsStay ==
    collided \/ Open \cap Drafts \subseteq Members

(* The keys of the scope have no more digits than a sequence is sized to,  *)
(* so that a double holds their values: what the code assumes of the       *)
(* bounds it computes with and never checks.                               *)
KeysAreShort ==
    collided \/ \A e \in ToSet(entries) : Len(e.orderKey) <= MaxSequenceLength

============================================================================
