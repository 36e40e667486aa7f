-------------------------- MODULE MCRelationEffects --------------------------
(* One chat, one author, two boxes, a draft and the row the server makes   *)
(* of it, and a second message.  The server's clock runs behind: the row   *)
(* of the draft is older than the draft.                                   *)
EXTENDS RelationEffectsProps

CONSTANTS chat, author, landed, other, draft, inbox, archive

RowOfDraft  == [d \in {draft} |-> landed]
BoxOfDraft  == [d \in {draft} |-> inbox]
OneChat     == [m \in {landed, other, draft} |-> chat]
OneAuthor   == [m \in {landed, other, draft} |-> author]
Times       == [m \in {landed, other, draft} |-> IF m = landed THEN 1 ELSE IF m = draft THEN 2 ELSE 3]
ServerChats == [c \in {chat} |-> {[count |-> 0, last |-> Absent], [count |-> 3, last |-> other]}]
=============================================================================
