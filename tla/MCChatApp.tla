------------------------------ MODULE MCChatApp ------------------------------
(* A small instance of ChatApp: the app starts with one old session, or none. *)
EXTENDS ChatApp

CONSTANTS s1, s2

TwoIds == {s1, s2}
NewOrOld == {[id \in Ids |-> << >>],
             [id \in Ids |-> IF id = s1 THEN <<1, 2>> ELSE << >>]}
=============================================================================
