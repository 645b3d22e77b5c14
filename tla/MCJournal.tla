------------------------------ MODULE MCJournal ------------------------------
(* The transaction journal in two settings; a behaviour has one of them: no   *)
(* call fails, and the server or the machine may die at any point; or every   *)
(* call may fail, with fewer messages, crashes and rolls.                     *)
EXTENDS Journal

CONSTANTS FewMsgs, FewCrashes, FewRolls     \* bounds where calls may fail

MCNext ==
    Next /\ (faults # {} => nmsgs' <= FewMsgs /\ ncrashes' <= FewCrashes /\ nrolls' <= FewRolls)
MCSpec == Init /\ [][MCNext]_vars
=============================================================================
