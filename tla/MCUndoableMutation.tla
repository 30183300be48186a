------------------------ MODULE MCUndoableMutation ------------------------
(* Instances of UndoableMutation for TLC. *)
EXTENDS UndoableMutation

AllSites == {OrgDelete, TraineeDrop, LandingDelete, TermDelete, TestedCaller}
OnlyTerm == {TermDelete}
OnlyTrainee == {TraineeDrop}
BothModes == BOOLEAN
OnlyMock == {TRUE}
OnlyReal == {FALSE}
===========================================================================
