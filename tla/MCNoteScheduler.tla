-------------------------- MODULE MCNoteScheduler --------------------------
(* TLC instance of NoteScheduler.                                           *)
EXTENDS NoteScheduler

CONSTANTS Core1  \* the USB host task on core 1
=============================================================================
