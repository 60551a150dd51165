------------------------------- MODULE MCInbox -------------------------------
(* Small instances of Inbox for TLC. *)
EXTENDS Inbox, TLC

CONSTANT viewer

\* Three notifications of the viewer, one of a category that was withdrawn.
MCOwnerOf    == [r \in Ids |-> viewer]
MCCategoryOf == [r \in Ids |-> IF r = 3 THEN "withdrawn" ELSE "follow"]
=============================================================================
