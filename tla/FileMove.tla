------------------------------ MODULE FileMove ------------------------------
(***************************************************************************)
(* What a file transfer promises: the destination appears in one step and  *)
(* whole, with a content the sender has read, and only then is the         *)
(* transfer reported as completed and, in move mode, the source removed.   *)
(* The one exception: a chunk that arrives after its place in the file was *)
(* hashed spoils the transfer, and what is installed then may be a mixture *)
(* no one has read.                                                        *)
(***************************************************************************)
CONSTANTS
    Contents,   \* what the sender may read
    NoFile

VARIABLES
    src,        \* the source exists
    offered,    \* the contents the sender has read to the end
    spoiled,    \* what the receiver had hashed was written over
    dst,        \* the destination
    reported    \* the transfer is recorded as completed

moveVars == <<src, offered, spoiled, dst, reported>>

MoveInit ==
    /\ src = TRUE
    /\ offered = {}
    /\ spoiled = FALSE
    /\ dst = NoFile
    /\ reported = FALSE

Offer ==
    /\ \E c \in Contents : offered' = offered \cup {c}
    /\ UNCHANGED <<src, spoiled, dst, reported>>

Spoil ==
    /\ spoiled' = TRUE
    /\ UNCHANGED <<src, offered, dst, reported>>

Install ==
    /\ dst' \in IF spoiled THEN Contents ELSE offered
    /\ UNCHANGED <<src, offered, spoiled, reported>>

\* The record may later be replaced, by a cancellation that comes too late.
Report ==
    /\ dst \in IF spoiled THEN Contents ELSE offered
    /\ reported' \in BOOLEAN
    /\ src' \in {src, FALSE}
    /\ UNCHANGED <<offered, spoiled, dst>>

MoveNext == Offer \/ Spoil \/ Install \/ Report

MoveSpec == MoveInit /\ [][MoveNext]_moveVars
=============================================================================
