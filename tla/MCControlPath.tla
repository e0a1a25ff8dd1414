--------------------------- MODULE MCControlPath ---------------------------
(***************************************************************************)
(* The instance of ControlPath for TLC, with the bytes of MCLinActuator    *)
(* from a real actuator, and that of LinFrame, the coding of the frames a  *)
(* command ends in.  The two share no variable, so nothing is gained by    *)
(* interleaving them: focus is the one that takes steps.                   *)
(*                                                                         *)
(* The identifiers are all 64 but 0x3D, which the firmware never sends and *)
(* whose checksum lin_checksum_enhanced does not handle (its protected     *)
(* form is 0x7D, which the test for 0x3D cannot see).  The payload bytes   *)
(* are the ends of the range, the open command, and 206, which with 255    *)
(* and the identifier 0x32 makes the sum 511 that is folded twice.         *)
(***************************************************************************)
EXTENDS ControlPath, LinFrame

VARIABLE focus

MCSignatureBytes == {StatusSignature, 255}
MCFlagsBytes     == {0, 2, 3, 4, 5, 6}
MCRawIds         == 0..63 \ {61}
MCBytes          == {0, 206, 240, 255}

MCInit ==
    /\ focus \in {"path", "frame"}
    /\ PathInit
    /\ FrameInit
    /\ focus = "path" => raw_id = 0 /\ len = 0

MCNext ==
    \/ focus = "path" /\ PathNext /\ UNCHANGED <<frameVars, focus>>
    \/ focus = "frame" /\ FrameNext /\ UNCHANGED <<pathVars, focus>>

MCSpec == MCInit /\ [][MCNext]_<<pathVars, frameVars, focus>>

\* The fairness of server_task alone, and with that of the actuator.
MCTaskSpec == MCSpec /\ WF_pathVars(focus = "path" /\ CallStep)
MCFairSpec == MCTaskSpec /\ SF_pathVars(focus = "path" /\ LearnedReported)
=============================================================================
