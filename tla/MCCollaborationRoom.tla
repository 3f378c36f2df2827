------------------------- MODULE MCCollaborationRoom -------------------------
(***************************************************************************)
(* Instances of CollaborationRoom for TLC.                                  *)
(***************************************************************************)
EXTENDS CollaborationRoomProperties, TLC

\* Edits are only compared, and the browsers are alike.
RoomSymmetry == Permutations(Edits) \cup Permutations(Clients)
=============================================================================
