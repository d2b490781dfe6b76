------------------------------- MODULE MCParcel -------------------------------
(***************************************************************************)
(* Parcel for model checking: clients are interchangeable.                 *)
(***************************************************************************)
EXTENDS Parcel, TLC

AnyOrder == Permutations(Conn)
=============================================================================
