------------------------------- MODULE Options -------------------------------
(* The absent value (None in the source) that several modules share.       *)
CONSTANT None
=============================================================================
