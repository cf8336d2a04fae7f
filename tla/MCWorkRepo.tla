----------------------------- MODULE MCWorkRepo -----------------------------
(* Small instances of WorkRepo for TLC. *)
EXTENDS WorkRepo, TLC

CONSTANTS u1, u2, v1, h1, h2

MCUsers == {u1, u2}
MCOneUser == {u1}
MCOneHandler == {h1}
MCTwoHandlers == {h1, h2}

HandlerSymmetry == Permutations({h1, h2})

\* Requests on files, without reverts.
EditOps == {"GetWip", "UploadObject", "DeleteObject", "CommitWip"}
=============================================================================
