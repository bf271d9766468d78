--------------------------- MODULE MCUploadProtocol ---------------------------
(* Small instances of UploadProtocol for TLC.                              *)
EXTENDS UploadClaims, UploadInvariant, TLC

\* Ids, and the clients that behave alike, may be permuted in safety runs.
Symmetry == Permutations(Ids) \cup Permutations(Files)
DeviceSymmetry == Symmetry \cup Permutations(Clients)
=============================================================================
