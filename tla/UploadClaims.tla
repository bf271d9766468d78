----------------------------- MODULE UploadClaims -----------------------------
(***************************************************************************)
(* Statements of docs/photo-upload-workflow.md about the upload protocol   *)
(* that the code does not keep.  Each is checked by a run of its own, whose *)
(* counterexample shows how the code departs from it.                      *)
(***************************************************************************)
EXTENDS UploadProtocol

\* "Edit photo, server photo exists | Version bumps, re-upload succeeds, old
\* server record replaced" (line 645): a photo shown as uploaded has had its
\* current version processed.  A status fetched before the edit and written
\* after it completes the edited photo instead.
EditReachesServer ==
    \A c \in Clients, f \in Files :
        local[c][f].status = "completed" => best[f] >= local[c][f].version

\* "deleted: Soft delete flag (files removed, row kept)" (line 55): a row once
\* marked deleted stays marked.  authorize-upload looks the file up among the
\* deleted rows too and replaces the row by a live one.
DeletedRowKept ==
    [][\A i \in Ids : rows[i].deleted => rows'[i].deleted]_vars

\* "Each processed photo stores client_signature, client_public_key_id,
\* upload_authorized_at" as proof of who authorized it and when (lines 497-502):
\* the stored signature is one of the stored key over the stored timestamp.
\* The row may be authorized anew between the check of the signature and the
\* write.
AuditTrailVerifies ==
    \A i \in Ids : rows[i].status = "completed" =>
        rows[i].signed = [key |-> rows[i].key, at |-> rows[i].at]
=============================================================================
