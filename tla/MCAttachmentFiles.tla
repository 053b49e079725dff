-------------------------- MODULE MCAttachmentFiles --------------------------
(* Instances of AttachmentFiles. *)
EXTENDS AttachmentFiles, TLC

CONSTANTS k1, s1, w1, w2

\* One upload of one session.
OneUpload == k1 :> s1
=============================================================================
