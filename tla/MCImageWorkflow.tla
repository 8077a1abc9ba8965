-------------------------- MODULE MCImageWorkflow --------------------------
(* Instances of ImageWorkflow for TLC. *)
EXTENDS ImageWorkflow, MCImageAPI

\* What the editor, the importer and the publisher send.
WorkflowRequests ==
    Creates \cup Puts({"uploaded"}) \cup NewDownloads
      \cup DownloadPuts({"imported", "completed", "failed"}) \cup PublishImageRequest
=============================================================================
