----------------------------- MODULE HlsStream -----------------------------
(***************************************************************************)
(* What one transcode shows to the run of ProcessVideo that started it:    *)
(* the objects a player asks for first appear in the order a player asks   *)
(* for them, the publisher is notified when the last of them is stored, a  *)
(* transcode that succeeds has stored them all, and nothing is stored once *)
(* it has ended.                                                           *)
(*                                                                         *)
(* HlsUploader implements this; VideoLifecycle is built on the same steps. *)
(***************************************************************************)
EXTENDS HlsStages

CONSTANT LowInLadder

VARIABLES
  stream,  \* [up, pub], see HlsStages
  stored,  \* those of the three objects that are in the bucket
  result   \* none, ok, failed

First == {"segment", "playlist", "master"}

Init ==
  /\ stream = StreamBegins([up |-> "none", pub |-> "none"], LowInLadder)
  /\ stored = {}
  /\ result = "none"

\* The uploader puts the next of them.
Upload ==
  /\ stream.up \in First
  /\ stream' = AfterUpload(stream)
  /\ stored' = stored \cup {stream.up}
  /\ UNCHANGED result

\* transcode_to_hls returns, or the uploader it left behind is over.
End ==
  /\ stream.up \in UploaderAt
  /\ stream' = UploaderOver(stream)
  /\ \/ stream.up = "more" /\ result' = "ok"
     \/ result' \in {"failed", "none"}
  /\ UNCHANGED stored

Next == Upload \/ End

Spec == Init /\ [][Next]_<<stream, stored, result>>
=============================================================================
