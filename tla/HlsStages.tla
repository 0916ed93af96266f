----------------------------- MODULE HlsStages -----------------------------
(***************************************************************************)
(* How far the uploader of one transcode has come with what a player asks  *)
(* for first - the first low segment, the low variant playlist, the master *)
(* playlist - and where the publisher is that waits for it.                *)
(*                                                                         *)
(* A record r with the fields up and pub.  VideoLifecycle keeps one in     *)
(* each run of ProcessVideo; HlsStream is one on its own.                  *)
(***************************************************************************)

UploaderAt  == {"segment", "playlist", "master", "more"}
PublisherAt == {"waiting", "notified"}

\* Both tasks are spawned; without a low tier nothing is ever published early.
StreamBegins(r, lowInLadder) ==
  [r EXCEPT !.up = IF lowInLadder THEN "segment" ELSE "more", !.pub = "waiting"]

\* Mutant: the notifier fires before the master playlist is in storage.
AfterUpload_NotifiesEarly(r) ==
  CASE r.up = "segment"  -> [r EXCEPT !.up = "playlist"]
    [] r.up = "playlist" -> [r EXCEPT !.up = "master", !.pub = "notified"]
    [] OTHER             -> [r EXCEPT !.up = "more"]

\* upload_one_segment on the first low segment: the segment, the low variant
\* playlist, the master; then the notifier fires with no await in between.
AfterUpload(r) ==
  CASE r.up = "segment"  -> [r EXCEPT !.up = "playlist"]
    [] r.up = "playlist" -> [r EXCEPT !.up = "master"]
    [] r.up = "master"   -> [r EXCEPT !.up = "more",
                                      !.pub = IF @ = "waiting" THEN "notified" ELSE @]
    [] r.up = "more"     -> r

\* The uploader is over, and with it the notifier it may still hold.
UploaderOver(r) == [r EXCEPT !.up = "ended", !.pub = IF @ = "waiting" THEN "ended" ELSE @]
=============================================================================
