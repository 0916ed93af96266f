----------------------------- MODULE VideoPages -----------------------------
(***************************************************************************)
(* What people see of VideoLifecycle: the upload page (frontend/src/routes/ *)
(* +page.svelte), which is the client of the API - it initiates, uploads,   *)
(* completes and then polls until it has a link to show - and the player    *)
(* page behind that link (routes/v/[shareToken]).                           *)
(*                                                                          *)
(* The read use cases change nothing: the player page is what it would find  *)
(* if it were opened now.  The upload pages are VideoLifecycle's callers, and  *)
(* here its only clients: every step but the pages' own is one of             *)
(* VideoLifecycle, and no step is more than one.                              *)
(***************************************************************************)
EXTENDS VideoLifecycle

VARIABLE page  \* of each caller: where its upload page is

pageVars == <<vars, page>>

PageAt == {"idle", "uploading", "completing", "processing", "done", "error"}
Links  == Videos \X Procs
Pages  == [at : PageAt, video : Videos \cup {NoVideo}, link : Links \cup {NoToken}]

NewPage == [at |-> "idle", video |-> NoVideo, link |-> NoToken]

PagesInit == Init /\ page = [c \in Callers |-> NewPage]

\* Environment: no link is the absence of one.
ASSUME PagesAssumption == NoToken \notin Links

PageGoes(c, l) == page' = [page EXCEPT ![c].at = l]

----------------------------------------------------------------------------
(* The reads                                                               *)

\* Video::share_url is made of the token, whatever the status.  Tokens are
\* random: those of two videos differ even if one run made both.
ShareUrl(v) == IF token[v] = NoToken THEN NoToken ELSE <<v, token[v]>>

\* get_video_status
StatusReply(v) ==
  IF HasRow(v) THEN [ok |-> TRUE, status |-> status[v], share_url |-> ShareUrl(v)]
               ELSE [ok |-> FALSE]

\* find_by_share_token
FindByShareToken(link) == {v \in Videos : HasRow(v) /\ ShareUrl(v) = link}

\* get_video_by_token, with what loadAndPlay makes of the answer.  An answer
\* without a stream has no status either, so the page neither plays nor polls.
PlayerPage(link) ==
  CASE FindByShareToken(link) = {}                      -> "error"
    [] \E v \in FindByShareToken(link) : Streamable(v)  -> "playing"
    [] OTHER                                            -> "blank"

----------------------------------------------------------------------------
(* handleUpload                                                            *)

\* The button is pressed.  Pressed again, after an error or to "upload another",
\* it starts a new video: that is another page.
PageInitiates(c) ==
  /\ page[c].at = "idle"
  /\ \E v \in Videos :
       /\ Initiate(v)
       /\ page' = [page EXCEPT ![c] = [NewPage EXCEPT !.at = "uploading", !.video = v]]

PageUploads(c) ==
  /\ page[c].at = "uploading"
  /\ ClientUpload(page[c].video)
  /\ PageGoes(c, "completing")

\* complete_upload begins for this page's video, or refuses at once.
PageCompletes(c) ==
  /\ page[c].at = "completing"
  /\ api[c] = IdleCall
  /\ \/ CompleteFind(c, page[c].video) /\ UNCHANGED page
     \/ /\ status[page[c].video] # PendingUpload
        /\ PageGoes(c, "error")
        /\ UNCHANGED vars

\* The request goes on whether the page still waits for it or not.  Its answer
\* is Ok if it was this request that took the video to UPLOADED.
CompleteReplies(c) ==
  LET v == api[c].video IN
  /\ api[c] # IdleCall
  /\ CallStep(c)
  /\ IF api'[c] = IdleCall /\ page[c].at = "completing"
       THEN PageGoes(c, IF status[v] = PendingUpload /\ status'[v] = Uploaded
                          THEN "processing" ELSE "error")
       ELSE UNCHANGED page

PageShows(c, reply) ==
  page' = [page EXCEPT ![c].at = "done", ![c].link = reply.share_url]

\* pollForShareUrl: a round that is not followed by another one.  That it also
\* gives up after ten minutes, or when a request fails, is left out: the page of
\* this model waits for an answer as long as it takes.
PagePolls(c) ==
  LET reply == StatusReply(page[c].video) IN
  /\ page[c].at = "processing"
  /\ \/ reply.ok /\ reply.share_url # NoToken
        /\ PageShows(c, reply)
     \/ reply.ok /\ reply.share_url = NoToken /\ reply.status = Failed
        /\ PageGoes(c, "error")
     \/ ~reply.ok /\ PageGoes(c, "error")
  /\ UNCHANGED vars

PageStep(c) ==
  \/ PageInitiates(c)
  \/ PageUploads(c)
  \/ PageCompletes(c)
  \/ CompleteReplies(c)
  \/ PagePolls(c)

----------------------------------------------------------------------------

\* The worker, and time.
Behind ==
  \/ \E v \in Videos : Age(v) \/ ProcessReset(v) \/ ProcessRevive(v)
  \/ \E p \in Procs : ProcessStep(p)
  \/ \E d \in Deleters : DeleteStep(d) \/ DeleteLost(d)
                           \/ \E i \in DeleteTasks : DeleteStart(d, i)
  \/ \E i \in DeleteTasks : DeleteReset(i) \/ DeleteRevive(i)
  \/ SweepStep
  \/ SweepLost

PagesNext ==
  \/ \E c \in Callers : PageStep(c)
  \/ Behind /\ UNCHANGED page

\* A page that is left open polls on.
PagesSpec == /\ PagesInit
             /\ [][PagesNext]_pageVars
             /\ Fairness
             /\ \A c \in Callers : WF_pageVars(PagePolls(c))

----------------------------------------------------------------------------
(* Properties                                                              *)

PagesOK ==
  /\ page \in [Callers -> Pages]
  /\ \A c \in Callers :
       /\ page[c].at # "idle" => page[c].video \in Videos
       /\ page[c].at = "done" <=> page[c].link # NoToken

\* A link that a page shows plays: until the video has failed or is deleted,
\* whoever opens it finds the video and a player and, as long as nobody deletes
\* it, in storage what the player asks for first.
ShownLinksPlay ==
  \A c \in Callers :
    LET v == page[c].video IN
    page[c].at = "done" /\ status[v] \notin {Failed, Deleted} =>
      /\ FindByShareToken(page[c].link) = {v}
      /\ PlayerPage(page[c].link) = "playing"
      /\ ~purged[v] => Playable(v)

\* A page that polls comes to an end, with a link or with an error, without its
\* ten minutes ever being needed for it: whatever crashed or failed, its video
\* gets a link, fails or is gone.
PollingEnds ==
  \A c \in Callers : page[c].at = "processing" ~> page[c].at # "processing"

----------------------------------------------------------------------------
(* What makes ShownLinksPlay inductive (proved in VideoPages_proofs)        *)

\* The link of a page that shows one is its video's as long as there is a row.
LinksHeld ==
  \A c \in Callers :
    LET v == page[c].video IN
    page[c].at = "done" /\ status[v] # Deleted =>
      token[v] # NoToken /\ page[c].link = <<v, token[v]>>
=============================================================================
