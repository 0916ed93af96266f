------------------------- MODULE VideoPages_proofs -------------------------
(***************************************************************************)
(* Theorems about VideoPages, from the lemmas about VideoLifecycle: a step  *)
(* of a page is a step of VideoLifecycle, or none.                          *)
(***************************************************************************)
EXTENDS VideoPages, VideoRefinement_proofs

\* The pages do nothing that VideoLifecycle's clients and callers do not do.
LEMMA PagesAreClients ==
  ASSUME PagesOK, [PagesNext]_pageVars
  PROVE  [Next]_vars
<1> SUFFICES ASSUME PagesNext, ~UNCHANGED vars PROVE Next
  BY DEF pageVars
<1>1. CASE Behind
  BY <1>1 DEF Behind, Next
<1>2. ASSUME NEW c \in Callers, PageStep(c) PROVE Next
  <2>1. CASE PageInitiates(c)
    BY <2>1 DEF PageInitiates, Next
  <2>2. CASE PageUploads(c)
    <3>1. ClientUpload(page[c].video) /\ page[c].video \in Videos
      BY <2>2 DEF PageUploads, PagesOK
    <3>2. QED
      BY <3>1 DEF Next
  <2>3. CASE PageCompletes(c)
    <3>1. CompleteFind(c, page[c].video) /\ page[c].video \in Videos
      BY <2>3 DEF PageCompletes, PagesOK
    <3>2. QED
      BY <1>2, <3>1 DEF Next, CallStep
  <2>4. CASE CompleteReplies(c)
    BY <1>2, <2>4 DEF CompleteReplies, Next
  <2>5. CASE PagePolls(c)
    BY <2>5 DEF PagePolls
  <2>6. QED
    BY <1>2, <2>1, <2>2, <2>3, <2>4, <2>5 DEF PageStep
<1>3. QED
  BY <1>1, <1>2 DEF PagesNext

\* Where a page that moves on is.
LEMMA PageMoved ==
  ASSUME PagesOK, NEW c \in Callers, NEW l \in PageAt \ {"idle", "done"},
         page[c].at \notin {"idle", "done"}, PageGoes(c, l)
  PROVE  PagesOK' /\ \A b \in Callers : page'[b].at = "done" => page'[b] = page[b]
<1>1. page[c] \in Pages /\ page[c].video \in Videos /\ page[c].link = NoToken
  BY DEF PagesOK, Pages
<1>2. page' = [page EXCEPT ![c] = [page[c] EXCEPT !.at = l]]
  BY DEF PageGoes
<1>3. /\ [page[c] EXCEPT !.at = l] \in Pages
      /\ [page[c] EXCEPT !.at = l].at = l
      /\ [page[c] EXCEPT !.at = l].video = page[c].video
      /\ [page[c] EXCEPT !.at = l].link = page[c].link
  BY <1>1 DEF Pages
<1>4. QED
  BY <1>1, <1>2, <1>3 DEF PagesOK

\* A page shows the share_url of its video, and only that.
LEMMA PageKept ==
  ASSUME TypeOK, PagesOK, [PagesNext]_pageVars
  PROVE  /\ PagesOK'
         /\ \A c \in Callers :
              page'[c].at = "done" =>
                \/ page'[c] = page[c]
                \/ /\ page'[c].video \in Videos /\ UNCHANGED vars
                   /\ page'[c].link = ShareUrl(page'[c].video) /\ page'[c].link # NoToken
<1>1. CASE UNCHANGED page
  BY <1>1 DEF PagesOK
<1>2. ASSUME NEW c \in Callers, PageInitiates(c)
      PROVE  PagesOK' /\ \A b \in Callers : page'[b].at = "done" => page'[b] = page[b]
  <2>1. PICK v \in Videos : page' = [page EXCEPT ![c] = [NewPage EXCEPT !.at = "uploading", !.video = v]]
    BY <1>2 DEF PageInitiates
  <2>2. [NewPage EXCEPT !.at = "uploading", !.video = v]
          = [at |-> "uploading", video |-> v, link |-> NoToken]
    <3>1. [NewPage EXCEPT !.at = "uploading"]
            = [at |-> "uploading", video |-> NoVideo, link |-> NoToken]
      BY DEF NewPage
    <3>2. [[at |-> "uploading", video |-> NoVideo, link |-> NoToken] EXCEPT !.video = v]
            = [at |-> "uploading", video |-> v, link |-> NoToken]
      OBVIOUS
    <3>3. QED
      BY <3>1, <3>2
  <2>3. QED
    BY <2>1, <2>2 DEF PagesOK, Pages, PageAt
<1>3. ASSUME NEW c \in Callers, PageUploads(c) \/ PageCompletes(c) \/ CompleteReplies(c),
             page' # page
      PROVE  PagesOK' /\ \A b \in Callers : page'[b].at = "done" => page'[b] = page[b]
  <2>1. \E l \in PageAt \ {"idle", "done"} : page[c].at \notin {"idle", "done"} /\ PageGoes(c, l)
    BY <1>3 DEF PageUploads, PageCompletes, CompleteReplies, PageAt
  <2>2. QED
    BY <2>1, PageMoved
<1>4. ASSUME NEW c \in Callers, PagePolls(c)
      PROVE  /\ PagesOK'
             /\ \A b \in Callers :
                  page'[b].at = "done" =>
                    \/ page'[b] = page[b]
                    \/ /\ page'[b].video \in Videos
                       /\ page'[b].link = ShareUrl(page'[b].video) /\ page'[b].link # NoToken
  <2>1. page[c].at = "processing" /\ page[c].video \in Videos /\ page[c] \in Pages
    BY <1>4 DEF PagePolls, PagesOK
  <2> DEFINE v == page[c].video
  <2>2. CASE PageGoes(c, "error")
    BY <2>1, <2>2, PageMoved DEF PageAt
  <2>3. CASE /\ StatusReply(v).ok /\ StatusReply(v).share_url # NoToken
             /\ PageShows(c, StatusReply(v))
    <3>1. StatusReply(v).share_url = ShareUrl(v)
      <4>1. CASE HasRow(v)
        BY <4>1 DEF StatusReply
      <4>2. CASE ~HasRow(v)
        BY <2>3, <4>2 DEF StatusReply
      <4>3. QED
        BY <4>1, <4>2
    <3>2. ShareUrl(v) \in Links
      BY <2>1, <2>3, <3>1 DEF ShareUrl, TypeOK, VideosTyped, Links
    <3>3. page' = [page EXCEPT ![c] = [[page[c] EXCEPT !.at = "done"] EXCEPT !.link = ShareUrl(v)]]
      BY <2>3, <3>1 DEF PageShows, PagesOK
    <3>4. [[page[c] EXCEPT !.at = "done"] EXCEPT !.link = ShareUrl(v)]
            = [at |-> "done", video |-> v, link |-> ShareUrl(v)]
      <4>1. [page[c] EXCEPT !.at = "done"] = [at |-> "done", video |-> v, link |-> page[c].link]
        BY <2>1 DEF Pages
      <4> HIDE DEF v
      <4>2. [[at |-> "done", video |-> v, link |-> page[c].link] EXCEPT !.link = ShareUrl(v)]
              = [at |-> "done", video |-> v, link |-> ShareUrl(v)]
        OBVIOUS
      <4>3. QED
        BY <4>1, <4>2
    <3>5. QED
      BY <2>1, <2>3, <3>1, <3>2, <3>3, <3>4 DEF PagesOK, Pages, PageAt
  <2>4. QED
    BY <1>4, <2>2, <2>3 DEF PagePolls
<1>5. QED
  BY <1>1, <1>2, <1>3, <1>4 DEF PagesNext, PageStep, PagePolls, pageVars

LEMMA SuccessorsOfDeleted == Successors(Deleted) = {}
  BY VideoStatusNames DEF Successors, VideoStatus

LEMMA NextPages ==
  ASSUME TypeOK, VideoInv, TypeOK', VideoInv', PagesOK, LinksHeld, [PagesNext]_pageVars
  PROVE  PagesOK' /\ LinksHeld'
<1>1. [Next]_vars
  BY PagesAreClients
<1>2. ASSUME NEW c \in Callers, page'[c].at = "done", status'[page'[c].video] # Deleted
      PROVE  token'[page'[c].video] # NoToken
             /\ page'[c].link = <<page'[c].video, token'[page'[c].video]>>
  <2> DEFINE v == page'[c].video
  <2>1. CASE page'[c] = page[c]
    <3>1. v \in Videos
      BY <1>2, <2>1 DEF PagesOK
    <3>2. status[v] # Deleted
      <4>1. status[v] = Deleted => status'[v] \notin Successors(status[v])
        BY SuccessorsOfDeleted
      <4>2. QED
        BY <1>1, <1>2, <3>1, <4>1, StatusStep
    <3>3. token[v] # NoToken /\ page[c].link = <<v, token[v]>>
      BY <1>2, <2>1, <3>2 DEF LinksHeld
    <3>4. token'[v] = token[v]
      BY <1>1, <1>2, <3>1, <3>3, TokenStep
    <3>5. QED
      BY <2>1, <3>3, <3>4
  <2>2. CASE /\ page'[c].video \in Videos /\ UNCHANGED vars
             /\ page'[c].link = ShareUrl(page'[c].video) /\ page'[c].link # NoToken
    BY <2>2 DEF ShareUrl, vars
  <2>3. QED
    BY <1>2, <2>1, <2>2, PageKept
<1>3. QED
  BY <1>2, PageKept DEF LinksHeld

LEMMA PagesInvariant == PagesSpec => [](TypeOK /\ VideoInv /\ PagesOK /\ LinksHeld)
<1>1. PagesInit => TypeOK /\ VideoInv /\ PagesOK /\ LinksHeld
  <2> SUFFICES ASSUME PagesInit PROVE TypeOK /\ VideoInv /\ PagesOK /\ LinksHeld
    OBVIOUS
  <2>1. TypeOK /\ VideoInv
    BY InitType, InitClaim DEF PagesInit
  <2>2. \A c \in Callers : page[c] = [at |-> "idle", video |-> NoVideo, link |-> NoToken]
    BY DEF PagesInit, NewPage
  <2>3. PagesOK
    BY <2>2 DEF PagesInit, NewPage, PagesOK, Pages, PageAt
  <2>4. LinksHeld
    BY <2>2 DEF LinksHeld
  <2>5. QED
    BY <2>1, <2>3, <2>4
<1>2. ASSUME TypeOK, VideoInv, PagesOK, LinksHeld, [PagesNext]_pageVars
      PROVE  TypeOK' /\ VideoInv' /\ PagesOK' /\ LinksHeld'
  <2>1. [Next]_vars
    BY <1>2, PagesAreClients
  <2>2. TypeOK'
    BY <1>2, <2>1, NextType
  <2>3. VideoInv'
    BY <1>2, <2>1, <2>2, NextClaim
  <2>4. QED
    BY <1>2, <2>2, <2>3, NextPages
<1>3. QED
  BY <1>1, <1>2, PTL DEF PagesSpec

\* Every behaviour of the pages is one of VideoLifecycle, so that what is proved
\* of its videos holds with the pages as their clients.
THEOREM PagesImplementSpec == PagesSpec => Spec
<1>1. PagesInit => Init
  BY DEF PagesInit
<1>2. PagesOK /\ [PagesNext]_pageVars => [Next]_vars
  BY PagesAreClients
<1>3. QED
  BY <1>1, <1>2, PagesInvariant, PTL DEF PagesSpec, Spec

\* A link that a page shows plays, if the ladder has its low tier: the link is
\* the video's, the player finds a stream and, until a delete comes by, what it
\* asks for first is in storage.
THEOREM LinksPlay ==
  ASSUME LowInLadder
  PROVE  PagesSpec => []ShownLinksPlay
<1>1. TypeOK /\ VideoInv /\ StreamableIsPlayable /\ PagesOK /\ LinksHeld => ShownLinksPlay
  <2> SUFFICES ASSUME TypeOK, VideoInv, StreamableIsPlayable, PagesOK, LinksHeld, NEW c \in Callers,
                      page[c].at = "done", status[page[c].video] \notin {Failed, Deleted}
               PROVE  /\ FindByShareToken(page[c].link) = {page[c].video}
                      /\ PlayerPage(page[c].link) = "playing"
                      /\ ~purged[page[c].video] => Playable(page[c].video)
    BY DEF ShownLinksPlay
  <2> DEFINE v == page[c].video
  <2>1. v \in Videos /\ token[v] # NoToken /\ page[c].link = <<v, token[v]>>
    BY DEF PagesOK, LinksHeld
  <2>2. status[v] \in {Processing, Processed}
    <3>1. claims[v] = 1
      BY <2>1 DEF VideoInv, ClaimsCounted
    <3>2. status[v] \notin {NotInitiated, PendingUpload, Uploaded}
      BY <2>1, <3>1 DEF VideoInv, ClaimsCounted
    <3>3. QED
      BY <2>1, <3>2 DEF TypeOK, VideosTyped, VideoStatus
  <2>3. HasRow(v) /\ Streamable(v)
    BY <2>1, <2>2 DEF HasRow, VideoStatus, Streamable
  <2>4. FindByShareToken(page[c].link) = {v}
    <3>1. page[c].link # NoToken
      BY DEF PagesOK
    <3>2. \A w \in Videos : ShareUrl(w) = page[c].link => w = v
      BY <2>1, <3>1 DEF ShareUrl
    <3>3. ShareUrl(v) = page[c].link
      BY <2>1 DEF ShareUrl
    <3>4. QED
      BY <2>1, <2>3, <3>2, <3>3 DEF FindByShareToken
  <2>5. PlayerPage(page[c].link) = "playing"
    <3>1. FindByShareToken(page[c].link) # {} /\ \E w \in FindByShareToken(page[c].link) : Streamable(w)
      BY <2>3, <2>4
    <3>2. QED
      BY <3>1 DEF PlayerPage
  <2>6. ~purged[v] => Playable(v)
    BY <2>1, <2>3 DEF StreamableIsPlayable
  <2>7. QED
    BY <2>4, <2>5, <2>6
<1>2. QED
  BY <1>1, PagesInvariant, PagesImplementSpec, StreamableVideosArePlayable, PTL

\* Behind the pages, too, users see VideoPromise, the rows are run by TaskDelivery,
\* and a PROCESSED video is kept for a day: the pages are clients like others.
THEOREM PagesSeeThePromise ==
  ASSUME LowInLadder
  PROVE  PagesSpec => LivesAsPromised /\ RowsAreDelivered /\ ProcessedIsKeptForADay
<1>1. PagesSpec => Spec
  BY PagesImplementSpec
<1>2. Spec => LivesAsPromised
  BY UsersSeeThePromise
<1>3. QED
  BY <1>1, <1>2, RowsLiveByDelivery, ProcessedVideosLastADay
=============================================================================
