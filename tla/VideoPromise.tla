---------------------------- MODULE VideoPromise ----------------------------
(***************************************************************************)
(* The life of a video as its users see it: the uploader who is told its      *)
(* status and its link, and whoever opens the link.  The use cases, their      *)
(* tasks, retries, timeouts and the sweep are left out: of what they do one    *)
(* sees that a video moves on and never back, that a link appears when there   *)
(* is something to play and stays, and that a video goes only after what it    *)
(* played has gone.                                                          *)
(*                                                                          *)
(* VideoLifecycle implements this where QUALITY_TIERS has its low tier.        *)
(***************************************************************************)
CONSTANTS Videos, Links, NoLink

VARIABLES
  status,  \* the status the API reports; NotInitiated before and Deleted after there is a row
  link,    \* the share link
  media    \* what a player finds: "none", "playable" or, once deletion has begun, "withdrawn"

NotInitiated  == "NOT_INITIATED"
PendingUpload == "PENDING_UPLOAD"
Uploaded      == "UPLOADED"
Processing    == "PROCESSING"
Processed     == "PROCESSED"
Failed        == "FAILED"
Deleted       == "DELETED"

Init ==
  /\ status = [v \in Videos |-> NotInitiated]
  /\ link   = [v \in Videos |-> NoLink]
  /\ media  = [v \in Videos |-> "none"]

MovesTo(v, st) == status' = [status EXCEPT ![v] = st]

Register(v) == status[v] = NotInitiated  /\ MovesTo(v, PendingUpload) /\ UNCHANGED <<link, media>>
Accept(v)   == status[v] = PendingUpload /\ MovesTo(v, Uploaded)      /\ UNCHANGED <<link, media>>
Claim(v)    == status[v] = Uploaded      /\ MovesTo(v, Processing)    /\ UNCHANGED <<link, media>>

\* Master playlist, low variant and first segment are there, at the latest when
\* the video has been given up.
MakePlayable(v) ==
  /\ status[v] \notin {NotInitiated, PendingUpload, Uploaded}
  /\ media[v] = "none"
  /\ media' = [media EXCEPT ![v] = "playable"]
  /\ UNCHANGED <<status, link>>

\* Early publish.
Publish(v, l) ==
  /\ status[v] = Processing
  /\ link[v] = NoLink
  /\ media[v] # "none"
  /\ link' = [link EXCEPT ![v] = l]
  /\ UNCHANGED <<status, media>>

\* The link that was published early is the link.
Complete(v, l) ==
  /\ status[v] = Processing
  /\ link[v] \in {NoLink, l}
  /\ media[v] # "none"
  /\ MovesTo(v, Processed)
  /\ link' = [link EXCEPT ![v] = l]
  /\ UNCHANGED media

\* One that could not be made, or several that have taken too long.
GiveUp(vs) ==
  /\ \A v \in vs : status[v] \in {Uploaded, Processing}
  /\ status' = [v \in Videos |-> IF v \in vs THEN Failed ELSE status[v]]
  /\ UNCHANGED <<link, media>>

Withdraw(v) ==
  /\ status[v] # NotInitiated
  /\ media' = [media EXCEPT ![v] = "withdrawn"]
  /\ UNCHANGED <<status, link>>

Delete(v) ==
  /\ media[v] = "withdrawn"
  /\ MovesTo(v, Deleted)
  /\ link' = [link EXCEPT ![v] = NoLink]
  /\ UNCHANGED media

Next ==
  \/ \E v \in Videos :
       \/ Register(v) \/ Accept(v) \/ Claim(v)
       \/ MakePlayable(v) \/ Withdraw(v) \/ Delete(v)
       \/ \E l \in Links : Publish(v, l) \/ Complete(v, l)
  \/ \E vs \in SUBSET Videos : GiveUp(vs)

Spec == Init /\ [][Next]_<<status, link, media>>
=============================================================================
