---------------------------- MODULE MCTaskSystem ----------------------------
\* TaskSystem for TLC: two workers with one permit each, and the task types of
\* domain/src/task/metadata.  One tick is half an hour, so Stale = 2 is the real
\* hour and Timeout = 4 the real two hours of ProcessVideo.
EXTENDS TaskSystem, TLC

CONSTANTS w1, w2, s1, s2, k, sweep

MCWorkerOf  == s1 :> w1 @@ s2 :> w2
MCWorkerOf1 == s1 :> w1

\* 1, 2: DeleteVideo rows of one video (nothing deduplicates them), which share
\* video_delete:{id}; max_retries is 5 in the code, 1 here.  3: the recurring
\* CleanupStaleVideos row, its 30 minutes of processing_timeout, max_retries 3
\* taken as 1, and its 24 h interval as one tick.
MCKeyOf      == <<k, k, sweep>>
MCMaxRetries == <<1, 1, 1>>
MCInterval   == <<0, 0, 1>>
MCTimeout    == <<0, 0, 1>>
MCResultsOf  == <<{"Success", "RetryableFailure"}, {"Skip", "RetryableFailure"},
                  {"Success", "RetryableFailure"}>>

\* The same without row 3; row 1 now has the half hour, or (MCTimeout0) none has.
MCKeyOf2      == <<k, k>>
MCMaxRetries2 == <<1, 1>>
MCInterval2   == <<0, 0>>
MCTimeout2    == <<1, 0>>
MCTimeout0    == <<0, 0>>
MCResultsOf2  == <<{"Success", "RetryableFailure"}, {"Skip", "RetryableFailure"}>>

\* One ProcessVideo row: max_retries 1, processing_timeout two hours.
MCKeyOf1      == <<k>>
MCMaxRetries1 == <<1>>
MCInterval1   == <<0>>
MCTimeout1    == <<4>>
MCResultsOf1  == <<{"Success", "PermanentFailure", "RetryableFailure"}>>
=============================================================================
