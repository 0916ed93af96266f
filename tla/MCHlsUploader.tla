--------------------------- MODULE MCHlsUploader ---------------------------
(* HlsUploader with the default order of tiers, and with the low tier second. *)
EXTENDS HlsUploader

CONSTANTS low, mid, high

LowHigh    == <<low, high>>
HighLowMid == <<high, low, mid>>
=============================================================================
