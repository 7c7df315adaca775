----------------------------- MODULE MCAudioCalls -----------------------------
(* AudioCalls for TLC: two sockets that can both call a third.                *)
EXTENDS AudioCalls
CONSTANTS s1, s2, s3

TwoCallers == {<<s1, s3>>, <<s2, s3>>, <<s3, s1>>, <<s3, s2>>}
=============================================================================
