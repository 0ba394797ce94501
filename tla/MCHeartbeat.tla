---------------------------- MODULE MCHeartbeat ----------------------------
(* Model values for checking Heartbeat: the inbox poll and one other job.  *)
EXTENDS Heartbeat

CONSTANTS inbox, other, s1

TwoJobs == {inbox, other}
OneSlot == {s1}
SecondBlocked == {2}
FirstAgain == <<1, 2, 1>>
TwoIds == {1, 2}
=============================================================================
