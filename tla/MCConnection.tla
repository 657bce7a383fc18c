--------------------------- MODULE MCConnection ---------------------------
(* Instances of Connection for TLC: which jobs run, and how many workers.  *)
EXTENDS Connection

\* The jobs that record what they see of the credentials.
MCSerialKinds == AllKinds \ {"service_test", "sync"}

\* The jobs of the liveness run: scheduled calls, both tests, repairs by hand.
MCLiveKinds == {"execute", "test", "service_test", "re_enable"}

\* Scheduled synchronisation alone, for the run that shows a disagreement.
MCSyncKinds == {"sync"}

=============================================================================
