----------------------------- MODULE MCServerJobs -----------------------------
(* Instances of ServerJobs for TLC. *)
EXTENDS ServerJobs

MCOrder == <<"s3", "webdav">>
MCTimes == [s3 |-> {1}, webdav |-> {1, 2}]
MCSchedule == [s3 |-> 1, webdav |-> 2]
=============================================================================
