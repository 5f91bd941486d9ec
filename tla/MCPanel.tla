------------------------------ MODULE MCPanel ------------------------------
(* The users of the Panel client: the activity of a node with three rows,  *)
(* or the upload of one backup while the activity jobs find nothing.       *)
EXTENDS ActivityDelivery, BackupUpload

MCEvent(r) == IF r = 3 THEN 2 ELSE 1
MCKey(r) == IF r \in {1, 2} THEN 1 ELSE r

vars == <<activityVars, uploadVars>>

Init ==
  \/ (ActivityInit({1, 2, 3}) \/ ActivityInit({1, 4, 5})) /\ UploadInit("done") /\ adapter = "s3" /\ size = 1
  \/ ActivityInit({}) /\ UploadInit("create")

Next ==
  \/ ActivityNext /\ UNCHANGED uploadVars
  \/ UploadNext /\ UNCHANGED activityVars

Spec == Init /\ [][Next]_vars /\ ActivityFairness
=============================================================================
