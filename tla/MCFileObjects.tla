---------------------------- MODULE MCFileObjects ----------------------------
EXTENDS FileObjects, TLC

CONSTANTS ann, ben, f1, w1, w2

MCSubjects == {ann, ben}
MCFiles == {f1}
MCBlobs == 1..2
MCResources == MCFiles \cup MCBlobs
MCTypeOf == [r \in MCResources |-> IF r \in MCFiles THEN "file_object" ELSE "blob"]
MCActions == {ActionRead, ActionWrite, storageRetrieveBlobAction}
MCScopes == {scopeFull}
MCWorkers == {w1, w2}

\* The file is ann's, who lets ben read or write it and takes that back; ben
\* may try to let himself write it.  Either adds versions and deletes it.
MCRequests ==
    {r \in Job :
       /\ r.blob = None
       /\ r.op \in {"create", "metadata"} => r.self = ann
       /\ IF r.op = "permissions"
          THEN r.change # None /\ r.change.Subject = ben
               /\ (r.self = ben => r.change.Grant /\ r.change.Action = ActionWrite)
          ELSE r.change = None}

================================================================================
