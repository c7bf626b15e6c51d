----------------------------- MODULE MCRecords -----------------------------
(***************************************************************************)
(* One Software record and its deployments for Instances.                    *)
(***************************************************************************)
EXTENDS Instances, TLC

CONSTANTS r1, r2, t1, t2, e1, e2

(* Connected to r1, which manages its tagline and its releases.              *)
ConnectedRecord ==
    [tagline |-> Cleared, description |-> t1, code |-> r1, deployable |-> TRUE,
     sync |-> ConnectionTo(r1, {"tagline", "releases"}, TRUE)]
(* Three requests about the software, of which a sync makes sense; three about *)
(* its deployments; or one about the software and two about deployments.     *)
EditsOrCalls ==
    {[first |-> ConnectedRecord, edits |-> 0, calls |-> MaxCalls],
     [first |-> NoRecord, edits |-> MaxEdits, calls |-> 0],
     [first |-> NoRecord, edits |-> MaxEdits - 1, calls |-> MaxCalls - 1]}

SoftwareBodies ==
    {"description" :> t2, "code" :> r2 @@ "tagline" :> t2,
     "sync" :> ConnectionTo(r2, {"tagline"}, TRUE) @@ "deployable" :> FALSE}

InstanceBodies == {"endpoint" :> e1, "endpoint" :> e2 @@ "label" :> t1}
=============================================================================
