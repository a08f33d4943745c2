------------------------- MODULE DocumentLifecycle -------------------------
(***************************************************************************)
(* What ingestion promises a client that polls a document's status and     *)
(* searches for it: the status goes PENDING, PROCESSING and then to a      *)
(* final value, COMPLETED only once the whole document can be found.  A    *)
(* retried job may change one final value into the other; nothing goes     *)
(* back to PENDING or PROCESSING.                                          *)
(***************************************************************************)
CONSTANT Docs

VARIABLES
    status,      \* the status a client reads; "absent" when there is no row
    searchable   \* the documents all of whose chunks a search can return

vars == <<status, searchable>>

Init ==
    /\ status = [d \in Docs |-> "absent"]
    /\ searchable = {}

Move(d, from, to) ==
    /\ status[d] \in from
    /\ status' = [status EXCEPT ![d] = to]
    /\ UNCHANGED searchable

Create(d) == Move(d, {"absent"}, "pending")
Start(d)  == Move(d, {"pending"}, "processing")

Publish(d) ==
    /\ searchable' = searchable \cup {d}
    /\ UNCHANGED status

Complete(d) ==
    /\ d \in searchable
    /\ Move(d, {"processing", "completed", "failed"}, "completed")

Fail(d) == Move(d, {"processing", "completed", "failed"}, "failed")

Remove(d) == Move(d, {"pending", "processing", "completed", "failed"}, "absent")

Next == \E d \in Docs :
    Create(d) \/ Start(d) \/ Publish(d) \/ Complete(d) \/ Fail(d) \/ Remove(d)

Spec == Init /\ [][Next]_vars
=============================================================================
