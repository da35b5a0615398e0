------------------------------- MODULE SelLog -------------------------------
(***************************************************************************)
(* What a System Event Log promises its clients (spec section 4.2), with  *)
(* the byte layout, capacity and reservations left out: an ordered log of *)
(* records, each carrying a record id no other record in the log has.     *)
(*                                                                         *)
(*   - Add appends one record with a fresh id at the tail.                *)
(*   - Delete removes the record its request names (0: the first record,  *)
(*     the last id: the last record, otherwise the record with that id)   *)
(*     and answers with that record's id; the others keep their order.    *)
(*   - Clear empties the log.                                              *)
(*   - Any other request leaves the log as it is.                         *)
(*                                                                         *)
(* Which requests succeed is left open: a refused request is a step that  *)
(* leaves the log unchanged.                                               *)
(***************************************************************************)
EXTENDS Integers, Sequences, SequencesExt

CONSTANTS
  Ids,        \* record ids
  LastId,     \* the id that names the last record (0xffff)
  Records     \* record contents

VARIABLES
  log,        \* the records, oldest first: [id, rec]
  deleted     \* the last successful Delete: [rid, id], or NoDelete

vars == <<log, deleted>>

NoDelete == [rid |-> -1, id |-> -1]

IdsIn(l) == {l[i].id : i \in DOMAIN l}

\* The position of the record a Delete request for rid names, 0 if none.
Named(l, rid) ==
  CASE l = <<>>    -> 0
    [] rid = 0      -> 1
    [] rid = LastId -> Len(l)
    [] OTHER        -> IF rid \in IdsIn(l)
                       THEN CHOOSE i \in DOMAIN l : l[i].id = rid ELSE 0

Init == log = <<>> /\ deleted = NoDelete

Add(id, r) ==
  /\ id \notin IdsIn(log)
  /\ log' = Append(log, [id |-> id, rec |-> r])
  /\ deleted' = NoDelete

Delete(rid) ==
  LET i == Named(log, rid) IN
  /\ i # 0
  /\ log' = RemoveAt(log, i)
  /\ deleted' = [rid |-> rid, id |-> log[i].id]

Clear == log' = <<>> /\ deleted' = NoDelete

Other == log' = log /\ deleted' = NoDelete

Next ==
  \/ Other
  \/ Clear
  \/ \E rid \in Ids : Delete(rid)
  \/ \E id \in Ids \ IdsIn(log), r \in Records : Add(id, r)

Spec == Init /\ [][Next]_vars

=============================================================================
