----------------------------- MODULE RowChanges -----------------------------
(***************************************************************************)
(* A row of the database, as a request of SQLAlchemy's session sees it:    *)
(* the request sets attributes of what it has loaded, and its commit       *)
(* writes those whose value differs, onto whatever the row holds by then.  *)
(***************************************************************************)
Changes(old, new) == [f \in {g \in DOMAIN old : new[g] # old[g]} |-> new[f]]

Update(row, changes) ==
    [f \in DOMAIN row |-> IF f \in DOMAIN changes THEN changes[f] ELSE row[f]]

NoChanges == [f \in {} |-> f]
=============================================================================
