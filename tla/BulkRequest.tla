---------------------------- MODULE BulkRequest ----------------------------
(***************************************************************************)
(* The bulk requests of the catalogs: what AdminBulkAdd passes on of a     *)
(* request and how it reports errors.  valid says of each entry whether it *)
(* passes the validation.                                                  *)
(***************************************************************************)
EXTENDS Integers, Sequences, Filters

\* The entries that are passed on, by their places in the request.
Indexed(valid) == Kept([i \in DOMAIN valid |-> i], {i \in DOMAIN valid : valid[i]})

\* A slip: the report names the place among the entries passed on.
FailedBySlice(valid, errors) == {i \in DOMAIN valid : ~ valid[i]} \cup errors

\* The places reported as failed; errors are places among those passed on.
Failed(valid, errors) ==
  {i \in DOMAIN valid : ~ valid[i]} \cup {Indexed(valid)[e] : e \in errors}

NoReport == [is |-> "none"]

Report(valid, applied, errors) ==
  [is |-> "committed", valid |-> valid, applied |-> applied, failed |-> Failed(valid, errors)]

\* The transaction could not begin or be committed: its error is answered as
\* that of the first entry passed on, and of the others nothing is said.  If
\* none was passed on, its place is looked up in an empty list: the handler
\* panics, and gin answers 500.
Refusal(valid) ==
  IF Indexed(valid) = <<>> THEN [is |-> "panic"]
  ELSE [is |-> "refused", valid |-> valid, applied |-> {}, failed |-> Failed(valid, {1})]

\* Of a request that was committed every entry is named once, as processed or
\* as failed.  Of one that was refused as a whole none is named as processed,
\* and as failed one at least that had passed the validation.
Truthful(report) ==
  /\ report.is = "committed" =>
       /\ report.applied \cup report.failed = DOMAIN report.valid
       /\ report.applied \cap report.failed = {}
  /\ report.is = "refused" =>
       report.applied = {} /\ \E i \in report.failed \cap DOMAIN report.valid : report.valid[i]
=============================================================================
