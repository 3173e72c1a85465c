--------------------------- MODULE RecoveryTables ---------------------------
(***************************************************************************)
(* The recovery store's SQL, as operators on sets of rows.                 *)
(*                                                                         *)
(* A recovery partition is an SQLite database with five tables.  Here a    *)
(* table is a set of records:                                              *)
(*   exs    [ex, count, resume]      one row per execution                 *)
(*   fronts [ex, worker, front]      primary key (ex, worker)              *)
(*   snaps  [id, epoch, pos, eff]    primary key (id, epoch); id stands    *)
(*                                   for the pair (step_id, state_key)     *)
(* `commits` holds at most one row per partition, the commit epoch, and is *)
(* modelled as a set of at most one number.                                *)
(***************************************************************************)
EXTENDS Integers, FiniteSets, FiniteSetsExt

(* INSERT ... ON CONFLICT (ex_num, worker_index) DO UPDATE. *)
UpsertFront(fronts, row) ==
  {r \in fronts : r.ex # row.ex \/ r.worker # row.worker} \cup {row}

(* INSERT ... ON CONFLICT (step_id, state_key, snap_epoch) DO UPDATE. *)
UpsertSnap(snaps, row) ==
  {r \in snaps : r.id # row.id \/ r.epoch # row.epoch} \cup {row}

(* The newest row before an epoch for each id: what a resume at that epoch *)
(* loads.  The comparison is strict, the resume epoch itself is replayed.  *)
MaxEpochSnaps_Inclusive(snaps, before) ==
  {r \in snaps :
     /\ r.epoch <= before
     /\ \A q \in snaps : (q.id = r.id /\ q.epoch <= before) => q.epoch <= r.epoch}

MaxEpochSnaps(snaps, before) ==
  {r \in snaps :
     /\ r.epoch < before
     /\ \A q \in snaps : (q.id = r.id /\ q.epoch < before) => q.epoch <= r.epoch}

(***************************************************************************)
(* The DELETE that RecoveryCommitter::commit runs.  Its NOT EXISTS         *)
(* subquery does not mention the row being deleted: it joins the whole     *)
(* snaps table with max_epoch_snapshots, so it asks whether any newest row *)
(* exists at all.                                                          *)
(***************************************************************************)
GcDelete(snaps, epoch) ==
  {r \in snaps : ~ /\ r.epoch < epoch
                   /\ ~ \E q \in snaps : q \in MaxEpochSnaps(snaps, epoch)}

-----------------------------------------------------------------------------
(* RecoveryPart::resume_from, one operator per common table expression. *)

MaxEx(exs) == {r \in exs : \A q \in exs : q.ex <= r.ex}

DefaultProgress_FromOne(exs) ==
  UNION {{[worker |-> w, front |-> 1] : w \in 0 .. (r.count - 1)} : r \in MaxEx(exs)}

DefaultProgress(exs) ==
  UNION {{[worker |-> w, front |-> r.resume] : w \in 0 .. (r.count - 1)} : r \in MaxEx(exs)}

ExplicitProgress(exs, fronts) ==
  {[worker |-> f.worker, front |-> f.front] :
     f \in {f \in fronts : \E r \in MaxEx(exs) : f.ex = r.ex}}

MaxProgress(progress) ==
  {r \in progress : \A q \in progress : q.worker = r.worker => q.front <= r.front}

WorkerFrontiers(exs, fronts) ==
  {r.front : r \in MaxProgress(ExplicitProgress(exs, fronts) \cup DefaultProgress(exs))}

(* Without any execution row the query yields NULL and the default, the   *)
(* zeroth execution starting at epoch 1, is used.                         *)
ResumeFrom(exs, fronts) ==
  IF exs = {}
    THEN [ex |-> 0, epoch |-> 1]
    ELSE [ex |-> Max({r.ex : r \in exs}) + 1, epoch |-> Min(WorkerFrontiers(exs, fronts))]

(* Partitions already committed past the resume epoch have dropped the     *)
(* snapshots that a resume there needs: InconsistentPartitionsError.       *)
StateMissing(commits, resumeEpoch) == {p \in DOMAIN commits : \E c \in commits[p] : c > resumeEpoch}
=============================================================================
