---------------------------- MODULE TraceableBatch ---------------------------
(***************************************************************************)
(* Batches whose items carry the request and the part of it they come from *)
(* (contracts/traceable_item.h) and the operations Nodes are built from:   *)
(* join, group, select and scatter, split, map, and the call of a model    *)
(* whose answers must line up with its inputs (include/nodes).             *)
(*                                                                         *)
(* An operation gives a NodeResult.  The views it returns in C++ borrow    *)
(* the batches; here they hold the items.                                  *)
(***************************************************************************)
EXTENDS Integers, Sequences, FiniteSets, SequencesExt, FiniteSetsExt

CONSTANTS
  MaxSubId,  \* the largest uint32_t
  MaxCount,  \* the largest int32_t
  Null       \* no right item, no model

Item(req, sub, data) == [req |-> req, sub |-> sub, data |-> data]
Key(item) == <<item.req, item.sub>>
Keys(batch) == [i \in DOMAIN batch |-> Key(batch[i])]
KeySet(batch) == Range(Keys(batch))
Column(records, field) == [i \in DOMAIN records |-> records[i][field]]

(* NodeResult: a value, or a NodeFailure.  Code "" is the C++ code 0. *)
Success(value) == [ok |-> TRUE, value |-> value]
(* Goes on with the value of a result; a failure is handed on. *)
Then(result, Go(_)) == IF result.ok THEN Go(result.value) ELSE result
Failure(reason, key, code) ==
  [ok |-> FALSE, reason |-> reason, key |-> key, code |-> code]
BatchFailure(reason, item) == Failure(reason, Key(item), "")

Duplicates(batch) ==
  {i \in DOMAIN batch : \E j \in 1 .. i - 1 : Key(batch[j]) = Key(batch[i])}
Strangers(batch, keys) == {i \in DOMAIN batch : Key(batch[i]) \notin keys}

(* Passes of loops, in their order: each gives up at its first bad item. *)
Pass(reason, batch, bad) == [reason |-> reason, batch |-> batch, bad |-> bad]
Checked(passes, value) ==
  LET stops == {p \in DOMAIN passes : passes[p].bad # {}}
      pass == passes[Min(stops)]
  IN IF stops = {} THEN Success(value)
     ELSE BatchFailure(pass.reason, pass.batch[Min(pass.bad)])

-----------------------------------------------------------------------------
(* Join and group *)

Match(item, batch) ==
  LET same == {j \in DOMAIN batch : Key(batch[j]) = Key(item)}
  IN IF same = {} THEN Null ELSE batch[Max(same)]

(* One row for each left item, with its right item or, in mode left, none. *)
JoinByItem(left, right, mode) ==
  Checked(
    << Pass("duplicate", left, Duplicates(left)),
       Pass("duplicate", right, Duplicates(right)),
       Pass("unknown", right, Strangers(right, KeySet(left))),
       Pass("missing", left,
            IF mode = "exact" THEN Strangers(left, KeySet(right)) ELSE {}) >>,
    [i \in DOMAIN left |-> [left |-> left[i], right |-> Match(left[i], right)]])

OfRequest(batch, req) == SelectSeq(batch, LAMBDA item : item.req = req)

(* Requests in the order in which the batch first names them. *)
Requests(batch) ==
  LET First(i) == \A j \in 1 .. i - 1 : batch[j].req # batch[i].req
      Step(seen, i) == IF First(i) THEN Append(seen, batch[i].req) ELSE seen
  IN FoldLeft(Step, <<>>, [i \in DOMAIN batch |-> i])

(* A group for each request of the anchor.  A member that is a duplicate   *)
(* of one without a group is found unknown first.                          *)
GroupByRequest(anchor, members) ==
  LET requests == Requests(anchor)
      orphans == {i \in DOMAIN members : members[i].req \notin Range(requests)}
      duplicates == Duplicates(members)
      first == IF duplicates # {} /\ (\A o \in orphans : Min(duplicates) <= o)
               THEN "duplicate" ELSE "unknown"
  IN Checked(
       << Pass("duplicate", anchor, Duplicates(anchor)),
          Pass(first, members, orphans \cup duplicates) >>,
       [g \in DOMAIN requests |->
          [req |-> requests[g],
           anchors |-> OfRequest(anchor, requests[g]),
           members |-> OfRequest(members, requests[g])]])

-----------------------------------------------------------------------------
(* Select and scatter *)

(* chosen[i] is what a predicate that returns a bool makes of an item, or  *)
(* Null for one that throws.                                               *)
SelectBatch(anchor, chosen) ==
  Checked(
    << Pass("duplicate", anchor, Duplicates(anchor)),
       Pass("callback_failed", anchor, {i \in DOMAIN anchor : chosen[i] = Null}) >>,
    [anchor |-> anchor,
     selected |-> SelectSeq([i \in DOMAIN anchor |-> i], LAMBDA i : chosen[i])])

Materialize(selection) ==
  [k \in DOMAIN selection.selected |-> selection.anchor[selection.selected[k]]]

(* The anchor, with the payloads of the chosen items replaced. *)
ScatterReplace(selection, replacements) ==
  LET chosen == Materialize(selection)
      Place(batch, k) ==
        [batch EXCEPT ![selection.selected[k]].data =
           Match(chosen[k], replacements).data]
  IN Checked(
       << Pass("duplicate", replacements, Duplicates(replacements)),
          Pass("unknown", replacements, Strangers(replacements, KeySet(chosen))),
          Pass("missing", chosen, Strangers(chosen, KeySet(replacements))) >>,
       FoldLeft(Place, selection.anchor, [k \in DOMAIN chosen |-> k]))

-----------------------------------------------------------------------------
(* Split and map *)

(* Items that the parents before p of the same request were split into. *)
Before(input, parts, p) ==
  FoldLeft(LAMBDA n, q : IF q < p /\ input[q].req = input[p].req
                         THEN n + Len(parts[q]) ELSE n,
           0, [q \in DOMAIN input |-> q])

(* A parent's parts are numbered on from those of the parents before it of *)
(* the same request.  results[p] is what the callback gives: the first     *)
(* failure, with its code, is the batch's and no later parent is looked at.*)
SplitPayloads(input, results) ==
  LET failed == {p \in DOMAIN input : ~results[p].ok}
      good == IF failed = {} THEN DOMAIN input ELSE 1 .. Min(failed) - 1
      parts == [p \in DOMAIN input |-> IF p \in good THEN results[p].value ELSE <<>>]
      many == {p \in good : Len(parts[p]) > MaxCount}
      full == {p \in good \ many :
                 parts[p] # <<>> /\ Before(input, parts, p) + Len(parts[p]) > MaxSubId + 1}
      worst == IF many # {} /\ (\A f \in full : Min(many) < f)
               THEN "count_overflow"
               ELSE IF full # {} THEN "sub_id_overflow" ELSE "callback_failed"
      Children(p) ==
        [k \in DOMAIN parts[p] |->
           Item(input[p].req, Before(input, parts, p) + k - 1, parts[p][k])]
      split == Checked(
       << Pass("duplicate", input, Duplicates(input)),
          Pass(worst, input, failed \cup many \cup full) >>,
       [children |-> FlattenSeq([p \in DOMAIN input |-> Children(p)]),
        counts |-> [p \in DOMAIN input |->
          Item(input[p].req, input[p].sub, Len(parts[p]))]])
  IN IF split.ok \/ split.reason # "callback_failed" THEN split
     ELSE [split EXCEPT !.code = results[Min(failed)].code]

(* results[i] is a NodeResult.  The first failure, with its code and the   *)
(* item's key, is the batch's.                                             *)
MapPayloads(input, results) ==
  LET failed == {i \in DOMAIN input : ~results[i].ok} IN
  IF failed = {}
  THEN Success([i \in DOMAIN input |->
         Item(input[i].req, input[i].sub, results[i].value)])
  ELSE Failure("callback_failed", Key(input[Min(failed)]), results[Min(failed)].code)

-----------------------------------------------------------------------------
(* Outputs that preserve their inputs' provenance *)

Alignment(inputs, outputs) ==
  IF Len(inputs) # Len(outputs) THEN "count_mismatch"
  ELSE IF Keys(inputs) # Keys(outputs) THEN "provenance_mismatch" ELSE "none"

(* The code of the failure that a mismatch makes. *)
OutputFailure(mismatch) ==
  IF mismatch = "count_mismatch" THEN "output_count_mismatch"
  ELSE "output_provenance_mismatch"

(* A Node's call of a model: no call for no input; the model's code is the *)
(* failure's; what it answers must line up with what it was asked.         *)
InvokeAlignedModel(inputs, model, answer) ==
  IF inputs = <<>> THEN Success(<<>>)
  ELSE IF model = Null THEN Failure("model_is_null", Null, "model_call_failed")
  ELSE IF answer.code # "" THEN Failure("model_failed", Null, answer.code)
  ELSE IF Alignment(inputs, answer.outputs) # "none"
  THEN Failure(Alignment(inputs, answer.outputs), Null,
               OutputFailure(Alignment(inputs, answer.outputs)))
  ELSE Success(answer.outputs)
=============================================================================
