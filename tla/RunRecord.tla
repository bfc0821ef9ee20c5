------------------------------ MODULE RunRecord ------------------------------
(***************************************************************************)
(* What run_manifest.json promises about one map run to whoever reads the  *)
(* output name, at any moment and across kills, failures and resumes: the  *)
(* record is opened once, the workflow's result is recorded once and never *)
(* changes, the run is sealed once with a verdict the result allows, and a *)
(* sealed run can only be revoked.                                         *)
(***************************************************************************)
EXTENDS Naturals

CONSTANTS
    Exits,      \* what a workflow may exit with
    Ok,         \* the successful one
    Unverified, \* the verdict on a successful workflow whose map is not good
    Broken      \* the verdict of a runner that failed itself

VARIABLE record

Absent == [phase |-> "absent"]
Open == [phase |-> "open"]
Result(exit, interrupted) ==
    [phase |-> "result", exit |-> exit, interrupted |-> interrupted]
Sealed(exit, interrupted, verdict) ==
    [phase |-> "sealed", exit |-> exit, interrupted |-> interrupted, verdict |-> verdict,
     status |-> IF interrupted THEN "interrupted"
                ELSE IF verdict = Ok THEN "succeeded" ELSE "failed"]

\* A successful workflow may still fail its verification; any other result is
\* the verdict itself.
Verdicts(exit, interrupted) ==
    {Broken} \cup IF interrupted \/ exit # Ok THEN {exit} ELSE {Ok, Unverified}

Init == record = Absent

OpenRecord == record = Absent /\ record' = Open

RecordResult ==
    /\ record = Open
    /\ \E exit \in Exits, interrupted \in BOOLEAN : record' = Result(exit, interrupted)

Seal ==
    /\ record.phase = "result"
    /\ \E verdict \in Verdicts(record.exit, record.interrupted) :
          record' = Sealed(record.exit, record.interrupted, verdict)

Revoke ==
    /\ record.phase = "sealed"
    /\ record' = Sealed(record.exit, record.interrupted, Broken)

Next == OpenRecord \/ RecordResult \/ Seal \/ Revoke

Spec == Init /\ [][Next]_record
=============================================================================
