----------------------------- MODULE ChangeGate -----------------------------
(***************************************************************************)
(* The change gate: engine/internal/change/change.go, the one path by      *)
(* which the program writes to a cluster.                                  *)
(*                                                                         *)
(* Each change is proposed by one call of Propose.  Decide calls arrive    *)
(* over any socket and run in goroutines of their own (Deciders), so they  *)
(* interleave with each other, with Propose, and with everybody else who   *)
(* writes to the cluster.  g.mu is held only where a single action below   *)
(* reads and writes status; audit appends and API calls happen outside it. *)
(*                                                                         *)
(* A content stands for what watch.ToDiffYAML prints of an object: no      *)
(* status, no resourceVersion, no uid.  rv counts every write to the       *)
(* object, those that change only status too.                              *)
(***************************************************************************)
EXTENDS Integers, Sequences, FiniteSets

CONSTANTS
    Changes,        \* change ids
    Deciders,       \* goroutines serving change.decide
    Objects,        \* objects of the cluster
    Contents,       \* what an object can hold, as a diff prints it
    Absent,         \* there is no such object
    Written,        \* the contents others write
    Plans,          \* plans a caller may propose
    Patched(_, _),  \* Patched(op, content): the scale or restart patch merged
    AuditFaults,    \* how an append may fail: "lost" leaves no entry,
                    \*   "kept" leaves the entry and returns an error
    CallFaults,     \* how an API call may fail: "refused" has no effect,
                    \*   "replyLost" takes effect and returns an error
    MaxEdits,       \* bound: writes by others
    MaxCrashes      \* bound: times the engine stops

Op == [op : {"apply", "scale", "restart", "delete"}, obj : Objects,
       yaml : Contents,     \* what an apply writes
       valid : BOOLEAN]     \* kind known, scalable or restartable, replicas
                            \*   given; the yaml parses and names this object

ASSUME ContentsAssumption == Absent \notin Contents /\ Written \subseteq Contents
ASSUME PlansAssumption == Plans \subseteq Seq(Op)
ASSUME PatchedAssumption ==
    \A op \in Op, content \in Contents : Patched(op, content) \in Contents
ASSUME BoundsAssumption == MaxEdits \in Nat /\ MaxCrashes \in Nat
ASSUME FaultsAssumption ==
    AuditFaults \subseteq {"lost", "kept"} /\
    CallFaults \subseteq {"refused", "replyLost"}

VARIABLES
    live,       \* live[o]: the object in the cluster, or Absent
    rv,         \* rv[o]: its resourceVersion
    plan,       \* plan[c]: Change.Plan
    reviewed,   \* reviewed[c]: Change.reviewed, as far as the dry run got
    status,     \* status[c]: Change.Status; "none" before g.changes holds it,
                \*   "gone" when the engine that held it stopped
    propose,    \* propose[c]: where the Propose call is
    call,       \* call[d]: where the Decide call is, the change it decides,
                \*   the op it is at, and the object execute read for it
    log,        \* log[c]: what the audit log says of c, oldest first
    execs,      \* history: execs[c], the ops of c that reached the cluster
    edits,      \* bound counter
    crashes     \* bound counter

cluster == <<live, rv, edits>>
proposal == <<plan, reviewed, propose>>
gateVars == <<live, rv, plan, reviewed, status, propose, call, log, execs, edits,
             crashes>>

Idle == "idle"
Nothing == [content |-> Absent, rv |-> 0]
NoCall == [at |-> Idle, id |-> "none", step |-> 1, seen |-> Nothing]

GateInit ==
    /\ live \in [Objects -> Written \cup {Absent}]
    /\ rv = [o \in Objects |-> 0]
    /\ plan = [c \in Changes |-> <<>>]
    /\ reviewed = [c \in Changes |-> <<>>]
    /\ status = [c \in Changes |-> "none"]
    /\ propose = [c \in Changes |-> Idle]
    /\ call = [d \in Deciders |-> NoCall]
    /\ log = [c \in Changes |-> <<>>]
    /\ execs = [c \in Changes |-> <<>>]
    /\ edits = 0
    /\ crashes = 0

-----------------------------------------------------------------------------
(* record: one entry of the audit log.  Its detail is left out.            *)

Recorded(action, c) == log' = [log EXCEPT ![c] = Append(@, action)]

RecordFails(action, c) ==
    \/ "lost" \in AuditFaults /\ UNCHANGED log
    \/ "kept" \in AuditFaults /\ Recorded(action, c)

-----------------------------------------------------------------------------
(* Propose.                                                                *)

\* What dryRun demands of an op and of the object it finds.
Reviewable(op, content) ==
    op.valid /\ (op.op # "apply" => content # Absent)

StartPropose(c) ==
    /\ propose[c] = Idle
    /\ \E p \in Plans :
         /\ plan' = [plan EXCEPT ![c] = p]
         /\ propose' = [propose EXCEPT
                          ![c] = IF p = <<>> THEN "refused" ELSE "dryRun"]
    /\ UNCHANGED <<cluster, call, reviewed, status, log, execs, crashes>>

NextReview(c) == plan[c][Len(reviewed[c]) + 1]

\* dryRun reads the object, asks the API server what the op would make of it,
\* and keeps what it read.
DryRun(c) ==
    /\ propose[c] = "dryRun"
    /\ LET content == live[NextReview(c).obj]
       IN  /\ Reviewable(NextReview(c), content)
           /\ reviewed' = [reviewed EXCEPT ![c] = Append(@, content)]
    /\ propose' = [propose EXCEPT
                     ![c] = IF Len(reviewed'[c]) = Len(plan[c])
                            THEN "publish" ELSE "dryRun"]
    /\ UNCHANGED <<cluster, call, plan, status, log, execs, crashes>>

DryRunRefused(c) ==
    /\ propose[c] = "dryRun"
    /\ \/ ~Reviewable(NextReview(c), live[NextReview(c).obj])
       \/ "refused" \in CallFaults
    /\ propose' = [propose EXCEPT ![c] = "refused"]
    /\ UNCHANGED <<cluster, call, plan, reviewed, status, log, execs, crashes>>

\* From here on List shows the change and Decide finds it.
Publish(c) ==
    /\ propose[c] = "publish"
    /\ status' = [status EXCEPT ![c] = "pending"]
    /\ propose' = [propose EXCEPT ![c] = "record"]
    /\ UNCHANGED <<cluster, call, plan, reviewed, log, execs, crashes>>

\* The caller is told "refusing to hold an unrecorded change" when the append
\* fails; the change stays in g.changes.
RecordProposed(c) ==
    /\ propose[c] = "record"
    /\ \/ /\ Recorded("change.proposed", c)
          /\ propose' = [propose EXCEPT ![c] = "returned"]
       \/ /\ RecordFails("change.proposed", c)
          /\ propose' = [propose EXCEPT ![c] = "unrecorded"]
    /\ UNCHANGED <<cluster, call, plan, reviewed, status, execs, crashes>>

-----------------------------------------------------------------------------
(* Decide.  A call for a change that is not pending returns an error and   *)
(* changes nothing.                                                        *)

\* Where call d is now, in which change, at which op, with what it has read.
Place(d, c, at, step, seen) ==
    call' = [call EXCEPT
               ![d] = [at |-> at, id |-> c, step |-> step, seen |-> seen]]

Enter(d, c, at) == Place(d, c, at, 1, Nothing)
Goto(d, at) == Place(d, call[d].id, at, call[d].step, Nothing)
Return(d) == call' = [call EXCEPT ![d] = NoCall]

\* Mutant: status is read before the lock is taken, so a change somebody else
\* has approved in the meantime is approved again.
DecideOnStaleStatus(d, c) ==
    /\ call[d].at = Idle
    /\ status[c] \in {"pending", "approved"}
    /\ status' = [status EXCEPT ![c] = "approved"]
    /\ Enter(d, c, "recordApproved")
    /\ UNCHANGED <<cluster, proposal, log, execs, crashes>>

\* The check and the transition, under one hold of the lock.
Decide(d, c) ==
    /\ call[d].at = Idle
    /\ status[c] = "pending"
    /\ \/ /\ status' = [status EXCEPT ![c] = "approved"]
          /\ Enter(d, c, "recordApproved")
       \/ /\ status' = [status EXCEPT ![c] = "rejected"]
          /\ Enter(d, c, "recordRejected")
    /\ UNCHANGED <<cluster, proposal, log, execs, crashes>>

RecordRejected(d) ==
    /\ call[d].at = "recordRejected"
    /\ \/ Recorded("change.rejected", call[d].id)
       \/ RecordFails("change.rejected", call[d].id)
    /\ Return(d)
    /\ UNCHANGED <<cluster, proposal, status, execs, crashes>>

\* Mutant: the error of the append is dropped.
RecordApprovedAnyway(d) ==
    /\ call[d].at = "recordApproved"
    /\ \/ Recorded("change.approved", call[d].id)
       \/ RecordFails("change.approved", call[d].id)
    /\ Goto(d, "session")
    /\ UNCHANGED <<cluster, proposal, status, execs, crashes>>

RecordApproved(d) ==
    /\ call[d].at = "recordApproved"
    /\ \/ /\ Recorded("change.approved", call[d].id)
          /\ Goto(d, "session")
       \/ /\ RecordFails("change.approved", call[d].id)
          /\ Goto(d, "fail")
    /\ UNCHANGED <<cluster, proposal, status, execs, crashes>>

\* Mutant: a session that cannot be opened ends the call and nothing else.
OpenSessionOrReturn(d) ==
    /\ call[d].at = "session"
    /\ \/ Goto(d, "get")
       \/ "refused" \in CallFaults /\ Return(d)
    /\ UNCHANGED <<cluster, proposal, status, log, execs, crashes>>

OpenSession(d) ==
    /\ call[d].at = "session"
    /\ \/ Goto(d, "get")
       \/ "refused" \in CallFaults /\ Goto(d, "fail")
    /\ UNCHANGED <<cluster, proposal, status, log, execs, crashes>>

OpAt(d) == plan[call[d].id][call[d].step]
ReviewedAt(d) == reviewed[call[d].id][call[d].step]

\* execute reads the object and compares it with what was reviewed.
ExecuteGet(d) ==
    /\ call[d].at = "get"
    /\ LET o == OpAt(d).obj
       IN  \/ /\ live[o] = ReviewedAt(d)
              /\ Place(d, call[d].id, "write", call[d].step,
                       [content |-> live[o], rv |-> rv[o]])
           \/ /\ live[o] # ReviewedAt(d) \/ "refused" \in CallFaults
              /\ Goto(d, "fail")
    /\ UNCHANGED <<cluster, proposal, status, log, execs, crashes>>

\* Mutant: the update carries no resourceVersion.
AcceptedUnpinned(op, was) ==
    IF op.op # "apply" THEN live[op.obj] # Absent
    ELSE IF was.content = Absent THEN live[op.obj] = Absent
    ELSE live[op.obj] # Absent

\* Whether the API server takes the write.  Only an apply carries a condition
\* on what was read: a create, or an update pinned to that version.
Accepted(op, was) ==
    IF op.op # "apply" THEN live[op.obj] # Absent
    ELSE IF was.content = Absent THEN live[op.obj] = Absent
    ELSE live[op.obj] # Absent /\ rv[op.obj] = was.rv

Outcome(op, content) ==
    CASE op.op = "apply" -> op.yaml
      [] op.op = "delete" -> Absent
      [] OTHER -> Patched(op, content)

\* The loop goes on to the next op of the plan, or ends.
NextOp(d) ==
    Place(d, call[d].id,
          IF call[d].step = Len(plan[call[d].id]) THEN "finish" ELSE "get",
          call[d].step + 1, Nothing)

ExecuteWrite(d) ==
    /\ call[d].at = "write"
    /\ LET op == OpAt(d)
           c == call[d].id
       IN  /\ Accepted(op, call[d].seen)
           /\ live' = [live EXCEPT ![op.obj] = Outcome(op, @)]
           /\ rv' = [rv EXCEPT ![op.obj] = @ + 1]
           /\ execs' = [execs EXCEPT ![c] = Append(@, call[d].step)]
           /\ \/ NextOp(d)
              \/ "replyLost" \in CallFaults /\ Goto(d, "fail")
    /\ UNCHANGED <<proposal, status, log, edits, crashes>>

\* Mutant: the loop goes on after an op that failed.
ExecuteRefusedGoesOn(d) ==
    /\ call[d].at = "write"
    /\ ~Accepted(OpAt(d), call[d].seen) \/ "refused" \in CallFaults
    /\ NextOp(d)
    /\ UNCHANGED <<cluster, proposal, status, log, execs, crashes>>

ExecuteRefused(d) ==
    /\ call[d].at = "write"
    /\ ~Accepted(OpAt(d), call[d].seen) \/ "refused" \in CallFaults
    /\ Goto(d, "fail")
    /\ UNCHANGED <<cluster, proposal, status, log, execs, crashes>>

Finish(d) ==
    /\ call[d].at = "finish"
    /\ status' = [status EXCEPT ![call[d].id] = "applied"]
    /\ Goto(d, "recordApplied")
    /\ UNCHANGED <<cluster, proposal, log, execs, crashes>>

RecordApplied(d) ==
    /\ call[d].at = "recordApplied"
    /\ \/ Recorded("change.applied", call[d].id)
       \/ RecordFails("change.applied", call[d].id)
    /\ Return(d)
    /\ UNCHANGED <<cluster, proposal, status, execs, crashes>>

\* Mutant: a status no client knows.
FailAsError(d) ==
    /\ call[d].at = "fail"
    /\ status' = [status EXCEPT ![call[d].id] = "error"]
    /\ Goto(d, "recordFailed")
    /\ UNCHANGED <<cluster, proposal, log, execs, crashes>>

\* Mutant: a change that failed is put back for another try.
FailToPending(d) ==
    /\ call[d].at = "fail"
    /\ status' = [status EXCEPT ![call[d].id] = "pending"]
    /\ Goto(d, "recordFailed")
    /\ UNCHANGED <<cluster, proposal, log, execs, crashes>>

\* setFailed, on every error after the approval; ops already done stay done.
Fail(d) ==
    /\ call[d].at = "fail"
    /\ status' = [status EXCEPT ![call[d].id] = "failed"]
    /\ Goto(d, "recordFailed")
    /\ UNCHANGED <<cluster, proposal, log, execs, crashes>>

\* Mutant: the return after the failure was recorded is missing.
RecordFailedFallsThrough(d) ==
    /\ call[d].at = "recordFailed"
    /\ Recorded("change.failed", call[d].id)
    /\ Goto(d, "finish")
    /\ UNCHANGED <<cluster, proposal, status, execs, crashes>>

RecordFailed(d) ==
    /\ call[d].at = "recordFailed"
    /\ \/ Recorded("change.failed", call[d].id)
       \/ RecordFails("change.failed", call[d].id)
    /\ Return(d)
    /\ UNCHANGED <<cluster, proposal, status, execs, crashes>>

-----------------------------------------------------------------------------
(* Everybody else, and the end of the engine.                              *)

\* Somebody creates, changes or deletes an object; a controller writes its
\* status, which moves only the version.
Edit(o) ==
    /\ edits < MaxEdits
    /\ \E content \in Written \cup {live[o], Absent} :
         /\ live[o] = Absent => content # Absent
         /\ live' = [live EXCEPT ![o] = content]
    /\ rv' = [rv EXCEPT ![o] = @ + 1]
    /\ edits' = edits + 1
    /\ UNCHANGED <<proposal, call, status, log, execs, crashes>>

\* Changes are held in memory only.
Crash ==
    /\ crashes < MaxCrashes
    /\ crashes' = crashes + 1
    /\ status' = [c \in Changes |->
                    IF status[c] = "none" THEN "none" ELSE "gone"]
    /\ propose' = [c \in Changes |->
                     IF propose[c] = Idle THEN Idle ELSE "stopped"]
    /\ call' = [d \in Deciders |-> NoCall]
    /\ UNCHANGED <<cluster, plan, reviewed, log, execs>>

Proposing(c) ==
    \/ DryRun(c)
    \/ DryRunRefused(c)
    \/ Publish(c)
    \/ RecordProposed(c)

Deciding(d) ==
    \/ RecordRejected(d)
    \/ RecordApproved(d)
    \/ OpenSession(d)
    \/ ExecuteGet(d)
    \/ ExecuteWrite(d)
    \/ ExecuteRefused(d)
    \/ Finish(d)
    \/ RecordApplied(d)
    \/ Fail(d)
    \/ RecordFailed(d)

GateNext ==
    \/ \E c \in Changes : StartPropose(c) \/ Proposing(c)
    \/ \E d \in Deciders : Deciding(d) \/ \E c \in Changes : Decide(d, c)
    \/ \E o \in Objects : Edit(o)
    \/ Crash

GateSpec == GateInit /\ [][GateNext]_gateVars

\* The Go scheduler runs every goroutine, appends return, and an API call ends
\* by the deadline that dryRun and execute put on it.  Nobody has to propose,
\* to decide or to edit.
GateFairness ==
    /\ \A c \in Changes : WF_gateVars(Proposing(c))
    /\ \A d \in Deciders : WF_gateVars(Deciding(d))

GateFairSpec == GateSpec /\ GateFairness
-----------------------------------------------------------------------------
(* Properties.                                                             *)

Statuses ==
    {"none", "pending", "approved", "rejected", "applied", "failed", "gone"}

ProposeStates ==
    {Idle, "dryRun", "publish", "record", "returned", "unrecorded", "refused",
     "stopped"}

CallStates ==
    {Idle, "recordRejected", "recordApproved", "session", "get", "write",
     "finish", "recordApplied", "fail", "recordFailed"}

Call == [at : CallStates, id : Changes \cup {"none"}, step : Nat \ {0},
         seen : [content : Contents \cup {Absent}, rv : Nat]]

Actions == {"change.proposed", "change.approved", "change.rejected",
            "change.applied", "change.failed"}

\* Types.
GateTypeOK ==
    /\ live \in [Objects -> Contents \cup {Absent}]
    /\ rv \in [Objects -> Nat]
    /\ plan \in [Changes -> Plans \cup {<<>>}]
    /\ reviewed \in [Changes -> Seq(Contents \cup {Absent})]
    /\ status \in [Changes -> Statuses]
    /\ propose \in [Changes -> ProposeStates]
    /\ call \in [Deciders -> Call]
    /\ log \in [Changes -> Seq(Actions)]
    /\ execs \in [Changes -> Seq(Nat \ {0})]
    /\ edits \in 0 .. MaxEdits
    /\ crashes \in 0 .. MaxCrashes

Logged(c, action) == \E i \in DOMAIN log[c] : log[c][i] = action

\* "Nothing is applied until the approval is on disk": an op reached the
\* cluster only if the log holds the approval of its change, whichever appends
\* failed and wherever the engine stopped.
ApprovalOnDisk ==
    \A c \in Changes : execs[c] # <<>> => Logged(c, "change.approved")

\* Two decisions arriving together do not do the plan twice: each op reaches
\* the cluster at most once, in the order of the plan, over all Decide calls.
ExecutedOnceInOrder ==
    \A c \in Changes :
      /\ Len(execs[c]) <= Len(plan[c])
      /\ \A i \in DOMAIN execs[c] : execs[c][i] = i

\* What the log and List say of a change is true: applied means every op
\* reached the cluster, rejected means none did.
OutcomeIsTrue ==
    \A c \in Changes :
      /\ status[c] = "applied" \/ Logged(c, "change.applied") =>
           Len(execs[c]) = Len(plan[c])
      /\ status[c] = "rejected" \/ Logged(c, "change.rejected") =>
           execs[c] = <<>>

Decisions == {"change.approved", "change.rejected"}
Outcomes == {"change.applied", "change.failed"}

\* The log tells one story per change: one decision and one outcome at most,
\* the outcome after the decision, none after a rejection.  (The entry of the
\* proposal may come anywhere: Decide does not wait for it.)
OneStory ==
    \A c \in Changes : \A i, j \in DOMAIN log[c] :
      i < j =>
        /\ log[c][i] \in Outcomes => log[c][j] = "change.proposed"
        /\ log[c][i] \in Decisions => log[c][j] \notin Decisions
        /\ log[c][i] = "change.rejected" => log[c][j] = "change.proposed"

\* "Carrying the version from that same read closes the remaining gap": an
\* apply never overwrites, or creates over, content other than the one that
\* was reviewed, whoever wrote in the meantime.
ApplyHitsReviewed ==
    [][\A c \in Changes :
         LET i == Len(execs[c]) + 1
         IN  Len(execs'[c]) = i /\ plan[c][i].op = "apply" =>
               live[plan[c][i].obj] = reviewed[c][i]]_gateVars

\* A change the caller was told is not held is not there to be decided
\* ("refusing to hold an unrecorded change").
UnrecordedIsNotHeld ==
    \A c \in Changes : propose[c] = "unrecorded" => status[c] # "pending"

\* "Success or failure is recorded": while appends work, an approved change
\* gets its outcome in the log, unless the engine stops first.
OutcomeRecorded ==
    \A c \in Changes :
      status[c] = "approved" ~>
        \/ Logged(c, "change.applied")
        \/ Logged(c, "change.failed")
        \/ status[c] = "gone"

\* The gate implements the life of a change that security.md describes, with
\* any number of Decide calls under way.
Lifecycle == INSTANCE ChangeLifecycle WITH
    stage <- status,
    size <- [c \in Changes |-> Len(plan[c])],
    onRecord <- [c \in Changes |-> Logged(c, "change.approved")],
    carried <- [c \in Changes |-> Len(execs[c])]

ImplementsLifecycle == Lifecycle!Spec
=============================================================================
