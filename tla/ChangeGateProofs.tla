-------------------------- MODULE ChangeGateProofs --------------------------
(***************************************************************************)
(* Proofs about ChangeGate, for any number of changes, deciders, objects,  *)
(* plans and faults.                                                       *)
(*                                                                         *)
(* The argument: the status of a change tells which Decide call, if any,   *)
(* works on it (CallInv), so at most one call does; the call's own step    *)
(* counts what reached the cluster (ExecInv); it gets past the approval    *)
(* only with the approval in the log (LogInv); and what it read is still   *)
(* there when the version it read is (SeenInv).                            *)
(***************************************************************************)
EXTENDS ChangeGate, TLAPS

\* A change is held only with a plan, and with one reviewed object per op.
ProposalInv ==
    \A c \in Changes :
      /\ propose[c] \in {Idle, "dryRun", "publish", "refused"} =>
           status[c] = "none"
      /\ propose[c] = Idle => plan[c] = <<>> /\ reviewed[c] = <<>>
      /\ propose[c] = "dryRun" => Len(reviewed[c]) < Len(plan[c])
      /\ propose[c] = "publish" \/ status[c] # "none" =>
           Len(reviewed[c]) = Len(plan[c]) /\ Len(plan[c]) > 0

StatusAt(at) ==
    IF at = "recordRejected" THEN "rejected"
    ELSE IF at = "recordApplied" THEN "applied"
    ELSE IF at = "recordFailed" THEN "failed"
    ELSE "approved"

\* A Decide call under way owns its change.
CallInv ==
    \A d \in Deciders : call[d].at # Idle =>
      /\ call[d].id \in Changes
      /\ status[call[d].id] = StatusAt(call[d].at)
      /\ \A e \in Deciders :
           call[e].at # Idle /\ call[e].id = call[d].id => e = d

\* What reached the cluster is what the call that owns the change has done.
ExecInv ==
    /\ \A c \in Changes :
         /\ Len(execs[c]) <= Len(plan[c])
         /\ \A i \in DOMAIN execs[c] : execs[c][i] = i
         /\ status[c] \in {"none", "pending", "rejected"} => Len(execs[c]) = 0
         /\ status[c] = "applied" => Len(execs[c]) = Len(plan[c])
    /\ \A d \in Deciders :
         /\ call[d].at \in {"recordApproved", "session"} =>
              call[d].step = 1 /\ Len(execs[call[d].id]) = 0
         /\ call[d].at \in {"get", "write"} =>
              /\ call[d].step = Len(execs[call[d].id]) + 1
              /\ call[d].step <= Len(plan[call[d].id])
         /\ call[d].at = "finish" =>
              Len(execs[call[d].id]) = Len(plan[call[d].id])

\* The log and the status agree.
LogInv ==
    /\ \A c \in Changes :
         /\ Len(execs[c]) > 0 => Logged(c, "change.approved")
         /\ Logged(c, "change.approved") =>
              status[c] \in {"approved", "applied", "failed", "gone"}
         /\ Logged(c, "change.applied") =>
              /\ status[c] \in {"applied", "gone"}
              /\ Len(execs[c]) = Len(plan[c])
         /\ Logged(c, "change.failed") => status[c] \in {"failed", "gone"}
         /\ Logged(c, "change.rejected") =>
              /\ status[c] \in {"rejected", "gone"}
              /\ Len(execs[c]) = 0
    /\ \A d \in Deciders, c \in Changes : call[d].id = c =>
         /\ call[d].at \in {"recordApproved", "recordRejected"} =>
              ~Logged(c, "change.approved") /\ ~Logged(c, "change.rejected")
         /\ call[d].at \in {"recordApplied", "recordFailed"} =>
              ~Logged(c, "change.applied") /\ ~Logged(c, "change.failed")
         /\ call[d].at \in {"session", "get", "write", "finish"} =>
              Logged(c, "change.approved")

\* The object a call is about to write is the reviewed one while its version
\* is the one the call read.
SeenInv ==
    \A d \in Deciders : call[d].at = "write" =>
      /\ call[d].seen.content = ReviewedAt(d)
      /\ call[d].seen.rv <= rv[OpAt(d).obj]
      /\ call[d].seen.rv = rv[OpAt(d).obj] =>
           live[OpAt(d).obj] = call[d].seen.content

IInv ==
    GateTypeOK /\ ProposalInv /\ CallInv /\ ExecInv /\ LogInv /\ SeenInv /\ OneStory

-----------------------------------------------------------------------------
(* Lemmas about the helpers.                                               *)

\* Where a call is put, there it is, and the other calls stay where they are.
LEMMA PlaceFacts ==
    ASSUME GateTypeOK, NEW d \in Deciders, NEW c \in Changes \cup {"none"},
           NEW at \in CallStates, NEW step \in Nat \ {0},
           NEW seen \in [content : Contents \cup {Absent}, rv : Nat],
           Place(d, c, at, step, seen)
    PROVE  /\ call' \in [Deciders -> Call]
           /\ call'[d].at = at
           /\ call'[d].id = c
           /\ call'[d].step = step
           /\ call'[d].seen = seen
           /\ \A e \in Deciders : e # d => call'[e] = call[e]
  BY DEF GateTypeOK, Call, Place

\* A call that goes on keeps its change and its op.
LEMMA GotoFacts ==
    ASSUME GateTypeOK, NEW d \in Deciders, NEW at \in CallStates, Goto(d, at)
    PROVE  /\ call' \in [Deciders -> Call]
           /\ call'[d].at = at
           /\ call'[d].id = call[d].id
           /\ call'[d].step = call[d].step
           /\ \A e \in Deciders : e # d => call'[e] = call[e]
  <1>1. call[d].id \in Changes \cup {"none"} /\ call[d].step \in Nat \ {0}
    BY DEF GateTypeOK, Call
  <1>2. Nothing \in [content : Contents \cup {Absent}, rv : Nat]
    BY DEF Nothing
  <1>3. QED
    BY <1>1, <1>2, PlaceFacts DEF Goto

\* A call that takes a change starts at its first op.
LEMMA EnterFacts ==
    ASSUME GateTypeOK, NEW d \in Deciders, NEW c \in Changes,
           NEW at \in CallStates, Enter(d, c, at)
    PROVE  /\ call' \in [Deciders -> Call]
           /\ call'[d].at = at
           /\ call'[d].id = c
           /\ call'[d].step = 1
           /\ \A e \in Deciders : e # d => call'[e] = call[e]
  <1>1. Nothing \in [content : Contents \cup {Absent}, rv : Nat]
    BY DEF Nothing
  <1>2. QED
    BY <1>1, PlaceFacts DEF Enter

\* A call that returns is idle.
LEMMA ReturnFacts ==
    ASSUME GateTypeOK, NEW d \in Deciders, Return(d)
    PROVE  /\ call' \in [Deciders -> Call]
           /\ call'[d].at = Idle
           /\ \A e \in Deciders : e # d => call'[e] = call[e]
  BY DEF GateTypeOK, Call, Return, NoCall, Nothing, CallStates, Idle

\* An append puts one entry into the log of one change.
LEMMA RecordedFacts ==
    ASSUME GateTypeOK, NEW c \in Changes, NEW action \in Actions,
           Recorded(action, c)
    PROVE  /\ log' \in [Changes -> Seq(Actions)]
           /\ \A k \in Changes, a \in Actions :
                Logged(k, a)' <=> Logged(k, a) \/ (k = c /\ a = action)
  <1>1. log' = [log EXCEPT ![c] = Append(log[c], action)]
    BY DEF Recorded
  <1>2. log \in [Changes -> Seq(Actions)]
    BY DEF GateTypeOK
  <1>3. log' \in [Changes -> Seq(Actions)]
    BY <1>1, <1>2
  <1>4. ASSUME NEW k \in Changes, NEW a \in Actions
        PROVE  Logged(k, a)' <=> Logged(k, a) \/ (k = c /\ a = action)
    <2>1. CASE k # c
      BY <2>1, <1>1, <1>2 DEF Logged
    <2>2. CASE k = c
      <3>1. /\ log'[k] = Append(log[k], action)
            /\ log[k] \in Seq(Actions)
        BY <2>2, <1>1, <1>2
      <3>2. /\ DOMAIN log'[k] = 1 .. Len(log[k]) + 1
            /\ DOMAIN log[k] = 1 .. Len(log[k])
            /\ \A i \in 1 .. Len(log[k]) : log'[k][i] = log[k][i]
            /\ log'[k][Len(log[k]) + 1] = action
            /\ Len(log[k]) \in Nat
        BY <3>1
      <3>3. QED
        BY <3>2, <2>2 DEF Logged
    <2>3. QED
      BY <2>1, <2>2
  <1>5. QED
    BY <1>3, <1>4

\* An append that fails leaves one entry or none.
LEMMA RecordFailsFacts ==
    ASSUME GateTypeOK, NEW c \in Changes, NEW action \in Actions,
           RecordFails(action, c)
    PROVE  /\ log' \in [Changes -> Seq(Actions)]
           /\ \A k \in Changes, a \in Actions :
                /\ Logged(k, a) => Logged(k, a)'
                /\ Logged(k, a)' => Logged(k, a) \/ (k = c /\ a = action)
  <1>1. CASE UNCHANGED log
    BY <1>1 DEF GateTypeOK, Logged
  <1>2. CASE Recorded(action, c)
    BY <1>2, RecordedFacts
  <1>3. QED
    BY <1>1, <1>2 DEF RecordFails

\* The log of a change stays one story when its next entry fits.
LEMMA StoryGrows ==
    ASSUME GateTypeOK, OneStory, NEW c \in Changes, NEW action \in Actions,
           Recorded(action, c) \/ RecordFails(action, c),
           action # "change.proposed" =>
             /\ ~Logged(c, "change.applied")
             /\ ~Logged(c, "change.failed")
             /\ ~Logged(c, "change.rejected"),
           action \in Decisions => ~Logged(c, "change.approved")
    PROVE  OneStory'
  <1>1. CASE UNCHANGED log
    BY <1>1 DEF OneStory
  <1>2. CASE Recorded(action, c)
    <2>1. log' = [log EXCEPT ![c] = Append(log[c], action)]
      BY <1>2 DEF Recorded
    <2>2. log \in [Changes -> Seq(Actions)]
      BY DEF GateTypeOK
    <2>3. SUFFICES ASSUME NEW k \in Changes,
                          NEW i \in DOMAIN log'[k], NEW j \in DOMAIN log'[k],
                          i < j
                   PROVE  /\ log'[k][i] \in Outcomes =>
                               log'[k][j] = "change.proposed"
                          /\ log'[k][i] \in Decisions =>
                               log'[k][j] \notin Decisions
                          /\ log'[k][i] = "change.rejected" =>
                               log'[k][j] = "change.proposed"
      BY DEF OneStory
    <2>4. CASE k # c
      BY <2>1, <2>2, <2>4, <2>3 DEF OneStory
    <2>5. CASE k = c
      <3>1. /\ log'[k] = Append(log[k], action)
            /\ log[k] \in Seq(Actions)
        BY <2>5, <2>1, <2>2
      <3>2. /\ DOMAIN log'[k] = 1 .. Len(log[k]) + 1
            /\ DOMAIN log[k] = 1 .. Len(log[k])
            /\ \A n \in 1 .. Len(log[k]) : log'[k][n] = log[k][n]
            /\ log'[k][Len(log[k]) + 1] = action
            /\ Len(log[k]) \in Nat
        BY <3>1
      <3>3. i \in DOMAIN log[k] /\ log'[k][i] = log[k][i]
        BY <3>2, <2>3
      <3>4. CASE j \in DOMAIN log[k]
        BY <3>2, <3>3, <3>4, <2>3 DEF OneStory
      <3>5. CASE j = Len(log[k]) + 1
        <4>1. log'[k][j] = action
          BY <3>2, <3>5
        <4>2. action # "change.proposed" =>
                log[k][i] \notin {"change.applied", "change.failed",
                                  "change.rejected"}
          BY <3>3, <2>5 DEF Logged
        <4>3. action \in Decisions => log[k][i] # "change.approved"
          BY <3>3, <2>5 DEF Logged
        <4>4. action \in Decisions => action # "change.proposed"
          BY DEF Decisions
        <4>5. QED
          BY <4>1, <4>2, <4>3, <4>4, <3>3 DEF Decisions, Outcomes
      <3>6. QED
        BY <3>2, <3>4, <3>5
    <2>6. QED
      BY <2>4, <2>5
  <1>3. QED
    BY <1>1, <1>2 DEF RecordFails

\* An op of a plan is an op, and its object an object.
LEMMA PlanFacts ==
    ASSUME GateTypeOK, NEW c \in Changes
    PROVE  /\ plan[c] \in Seq(Op)
           /\ \A i \in 1 .. Len(plan[c]) :
                plan[c][i] \in Op /\ plan[c][i].obj \in Objects
  <1>1. plan[c] \in Seq(Op)
    <2>1. plan[c] \in Plans \cup {<<>>}
      BY DEF GateTypeOK
    <2>2. <<>> \in Seq(Op)
      OBVIOUS
    <2>3. QED
      BY <2>1, <2>2, PlansAssumption
  <1>2. ASSUME NEW i \in 1 .. Len(plan[c])
        PROVE  plan[c][i] \in Op /\ plan[c][i].obj \in Objects
    <2>1. plan[c][i] \in Op
      BY <1>1
    <2>2. QED
      BY <2>1 DEF Op
  <1>3. QED
    BY <1>1, <1>2

\* The change of a call under way was published, so its plan and what was
\* reviewed for it stay.
LEMMA OwnedFacts ==
    ASSUME GateTypeOK, ProposalInv, CallInv, NEW d \in Deciders, call[d].at # Idle
    PROVE  /\ call[d].id \in Changes
           /\ propose[call[d].id] \notin {Idle, "dryRun", "publish", "refused"}
           /\ status[call[d].id] \notin {"none", "pending", "gone"}
           /\ Len(reviewed[call[d].id]) = Len(plan[call[d].id])
           /\ Len(plan[call[d].id]) > 0
  BY DEF GateTypeOK, ProposalInv, CallInv, StatusAt

\* A call moves on, or returns, and the status of its change follows it.
LEMMA CallMoves ==
    ASSUME GateTypeOK, CallInv, NEW d \in Deciders, call[d].at # Idle,
           \A e \in Deciders : e # d => call'[e] = call[e],
           \/ call'[d].at = Idle
           \/ call'[d].id = call[d].id /\
              status'[call[d].id] = StatusAt(call'[d].at),
           \A c \in Changes : c # call[d].id => status'[c] = status[c]
    PROVE  CallInv'
  <1> SUFFICES ASSUME NEW e \in Deciders, call'[e].at # Idle
               PROVE  /\ call'[e].id \in Changes
                      /\ status'[call'[e].id] = StatusAt(call'[e].at)
                      /\ \A b \in Deciders :
                           call'[b].at # Idle /\ call'[b].id = call'[e].id
                             => b = e
    BY DEF CallInv, StatusAt, Idle
  <1>1. CASE e = d
    BY <1>1 DEF CallInv
  <1>2. CASE e # d
    BY <1>2 DEF CallInv
  <1>3. QED
    BY <1>1, <1>2

\* The object of the op a call is at is one of the cluster's.
LEMMA WritingFacts ==
    ASSUME GateTypeOK, ProposalInv, CallInv, ExecInv,
           NEW d \in Deciders, call[d].at \in {"get", "write"}
    PROVE  OpAt(d) \in Op /\ OpAt(d).obj \in Objects
  <1>1. call[d].id \in Changes
    BY OwnedFacts DEF Idle
  <1>2. /\ call[d].step \in Nat \ {0}
        /\ call[d].step <= Len(plan[call[d].id])
        /\ plan[call[d].id] \in Seq(Op)
    BY <1>1, PlanFacts DEF GateTypeOK, Call, ExecInv
  <1>3. QED
    BY <1>1, <1>2, PlanFacts DEF OpAt

-----------------------------------------------------------------------------
(* Steps of Propose.                                                       *)

\* A plan is chosen while nobody holds the change.
LEMMA StartProposeStep ==
    ASSUME IInv, NEW c \in Changes, StartPropose(c)
    PROVE  IInv'
  <1> USE DEF IInv, StartPropose, cluster
  <1>1. \A e \in Deciders : call[e].at # Idle =>
          call[e].id \in Changes \ {c}
    BY OwnedFacts
  <1>2. \A k \in Changes, a \in Actions : Logged(k, a)' <=> Logged(k, a)
    BY DEF Logged
  <1>3. GateTypeOK'
    BY DEF GateTypeOK, ProposeStates
  <1>4. ProposalInv'
    BY DEF GateTypeOK, ProposalInv, Idle
  <1>5. CallInv'
    BY DEF CallInv
  <1>6. ExecInv'
    BY <1>1 DEF GateTypeOK, ProposalInv, ExecInv, Idle
  <1>7. LogInv'
    BY <1>1, <1>2 DEF GateTypeOK, ProposalInv, LogInv, Actions, Idle
  <1>8. SeenInv'
    <2>1. \A k \in Changes : k # c => plan'[k] = plan[k]
      BY DEF GateTypeOK
    <2>2. \A e \in Deciders : call[e].at = "write" =>
            OpAt(e)' = OpAt(e) /\ ReviewedAt(e)' = ReviewedAt(e)
      BY <1>1, <2>1 DEF OpAt, ReviewedAt, Idle
    <2>3. QED
      BY <2>2 DEF SeenInv
  <1>9. OneStory'
    BY DEF OneStory
  <1>10. QED
    BY <1>3, <1>4, <1>5, <1>6, <1>7, <1>8, <1>9

\* One more object is reviewed; no call looks at it yet.
LEMMA DryRunStep ==
    ASSUME IInv, NEW c \in Changes, DryRun(c)
    PROVE  IInv'
  <1> USE DEF IInv, DryRun, cluster
  <1>1. \A e \in Deciders : call[e].at # Idle =>
          call[e].id \in Changes \ {c}
    BY OwnedFacts
  <1>2. \A k \in Changes, a \in Actions : Logged(k, a)' <=> Logged(k, a)
    BY DEF Logged
  <1>3. GateTypeOK'
    <2>1. reviewed' \in [Changes -> Seq(Contents \cup {Absent})]
      <3>1. Len(reviewed[c]) + 1 \in 1 .. Len(plan[c])
        BY PlanFacts DEF GateTypeOK, ProposalInv
      <3>2. live[NextReview(c).obj] \in Contents \cup {Absent}
        BY <3>1, PlanFacts DEF GateTypeOK, NextReview
      <3>3. QED
        BY <3>2 DEF GateTypeOK
    <2>2. QED
      BY <2>1 DEF GateTypeOK, ProposeStates
  <1>4. ProposalInv'
    <2>1. /\ reviewed[c] \in Seq(Contents \cup {Absent})
          /\ plan[c] \in Seq(Op)
          /\ Len(reviewed[c]) < Len(plan[c])
      BY PlanFacts DEF GateTypeOK, ProposalInv
    <2>2. Len(reviewed'[c]) = Len(reviewed[c]) + 1
      <3>1. live[NextReview(c).obj] \in Contents \cup {Absent}
        <4>1. Len(reviewed[c]) + 1 \in 1 .. Len(plan[c])
          BY <2>1
        <4>2. QED
          BY <4>1, PlanFacts DEF GateTypeOK, NextReview
      <3>2. QED
        BY <3>1, <2>1 DEF GateTypeOK
    <2>3. \A k \in Changes : k # c =>
            reviewed'[k] = reviewed[k] /\ propose'[k] = propose[k]
      BY DEF GateTypeOK
    <2>4. QED
      BY <2>1, <2>2, <2>3 DEF GateTypeOK, ProposalInv, Idle
  <1>5. CallInv'
    BY DEF CallInv
  <1>6. ExecInv'
    BY DEF ExecInv
  <1>7. LogInv'
    BY <1>2 DEF LogInv, Actions
  <1>8. SeenInv'
    BY <1>1 DEF GateTypeOK, SeenInv, OpAt, ReviewedAt, Idle
  <1>9. OneStory'
    BY DEF OneStory
  <1>10. QED
    BY <1>3, <1>4, <1>5, <1>6, <1>7, <1>8, <1>9

\* A refused proposal leaves no change behind.
LEMMA DryRunRefusedStep ==
    ASSUME IInv, NEW c \in Changes, DryRunRefused(c)
    PROVE  IInv'
  <1> USE DEF IInv, DryRunRefused, cluster
  <1>1. \A k \in Changes, a \in Actions : Logged(k, a)' <=> Logged(k, a)
    BY DEF Logged
  <1>2. GateTypeOK'
    BY DEF GateTypeOK, ProposeStates
  <1>3. ProposalInv'
    BY DEF GateTypeOK, ProposalInv, Idle
  <1>4. CallInv'
    BY DEF CallInv
  <1>5. ExecInv'
    BY DEF ExecInv
  <1>6. LogInv'
    BY <1>1 DEF LogInv, Actions
  <1>7. SeenInv'
    BY DEF SeenInv, OpAt, ReviewedAt
  <1>8. OneStory'
    BY DEF OneStory
  <1>9. QED
    BY <1>2, <1>3, <1>4, <1>5, <1>6, <1>7, <1>8

\* The change appears, pending, and no call owns it.
LEMMA PublishStep ==
    ASSUME IInv, NEW c \in Changes, Publish(c)
    PROVE  IInv'
  <1> USE DEF IInv, Publish, cluster
  <1>1. \A e \in Deciders : call[e].at # Idle =>
          call[e].id \in Changes \ {c}
    BY OwnedFacts
  <1>2. \A k \in Changes, a \in Actions : Logged(k, a)' <=> Logged(k, a)
    BY DEF Logged
  <1>3. GateTypeOK'
    BY DEF GateTypeOK, ProposeStates, Statuses
  <1>4. ProposalInv'
    BY DEF GateTypeOK, ProposalInv, Idle
  <1>5. CallInv'
    BY <1>1 DEF GateTypeOK, CallInv
  <1>6. ExecInv'
    BY <1>1 DEF GateTypeOK, ProposalInv, ExecInv, Idle
  <1>7. LogInv'
    BY <1>1, <1>2 DEF GateTypeOK, ProposalInv, LogInv, Actions, Idle
  <1>8. SeenInv'
    BY DEF SeenInv, OpAt, ReviewedAt
  <1>9. OneStory'
    BY DEF OneStory
  <1>10. QED
    BY <1>3, <1>4, <1>5, <1>6, <1>7, <1>8, <1>9

\* The entry of the proposal says nothing of decision or outcome.
LEMMA RecordProposedStep ==
    ASSUME IInv, NEW c \in Changes, RecordProposed(c)
    PROVE  IInv'
  <1> USE DEF IInv, RecordProposed, cluster
  <1>1. /\ log' \in [Changes -> Seq(Actions)]
        /\ \A k \in Changes, a \in Actions : a # "change.proposed" =>
             (Logged(k, a)' <=> Logged(k, a))
    BY RecordedFacts, RecordFailsFacts DEF Actions
  <1>2. GateTypeOK'
    BY <1>1 DEF GateTypeOK, ProposeStates
  <1>3. ProposalInv'
    BY DEF GateTypeOK, ProposalInv, Idle
  <1>4. CallInv'
    BY DEF CallInv
  <1>5. ExecInv'
    BY DEF ExecInv
  <1>6. LogInv'
    BY <1>1, OwnedFacts DEF LogInv, Actions, Idle
  <1>7. SeenInv'
    BY DEF SeenInv, OpAt, ReviewedAt
  <1>8. OneStory'
    BY StoryGrows DEF Actions, Decisions
  <1>9. QED
    BY <1>2, <1>3, <1>4, <1>5, <1>6, <1>7, <1>8

-----------------------------------------------------------------------------
(* Steps of Decide.                                                        *)

\* The call takes a change nobody owns.
LEMMA DecideStep ==
    ASSUME IInv, NEW d \in Deciders, NEW c \in Changes, Decide(d, c)
    PROVE  IInv'
  <1> USE DEF IInv, Decide, cluster, proposal
  <1>1. \A e \in Deciders : call[e].at # Idle =>
          call[e].id \in Changes \ {c}
    BY OwnedFacts
  <1>2. /\ call' \in [Deciders -> Call]
        /\ call'[d].id = c
        /\ call'[d].step = 1
        /\ \A e \in Deciders : e # d => call'[e] = call[e]
        /\ \/ call'[d].at = "recordApproved" /\ status'[c] = "approved"
           \/ call'[d].at = "recordRejected" /\ status'[c] = "rejected"
        /\ \A k \in Changes : k # c => status'[k] = status[k]
    BY EnterFacts DEF GateTypeOK, CallStates
  <1>3. Len(execs[c]) = 0
    BY DEF ExecInv
  <1>4. \A k \in Changes, a \in Actions : Logged(k, a)' <=> Logged(k, a)
    BY DEF Logged
  <1>5. GateTypeOK'
    BY <1>2 DEF GateTypeOK, Statuses
  <1>6. ProposalInv'
    BY <1>2 DEF GateTypeOK, ProposalInv
  <1>7. CallInv'
    BY <1>1, <1>2 DEF CallInv, StatusAt
  <1>8. ExecInv'
    <2>1. ASSUME NEW k \in Changes
          PROVE  /\ status'[k] \in {"none", "pending", "rejected"} =>
                      Len(execs[k]) = 0
                 /\ status'[k] = "applied" => Len(execs[k]) = Len(plan[k])
      BY <1>2, <1>3 DEF ExecInv
    <2>2. QED
      BY <1>2, <1>3, <2>1 DEF ExecInv
  <1>9. LogInv'
    BY <1>1, <1>2, <1>4 DEF LogInv, Actions, Idle
  <1>10. SeenInv'
    BY <1>1, <1>2 DEF SeenInv, OpAt, ReviewedAt, Idle
  <1>11. OneStory'
    BY DEF OneStory
  <1>12. QED
    BY <1>5, <1>6, <1>7, <1>8, <1>9, <1>10, <1>11

\* Nothing but the proposal is on record for a change being rejected.
LEMMA RecordRejectedStep ==
    ASSUME IInv, NEW d \in Deciders, RecordRejected(d)
    PROVE  IInv'
  <1> USE DEF IInv, RecordRejected, cluster, proposal
  <1>1. PICK c \in Changes :
          /\ call[d].id = c
          /\ call[d].at # Idle
          /\ status[c] = StatusAt(call[d].at)
          /\ \A e \in Deciders :
               e # d /\ call[e].at # Idle => call[e].id # c
    BY OwnedFacts DEF CallInv, Idle
  <1>2. status[c] = "rejected" /\ Len(execs[c]) = 0
    BY <1>1 DEF StatusAt, ExecInv
  <1>3. /\ call' \in [Deciders -> Call]
        /\ call'[d].at = Idle
        /\ \A e \in Deciders : e # d => call'[e] = call[e]
    BY ReturnFacts
  <1>4. /\ log' \in [Changes -> Seq(Actions)]
        /\ \A k \in Changes, a \in Actions :
             /\ Logged(k, a) => Logged(k, a)'
             /\ Logged(k, a)' =>
                  Logged(k, a) \/ (k = c /\ a = "change.rejected")
    BY <1>1, RecordedFacts, RecordFailsFacts DEF Actions
  <1>5. GateTypeOK'
    BY <1>3, <1>4 DEF GateTypeOK
  <1>6. ProposalInv'
    BY DEF ProposalInv
  <1>7. CallInv'
    BY <1>1, <1>3, CallMoves
  <1>8. ExecInv'
    BY <1>3 DEF ExecInv, Idle
  <1>9. LogInv'
    BY <1>1, <1>3, <1>2, <1>4 DEF LogInv, Actions, Idle
  <1>10. SeenInv'
    BY <1>3 DEF SeenInv, OpAt, ReviewedAt, Idle
  <1>11. OneStory'
    BY <1>1, <1>2, StoryGrows DEF LogInv, Actions, Decisions
  <1>12. QED
    BY <1>5, <1>6, <1>7, <1>8, <1>9, <1>10, <1>11

\* Every op of the plan was carried out.
LEMMA RecordAppliedStep ==
    ASSUME IInv, NEW d \in Deciders, RecordApplied(d)
    PROVE  IInv'
  <1> USE DEF IInv, RecordApplied, cluster, proposal
  <1>1. PICK c \in Changes :
          /\ call[d].id = c
          /\ call[d].at # Idle
          /\ status[c] = StatusAt(call[d].at)
          /\ \A e \in Deciders :
               e # d /\ call[e].at # Idle => call[e].id # c
    BY OwnedFacts DEF CallInv, Idle
  <1>2. status[c] = "applied" /\ Len(execs[c]) = Len(plan[c])
    BY <1>1 DEF StatusAt, ExecInv
  <1>3. /\ call' \in [Deciders -> Call]
        /\ call'[d].at = Idle
        /\ \A e \in Deciders : e # d => call'[e] = call[e]
    BY ReturnFacts
  <1>4. /\ log' \in [Changes -> Seq(Actions)]
        /\ \A k \in Changes, a \in Actions :
             /\ Logged(k, a) => Logged(k, a)'
             /\ Logged(k, a)' =>
                  Logged(k, a) \/ (k = c /\ a = "change.applied")
    BY <1>1, RecordedFacts, RecordFailsFacts DEF Actions
  <1>5. GateTypeOK'
    BY <1>3, <1>4 DEF GateTypeOK
  <1>6. ProposalInv'
    BY DEF ProposalInv
  <1>7. CallInv'
    BY <1>1, <1>3, CallMoves
  <1>8. ExecInv'
    BY <1>3 DEF ExecInv, Idle
  <1>9. LogInv'
    BY <1>1, <1>3, <1>2, <1>4 DEF LogInv, Actions, Idle
  <1>10. SeenInv'
    BY <1>3 DEF SeenInv, OpAt, ReviewedAt, Idle
  <1>11. OneStory'
    BY <1>1, <1>2, StoryGrows DEF LogInv, Actions, Decisions
  <1>12. QED
    BY <1>5, <1>6, <1>7, <1>8, <1>9, <1>10, <1>11

\* A failed change has no outcome on record yet.
LEMMA RecordFailedStep ==
    ASSUME IInv, NEW d \in Deciders, RecordFailed(d)
    PROVE  IInv'
  <1> USE DEF IInv, RecordFailed, cluster, proposal
  <1>1. PICK c \in Changes :
          /\ call[d].id = c
          /\ call[d].at # Idle
          /\ status[c] = StatusAt(call[d].at)
          /\ \A e \in Deciders :
               e # d /\ call[e].at # Idle => call[e].id # c
    BY OwnedFacts DEF CallInv, Idle
  <1>2. status[c] = "failed"
    BY <1>1 DEF StatusAt
  <1>3. /\ call' \in [Deciders -> Call]
        /\ call'[d].at = Idle
        /\ \A e \in Deciders : e # d => call'[e] = call[e]
    BY ReturnFacts
  <1>4. /\ log' \in [Changes -> Seq(Actions)]
        /\ \A k \in Changes, a \in Actions :
             /\ Logged(k, a) => Logged(k, a)'
             /\ Logged(k, a)' =>
                  Logged(k, a) \/ (k = c /\ a = "change.failed")
    BY <1>1, RecordedFacts, RecordFailsFacts DEF Actions
  <1>5. GateTypeOK'
    BY <1>3, <1>4 DEF GateTypeOK
  <1>6. ProposalInv'
    BY DEF ProposalInv
  <1>7. CallInv'
    BY <1>1, <1>3, CallMoves
  <1>8. ExecInv'
    BY <1>3 DEF ExecInv, Idle
  <1>9. LogInv'
    BY <1>1, <1>3, <1>2, <1>4 DEF LogInv, Actions, Idle
  <1>10. SeenInv'
    BY <1>3 DEF SeenInv, OpAt, ReviewedAt, Idle
  <1>11. OneStory'
    BY <1>1, <1>2, StoryGrows DEF LogInv, Actions, Decisions
  <1>12. QED
    BY <1>5, <1>6, <1>7, <1>8, <1>9, <1>10, <1>11

\* The call goes on to the ops only behind its own entry.
LEMMA RecordApprovedStep ==
    ASSUME IInv, NEW d \in Deciders, RecordApproved(d)
    PROVE  IInv'
  <1> USE DEF IInv, RecordApproved, cluster, proposal
  <1>1. PICK c \in Changes :
          /\ call[d].id = c
          /\ call[d].at # Idle
          /\ status[c] = StatusAt(call[d].at)
          /\ \A e \in Deciders :
               e # d /\ call[e].at # Idle => call[e].id # c
    BY OwnedFacts DEF CallInv, Idle
  <1>2. status[c] = "approved" /\ Len(execs[c]) = 0
    BY <1>1 DEF StatusAt, ExecInv
  <1>3. /\ log' \in [Changes -> Seq(Actions)]
        /\ \A k \in Changes, a \in Actions :
             /\ Logged(k, a) => Logged(k, a)'
             /\ Logged(k, a)' =>
                  Logged(k, a) \/ (k = c /\ a = "change.approved")
    BY <1>1, RecordedFacts, RecordFailsFacts DEF Actions
  <1>4. PICK at \in {"session", "fail"} : Goto(d, at) /\
          (at = "session" => Logged(c, "change.approved")')
    <2>1. CASE Recorded("change.approved", c) /\ Goto(d, "session")
      BY <2>1, <1>1, RecordedFacts DEF Actions
    <2>2. CASE Goto(d, "fail")
      BY <2>2
    <2>3. QED
      BY <1>1, <2>1, <2>2
  <1>5. /\ call' \in [Deciders -> Call]
        /\ call'[d].at = at
        /\ call'[d].id = call[d].id
        /\ call'[d].step = call[d].step
        /\ \A e \in Deciders : e # d => call'[e] = call[e]
    BY <1>4, GotoFacts DEF CallStates
  <1>6. GateTypeOK'
    BY <1>5, <1>3 DEF GateTypeOK
  <1>7. ProposalInv'
    BY DEF ProposalInv
  <1>8. CallInv'
    BY <1>1, <1>5, <1>4, CallMoves DEF StatusAt
  <1>9. ExecInv'
    BY <1>1, <1>5, <1>4 DEF ExecInv
  <1>10. LogInv'
    <2>1. ASSUME NEW k \in Changes, k # c, NEW a \in Actions
          PROVE  Logged(k, a)' <=> Logged(k, a)
      BY <1>3, <2>1
    <2>2. ASSUME NEW a \in Actions, a # "change.approved"
          PROVE  Logged(c, a)' <=> Logged(c, a)
      BY <1>3, <2>2
    <2>3. \A e \in Deciders : call'[e].id = c /\ e # d => call'[e].at = Idle
      BY <1>1, <1>5
    <2>4. QED
      BY <1>1, <1>5, <1>2, <1>4, <2>1, <2>2, <2>3 DEF LogInv, Actions, Idle
  <1>11. SeenInv'
    BY <1>5, <1>4 DEF SeenInv, OpAt, ReviewedAt
  <1>12. OneStory'
    BY <1>1, <1>2, StoryGrows DEF LogInv, Actions, Decisions
  <1>13. QED
    BY <1>6, <1>7, <1>8, <1>9, <1>10, <1>11, <1>12

\* The first op is next: nothing has reached the cluster.
LEMMA OpenSessionStep ==
    ASSUME IInv, NEW d \in Deciders, OpenSession(d)
    PROVE  IInv'
  <1> USE DEF IInv, OpenSession, cluster, proposal
  <1>1. PICK c \in Changes :
          /\ call[d].id = c
          /\ call[d].at # Idle
          /\ status[c] = StatusAt(call[d].at)
          /\ \A e \in Deciders :
               e # d /\ call[e].at # Idle => call[e].id # c
    BY OwnedFacts DEF CallInv, Idle
  <1>2. PICK at \in {"get", "fail"} : Goto(d, at)
    OBVIOUS
  <1>3. /\ call' \in [Deciders -> Call]
        /\ call'[d].at = at
        /\ call'[d].id = call[d].id
        /\ call'[d].step = call[d].step
        /\ \A e \in Deciders : e # d => call'[e] = call[e]
    BY <1>2, GotoFacts DEF CallStates
  <1>4. \A k \in Changes, a \in Actions : Logged(k, a)' <=> Logged(k, a)
    BY DEF Logged
  <1>5. GateTypeOK'
    BY <1>3 DEF GateTypeOK
  <1>6. ProposalInv'
    BY DEF ProposalInv
  <1>7. CallInv'
    BY <1>1, <1>3, <1>2, CallMoves DEF StatusAt
  <1>8. ExecInv'
    BY <1>1, <1>3, <1>2, OwnedFacts DEF ExecInv
  <1>9. LogInv'
    BY <1>1, <1>3, <1>2, <1>4 DEF LogInv, Actions
  <1>10. SeenInv'
    BY <1>3, <1>2 DEF SeenInv, OpAt, ReviewedAt
  <1>11. OneStory'
    BY DEF OneStory
  <1>12. QED
    BY <1>5, <1>6, <1>7, <1>8, <1>9, <1>10, <1>11

\* A refused op has no effect.
LEMMA ExecuteRefusedStep ==
    ASSUME IInv, NEW d \in Deciders, ExecuteRefused(d)
    PROVE  IInv'
  <1> USE DEF IInv, ExecuteRefused, cluster, proposal
  <1>1. PICK c \in Changes :
          /\ call[d].id = c
          /\ call[d].at # Idle
          /\ status[c] = StatusAt(call[d].at)
          /\ \A e \in Deciders :
               e # d /\ call[e].at # Idle => call[e].id # c
    BY OwnedFacts DEF CallInv, Idle
  <1>2. PICK at \in {"fail"} : Goto(d, at)
    OBVIOUS
  <1>3. /\ call' \in [Deciders -> Call]
        /\ call'[d].at = at
        /\ call'[d].id = call[d].id
        /\ call'[d].step = call[d].step
        /\ \A e \in Deciders : e # d => call'[e] = call[e]
    BY <1>2, GotoFacts DEF CallStates
  <1>4. \A k \in Changes, a \in Actions : Logged(k, a)' <=> Logged(k, a)
    BY DEF Logged
  <1>5. GateTypeOK'
    BY <1>3 DEF GateTypeOK
  <1>6. ProposalInv'
    BY DEF ProposalInv
  <1>7. CallInv'
    BY <1>1, <1>3, <1>2, CallMoves DEF StatusAt
  <1>8. ExecInv'
    BY <1>1, <1>3, <1>2 DEF ExecInv
  <1>9. LogInv'
    BY <1>1, <1>3, <1>2, <1>4 DEF LogInv, Actions
  <1>10. SeenInv'
    BY <1>3, <1>2 DEF SeenInv, OpAt, ReviewedAt
  <1>11. OneStory'
    BY DEF OneStory
  <1>12. QED
    BY <1>5, <1>6, <1>7, <1>8, <1>9, <1>10, <1>11

\* Every op reached the cluster.
LEMMA FinishStep ==
    ASSUME IInv, NEW d \in Deciders, Finish(d)
    PROVE  IInv'
  <1> USE DEF IInv, Finish, cluster, proposal
  <1>1. PICK c \in Changes :
          /\ call[d].id = c
          /\ call[d].at # Idle
          /\ status[c] = StatusAt(call[d].at)
          /\ \A e \in Deciders :
               e # d /\ call[e].at # Idle => call[e].id # c
    BY OwnedFacts DEF CallInv, Idle
  <1>2. PICK at \in {"recordApplied"} : Goto(d, at)
    OBVIOUS
  <1>3. /\ call' \in [Deciders -> Call]
        /\ call'[d].at = at
        /\ call'[d].id = call[d].id
        /\ call'[d].step = call[d].step
        /\ \A e \in Deciders : e # d => call'[e] = call[e]
    BY <1>2, GotoFacts DEF CallStates
  <1>4. /\ status'[c] = "applied"
        /\ \A k \in Changes : k # c => status'[k] = status[k]
    BY <1>1 DEF GateTypeOK
  <1>5. \A k \in Changes, a \in Actions : Logged(k, a)' <=> Logged(k, a)
    BY DEF Logged
  <1>6. GateTypeOK'
    BY <1>1, <1>3 DEF GateTypeOK, Statuses
  <1>7. ProposalInv'
    BY <1>1, OwnedFacts DEF GateTypeOK, ProposalInv
  <1>8. CallInv'
    BY <1>1, <1>3, <1>2, <1>4, CallMoves DEF StatusAt
  <1>9. ExecInv'
    BY <1>1, <1>3, <1>2, <1>4 DEF ExecInv
  <1>10. LogInv'
    BY <1>1, <1>3, <1>2, <1>4, <1>5 DEF LogInv, StatusAt, Actions
  <1>11. SeenInv'
    BY <1>3, <1>2 DEF SeenInv, OpAt, ReviewedAt
  <1>12. OneStory'
    BY DEF OneStory
  <1>13. QED
    BY <1>6, <1>7, <1>8, <1>9, <1>10, <1>11, <1>12

\* An approved change fails; what was done stays done.
LEMMA FailStep ==
    ASSUME IInv, NEW d \in Deciders, Fail(d)
    PROVE  IInv'
  <1> USE DEF IInv, Fail, cluster, proposal
  <1>1. PICK c \in Changes :
          /\ call[d].id = c
          /\ call[d].at # Idle
          /\ status[c] = StatusAt(call[d].at)
          /\ \A e \in Deciders :
               e # d /\ call[e].at # Idle => call[e].id # c
    BY OwnedFacts DEF CallInv, Idle
  <1>2. PICK at \in {"recordFailed"} : Goto(d, at)
    OBVIOUS
  <1>3. /\ call' \in [Deciders -> Call]
        /\ call'[d].at = at
        /\ call'[d].id = call[d].id
        /\ call'[d].step = call[d].step
        /\ \A e \in Deciders : e # d => call'[e] = call[e]
    BY <1>2, GotoFacts DEF CallStates
  <1>4. /\ status'[c] = "failed"
        /\ \A k \in Changes : k # c => status'[k] = status[k]
    BY <1>1 DEF GateTypeOK
  <1>5. \A k \in Changes, a \in Actions : Logged(k, a)' <=> Logged(k, a)
    BY DEF Logged
  <1>6. GateTypeOK'
    BY <1>1, <1>3 DEF GateTypeOK, Statuses
  <1>7. ProposalInv'
    BY <1>1, OwnedFacts DEF GateTypeOK, ProposalInv
  <1>8. CallInv'
    BY <1>1, <1>3, <1>2, <1>4, CallMoves DEF StatusAt
  <1>9. ExecInv'
    BY <1>1, <1>3, <1>2, <1>4 DEF ExecInv
  <1>10. LogInv'
    BY <1>1, <1>3, <1>2, <1>4, <1>5 DEF LogInv, StatusAt, Actions
  <1>11. SeenInv'
    BY <1>3, <1>2 DEF SeenInv, OpAt, ReviewedAt
  <1>12. OneStory'
    BY DEF OneStory
  <1>13. QED
    BY <1>6, <1>7, <1>8, <1>9, <1>10, <1>11, <1>12

\* What the call keeps of the object is the object, and was reviewed.
LEMMA ExecuteGetStep ==
    ASSUME IInv, NEW d \in Deciders, ExecuteGet(d)
    PROVE  IInv'
  <1> USE DEF IInv, cluster, proposal
  <1>1. PICK c \in Changes :
          /\ call[d].id = c
          /\ call[d].at # Idle
          /\ status[c] = StatusAt(call[d].at)
          /\ \A e \in Deciders :
               e # d /\ call[e].at # Idle => call[e].id # c
    BY OwnedFacts DEF CallInv, ExecuteGet, Idle
  <1>2. /\ OpAt(d) = plan[c][call[d].step]
        /\ ReviewedAt(d) = reviewed[c][call[d].step]
        /\ call[d].step = Len(execs[c]) + 1
        /\ call[d].step \in 1 .. Len(plan[c])
        /\ OpAt(d) \in Op /\ OpAt(d).obj \in Objects
    <2>1. /\ call[d].step = Len(execs[c]) + 1
          /\ call[d].step \in 1 .. Len(plan[c])
      BY <1>1 DEF GateTypeOK, ExecInv, ExecuteGet
    <2>2. QED
      BY <1>1, <2>1, PlanFacts DEF OpAt, ReviewedAt
  <1>3. UNCHANGED <<cluster, proposal, status, log, execs, crashes>>
    BY DEF ExecuteGet
  <1>4. /\ call[d].at = "get"
        /\ call' \in [Deciders -> Call]
        /\ \/ /\ call'[d].at = "write"
              /\ call'[d].seen.content = live[OpAt(d).obj]
              /\ call'[d].seen.content = ReviewedAt(d)
              /\ call'[d].seen.rv = rv[OpAt(d).obj]
           \/ call'[d].at = "fail"
        /\ call'[d].id = call[d].id
        /\ call'[d].step = call[d].step
        /\ \A e \in Deciders : e # d => call'[e] = call[e]
    <2>1. CASE Goto(d, "fail")
      BY <2>1, GotoFacts DEF CallStates, ExecuteGet
    <2>2. CASE /\ live[OpAt(d).obj] = ReviewedAt(d)
               /\ Place(d, call[d].id, "write", call[d].step,
                        [content |-> live[OpAt(d).obj], rv |-> rv[OpAt(d).obj]])
      <3>1. [content |-> live[OpAt(d).obj], rv |-> rv[OpAt(d).obj]]
              \in [content : Contents \cup {Absent}, rv : Nat]
        BY <1>2 DEF GateTypeOK
      <3>2. call[d].id \in Changes /\ call[d].step \in Nat \ {0}
        BY <1>1, <1>2
      <3>3. call[d].at = "get"
        BY DEF ExecuteGet
      <3>4. QED
        BY <2>2, <3>1, <3>2, <3>3, PlaceFacts DEF CallStates
    <2>3. QED
      BY <2>1, <2>2 DEF ExecuteGet
  <1>5. \A k \in Changes, a \in Actions : Logged(k, a)' <=> Logged(k, a)
    BY <1>3 DEF Logged
  <1>6. GateTypeOK'
    BY <1>3, <1>4 DEF GateTypeOK
  <1>7. ProposalInv'
    BY <1>3 DEF ProposalInv
  <1>8. CallInv'
    BY <1>3, <1>1, <1>4, CallMoves DEF StatusAt
  <1>9. ExecInv'
    BY <1>3, <1>1, <1>4 DEF ExecInv
  <1>10. LogInv'
    BY <1>3, <1>1, <1>4, <1>5 DEF LogInv, Actions
  <1>11. SeenInv'
    <2>1. \A e \in Deciders :
            e # d => OpAt(e)' = OpAt(e) /\ ReviewedAt(e)' = ReviewedAt(e)
      BY <1>3, <1>4 DEF OpAt, ReviewedAt
    <2>2. OpAt(d)' = OpAt(d) /\ ReviewedAt(d)' = ReviewedAt(d)
      BY <1>3, <1>4 DEF OpAt, ReviewedAt
    <2>3. rv[OpAt(d).obj] \in Nat
      BY <1>2 DEF GateTypeOK
    <2>4. QED
      BY <1>3, <1>4, <2>1, <2>2, <2>3 DEF SeenInv
  <1>12. OneStory'
    BY <1>3 DEF OneStory
  <1>13. QED
    BY <1>6, <1>7, <1>8, <1>9, <1>10, <1>11, <1>12

\* The op the call is at reaches the cluster, and the version of its object
\* grows, so what other calls have read of that object is out of date.
LEMMA ExecuteWriteStep ==
    ASSUME IInv, NEW d \in Deciders, ExecuteWrite(d)
    PROVE  IInv'
  <1> USE DEF IInv, cluster, proposal
  <1>1. PICK c \in Changes :
          /\ call[d].id = c
          /\ call[d].at # Idle
          /\ status[c] = StatusAt(call[d].at)
          /\ \A e \in Deciders :
               e # d /\ call[e].at # Idle => call[e].id # c
    BY OwnedFacts DEF CallInv, ExecuteWrite, Idle
  <1>2. /\ OpAt(d) = plan[c][call[d].step]
        /\ ReviewedAt(d) = reviewed[c][call[d].step]
        /\ call[d].step = Len(execs[c]) + 1
        /\ call[d].step \in 1 .. Len(plan[c])
        /\ OpAt(d) \in Op /\ OpAt(d).obj \in Objects
    <2>1. /\ call[d].step = Len(execs[c]) + 1
          /\ call[d].step \in 1 .. Len(plan[c])
      BY <1>1 DEF GateTypeOK, ExecInv, ExecuteWrite
    <2>2. QED
      BY <1>1, <2>1, PlanFacts DEF OpAt, ReviewedAt
  <1>3. /\ Accepted(OpAt(d), call[d].seen)
        /\ live' = [live EXCEPT ![OpAt(d).obj] =
                                 Outcome(OpAt(d), live[OpAt(d).obj])]
        /\ rv' = [rv EXCEPT ![OpAt(d).obj] = rv[OpAt(d).obj] + 1]
        /\ execs' = [execs EXCEPT ![c] = Append(execs[c], call[d].step)]
        /\ UNCHANGED <<proposal, status, log, edits, crashes>>
    BY <1>1 DEF ExecuteWrite
  <1>4. /\ execs'[c] = Append(execs[c], call[d].step)
        /\ execs[c] \in Seq(Nat \ {0})
        /\ Len(execs'[c]) = Len(execs[c]) + 1
        /\ \A k \in Changes : k # c => execs'[k] = execs[k]
    BY <1>3, <1>2 DEF GateTypeOK
  <1>5. /\ call[d].at = "write"
        /\ call' \in [Deciders -> Call]
        /\ \/ /\ call'[d].at = "get"
              /\ call[d].step # Len(plan[c])
              /\ call'[d].step = call[d].step + 1
           \/ /\ call'[d].at = "finish"
              /\ call[d].step = Len(plan[c])
           \/ call'[d].at = "fail"
        /\ call'[d].id = c
        /\ \A e \in Deciders : e # d => call'[e] = call[e]
    <2>1. CASE Goto(d, "fail")
      BY <2>1, <1>1, GotoFacts DEF CallStates, ExecuteWrite
    <2>2. CASE NextOp(d)
      <3>1. Nothing \in [content : Contents \cup {Absent}, rv : Nat]
        BY DEF Nothing
      <3>2. call[d].step + 1 \in Nat \ {0}
        BY <1>2
      <3>3. call[d].at = "write"
        BY DEF ExecuteWrite
      <3>4. PICK at \in {"get", "finish"} :
              /\ at = "get" => call[d].step # Len(plan[c])
              /\ at = "finish" => call[d].step = Len(plan[c])
              /\ Place(d, c, at, call[d].step + 1, Nothing)
        BY <2>2, <1>1 DEF NextOp
      <3>5. QED
        BY <3>1, <3>2, <3>3, <3>4, PlaceFacts DEF CallStates
    <2>3. QED
      BY <2>1, <2>2 DEF ExecuteWrite
  <1>6. \A k \in Changes, a \in Actions : Logged(k, a)' <=> Logged(k, a)
    BY <1>3 DEF Logged
  <1>7. GateTypeOK'
    <2>1. Outcome(OpAt(d), live[OpAt(d).obj]) \in Contents \cup {Absent}
      <3>1. live[OpAt(d).obj] \in Contents \cup {Absent}
        BY <1>2 DEF GateTypeOK
      <3>2. OpAt(d).op # "apply" => live[OpAt(d).obj] \in Contents
        BY <1>3, <3>1 DEF Accepted
      <3>3. OpAt(d).yaml \in Contents
        BY <1>2 DEF Op
      <3>4. QED
        BY <1>2, <3>2, <3>3, PatchedAssumption DEF Outcome
    <2>2. execs' \in [Changes -> Seq(Nat \ {0})]
      BY <1>3, <1>2 DEF GateTypeOK
    <2>3. rv' \in [Objects -> Nat]
      <3>1. rv[OpAt(d).obj] + 1 \in Nat
        BY <1>2 DEF GateTypeOK
      <3>2. QED
        BY <1>3, <3>1 DEF GateTypeOK
    <2>4. live' \in [Objects -> Contents \cup {Absent}]
      BY <1>3, <2>1 DEF GateTypeOK
    <2>5. QED
      BY <1>3, <1>5, <2>2, <2>3, <2>4 DEF GateTypeOK
  <1>8. ProposalInv'
    BY <1>3 DEF ProposalInv
  <1>9. CallInv'
    BY <1>3, <1>1, <1>5, CallMoves DEF StatusAt
  <1>10. ExecInv'
    <2>1. \A i \in DOMAIN execs'[c] : execs'[c][i] = i
      BY <1>4, <1>2 DEF GateTypeOK, ExecInv
    <2>2. ASSUME NEW k \in Changes
          PROVE  /\ Len(execs'[k]) <= Len(plan[k])
                 /\ \A i \in DOMAIN execs'[k] : execs'[k][i] = i
                 /\ status[k] \in {"none", "pending", "rejected"} =>
                      Len(execs'[k]) = 0
                 /\ status[k] = "applied" => Len(execs'[k]) = Len(plan[k])
      <3>1. CASE k = c
        BY <3>1, <2>1, <1>1, <1>5, <1>2, <1>4 DEF StatusAt
      <3>2. CASE k # c
        BY <3>2, <1>4 DEF ExecInv
      <3>3. QED
        BY <3>1, <3>2
    <2>3. ASSUME NEW e \in Deciders, e # d, call[e].at # Idle
          PROVE  execs'[call[e].id] = execs[call[e].id]
      BY <2>3, <1>1, <1>4, OwnedFacts
    <2>4. ASSUME NEW e \in Deciders
          PROVE  /\ call'[e].at \in {"recordApproved", "session"} =>
                      call'[e].step = 1 /\ Len(execs'[call'[e].id]) = 0
                 /\ call'[e].at \in {"get", "write"} =>
                      /\ call'[e].step = Len(execs'[call'[e].id]) + 1
                      /\ call'[e].step <= Len(plan[call'[e].id])
                 /\ call'[e].at = "finish" =>
                      Len(execs'[call'[e].id]) = Len(plan[call'[e].id])
      <3>1. CASE e = d
        BY <3>1, <1>1, <1>5, <1>2, <1>4 DEF GateTypeOK
      <3>2. CASE e # d
        <4>1. call'[e] = call[e]
          BY <3>2, <1>5
        <4>2. call[e].at # Idle => execs'[call[e].id] = execs[call[e].id]
          BY <3>2, <2>3
        <4>3. QED
          BY <4>1, <4>2 DEF ExecInv, Idle
      <3>3. QED
        BY <3>1, <3>2
    <2>5. QED
      BY <1>3, <2>2, <2>4 DEF ExecInv
  <1>11. LogInv'
    <2>1. Logged(c, "change.approved") /\ status[c] = "approved"
      BY <1>1, <1>5 DEF LogInv, StatusAt
    <2>2. \A k \in Changes :
            status[k] = "approved" =>
              /\ ~Logged(k, "change.applied")
              /\ ~Logged(k, "change.failed")
              /\ ~Logged(k, "change.rejected")
      BY DEF LogInv
    <2>3. \A k \in Changes : k # c => Len(execs'[k]) = Len(execs[k])
      BY <1>4
    <2>4. UNCHANGED <<status, plan>>
      BY <1>3 DEF proposal
    <2>5. QED
      BY <1>5, <1>6, <2>1, <2>2, <2>3, <2>4 DEF LogInv, Actions
  <1>12. SeenInv'
    <2>1. SUFFICES ASSUME NEW e \in Deciders, e # d, call[e].at = "write"
                   PROVE  /\ call[e].seen.content = ReviewedAt(e)
                          /\ call[e].seen.rv <= rv'[OpAt(e).obj]
                          /\ call[e].seen.rv = rv'[OpAt(e).obj] =>
                               live'[OpAt(e).obj] = call[e].seen.content
      <3>1. \A e \in Deciders :
              e # d => OpAt(e)' = OpAt(e) /\ ReviewedAt(e)' = ReviewedAt(e)
        BY <1>3, <1>5 DEF OpAt, ReviewedAt
      <3>2. QED
        BY <1>5, <3>1 DEF SeenInv
    <2>2. /\ call[e].seen.content = ReviewedAt(e)
          /\ call[e].seen.rv <= rv[OpAt(e).obj]
          /\ call[e].seen.rv = rv[OpAt(e).obj] =>
               live[OpAt(e).obj] = call[e].seen.content
      BY <2>1 DEF SeenInv
    <2>3. /\ call[e].seen.rv \in Nat
          /\ call[e].step \in Nat \ {0}
      BY DEF GateTypeOK, Call
    <2>4. OpAt(e).obj \in Objects
      BY <2>1, WritingFacts
    <2>5. CASE OpAt(e).obj = OpAt(d).obj
      <3>1. rv'[OpAt(e).obj] = rv[OpAt(e).obj] + 1 /\ rv[OpAt(e).obj] \in Nat
        BY <1>3, <1>2, <2>5 DEF GateTypeOK
      <3>2. QED
        BY <2>2, <2>3, <3>1
    <2>6. CASE OpAt(e).obj # OpAt(d).obj
      BY <1>3, <1>2, <2>2, <2>4, <2>6 DEF GateTypeOK
    <2>7. QED
      BY <2>5, <2>6
  <1>13. OneStory'
    BY <1>3 DEF OneStory
  <1>14. QED
    BY <1>7, <1>8, <1>9, <1>10, <1>11, <1>12, <1>13

-----------------------------------------------------------------------------
(* Everybody else, and the end of the engine.                              *)

\* A write by others moves the version of its object.
LEMMA EditStep ==
    ASSUME IInv, NEW o \in Objects, Edit(o)
    PROVE  IInv'
  <1> USE DEF IInv, proposal
  <1>1. UNCHANGED <<proposal, call, status, log, execs, crashes>>
    BY DEF Edit
  <1>2. /\ \A p \in Objects : p # o => live'[p] = live[p] /\ rv'[p] = rv[p]
        /\ live' \in [Objects -> Contents \cup {Absent}]
        /\ rv' \in [Objects -> Nat]
        /\ rv'[o] = rv[o] + 1
        /\ edits' \in 0 .. MaxEdits
    <2>1. PICK content \in Written \cup {live[o], Absent} :
            live' = [live EXCEPT ![o] = content]
      BY DEF Edit
    <2>2. content \in Contents \cup {Absent}
      BY <2>1, ContentsAssumption DEF GateTypeOK
    <2>3. rv' = [rv EXCEPT ![o] = rv[o] + 1] /\ edits < MaxEdits
          /\ edits' = edits + 1
      BY DEF Edit
    <2>4. rv[o] \in Nat
      BY DEF GateTypeOK
    <2>5. QED
      BY <2>1, <2>2, <2>3, <2>4, BoundsAssumption DEF GateTypeOK
  <1>3. \A k \in Changes, a \in Actions : Logged(k, a)' <=> Logged(k, a)
    BY <1>1 DEF Logged
  <1>4. GateTypeOK'
    BY <1>1, <1>2, BoundsAssumption DEF GateTypeOK
  <1>5. ProposalInv'
    BY <1>1 DEF ProposalInv
  <1>6. CallInv'
    BY <1>1 DEF CallInv
  <1>7. ExecInv'
    BY <1>1 DEF ExecInv
  <1>8. LogInv'
    BY <1>1, <1>3 DEF LogInv, Actions
  <1>9. SeenInv'
    <2>1. SUFFICES ASSUME NEW e \in Deciders, call[e].at = "write"
                   PROVE  /\ call[e].seen.content = ReviewedAt(e)
                          /\ call[e].seen.rv <= rv'[OpAt(e).obj]
                          /\ call[e].seen.rv = rv'[OpAt(e).obj] =>
                               live'[OpAt(e).obj] = call[e].seen.content
      BY <1>1 DEF SeenInv, OpAt, ReviewedAt
    <2>2. /\ call[e].seen.content = ReviewedAt(e)
          /\ call[e].seen.rv <= rv[OpAt(e).obj]
          /\ call[e].seen.rv = rv[OpAt(e).obj] =>
               live[OpAt(e).obj] = call[e].seen.content
      BY <2>1 DEF SeenInv
    <2>3. call[e].seen.rv \in Nat
      BY DEF GateTypeOK, Call
    <2>4. CASE OpAt(e).obj = o
      <3>1. rv'[o] = rv[o] + 1 /\ rv[o] \in Nat
        BY <1>2 DEF GateTypeOK
      <3>2. QED
        BY <2>2, <2>3, <2>4, <3>1
    <2>5. CASE OpAt(e).obj # o
      <3>1. OpAt(e).obj \in Objects
        BY <2>1, WritingFacts
      <3>2. QED
        BY <1>2, <2>2, <2>5, <3>1 DEF GateTypeOK
    <2>6. QED
      BY <2>4, <2>5
  <1>10. OneStory'
    BY <1>1 DEF OneStory
  <1>11. QED
    BY <1>4, <1>5, <1>6, <1>7, <1>8, <1>9, <1>10

\* Nothing is left of a call, and what is on disk and in the cluster stays.
LEMMA CrashStep ==
    ASSUME IInv, Crash
    PROVE  IInv'
  <1> USE DEF IInv, Crash, cluster
  <1>1. /\ call' \in [Deciders -> Call]
        /\ \A d \in Deciders : call'[d].at = Idle
    BY DEF NoCall, Nothing, Call, CallStates, Idle
  <1>2. \A k \in Changes, a \in Actions : Logged(k, a)' <=> Logged(k, a)
    BY DEF Logged
  <1>3. GateTypeOK'
    BY <1>1, BoundsAssumption DEF GateTypeOK, Statuses, ProposeStates, Idle
  <1>4. ProposalInv'
    BY DEF GateTypeOK, ProposalInv, Idle
  <1>5. CallInv'
    BY <1>1 DEF CallInv
  <1>6. ExecInv'
    BY <1>1 DEF GateTypeOK, ExecInv, Idle
  <1>7. LogInv'
    BY <1>1, <1>2 DEF GateTypeOK, LogInv, Actions, Idle
  <1>8. SeenInv'
    BY <1>1 DEF SeenInv, Idle
  <1>9. OneStory'
    BY DEF OneStory
  <1>10. QED
    BY <1>3, <1>4, <1>5, <1>6, <1>7, <1>8, <1>9

-----------------------------------------------------------------------------
(* The inductive invariant.                                                *)

\* The invariant holds at the start.
LEMMA InitInv == GateInit => IInv
  <1> SUFFICES ASSUME GateInit PROVE IInv
    OBVIOUS
  <1>1. GateTypeOK
    <2>1. /\ live \in [Objects -> Contents \cup {Absent}]
          /\ rv \in [Objects -> Nat]
          /\ plan \in [Changes -> Plans \cup {<<>>}]
          /\ reviewed \in [Changes -> Seq(Contents \cup {Absent})]
          /\ log \in [Changes -> Seq(Actions)]
          /\ execs \in [Changes -> Seq(Nat \ {0})]
      BY ContentsAssumption DEF GateInit
    <2>2. call \in [Deciders -> Call]
      BY DEF GateInit, NoCall, Nothing, Call, CallStates, Idle
    <2>3. /\ status \in [Changes -> Statuses]
          /\ propose \in [Changes -> ProposeStates]
          /\ edits \in 0 .. MaxEdits
          /\ crashes \in 0 .. MaxCrashes
      BY BoundsAssumption DEF GateInit, Statuses, ProposeStates, Idle
    <2>4. QED
      BY <2>1, <2>2, <2>3 DEF GateTypeOK
  <1>2. ProposalInv
    BY DEF GateInit, ProposalInv, Idle
  <1>3. \A d \in Deciders : call[d].at = Idle
    BY DEF GateInit, NoCall
  <1>4. \A c \in Changes : execs[c] = <<>> /\ plan[c] = <<>> /\ log[c] = <<>>
                             /\ status[c] = "none"
    BY DEF GateInit
  <1>5. CallInv /\ SeenInv
    BY <1>3 DEF CallInv, SeenInv, Idle
  <1>6. ExecInv
    BY <1>3, <1>4 DEF ExecInv, Idle
  <1>7. \A c \in Changes, a \in Actions : ~Logged(c, a)
    BY <1>4 DEF Logged
  <1>8. LogInv
    BY <1>3, <1>4, <1>7 DEF LogInv, Actions, Idle
  <1>9. OneStory
    BY <1>4 DEF OneStory
  <1>10. QED
    BY <1>1, <1>2, <1>5, <1>6, <1>8, <1>9 DEF IInv

\* Every step keeps it.
LEMMA NextInv == IInv /\ [GateNext]_gateVars => IInv'
  <1> SUFFICES ASSUME IInv, [GateNext]_gateVars PROVE IInv'
    OBVIOUS
  <1>1. ASSUME NEW c \in Changes, StartPropose(c) \/ Proposing(c)
        PROVE  IInv'
    BY <1>1, StartProposeStep, DryRunStep, DryRunRefusedStep, PublishStep,
       RecordProposedStep DEF Proposing
  <1>2. ASSUME NEW d \in Deciders, Deciding(d)
        PROVE  IInv'
    BY <1>2, RecordRejectedStep, RecordApprovedStep, OpenSessionStep,
       ExecuteGetStep, ExecuteWriteStep, ExecuteRefusedStep, FinishStep,
       RecordAppliedStep, FailStep, RecordFailedStep DEF Deciding
  <1>3. ASSUME NEW d \in Deciders, NEW c \in Changes, Decide(d, c)
        PROVE  IInv'
    BY <1>3, DecideStep
  <1>4. ASSUME NEW o \in Objects, Edit(o)
        PROVE  IInv'
    BY <1>4, EditStep
  <1>5. CASE Crash
    BY <1>5, CrashStep
  <1>6. CASE UNCHANGED gateVars
    BY <1>6 DEF gateVars, IInv, GateTypeOK, ProposalInv, CallInv, ExecInv, LogInv,
       Logged, SeenInv, OpAt, ReviewedAt, OneStory
  <1>7. QED
    BY <1>1, <1>2, <1>3, <1>4, <1>5, <1>6 DEF GateNext

THEOREM Invariance == GateSpec => []IInv
  BY InitInv, NextInv, PTL DEF GateSpec

-----------------------------------------------------------------------------
(* The properties, for every value of the constants.                       *)

\* Every variable keeps its type.
THEOREM Typing == GateSpec => []GateTypeOK
  <1>1. IInv => GateTypeOK
    BY DEF IInv
  <1>2. QED
    BY <1>1, Invariance, PTL

\* Whatever appends fail and wherever the engine stops, an op reached the
\* cluster only behind an approval that is in the log.
THEOREM ApprovalFirst == GateSpec => []ApprovalOnDisk
  <1>1. IInv => ApprovalOnDisk
    <2>1. SUFFICES ASSUME IInv, NEW c \in Changes, execs[c] # <<>>
                   PROVE  Logged(c, "change.approved")
      BY DEF ApprovalOnDisk
    <2>2. Len(execs[c]) > 0
      BY <2>1 DEF IInv, GateTypeOK
    <2>3. QED
      BY <2>1, <2>2 DEF IInv, LogInv
  <1>2. QED
    BY <1>1, Invariance, PTL

\* However many Decide calls run, the ops of a plan reach the cluster once
\* each, in order.
THEOREM OnceInOrder == GateSpec => []ExecutedOnceInOrder
  <1>1. IInv => ExecutedOnceInOrder
    BY DEF IInv, ExecInv, ExecutedOnceInOrder
  <1>2. QED
    BY <1>1, Invariance, PTL

\* What List and the log say of a change is what happened to the cluster.
THEOREM TrueOutcome == GateSpec => []OutcomeIsTrue
  <1>1. IInv => OutcomeIsTrue
    <2>1. SUFFICES ASSUME IInv, NEW c \in Changes
                   PROVE  /\ status[c] = "applied" \/ Logged(c, "change.applied")
                               => Len(execs[c]) = Len(plan[c])
                          /\ status[c] = "rejected" \/ Logged(c, "change.rejected")
                               => execs[c] = <<>>
      BY DEF OutcomeIsTrue
    <2>2. Len(execs[c]) = 0 => execs[c] = <<>>
      BY <2>1 DEF IInv, GateTypeOK
    <2>3. QED
      BY <2>1, <2>2 DEF IInv, ExecInv, LogInv
  <1>2. QED
    BY <1>1, Invariance, PTL

\* The log never tells two stories of one change.
THEOREM SingleStory == GateSpec => []OneStory
  <1>1. IInv => OneStory
    BY DEF IInv
  <1>2. QED
    BY <1>1, Invariance, PTL

\* An apply lands on the content that was reviewed, whoever wrote between the
\* review, the read of execute and its write.
THEOREM AppliesReviewed == GateSpec => ApplyHitsReviewed
  <1> DEFINE Hits == \A c \in Changes :
                       LET i == Len(execs[c]) + 1
                       IN  Len(execs'[c]) = i /\ plan[c][i].op = "apply" =>
                             live[plan[c][i].obj] = reviewed[c][i]
  <1>1. IInv /\ [GateNext]_gateVars => Hits
    <2>1. SUFFICES ASSUME IInv, [GateNext]_gateVars,
                          NEW c \in Changes,
                          Len(execs'[c]) = Len(execs[c]) + 1,
                          plan[c][Len(execs[c]) + 1].op = "apply"
                   PROVE  live[plan[c][Len(execs[c]) + 1].obj]
                            = reviewed[c][Len(execs[c]) + 1]
      OBVIOUS
    <2>2. execs' # execs
      BY <2>1 DEF IInv, GateTypeOK
    <2>3. PICK d \in Deciders : ExecuteWrite(d)
      BY <2>1, <2>2 DEF GateNext, gateVars, Proposing, Deciding, StartPropose, DryRun,
         DryRunRefused, Publish, RecordProposed, Decide, RecordRejected,
         RecordApproved, OpenSession, ExecuteGet, ExecuteRefused, Finish,
         RecordApplied, Fail, RecordFailed, Edit, Crash
    <2>4. /\ call[d].at = "write"
          /\ Accepted(OpAt(d), call[d].seen)
          /\ execs' = [execs EXCEPT ![call[d].id] =
                         Append(execs[call[d].id], call[d].step)]
      BY <2>3 DEF ExecuteWrite
    <2>5. call[d].id = c
      BY <2>1, <2>4 DEF IInv, GateTypeOK
    <2>6. /\ OpAt(d) = plan[c][Len(execs[c]) + 1]
          /\ ReviewedAt(d) = reviewed[c][Len(execs[c]) + 1]
      BY <2>1, <2>4, <2>5 DEF IInv, ExecInv, OpAt, ReviewedAt
    <2>7. live[OpAt(d).obj] = call[d].seen.content
      BY <2>1, <2>4, <2>6 DEF IInv, SeenInv, Accepted
    <2>8. call[d].seen.content = ReviewedAt(d)
      BY <2>1, <2>4 DEF IInv, SeenInv
    <2>9. QED
      BY <2>6, <2>7, <2>8
  <1>2. QED
    BY <1>1, Invariance, PTL DEF GateSpec, ApplyHitsReviewed

-----------------------------------------------------------------------------
(***************************************************************************)
(* The change gate implements the life of a change (ChangeLifecycle), for  *)
(* any number of changes, deciders, objects, plans and faults.             *)
(*                                                                         *)
(* StartPropose draws a plan up, Publish proposes it, Decide decides, an   *)
(* append that leaves its entry records the approval, ExecuteWrite carries *)
(* an op out, Finish and Fail conclude, Crash forgets; every other step    *)
(* leaves what the life of a change is about as it is.                     *)
(***************************************************************************)

\* What the refinement mapping makes of the log.
Approved == [c \in Changes |-> Logged(c, "change.approved")]
Sizes == [c \in Changes |-> Len(plan[c])]
Carried == [c \in Changes |-> Len(execs[c])]

\* The log says the same of every change's approval.
LEMMA SameApproved ==
    ASSUME \A c \in Changes : Logged(c, "change.approved")'
                                <=> Logged(c, "change.approved")
    PROVE  UNCHANGED Approved
  <1>1. ASSUME NEW c \in Changes
        PROVE  Logged(c, "change.approved")' = Logged(c, "change.approved")
    <2>1. /\ Logged(c, "change.approved") \in BOOLEAN
          /\ Logged(c, "change.approved")' \in BOOLEAN
      BY DEF Logged
    <2>2. QED
      BY <2>1
  <1>2. QED
    BY <1>1 DEF Approved

\* A step that touches neither status, plan, execs nor an approval's entry is
\* no step of the life of a change.
LEMMA Unseen ==
    ASSUME UNCHANGED <<status, plan, execs, Approved>>
    PROVE  UNCHANGED Lifecycle!vars
  BY DEF Lifecycle!vars, Approved

\* An entry other than an approval.
LEMMA OtherEntry ==
    ASSUME GateTypeOK, NEW c \in Changes,
           NEW action \in Actions, action # "change.approved",
           Recorded(action, c) \/ RecordFails(action, c)
    PROVE  UNCHANGED Approved
  <1>1. \A k \in Changes : Logged(k, "change.approved")'
                             <=> Logged(k, "change.approved")
    BY RecordedFacts, RecordFailsFacts DEF Actions
  <1>2. QED
    BY <1>1, SameApproved

\* A plan is drawn up.
LEMMA DraftRefines ==
    ASSUME IInv, NEW c \in Changes, StartPropose(c)
    PROVE  Lifecycle!Draft(c)
  <1>1. status[c] = "none"
    BY DEF StartPropose, IInv, ProposalInv
  <1>2. plan' \in [Changes -> Seq(Op)]
    <2>1. GateTypeOK'
      BY StartProposeStep DEF IInv
    <2>2. <<>> \in Seq(Op)
      OBVIOUS
    <2>3. QED
      BY <2>1, <2>2, PlansAssumption DEF GateTypeOK
  <1>3. \A k \in Changes : k # c => plan'[k] = plan[k]
    BY DEF StartPropose, IInv, GateTypeOK
  <1>4. Sizes' = [Sizes EXCEPT ![c] = Sizes'[c]] /\ Sizes'[c] \in Nat
    <2>1. Sizes' = [k \in Changes |-> Len(plan'[k])]
      BY DEF Sizes
    <2>2. Len(plan'[c]) \in Nat
      BY <1>2
    <2>3. QED
      BY <1>3, <2>1, <2>2 DEF Sizes
  <1>5. UNCHANGED <<status, Approved, Carried>>
    BY DEF StartPropose, Approved, Carried, Logged
  <1>6. QED
    BY <1>1, <1>4, <1>5 DEF Lifecycle!Draft, Sizes, Approved, Carried

\* The change appears, with a plan of one op at least.
LEMMA ProposeRefines ==
    ASSUME IInv, NEW c \in Changes, Publish(c)
    PROVE  Lifecycle!Propose(c)
  <1>1. status[c] = "none" /\ Len(plan[c]) > 0
    BY DEF Publish, IInv, ProposalInv
  <1>2. status' = [status EXCEPT ![c] = "pending"]
    BY DEF Publish
  <1>3. UNCHANGED <<plan, execs, Approved>>
    BY DEF Publish, Approved, Logged
  <1>4. QED
    BY <1>1, <1>2, <1>3
       DEF Lifecycle!Propose, Lifecycle!Become, Approved

\* It is decided.
LEMMA DecideRefines ==
    ASSUME NEW d \in Deciders, NEW c \in Changes, Decide(d, c)
    PROVE  Lifecycle!Decide(c)
  <1>1. /\ status[c] = "pending"
        /\ \/ status' = [status EXCEPT ![c] = "approved"]
           \/ status' = [status EXCEPT ![c] = "rejected"]
    BY DEF Decide
  <1>2. UNCHANGED <<plan, execs, Approved>>
    BY DEF Decide, proposal, Approved, Logged
  <1>3. QED
    BY <1>1, <1>2 DEF Lifecycle!Decide, Lifecycle!Become, Approved

\* The append that leaves the approval's entry records it, whether or not the
\* caller is told so.
LEMMA RecordRefines ==
    ASSUME IInv, NEW d \in Deciders, RecordApproved(d)
    PROVE  (\E c \in Changes : Lifecycle!Record(c)) \/ UNCHANGED Lifecycle!vars
  <1>1. PICK c \in Changes :
          /\ call[d].id = c
          /\ status[c] = "approved"
          /\ Len(execs[c]) = 0
          /\ ~Logged(c, "change.approved")
    BY OwnedFacts
       DEF RecordApproved, IInv, CallInv, StatusAt, ExecInv, LogInv, Idle
  <1>2. UNCHANGED <<status, plan, execs>>
    BY DEF RecordApproved, proposal
  <1>3. CASE UNCHANGED log
    <2>1. UNCHANGED Approved
      BY <1>3 DEF Approved, Logged
    <2>2. QED
      BY <1>2, <2>1, Unseen
  <1>4. CASE Recorded("change.approved", c)
    <2>1. \A k \in Changes : Logged(k, "change.approved")'
                               <=> Logged(k, "change.approved") \/ k = c
      BY <1>4, RecordedFacts DEF IInv, Actions
    <2>2. \A k \in Changes : /\ Logged(k, "change.approved") \in BOOLEAN
                             /\ Logged(k, "change.approved")' \in BOOLEAN
      BY DEF Logged
    <2>3. \A k \in Changes : k # c => Logged(k, "change.approved")'
                                        = Logged(k, "change.approved")
      BY <2>1, <2>2
    <2>4. Logged(c, "change.approved")' = TRUE
      BY <2>1, <2>2
    <2>5. Approved' = [Approved EXCEPT ![c] = TRUE]
      <3>1. Approved' = [k \in Changes |-> Logged(k, "change.approved")']
        BY DEF Approved
      <3>2. QED
        BY <3>1, <2>3, <2>4 DEF Approved
    <2>6. ~Approved[c]
      BY <1>1 DEF Approved
    <2>7. UNCHANGED <<status, Sizes, Carried>>
      BY <1>2 DEF Sizes, Carried
    <2>8. Carried[c] = 0
      BY <1>1 DEF Carried
    <2>9. QED
      BY <1>1, <2>5, <2>6, <2>7, <2>8
         DEF Lifecycle!Record, Sizes, Approved, Carried
  <1>5. QED
    BY <1>1, <1>3, <1>4 DEF RecordApproved, RecordFails

\* One more op reaches the cluster.
LEMMA CarryRefines ==
    ASSUME IInv, NEW d \in Deciders, ExecuteWrite(d)
    PROVE  \E c \in Changes : Lifecycle!Carry(c)
  <1>1. PICK c \in Changes :
          /\ call[d].id = c
          /\ status[c] = "approved"
          /\ Logged(c, "change.approved")
          /\ Len(execs[c]) < Len(plan[c])
    <2>1. PICK c \in Changes : call[d].id = c
      BY OwnedFacts DEF ExecuteWrite, IInv, Idle
    <2>2. status[c] = "approved" /\ Logged(c, "change.approved")
      BY <2>1 DEF ExecuteWrite, IInv, CallInv, StatusAt, LogInv, Idle
    <2>3. call[d].step = Len(execs[c]) + 1 /\ call[d].step <= Len(plan[c])
      BY <2>1 DEF ExecuteWrite, IInv, ExecInv
    <2>4. Len(execs[c]) \in Nat /\ Len(plan[c]) \in Nat
      BY PlanFacts DEF IInv, GateTypeOK
    <2>5. QED
      BY <2>1, <2>2, <2>3, <2>4
  <1>2. execs' = [execs EXCEPT ![c] = Append(execs[c], call[d].step)]
    BY <1>1 DEF ExecuteWrite
  <1>3. Carried' = [Carried EXCEPT ![c] = Carried[c] + 1]
    <2>1. \A k \in Changes : k # c => execs'[k] = execs[k]
      BY <1>2 DEF IInv, GateTypeOK
    <2>2. Len(execs'[c]) = Len(execs[c]) + 1
      BY <1>2 DEF IInv, GateTypeOK, Call
    <2>3. QED
      BY <2>1, <2>2 DEF Carried
  <1>4. UNCHANGED <<status, plan, Approved>>
    BY DEF ExecuteWrite, proposal, Approved, Logged
  <1>5. QED
    BY <1>1, <1>3, <1>4 DEF Lifecycle!Carry, Approved, Carried

\* The call ends, one way or the other.
LEMMA ConcludeRefines ==
    ASSUME IInv, NEW d \in Deciders, Finish(d) \/ Fail(d)
    PROVE  \E c \in Changes : Lifecycle!Conclude(c)
  <1>1. PICK c \in Changes : call[d].id = c /\ status[c] = "approved"
    BY OwnedFacts DEF Finish, Fail, IInv, CallInv, StatusAt, Idle
  <1>2. \/ /\ status' = [status EXCEPT ![c] = "applied"]
           /\ Len(execs[c]) = Len(plan[c])
        \/ status' = [status EXCEPT ![c] = "failed"]
    BY <1>1 DEF Finish, Fail, IInv, ExecInv
  <1>3. UNCHANGED <<plan, execs, Approved>>
    BY DEF Finish, Fail, proposal, Approved, Logged
  <1>4. QED
    BY <1>1, <1>2, <1>3
       DEF Lifecycle!Conclude, Lifecycle!Become, Approved

\* The engine stops.
LEMMA ForgetRefines ==
    ASSUME Crash
    PROVE  Lifecycle!Forget
  <1>1. UNCHANGED <<plan, execs, Approved>>
    BY DEF Crash, Approved, Logged
  <1>2. QED
    BY <1>1 DEF Crash, Lifecycle!Forget, Approved

\* Every step of the gate is a step of the life of a change, or none.
LEMMA NextRefines ==
    IInv /\ [GateNext]_gateVars => [Lifecycle!Next]_(Lifecycle!vars)
  <1> SUFFICES ASSUME IInv, [GateNext]_gateVars
               PROVE  Lifecycle!Next \/ UNCHANGED Lifecycle!vars
    OBVIOUS
  <1>1. GateTypeOK
    BY DEF IInv
  <1>2. ASSUME NEW c \in Changes, StartPropose(c)
        PROVE  Lifecycle!Next
    BY <1>2, DraftRefines DEF Lifecycle!Next
  <1>3. ASSUME NEW c \in Changes, DryRun(c) \/ DryRunRefused(c)
        PROVE  UNCHANGED Lifecycle!vars
    BY <1>3, Unseen DEF DryRun, DryRunRefused, Approved, Logged
  <1>4. ASSUME NEW c \in Changes, Publish(c)
        PROVE  Lifecycle!Next
    BY <1>4, ProposeRefines DEF Lifecycle!Next
  <1>5. ASSUME NEW c \in Changes, RecordProposed(c)
        PROVE  UNCHANGED Lifecycle!vars
    <2>1. UNCHANGED Approved
      BY <1>1, <1>5, OtherEntry DEF RecordProposed, Actions
    <2>2. QED
      BY <1>5, <2>1, Unseen DEF RecordProposed
  <1>6. ASSUME NEW d \in Deciders, NEW c \in Changes, Decide(d, c)
        PROVE  Lifecycle!Next
    BY <1>6, DecideRefines DEF Lifecycle!Next
  <1>7. ASSUME NEW d \in Deciders,
               RecordRejected(d) \/ RecordApplied(d) \/ RecordFailed(d)
        PROVE  UNCHANGED Lifecycle!vars
    <2>1. call[d].id \in Changes
      BY <1>7, OwnedFacts
         DEF RecordRejected, RecordApplied, RecordFailed, IInv, Idle
    <2>2. UNCHANGED Approved
      BY <1>1, <1>7, <2>1, OtherEntry
         DEF RecordRejected, RecordApplied, RecordFailed, Actions
    <2>3. QED
      BY <1>7, <2>2, Unseen
         DEF RecordRejected, RecordApplied, RecordFailed, proposal
  <1>8. ASSUME NEW d \in Deciders, RecordApproved(d)
        PROVE  Lifecycle!Next \/ UNCHANGED Lifecycle!vars
    BY <1>8, RecordRefines DEF Lifecycle!Next
  <1>9. ASSUME NEW d \in Deciders,
               OpenSession(d) \/ ExecuteGet(d) \/ ExecuteRefused(d)
        PROVE  UNCHANGED Lifecycle!vars
    BY <1>9, Unseen
       DEF OpenSession, ExecuteGet, ExecuteRefused, proposal, Approved, Logged
  <1>10. ASSUME NEW d \in Deciders, ExecuteWrite(d)
         PROVE  Lifecycle!Next
    BY <1>10, CarryRefines DEF Lifecycle!Next
  <1>11. ASSUME NEW d \in Deciders, Finish(d) \/ Fail(d)
         PROVE  Lifecycle!Next
    BY <1>11, ConcludeRefines DEF Lifecycle!Next
  <1>12. ASSUME NEW o \in Objects, Edit(o)
         PROVE  UNCHANGED Lifecycle!vars
    BY <1>12, Unseen DEF Edit, proposal, Approved, Logged
  <1>13. CASE Crash
    BY <1>13, ForgetRefines DEF Lifecycle!Next
  <1>14. CASE UNCHANGED gateVars
    BY <1>14, Unseen DEF gateVars, Approved, Logged
  <1>15. QED
    BY <1>2, <1>3, <1>4, <1>5, <1>6, <1>7, <1>8, <1>9, <1>10, <1>11, <1>12,
       <1>13, <1>14 DEF GateNext, Proposing, Deciding

\* The gate implements the life of a change that security.md describes: it is
\* decided once, carried out op by op only behind an approval on record, and
\* called applied only when every op was carried out.
THEOREM GateImplementsLifecycle == GateSpec => ImplementsLifecycle
  <1>1. GateInit => Lifecycle!Init
    <2>1. SUFFICES ASSUME GateInit PROVE Lifecycle!Init
      OBVIOUS
    <2>2. \A c \in Changes : Logged(c, "change.approved") = FALSE
      BY <2>1 DEF GateInit, Logged
    <2>3. QED
      BY <2>1, <2>2 DEF GateInit, Lifecycle!Init
  <1>2. QED
    BY <1>1, NextRefines, Invariance, PTL
       DEF GateSpec, ImplementsLifecycle, Lifecycle!Spec
=============================================================================
