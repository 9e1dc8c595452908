---------------------------- MODULE ChangeReview ----------------------------
(***************************************************************************)
(* The gate as a person meets it: changes proposed from the drawer, the    *)
(* create dialog or a screen, the one dialog that shows a change and asks  *)
(* for a decision, the toasts that tell its outcome, and the list of       *)
(* changes.  The engine proposes and decides on goroutines of their own    *)
(* and lists on the socket's read loop, so a list answers in order and the *)
(* rest does not.  The gate is seen by what it answers (ChangeGate has its *)
(* inside); agents and other windows propose and decide there too.  The    *)
(* link stays up here: EngineSocket has what a lost link does to requests. *)
(***************************************************************************)
EXTENDS Naturals, Sequences, FiniteSets

CONSTANTS Changes, NoChange,
          MaxLists   \* bound: list requests and answers under way at once

ASSUME ReviewAssumption == NoChange \notin Changes /\ MaxLists \in Nat \ {0}

Statuses == {"none", "pending", "approved", "applied", "failed", "rejected"}
Ends     == {"applied", "failed", "rejected"}

VARIABLES gate,       \* what the gate holds of each change
          proposals,  \* proposals under way, in the engine or on the way back
          dialog,     \* pendingChange: the change the dialog shows
          drafting,   \* the create dialog is open
          busy,       \* the dialog waits for its decision
          decisions,  \* decisions under way: the change, the decision, the answer once there is one
          listAsks,    \* list requests the read loop has not reached
          lists,      \* list answers on the way, in order
          listed,     \* changes: what the list shows of each
          awaits,     \* list answers until the one the last decision waits for, 0 for none
          told        \* outcomes told by a toast

review == <<gate, proposals, dialog, drafting, busy, decisions, listAsks, lists, listed, awaits, told>>

Decision == [change : Changes, approve : BOOLEAN, answer : Ends \cup {"", "executing", "refused"}]

ReviewTypeOK ==
    /\ gate \in [Changes -> Statuses] /\ listed \in [Changes -> Statuses]
    /\ proposals \subseteq Changes /\ dialog \in Changes \cup {NoChange}
    /\ drafting \in BOOLEAN /\ busy \in BOOLEAN
    /\ decisions \subseteq Decision
    /\ listAsks \in 0 .. MaxLists /\ awaits \in 0 .. MaxLists /\ lists \in Seq([Changes -> Statuses])
    /\ told \subseteq [change : Changes, status : Ends]

\* The gate's side: Propose makes a pending change, or refuses and makes none; another window
\* or an agent proposes, and decides, without this window hearing of it.
Propose(c) ==
    /\ gate[c] = "none" /\ c \notin proposals /\ ~ drafting
    /\ proposals' = proposals \cup {c}
    /\ UNCHANGED <<gate, dialog, drafting, busy, decisions, listAsks, lists, listed, awaits, told>>
GateProposes(c) ==
    /\ gate[c] = "none"
    /\ gate' = [gate EXCEPT ![c] = "pending"]
    /\ UNCHANGED <<proposals, dialog, drafting, busy, decisions, listAsks, lists, listed, awaits, told>>
OtherDecides(c) ==
    /\ gate[c] = "pending"
    /\ \E s \in {"applied", "rejected"} : gate' = [gate EXCEPT ![c] = s]
    /\ UNCHANGED <<proposals, dialog, drafting, busy, decisions, listAsks, lists, listed, awaits, told>>

\* propose: the answer opens the dialog over whatever it showed; a refusal is a toast.
Proposed(c) ==
    /\ c \in proposals
    /\ proposals' = proposals \ {c}
    /\ dialog' = IF gate[c] = "none" THEN dialog ELSE c
    /\ UNCHANGED <<gate, drafting, busy, decisions, listAsks, lists, listed, awaits, told>>

\* The create dialog: text without a kind, a name or a known kind is a toast and stays; what
\* can be proposed closes it.
Draft == /\ ~ drafting /\ dialog = NoChange /\ drafting' = TRUE
         /\ UNCHANGED <<gate, proposals, dialog, busy, decisions, listAsks, lists, listed, awaits, told>>
SaveDraft(c) ==
    /\ drafting /\ drafting' = FALSE
    /\ \/ gate[c] = "none" /\ c \notin proposals /\ proposals' = proposals \cup {c}
       \/ UNCHANGED proposals                     \* closed instead
    /\ UNCHANGED <<gate, dialog, busy, decisions, listAsks, lists, listed, awaits, told>>

\* act: one decision at a time, for the change shown.
Act(d) ==
    /\ dialog # NoChange /\ ~ busy
    /\ busy' = TRUE
    /\ decisions' = decisions \cup {[change |-> dialog, approve |-> d, answer |-> ""]}
    /\ UNCHANGED <<gate, proposals, dialog, drafting, listAsks, lists, listed, awaits, told>>
Cancel == /\ dialog # NoChange /\ ~ busy /\ dialog' = NoChange
          /\ UNCHANGED <<gate, proposals, drafting, busy, decisions, listAsks, lists, listed, awaits, told>>

\* The gate takes a decision on a pending change, executes an approved one, and answers with
\* the status it gave, or with an error when the end could not be recorded.
Answers(r, s) == decisions' = (decisions \ {r}) \cup {[r EXCEPT !.answer = s]}
Refusable(s)   == {"refused"} \cup {s}
GateDecides(r) ==
    /\ r.answer = ""
    /\ \/ gate[r.change] # "pending" /\ Answers(r, "refused") /\ UNCHANGED gate
       \/ /\ gate[r.change] = "pending" /\ r.approve
          /\ gate' = [gate EXCEPT ![r.change] = "approved"] /\ Answers(r, "executing")
       \/ /\ gate[r.change] = "pending" /\ ~ r.approve
          /\ gate' = [gate EXCEPT ![r.change] = "rejected"]
          /\ \E s \in Refusable("rejected") : Answers(r, s)
    /\ UNCHANGED <<proposals, dialog, drafting, busy, listAsks, lists, listed, awaits, told>>
GateEnds(r) ==
    /\ r.answer = "executing"
    /\ \/ gate' = [gate EXCEPT ![r.change] = "failed"] /\ Answers(r, "failed")
       \/ gate' = [gate EXCEPT ![r.change] = "applied"] /\ \E s \in Refusable("applied") : Answers(r, s)
    /\ UNCHANGED <<proposals, dialog, drafting, busy, listAsks, lists, listed, awaits, told>>

\* Mutant: the outcome is told of the change the dialog shows by then.
DecidedOfDialog(r) ==
    /\ r.answer \in Ends /\ listAsks + Len(lists) < MaxLists /\ dialog # NoChange
    /\ decisions' = decisions \ {r} /\ dialog' = NoChange
    /\ told' = told \cup {[change |-> dialog, status |-> r.answer]}
    /\ listAsks' = listAsks + 1 /\ awaits' = listAsks + Len(lists) + 1
    /\ UNCHANGED <<gate, proposals, drafting, busy, lists, listed>>

\* decide's answer: the dialog closes whatever it shows by then, a toast tells the outcome,
\* and the list is asked for; an error is told and the dialog stays.
Decided(r) ==
    /\ r.answer \in Ends /\ listAsks + Len(lists) < MaxLists
    /\ decisions' = decisions \ {r}
    /\ dialog' = NoChange
    /\ told' = told \cup {[change |-> r.change, status |-> r.answer]}
    /\ listAsks' = listAsks + 1 /\ awaits' = listAsks + Len(lists) + 1
    /\ UNCHANGED <<gate, proposals, drafting, busy, lists, listed>>
DecisionRefused(r) ==
    /\ r.answer = "refused"
    /\ decisions' = decisions \ {r}
    /\ busy' = FALSE
    /\ UNCHANGED <<gate, proposals, dialog, drafting, listAsks, lists, listed, awaits, told>>

\* refreshChanges, from the button, the screen or the engine's hello; the read loop answers
\* in order, and the decision that asked is over when the answer lands.
AskList ==
    /\ listAsks + Len(lists) < MaxLists
    /\ listAsks' = listAsks + 1
    /\ UNCHANGED <<gate, proposals, dialog, drafting, busy, decisions, lists, listed, awaits, told>>
ListChanges ==
    /\ listAsks > 0
    /\ listAsks' = listAsks - 1
    /\ lists' = Append(lists, gate)
    /\ UNCHANGED <<gate, proposals, dialog, drafting, busy, decisions, listed, awaits, told>>
ListLanded ==
    /\ lists # <<>>
    /\ listed' = Head(lists) /\ lists' = Tail(lists)
    /\ awaits' = IF awaits = 0 THEN 0 ELSE awaits - 1
    /\ busy' = (busy /\ awaits # 1)
    /\ UNCHANGED <<gate, proposals, dialog, drafting, decisions, listAsks, told>>

\* The list offers what it shows as pending for review.
Review(c) ==
    /\ dialog = NoChange /\ ~ drafting /\ listed[c] = "pending"
    /\ dialog' = c
    /\ UNCHANGED <<gate, proposals, drafting, busy, decisions, listAsks, lists, listed, awaits, told>>

ReviewInit ==
    /\ gate = [c \in Changes |-> "none"] /\ listed = gate
    /\ proposals = {} /\ decisions = {} /\ told = {} /\ lists = <<>> /\ listAsks = 0 /\ awaits = 0
    /\ dialog = NoChange /\ drafting = FALSE /\ busy = FALSE

ReviewNext ==
    \/ \E c \in Changes : \/ Propose(c) \/ GateProposes(c) \/ OtherDecides(c) \/ Proposed(c)
                          \/ SaveDraft(c) \/ Review(c)
    \/ \E d \in BOOLEAN : Act(d)
    \/ \E r \in decisions : GateDecides(r) \/ GateEnds(r) \/ Decided(r) \/ DecisionRefused(r)
    \/ Draft \/ Cancel \/ AskList \/ ListChanges \/ ListLanded

ReviewSpec == ReviewInit /\ [][ReviewNext]_review

(***************************************************************************)
(* A toast tells the outcome the gate gave that change, whatever the       *)
(* dialog showed by the time the answer came.  Once nothing is under way,  *)
(* the list shows the outcome of every change a toast told of, and the     *)
(* dialog takes decisions again.                                           *)
(***************************************************************************)
ReviewIsTrue ==
    /\ \A t \in told : gate[t.change] = t.status
    /\ (decisions = {} /\ listAsks = 0 /\ lists = <<>>) =>
            /\ \A t \in told : listed[t.change] = t.status
            /\ ~ busy
=============================================================================
