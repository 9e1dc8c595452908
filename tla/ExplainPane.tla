---------------------------- MODULE ExplainPane ----------------------------
(***************************************************************************)
(* The explain pane: the engine gathers evidence of the object selected,   *)
(* the person reads it, and only then is it sent to a model for an answer. *)
(* Every request is answered on a goroutine of its own, and the pane takes *)
(* an answer whatever it shows by then; the pane dies with its tab.  It is *)
(* emptied when the cluster, kind or name moves, but not the namespace; a  *)
(* request that is out stays out, and the button waits for it.             *)
(***************************************************************************)
EXTENDS Naturals, FiniteSets

CONSTANTS Subjects,    \* what may be selected: <<name, namespace>> of one kind and cluster
          NoSubject

ASSUME ExplainAssumption == NoSubject \notin Subjects

VARIABLES subject,   \* props; NoSubject when the pane is not mounted
          hasKey,    \* "unknown" until the engine said
          evidence,  \* what the evidence shown is of
          sent,      \* the answer shown, by the evidence it was given
          working,   \* busy
          requests,  \* requests in flight
          crossed    \* what is shown was left by a namesake, or came for another object than the one selected

explain == <<subject, hasKey, evidence, sent, working, requests, crossed>>

Request == [what : {"status", "key", "preview", "explain"}, of : Subjects]
ExplainTypeOK ==
    /\ {subject, evidence, sent} \subseteq Subjects \cup {NoSubject} /\ hasKey \in {"unknown", "yes", "no"}
    /\ working \in BOOLEAN /\ crossed \in BOOLEAN /\ requests \subseteq Request

ClearPane == evidence' = NoSubject /\ sent' = NoSubject
Going(w) == {r \in requests : r.what = w}

\* The tab opens, or another object is selected under it; the key is asked for again.
ShowExplain(o) ==
    /\ o # subject
    /\ subject' = o
    /\ IF subject # NoSubject /\ o[1] = subject[1]
       THEN /\ crossed' = (evidence # NoSubject \/ sent # NoSubject)
            /\ UNCHANGED <<evidence, sent, requests>>
       ELSE /\ ClearPane /\ requests' = requests \cup {[what |-> "status", of |-> o]}
            /\ crossed' = FALSE
    /\ UNCHANGED <<hasKey, working>>
LeaveTab ==
    /\ subject # NoSubject
    /\ subject' = NoSubject /\ ClearPane /\ hasKey' = "unknown" /\ working' = FALSE /\ requests' = {} /\ crossed' = FALSE

\* checkKey: an engine that does not answer counts as one without a key.  saveKey: an error
\* leaves what was known.
KeyTold(r) ==
    /\ r.what \in {"status", "key"}
    /\ requests' = requests \ {r}
    /\ hasKey' \in {"yes", "no"} \cup (IF r.what = "key" THEN {hasKey} ELSE {})
    /\ UNCHANGED <<subject, evidence, sent, working, crossed>>
SaveKey == /\ hasKey = "no" /\ requests' = requests \cup {[what |-> "key", of |-> subject]}
           /\ UNCHANGED <<subject, hasKey, evidence, sent, working, crossed>>

\* Mutant: the answer shown stays until the next one.
PrepareKeepsAnswer ==
    /\ subject # NoSubject /\ hasKey # "no" /\ ~ working
    /\ working' = TRUE
    /\ requests' = requests \cup {[what |-> "preview", of |-> subject]}
    /\ UNCHANGED <<subject, hasKey, evidence, sent, crossed>>
\* preview: the button waits while the pane works.
Prepare ==
    /\ subject # NoSubject /\ hasKey # "no" /\ ~ working
    /\ working' = TRUE /\ sent' = NoSubject
    /\ requests' = requests \cup {[what |-> "preview", of |-> subject]}
    /\ UNCHANGED <<subject, hasKey, evidence, crossed>>
Prepared(r) ==
    /\ r.what = "preview" /\ requests' = requests \ {r} /\ working' = FALSE
    /\ \/ evidence' = r.of /\ crossed' = (r.of # subject)
       \/ UNCHANGED <<evidence, crossed>>        \* an error, under what was there
    /\ UNCHANGED <<subject, hasKey, sent>>

\* send: the evidence shown goes out, and with an answer it counts as sent.
SendIt ==
    /\ evidence # NoSubject /\ sent = NoSubject /\ hasKey # "no" /\ ~ working
    /\ working' = TRUE
    /\ requests' = requests \cup {[what |-> "explain", of |-> evidence]}
    /\ UNCHANGED <<subject, hasKey, evidence, sent, crossed>>
Explained(r) ==
    /\ r.what = "explain" /\ requests' = requests \ {r} /\ working' = FALSE
    /\ \/ sent' = r.of /\ crossed' = (crossed \/ r.of # subject)
       \/ UNCHANGED <<sent, crossed>>
    /\ UNCHANGED <<subject, hasKey, evidence>>
StartOver == /\ evidence # NoSubject /\ sent = NoSubject /\ hasKey # "no" /\ ~ working
             /\ ClearPane /\ crossed' = FALSE
             /\ UNCHANGED <<subject, hasKey, working, requests>>

ExplainInit == /\ subject = NoSubject /\ evidence = NoSubject /\ sent = NoSubject /\ hasKey = "unknown"
               /\ working = FALSE /\ crossed = FALSE /\ requests = {}
ExplainNext ==
    \/ \E o \in Subjects : ShowExplain(o)
    \/ \E r \in requests : KeyTold(r) \/ Prepared(r) \/ Explained(r)
    \/ LeaveTab \/ SaveKey \/ Prepare \/ SendIt \/ StartOver
ExplainSpec == ExplainInit /\ [][ExplainNext]_explain

(***************************************************************************)
(* However the selection moves under what is out: an answer beside some    *)
(* evidence was given that evidence, and the pane waits for one question   *)
(* or none, and says so.  What is shown is of the object selected but for  *)
(* two cases, which the code does not rule out: it came after the          *)
(* selection had moved on (no answer is told apart by what it was asked    *)
(* for), or it stayed when the selection moved to an object of the same    *)
(* name in another namespace (the watcher looks at cluster, kind, name).   *)
(***************************************************************************)
Questions == Going("preview") \cup Going("explain")
AnswerIsOfItsEvidence == evidence # NoSubject /\ sent # NoSubject => sent = evidence
OneQuestionOut == /\ working <=> Questions # {}
                  /\ \A q, r \in Questions : q = r
OfTheSelected == ~ crossed => {evidence, sent} \subseteq {subject, NoSubject}
ExplainIsOfItsEvidence == AnswerIsOfItsEvidence /\ OneQuestionOut /\ OfTheSelected
=============================================================================
