----------------------------- MODULE ApprovalRules -----------------------------
(***************************************************************************)
(* The rules that send the entries of a branch to approval: the API that   *)
(* edits them, called by several clients at once, and the page with its    *)
(* form, which creates rules.                                              *)
(*                                                                         *)
(* What the rules ask of an entry is in Entries; types of entries and roles are *)
(* left out (no code reads approver_role_id).  A change or a deletion from *)
(* the page is refused, as it sends no Idempotency-Key; a creation needs   *)
(* none, and nothing recognises one that is repeated.                      *)
(***************************************************************************)
EXTENDS Naturals

CONSTANTS
  Rule,
  Editor,   \* requests of other clients to change or delete a rule, under way at a time
  Level,    \* amounts
  None

VARIABLES
  rules,     \* the rows of approval_rules
  edit,      \* each request
  written,   \* fields of each rule as the request that wrote them last sent them (history)
  editing,   \* the form edits a rule
  submit,    \* its creation: "no", "sent" or "created"
  made,      \* rules created from what the form holds (history)
  lost       \* an answer to one of these was lost (history)

vars == <<rules, edit, written, editing, submit, made, lost>>
pageVars == <<editing, submit, made, lost>>

Row == [min : Level, active : BOOLEAN, deleted : BOOLEAN]
Idle == [at |-> "idle"]

\* What an UPDATE sets: a field of UpdateApprovalRuleDto (several are one request each), or
\* those of softDelete.
Deletion == [deleted |-> TRUE, active |-> FALSE]
Fields == [{"min"} -> Level] \cup [{"active"} -> BOOLEAN] \cup {Deletion}
EditState ==
  {Idle} \cup [at : {"found"}, rule : Rule, sets : Fields] \cup [at : {"written"}, rule : Rule, wrote : BOOLEAN]

Init ==
  /\ rules = [r \in Rule |-> None]
  /\ edit = [e \in Editor |-> Idle]
  /\ written = [r \in Rule |-> [f \in {} |-> None]]
  /\ editing = FALSE /\ submit = "no" /\ made = 0 /\ lost = FALSE

Live == {r \in Rule : rules[r] # None /\ ~rules[r].deleted}

-----------------------------------------------------------------------------
(* ApprovalRulesService *)

\* findById; otherwise APPROVAL_RULE_NOT_FOUND.
Find(e, r, sets) ==
  /\ edit[e] = Idle /\ r \in Live
  /\ edit' = [edit EXCEPT ![e] = [at |-> "found", rule |-> r, sets |-> sets]]
  /\ UNCHANGED <<rules, written, pageVars>>

\* The fields sent, and no others.
With(row, sets) == [f \in DOMAIN row |-> IF f \in DOMAIN sets THEN sets[f] ELSE row[f]]

\* The UPDATE, where deleted_at IS NULL; after a deletion nothing is left to do.
Write(e) ==
  LET c == edit[e]
  IN  /\ c.at = "found"
      /\ edit' = [edit EXCEPT ![e] =
           IF c.sets = Deletion THEN Idle ELSE [at |-> "written", rule |-> c.rule, wrote |-> c.rule \in Live]]
      /\ IF c.rule \in Live
         THEN /\ rules' = [rules EXCEPT ![c.rule] = With(@, c.sets)]
              /\ written' = [written EXCEPT ![c.rule] =
                   [f \in DOMAIN @ \cup DOMAIN c.sets |-> IF f \in DOMAIN c.sets THEN c.sets[f] ELSE @[f]]]
         ELSE UNCHANGED <<rules, written>>
      /\ UNCHANGED pageVars

\* The reload of update: a row that is deleted is an error, any other is the answer.
Confirmable(e) == edit[e].at = "written" /\ edit[e].rule \in Live

\* The client has its answer, or an error at any step.
Finish(e) ==
  /\ edit[e] # Idle
  /\ edit' = [edit EXCEPT ![e] = Idle]
  /\ UNCHANGED <<rules, written, pageVars>>

\* create; a rule created inactive is one that is changed at once.
Insert(r, min) ==
  /\ rules[r] = None
  /\ rules' = [rules EXCEPT ![r] = [min |-> min, active |-> TRUE, deleted |-> FALSE]]

CreateElsewhere(r, min) ==
  /\ Insert(r, min)
  /\ UNCHANGED <<edit, written, pageVars>>

-----------------------------------------------------------------------------
(* ApprovalRulesManager *)

\* What the form holds is new: startEdit, resetForm and onSuccess.
Fill(edits) == editing' = edits /\ made' = 0 /\ lost' = FALSE

\* The buttons are disabled while a creation is under way.
StartEdit(r) ==
  /\ submit = "no" /\ rules[r] # None
  /\ Fill(TRUE)
  /\ UNCHANGED <<rules, edit, written, submit>>

ResetForm ==
  /\ submit = "no" /\ editing
  /\ Fill(FALSE)
  /\ UNCHANGED <<rules, edit, written, submit>>

\* submitForm, which changes nothing while a rule is edited.
SubmitForm ==
  /\ submit = "no" /\ ~editing
  /\ submit' = "sent"
  /\ UNCHANGED <<rules, edit, written, editing, made, lost>>

CreateRule(r, min) ==
  /\ submit = "sent"
  /\ Insert(r, min)
  /\ submit' = "created" /\ made' = made + 1
  /\ UNCHANGED <<edit, written, editing, lost>>

Created ==
  /\ submit = "created"
  /\ submit' = "no"
  /\ Fill(FALSE)
  /\ UNCHANGED <<rules, edit, written>>

\* The form keeps what it holds.
CreateFails ==
  /\ submit # "no"
  /\ submit' = "no"
  /\ lost' = (lost \/ submit = "created")
  /\ UNCHANGED <<rules, edit, written, editing, made>>

Next ==
  \/ \E e \in Editor :
       \/ \E r \in Rule, sets \in Fields : Find(e, r, sets)
       \/ Write(e) \/ Finish(e)
  \/ \E r \in Rule : StartEdit(r) \/ \E min \in Level : CreateElsewhere(r, min) \/ CreateRule(r, min)
  \/ ResetForm \/ SubmitForm \/ Created \/ CreateFails

Spec == Init /\ [][Next]_vars

-----------------------------------------------------------------------------
TypeOK ==
  /\ rules \in [Rule -> Row \cup {None}]
  /\ edit \in [Editor -> EditState]
  /\ editing \in BOOLEAN
  /\ submit \in {"no", "sent", "created"} /\ made \in Nat /\ lost \in BOOLEAN

\* An update that is confirmed was written, although the rule may have been deleted under way,
\* and no change brings back what another one set or deleted (update and softDelete write the
\* fields sent, of rows that are not deleted, and update reads the row again).
ChangesAreKept ==
  /\ \A e \in Editor : Confirmable(e) => edit[e].wrote
  /\ \A r \in Rule : \A f \in DOMAIN written[r] : rules[r][f] = written[r][f]

\* What a form holds becomes one rule, or several once an answer was lost (submitForm is
\* disabled while a creation is under way, and no key tells the second from the first).
CreatedOnceUnlessLost == made > 1 => lost
===============================================================================
