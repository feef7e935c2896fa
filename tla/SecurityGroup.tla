--------------------------- MODULE SecurityGroup ---------------------------
(***************************************************************************)
(* The lattice_security_group resource (resource_security_group.go): one   *)
(* group and its rules, managed by Create, Read, Update and Delete.        *)
(*                                                                         *)
(* Every request to the LatticeVE API is a step of its own, so other       *)
(* operators of the controller can change the group between two requests   *)
(* of one handler.  A request can succeed, be refused without effect, or   *)
(* be carried out while its answer is lost (the client gives up after 30   *)
(* seconds, client.go:90): the handler sees an error in the last two       *)
(* cases.  A crash of the provider between two requests leaves what an     *)
(* error leaves, the saved state as it was.                                *)
(*                                                                         *)
(* A rule has a body: what it matches, and a priority that a configuration *)
(* may leave out.  The group's name and description are one datum, attrs.  *)
(***************************************************************************)
EXTENDS Integers, Sequences, FiniteSets

CONSTANTS
    Matches,     \* what a rule can match: direction, protocol, ports, CIDR, action
    Attrs,       \* values of name and description together
    Configs,     \* the rule lists a user may write: sequences of ConfigRule
    IdsWith404,  \* the group IDs whose requests can only fail with "404" in the
                 \* error: the ID has it, or the endpoint, and then all of them
    MisleadingErrors, \* may a refused listing read like "not found"?
    MaxRuleId,   \* bound on the rule IDs the controller hands out
    MaxGroupId,  \* bound on the group IDs the controller hands out
    MaxFaults,   \* bound on refused and unanswered requests
    MaxDrift,    \* bound on changes made by other operators
    MaxEdits     \* bound on changes of the configuration

NoId == 0        \* an ID that is null, unknown or "", and the absence of a group
NoAttrs == ""
Unset == -1      \* a priority left out of the configuration
Priorities == 0 .. 1

RuleIds == 1 .. MaxRuleId
GroupIds == 1 .. MaxGroupId
Body == [match : Matches, prio : Priorities]
ConfigRule == [match : Matches, prio : Priorities \cup {Unset}]
StateRule == [id : RuleIds, body : Body]

ASSUME SGAssumption ==
    /\ MaxRuleId \in Nat /\ MaxGroupId \in Nat
    /\ MaxFaults \in Nat /\ MaxDrift \in Nat /\ MaxEdits \in Nat
    /\ Configs \subseteq Seq(ConfigRule)
    /\ IdsWith404 \subseteq GroupIds /\ MisleadingErrors \in BOOLEAN

VARIABLES
    groups,      \* the groups that exist on the controller
    rules,       \* the followed group's rules there, a function from rule IDs
    attrs,       \* the followed group's name and description there
    nextRule,    \* the next rule ID the controller hands out
    nextGroup,   \* the next group ID
    tf,          \* what Terraform has saved about the group
    want,        \* the configuration
    pc,          \* the point the running handler has reached
    cur,         \* Create's sg.ID
    made,        \* Create's createdRules
    doomed,      \* the IDs Update has still to remove
    at,          \* the index in the planned rules of the loops of Create and Update
    result,      \* how the last handler ended
    abandoned,   \* history: the groups whose Create reported an error, or whose
                 \* Read took an error for "not found"
    quiet,       \* history: no foreign change since the handler's first request
    faults, drifts, edits

controller == <<groups, rules, attrs, nextRule, nextGroup>>
locals == <<pc, cur, made, doomed, at>>
vars == <<controller, tf, want, locals, result, abandoned, quiet,
          faults, drifts, edits>>

NoRules == [i \in {} |-> {}]
NoState == [id |-> NoId, attrs |-> NoAttrs, rules |-> << >>]
Idle == pc = "idle"

-----------------------------------------------------------------------------
(* The controller *)

(* The group whose rules are followed: the one Create is filling or the    *)
(* one Terraform knows.                                                    *)
Followed == IF pc = "adding" THEN cur ELSE tf.id

PostGroup ==
    /\ nextGroup <= MaxGroupId
    /\ groups' = groups \cup {nextGroup}
    /\ nextGroup' = nextGroup + 1

PostRule(body) ==
    /\ Followed \in groups
    /\ nextRule <= MaxRuleId
    /\ rules' = [i \in DOMAIN rules \cup {nextRule} |->
                    IF i = nextRule THEN body ELSE rules[i]]
    /\ nextRule' = nextRule + 1

DeleteRule(i) ==
    /\ i \in DOMAIN rules
    /\ rules' = [j \in DOMAIN rules \ {i} |-> rules[j]]

PutRule(i, body) ==
    /\ i \in DOMAIN rules
    /\ rules' = [rules EXCEPT ![i] = body]

(* A group that is deleted, or that nobody knows any more, is not followed *)
Forget == rules' = NoRules /\ attrs' = NoAttrs

(* The controller lists a group's rules in the order they were added. *)
Listings ==
    {s \in [1 .. Cardinality(DOMAIN rules) ->
                {[id |-> i, body |-> rules[i]] : i \in DOMAIN rules}] :
        /\ {s[k].id : k \in DOMAIN s} = DOMAIN rules
        /\ \A j, k \in DOMAIN s : j < k => s[j].id < s[k].id}

(* One request is refused, or its answer does not arrive in time. *)
Fault == faults < MaxFaults /\ faults' = faults + 1

-----------------------------------------------------------------------------
(* Terraform: the plan, fixed while a handler runs since neither tf nor    *)
(* want changes then.  A computed field that the configuration leaves out  *)
(* takes the value at the same list index of the saved state               *)
(* (UseStateForUnknown); with no such index it is unknown, which the       *)
(* handlers read as "" or 0.                                               *)
Known(k) == k <= Len(tf.rules)

PlanId(k) == IF Known(k) THEN tf.rules[k].id ELSE NoId

PlanBody(k) ==
    [match |-> want.rules[k].match,
     prio |-> IF want.rules[k].prio # Unset THEN want.rules[k].prio
              ELSE IF Known(k) THEN tf.rules[k].body.prio ELSE 0]

PlanLen == Len(want.rules)

(* Mutant: the plan's IDs are not looked at, everything is added anew. *)
NoDesiredIds == {}

DesiredIds == {PlanId(k) : k \in 1 .. PlanLen} \ {NoId}

HasDiff ==
    \/ tf.attrs # want.attrs
    \/ Len(tf.rules) # PlanLen
    \/ \E k \in 1 .. PlanLen : Known(k) /\ tf.rules[k].body # PlanBody(k)

(* The handler returns; on an error nothing is saved. *)
Return(r) ==
    /\ pc' = "idle" /\ result' = r
    /\ cur' = NoId /\ made' = << >> /\ doomed' = {} /\ at' = 1

Fail == Return("error") /\ UNCHANGED tf

SaveListing ==
    \E l \in Listings : tf' = [id |-> tf.id, attrs |-> attrs, rules |-> l]

-----------------------------------------------------------------------------
(* Create *)

CreateGroup ==
    /\ Idle /\ want.present /\ tf.id = NoId
    /\ PostGroup
    /\ attrs' = want.attrs
    /\ pc' = "adding" /\ cur' = nextGroup /\ quiet' = TRUE /\ result' = "none"
    /\ UNCHANGED <<rules, nextRule, tf, want, made, doomed, at, abandoned,
                   faults, drifts, edits>>

CreateGroupFails ==
    /\ Idle /\ want.present /\ tf.id = NoId
    /\ Fault /\ Fail
    /\ \/ UNCHANGED <<groups, nextGroup, abandoned>>
       \/ PostGroup /\ abandoned' = abandoned \cup {nextGroup}
    /\ UNCHANGED <<rules, attrs, nextRule, want, quiet, drifts, edits>>

(* Mutant: the rule is saved with the plan's ID, not the answer's. *)
CreateRulePlannedId ==
    /\ pc = "adding" /\ at <= PlanLen
    /\ PostRule(PlanBody(at))
    /\ made' = Append(made, [id |-> PlanId(at), body |-> PlanBody(at)])
    /\ at' = at + 1
    /\ UNCHANGED <<groups, attrs, nextGroup, tf, want, pc, cur, doomed, result,
                   abandoned, quiet, faults, drifts, edits>>

CreateRule ==
    /\ pc = "adding" /\ at <= PlanLen
    /\ PostRule(PlanBody(at))
    /\ made' = Append(made, [id |-> nextRule, body |-> PlanBody(at)])
    /\ at' = at + 1
    /\ UNCHANGED <<groups, attrs, nextGroup, tf, want, pc, cur, doomed, result,
                   abandoned, quiet, faults, drifts, edits>>

(* The group stays on the controller with the rules it already has, and    *)
(* nothing is saved about it.                                              *)
CreateRuleFails ==
    /\ pc = "adding" /\ at <= PlanLen
    /\ Fault \/ (cur \notin groups /\ UNCHANGED faults)
    /\ Fail /\ Forget
    /\ abandoned' = abandoned \cup {cur}
    /\ UNCHANGED <<groups, nextRule, nextGroup, want, quiet, drifts, edits>>

CreateReturns ==
    /\ pc = "adding" /\ at > PlanLen
    /\ tf' = [id |-> cur, attrs |-> want.attrs, rules |-> made]
    /\ Return("created")
    /\ UNCHANGED <<controller, want, abandoned, quiet, faults, drifts, edits>>

-----------------------------------------------------------------------------
(* Read *)

(* Mutant: a group that is gone is kept in the state. *)
ReadKeepsLost ==
    /\ Idle /\ tf.id # NoId
    /\ IF tf.id \in groups THEN SaveListing ELSE UNCHANGED tf
    /\ result' = "read" /\ quiet' = TRUE
    /\ UNCHANGED <<controller, want, locals, abandoned, faults, drifts, edits>>

Read ==
    /\ Idle /\ tf.id # NoId
    /\ IF tf.id \in groups THEN SaveListing ELSE tf' = NoState
    /\ result' = "read" /\ quiet' = TRUE
    /\ UNCHANGED <<controller, want, locals, abandoned, faults, drifts, edits>>

ReadFails ==
    /\ Idle /\ tf.id # NoId
    /\ Fault /\ Fail
    /\ UNCHANGED <<controller, want, abandoned, quiet, drifts, edits>>

(* All groups are listed, and an error that reads like "not found" for any *)
(* reason is taken to be about this one.                                   *)
ReadMisled ==
    /\ Idle /\ tf.id # NoId
    /\ MisleadingErrors /\ Fault
    /\ tf' = NoState /\ Return("read") /\ Forget
    /\ abandoned' = abandoned \cup {tf.id}
    /\ UNCHANGED <<groups, nextRule, nextGroup, want, quiet, drifts, edits>>

-----------------------------------------------------------------------------
(* Update *)

UpdateGet ==
    /\ Idle /\ tf.id # NoId /\ want.present /\ HasDiff
    /\ tf.id \in groups
    /\ doomed' = DOMAIN rules \ DesiredIds
    /\ pc' = "reconciling" /\ quiet' = TRUE /\ result' = "none"
    /\ UNCHANGED <<controller, tf, want, cur, made, at, abandoned,
                   faults, drifts, edits>>

UpdateGetFails ==
    /\ Idle /\ tf.id # NoId /\ want.present /\ HasDiff
    /\ Fault \/ (tf.id \notin groups /\ UNCHANGED faults)
    /\ Fail
    /\ UNCHANGED <<controller, want, abandoned, quiet, drifts, edits>>

(* Go ranges over a map in no particular order. *)
UpdateRemove ==
    /\ pc = "reconciling"
    /\ \E i \in doomed : DeleteRule(i) /\ doomed' = doomed \ {i}
    /\ UNCHANGED <<groups, attrs, nextRule, nextGroup, tf, want, pc, cur, made, at,
                   result, abandoned, quiet, faults, drifts, edits>>

UpdateRemoveFails ==
    /\ pc = "reconciling"
    /\ \E i \in doomed :
          \/ i \notin DOMAIN rules /\ UNCHANGED <<rules, faults>>
          \/ Fault /\ (UNCHANGED rules \/ DeleteRule(i))
    /\ Fail
    /\ UNCHANGED <<groups, attrs, nextRule, nextGroup, want, abandoned, quiet,
                   drifts, edits>>

(* Mutant: a rule that has an ID is taken to be right already. *)
SendNewRule ==
    \/ PlanId(at) = NoId /\ PostRule(PlanBody(at))
    \/ PlanId(at) # NoId /\ UNCHANGED <<rules, nextRule>>

(* The request for one planned rule: POST without an ID, else PUT. *)
SendRule ==
    \/ PlanId(at) = NoId /\ PostRule(PlanBody(at))
    \/ PlanId(at) # NoId /\ PutRule(PlanId(at), PlanBody(at)) /\ UNCHANGED nextRule

UpdateApply ==
    /\ pc = "reconciling" /\ doomed = {} /\ at <= PlanLen
    /\ SendRule
    /\ at' = at + 1
    /\ UNCHANGED <<groups, attrs, nextGroup, tf, want, pc, cur, made, doomed, result,
                   abandoned, quiet, faults, drifts, edits>>

UpdateApplyFails ==
    /\ pc = "reconciling" /\ doomed = {} /\ at <= PlanLen
    /\ \/ /\ IF PlanId(at) = NoId THEN tf.id \notin groups
                                  ELSE PlanId(at) \notin DOMAIN rules
          /\ UNCHANGED <<rules, nextRule, faults>>
       \/ Fault /\ (UNCHANGED <<rules, nextRule>> \/ SendRule)
    /\ Fail
    /\ UNCHANGED <<groups, attrs, nextGroup, want, abandoned, quiet, drifts, edits>>

UpdateReread ==
    /\ pc = "reconciling" /\ doomed = {} /\ at > PlanLen
    /\ tf.id \in groups /\ SaveListing
    /\ Return("updated")
    /\ UNCHANGED <<controller, want, abandoned, quiet, faults, drifts, edits>>

UpdateRereadFails ==
    /\ pc = "reconciling" /\ doomed = {} /\ at > PlanLen
    /\ Fault \/ (tf.id \notin groups /\ UNCHANGED faults)
    /\ Fail
    /\ UNCHANGED <<controller, want, abandoned, quiet, drifts, edits>>

-----------------------------------------------------------------------------
(* Delete *)

DeleteGroup == groups' = groups \ {tf.id} /\ Forget

Delete ==
    /\ Idle /\ tf.id # NoId /\ ~want.present
    /\ DeleteGroup
    /\ tf' = NoState /\ Return("deleted")
    /\ UNCHANGED <<nextRule, nextGroup, want, abandoned, quiet, faults, drifts, edits>>

(* Mutant: every error of a Delete is taken for "not found". *)
AnyErrorIsNotFound(id) == TRUE

(* The error of a failed request names the group, and the URL when there   *)
(* was no answer.  "404" in it means "not found" (client_extended.go:19),  *)
(* and Terraform drops a group that may still be there.                    *)
IsNotFound(id) == id \in IdsWith404

DeleteFails ==
    /\ Idle /\ tf.id # NoId /\ ~want.present
    /\ Fault
    /\ \/ groups' = groups /\ (IF IsNotFound(tf.id) THEN Forget ELSE UNCHANGED <<rules, attrs>>)
       \/ DeleteGroup
    /\ IF IsNotFound(tf.id) THEN tf' = NoState /\ Return("deleted") ELSE Fail
    /\ UNCHANGED <<nextRule, nextGroup, want, abandoned, quiet, drifts, edits>>

-----------------------------------------------------------------------------
(* Other operators of the controller, and the user *)

Foreign ==
    /\ drifts < MaxDrift /\ drifts' = drifts + 1
    /\ Followed \in groups
    /\ quiet' = FALSE
    /\ \/ \E b \in Body : PostRule(b) /\ UNCHANGED <<groups, attrs>>
       \/ \E i \in DOMAIN rules, b \in Body :
             PutRule(i, b) /\ UNCHANGED <<groups, attrs, nextRule>>
       \/ \E i \in DOMAIN rules : DeleteRule(i) /\ UNCHANGED <<groups, attrs, nextRule>>
       \/ attrs' \in Attrs /\ UNCHANGED <<groups, rules, nextRule>>
       \/ groups' = groups \ {Followed} /\ Forget /\ UNCHANGED nextRule
    /\ UNCHANGED <<nextGroup, tf, want, locals, result, abandoned, faults, edits>>

Wants == [present : BOOLEAN, attrs : Attrs, rules : Configs]

Edit ==
    /\ Idle /\ edits < MaxEdits /\ edits' = edits + 1
    /\ want' \in Wants
    /\ result' = "none"
    /\ UNCHANGED <<controller, tf, locals, abandoned, quiet, faults, drifts>>

Init ==
    /\ groups = {} /\ rules = NoRules /\ attrs = NoAttrs
    /\ nextRule = 1 /\ nextGroup = 1
    /\ tf = NoState
    /\ want \in Wants
    /\ pc = "idle" /\ cur = NoId /\ made = << >> /\ doomed = {} /\ at = 1
    /\ result = "none" /\ abandoned = {} /\ quiet = TRUE
    /\ faults = 0 /\ drifts = 0 /\ edits = 0

CreateNext == CreateGroup \/ CreateGroupFails \/ CreateRule \/ CreateRuleFails
              \/ CreateReturns
UpdateNext == UpdateRemove \/ UpdateRemoveFails \/ UpdateApply \/ UpdateApplyFails
              \/ UpdateReread \/ UpdateRereadFails
Next ==
    \/ CreateNext \/ Read \/ ReadFails \/ ReadMisled
    \/ UpdateGet \/ UpdateGetFails \/ UpdateNext
    \/ Delete \/ DeleteFails
    \/ Foreign \/ Edit

Spec == Init /\ [][Next]_vars

(* A handler runs to its end.  The user runs apply again and again, and an *)
(* apply first refreshes: Read, though kept out while a handler runs, is   *)
(* taken as often as it can be.                                            *)
FairSpec ==
    /\ Spec
    /\ WF_vars(CreateNext) /\ WF_vars(UpdateNext) /\ WF_vars(UpdateGet) /\ WF_vars(Delete)
    /\ SF_vars(Read)

-----------------------------------------------------------------------------
(* Properties *)

(* Every variable has its type: the two loops never index past the plan.   *)
TypeOK ==
    /\ groups \subseteq GroupIds
    /\ DOMAIN rules \subseteq RuleIds /\ rules \in [DOMAIN rules -> Body]
    /\ attrs \in Attrs \cup {NoAttrs}
    /\ nextRule \in 1 .. MaxRuleId + 1 /\ nextGroup \in 1 .. MaxGroupId + 1
    /\ tf \in [id : GroupIds \cup {NoId}, attrs : Attrs \cup {NoAttrs},
               rules : Seq(StateRule)]
    /\ want \in Wants
    /\ pc \in {"idle", "adding", "reconciling"}
    /\ cur \in IF pc = "adding" THEN GroupIds ELSE {NoId}
    /\ made \in Seq(StateRule)
    /\ doomed \subseteq RuleIds
    /\ at \in IF Idle THEN {1} ELSE 1 .. PlanLen + 1
    /\ result \in {"none", "created", "read", "updated", "deleted", "error"}
    /\ abandoned \subseteq GroupIds
    /\ quiet \in BOOLEAN
    /\ faults \in 0 .. MaxFaults /\ drifts \in 0 .. MaxDrift /\ edits \in 0 .. MaxEdits

(* The controller's rules are the configured ones, one for one: every      *)
(* field the configuration sets has its configured value.                  *)
Honours(body, c) == body.match = c.match /\ (c.prio # Unset => body.prio = c.prio)

Realised ==
    \E f \in [1 .. PlanLen -> DOMAIN rules] :
        /\ \A j, k \in 1 .. PlanLen : f[j] = f[k] => j = k
        /\ \A i \in DOMAIN rules : \E k \in 1 .. PlanLen : f[k] = i
        /\ \A k \in 1 .. PlanLen : Honours(rules[f[k]], want.rules[k])

(* A Create or Update that reports success has left exactly the configured *)
(* rules on the controller, whatever the rules were before, as long as     *)
(* nobody else changed the group after the handler's first request.        *)
SuccessMeansRealised == result \in {"created", "updated"} /\ quiet => Realised

Object ==
    INSTANCE ManagedObject WITH
        Ids <- GroupIds, Misread <- IdsWith404, exists <- groups, saved <- tf.id,
        held <- Followed, disowned <- abandoned, failures <- faults, broken <- {}

(* The resource makes, follows and deletes one group at a time.  It loses  *)
(* one only in a Create that reports an error, or when a Read or a Delete  *)
(* takes an error for "not found".                                         *)
ImplementsManagedObject == Object!Spec

(* A rule that already is, under the ID the plan carries for its place,    *)
(* what the configuration wants at that place stays up, and stays that,    *)
(* through every request of Update: only another operator can change it.   *)
(* (A rule that is kept but moves to another place does not: its ID is     *)
(* given the body of the rule that takes its place before the rule itself  *)
(* is added anew.)                                                         *)
UpAt(k) == PlanId(k) \in DOMAIN rules /\ Honours(rules[PlanId(k)], want.rules[k])

KeptRulesStayUp ==
    [][pc = "reconciling" /\ drifts' = drifts =>
          \A k \in 1 .. PlanLen : UpAt(k) => /\ PlanId(k) \in DOMAIN rules'
                                            /\ Honours(rules'[PlanId(k)], want.rules[k])]_vars

(* Repeated applies end with the configured rules on the controller, or    *)
(* with nothing saved when the resource is no longer configured, after any *)
(* refused and unanswered requests, foreign changes and edits.             *)
ApplyConverges ==
    <>[](IF want.present THEN tf.id \in groups /\ Realised ELSE tf.id = NoId)
=============================================================================
