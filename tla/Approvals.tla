------------------------------ MODULE Approvals ------------------------------
(***************************************************************************)
(* Who may do what: the access configuration (autoschematic.rbac.ron on    *)
(* the default branch), the reviews of one pull request, and the commands  *)
(* on it: plan, import and apply, which ask them, and pull-state, which    *)
(* does not.                                                               *)
(*                                                                         *)
(* The configuration and the reviews live at GitHub and change while a     *)
(* command runs; a command reads the configuration once, before it begins, *)
(* and an apply the reviews at most once, when a report first needs them.  *)
(*                                                                         *)
(* One command at a time: the lock of the ChangeSet is in ChangeSets.  The *)
(* two modules can be extended together, as they are by their proofs: the  *)
(* specification here is RbacSpec.                                         *)
(***************************************************************************)
EXTENDS Naturals, Sequences, FiniteSets

CONSTANTS
  Users, Roles, Prefixes, Connectors,
  Configs,    \* the configurations that can be on the default branch
  NoConfig,   \* the file is missing there, or cannot be parsed
  Unset,      \* a grant that does not name connectors
  NoPlan,     \* no plan is stored
  MaxReviews, \* bound on the reviews of the pull request
  MaxMerges   \* bound on the changes to the default branch

Targets == Prefixes \X Connectors
Kinds == {"None", "ReadOnly", "ApplyIfApprovedBy", "Apply"}
States == {"Approved", "ChangesRequested", "Commented", "Dismissed"}

(* A role name in a grant need not be the name of a role.                  *)
Grants == [grant : Kinds, role : Roles, connectors : {Unset} \cup SUBSET Connectors]
RbacConfig(cfg) ==
  /\ DOMAIN cfg \subseteq Roles
  /\ \A r \in DOMAIN cfg : /\ cfg[r].users \subseteq Users
                          /\ DOMAIN cfg[r].prefixes \subseteq Prefixes
                          /\ \A p \in DOMAIN cfg[r].prefixes : cfg[r].prefixes[p] \in Grants

ASSUME ConfigsAssumption == NoConfig \notin Configs /\ \A cfg \in Configs : RbacConfig(cfg)
ASSUME BoundsAssumption == MaxReviews \in Nat /\ MaxMerges \in Nat

VARIABLES
  rbac,    \* the configuration on the default branch
  merges,  \* changes of it so far
  reviews, \* the reviews in the order they were submitted
  plan,    \* last_plan: the targets of its reports
  spent,   \* its apply_success
  job,     \* the command that runs
  since    \* the configurations and approvals there were since it began

rbacVars == <<rbac, merges, reviews, plan, spent, job, since>>

-----------------------------------------------------------------------------
(* The decisions of AutoschematicRbacConfig.                               *)

RolesForUser(cfg, u) == {r \in DOMAIN cfg : u \in cfg[r].users}

GrantsForPrefix(cfg, u, p) ==
  {cfg[r].prefixes[p] : r \in {q \in RolesForUser(cfg, u) : p \in DOMAIN cfg[q].prefixes}}

(* connectors must be given and name this one.                             *)
Names(g, c) == g.connectors # Unset /\ c \in g.connectors

AllowsRead(cfg, u, t) ==
  \E g \in GrantsForPrefix(cfg, u, t[1]) : g.grant # "None" /\ Names(g, t[2])

AllowsApplyWithoutApproval(cfg, u, t) ==
  \E g \in GrantsForPrefix(cfg, u, t[1]) : g.grant = "Apply" /\ Names(g, t[2])

AllowsApplyWithApproval(cfg, u, t) ==
  \E g \in GrantsForPrefix(cfg, u, t[1]) : g.grant = "ApplyIfApprovedBy" /\ Names(g, t[2])

(* Mutant: any role of an approving user will do. *)
AnyRoleApproves(cfg, u, t, approving) ==
  \E g \in GrantsForPrefix(cfg, u, t[1]) :
    /\ g.grant = "ApplyIfApprovedBy"
    /\ \E a \in approving : RolesForUser(cfg, a) # {}
    /\ g.connectors = Unset \/ t[2] \in g.connectors

(* An approving user has a role that equals, field by field, the role the  *)
(* grant names; here a grant without connectors is one for all of them.    *)
AllowsApplyIfApprovedBy(cfg, u, t, approving) ==
  \E g \in GrantsForPrefix(cfg, u, t[1]) :
    /\ g.grant = "ApplyIfApprovedBy"
    /\ g.role \in DOMAIN cfg
    /\ \E a \in approving : \E r \in RolesForUser(cfg, a) : cfg[r] = cfg[g.role]
    /\ g.connectors = Unset \/ t[2] \in g.connectors

(* get_pr_approvals: the last review of each user counts, of whatever kind *)
(* it is and whatever commit it was of.                                    *)
Approving(rs) ==
  {u \in Users : \E i \in DOMAIN rs :
     /\ rs[i] = [user |-> u, state |-> "Approved"]
     /\ \A j \in DOMAIN rs : j > i => rs[j].user # u}

-----------------------------------------------------------------------------
NoJob == [kind |-> "none", user |-> Unset, cfg |-> NoConfig, todo |-> {}, did |-> {},
          fetched |-> FALSE, approvals |-> {}]

Running == job.kind # "none"

RbacInit ==
  /\ rbac \in Configs \cup {NoConfig}
  /\ merges = 0
  /\ reviews = <<>>
  /\ plan = NoPlan
  /\ spent = FALSE
  /\ job = NoJob
  /\ since = [configs |-> {}, approvers |-> {}]

(* What there was while a command runs.                                    *)
Seen(c, rs) ==
  since' = IF Running THEN [configs |-> since.configs \cup {c},
                            approvers |-> since.approvers \cup Approving(rs)]
                      ELSE since

-----------------------------------------------------------------------------
(* GitHub.                                                                 *)

(* A change of the file reaches the default branch.                        *)
Merge ==
  /\ merges < MaxMerges
  /\ merges' = merges + 1
  /\ rbac' \in Configs \cup {NoConfig}
  /\ Seen(rbac', reviews)
  /\ UNCHANGED <<reviews, plan, spent, job>>

Review(u) ==
  /\ Len(reviews) < MaxReviews
  /\ \E s \in States \ {"Dismissed"} : reviews' = Append(reviews, [user |-> u, state |-> s])
  /\ Seen(rbac, reviews')
  /\ UNCHANGED <<rbac, merges, plan, spent, job>>

(* A dismissed review stays where it is.                                   *)
Dismiss(i) ==
  /\ reviews[i].state \in {"Approved", "ChangesRequested"}
  /\ reviews' = [reviews EXCEPT ![i].state = "Dismissed"]
  /\ Seen(rbac, reviews')
  /\ UNCHANGED <<rbac, merges, plan, spent, job>>

(* The head moves: the next command gets a new ChangeSet, without a plan.  *)
(* The reviews remain.                                                     *)
Push ==
  /\ ~Running
  /\ plan # NoPlan
  /\ plan' = NoPlan
  /\ spent' = FALSE
  /\ UNCHANGED <<rbac, merges, reviews, job, since>>

-----------------------------------------------------------------------------
(* The commands.                                                           *)

(* dispatch reads the configuration, and refuses without one.  The targets *)
(* are those of the configured prefixes or of the stored plan that the     *)
(* filters of the command let through.                                     *)
Begin(u, kind, targets) ==
  /\ ~Running
  /\ rbac # NoConfig
  /\ \E todo \in SUBSET targets :
       job' = [kind |-> kind, user |-> u, cfg |-> rbac, todo |-> todo, did |-> {},
               fetched |-> FALSE, approvals |-> {}]
  /\ since' = [configs |-> {rbac}, approvers |-> Approving(reviews)]
  /\ UNCHANGED <<rbac, merges, reviews, plan, spent>>

Plan(u) == Begin(u, "plan", Targets)
Import(u) == Begin(u, "import", Targets)

(* pull_state is handed neither the configuration nor the user.            *)
PullState(u) == Begin(u, "pull", Targets)

Apply(u) ==
  /\ plan # NoPlan
  /\ ~spent
  /\ Begin(u, "apply", plan)

(* Nothing (more) is done for this target.                                 *)
Leave(t) ==
  /\ job' = [job EXCEPT !.todo = @ \ {t}]
  /\ UNCHANGED <<rbac, merges, reviews, plan, spent, since>>

(* An object of the target: others may follow, each is decided anew.       *)
Do(t) ==
  /\ job' = [job EXCEPT !.did = @ \cup {t}]
  /\ UNCHANGED <<rbac, merges, reviews, plan, spent, since>>

(* plan and import ask a connector only where that is granted.             *)
Read(t) ==
  /\ job.kind \in {"plan", "import"}
  /\ Leave(t) \/ (AllowsRead(job.cfg, job.user, t) /\ Do(t))

(* pull-state asks every connector that its filters let through.           *)
Pull(t) ==
  /\ job.kind = "pull"
  /\ Leave(t) \/ Do(t)

Needs(t) ==
  /\ ~AllowsApplyWithoutApproval(job.cfg, job.user, t)
  /\ AllowsApplyWithApproval(job.cfg, job.user, t)

(* Mutant: that they were read is not remembered. *)
FetchUnremembered(t) ==
  /\ job.kind = "apply"
  /\ Needs(t)
  /\ ~job.fetched
  /\ job' = [job EXCEPT !.approvals = Approving(reviews)]
  /\ UNCHANGED <<rbac, merges, reviews, plan, spent, since>>

(* The reviews are read for the first report that needs them.              *)
FetchApprovals(t) ==
  /\ job.kind = "apply"
  /\ Needs(t)
  /\ ~job.fetched
  /\ job' = [job EXCEPT !.fetched = TRUE, !.approvals = Approving(reviews)]
  /\ UNCHANGED <<rbac, merges, reviews, plan, spent, since>>

MayApply(t) ==
  \/ AllowsApplyWithoutApproval(job.cfg, job.user, t)
  \/ /\ AllowsApplyWithApproval(job.cfg, job.user, t)
     /\ AllowsApplyIfApprovedBy(job.cfg, job.user, t, job.approvals)

(* A report that may be applied is executed, unless its plan failed or has *)
(* no ops.                                                                 *)
Execute(t) ==
  /\ job.kind = "apply"
  /\ Needs(t) => job.fetched
  /\ \/ MayApply(t) /\ Do(t)
     \/ Leave(t)

(* A plan is stored when it is through, or when the plan of an object has  *)
(* failed; an apply that is through marks its plan.                        *)
Finish ==
  /\ Running
  /\ job.todo = {} \/ job.kind = "plan"
  /\ IF job.kind = "plan" THEN plan' = job.did ELSE plan' = plan
  /\ spent' = CASE job.kind = "plan" -> FALSE [] job.kind = "apply" -> TRUE [] OTHER -> spent
  /\ job' = NoJob
  /\ since' = [configs |-> {}, approvers |-> {}]
  /\ UNCHANGED <<rbac, merges, reviews>>

(* Any other error ends the command: nothing is stored.                    *)
Fail ==
  /\ Running
  /\ job' = NoJob
  /\ since' = [configs |-> {}, approvers |-> {}]
  /\ UNCHANGED <<rbac, merges, reviews, plan, spent>>

GitHub == Merge \/ (\E u \in Users : Review(u)) \/ (\E i \in DOMAIN reviews : Dismiss(i)) \/ Push

Command(u) == Plan(u) \/ Import(u) \/ Apply(u) \/ PullState(u)

Step(t) == Read(t) \/ Pull(t) \/ FetchApprovals(t) \/ Execute(t)

RbacNext ==
  \/ GitHub
  \/ \E u \in Users : Command(u)
  \/ \E t \in job.todo : Step(t)
  \/ Finish
  \/ Fail

RbacSpec == RbacInit /\ [][RbacNext]_rbacVars

-----------------------------------------------------------------------------
(* The types of the variables.  A command knows of the reviews what it has *)
(* fetched.                                                                *)
RbacTypeOK ==
  /\ rbac \in Configs \cup {NoConfig}
  /\ merges \in 0 .. MaxMerges
  /\ reviews \in Seq([user : Users, state : States])
  /\ plan \in {NoPlan} \cup SUBSET Targets
  /\ spent \in BOOLEAN
  /\ job = NoJob \/ job \in [kind : {"plan", "import", "apply", "pull"}, user : Users,
                             cfg : Configs, todo : SUBSET Targets, did : SUBSET Targets,
                             fetched : BOOLEAN, approvals : SUBSET Users]
  /\ ~job.fetched => job.approvals = {}
  /\ since \in [configs : SUBSET (Configs \cup {NoConfig}), approvers : SUBSET Users]

(* What the grants mean: a role is what its name stands for, and a grant   *)
(* without connectors is one for all of them.                              *)
Covers(g, c) == g.connectors = Unset \/ c \in g.connectors

MayRead(cfg, u, t) ==
  \E r \in DOMAIN cfg : /\ u \in cfg[r].users /\ t[1] \in DOMAIN cfg[r].prefixes
                        /\ cfg[r].prefixes[t[1]].grant # "None"
                        /\ Covers(cfg[r].prefixes[t[1]], t[2])

MayModify(cfg, u, t, approvers) ==
  \E r \in DOMAIN cfg :
    /\ u \in cfg[r].users /\ t[1] \in DOMAIN cfg[r].prefixes
    /\ LET g == cfg[r].prefixes[t[1]] IN
         /\ Covers(g, t[2])
         /\ \/ g.grant = "Apply"
            \/ /\ g.grant = "ApplyIfApprovedBy"
               /\ g.role \in DOMAIN cfg
               /\ \E a \in approvers : a \in cfg[g.role].users

(* A plan or an import reads, and an apply executes, only what a grant of  *)
(* its user lets it, under a configuration that was on the default branch  *)
(* after the command had begun, and with the approval, since then, of a    *)
(* user who holds the role the grant names, however the configuration, the *)
(* reviews and the plan change meanwhile and whoever made the plan.  The   *)
(* one who approves may be the user himself: see ApprovedByAnother.        *)
NeverMoreThanGranted ==
  \A t \in job.did :
    job.kind # "pull" =>
      \E cfg \in since.configs \ {NoConfig} :
        IF job.kind = "apply" THEN MayModify(cfg, job.user, t, since.approvers)
                              ELSE MayRead(cfg, job.user, t)

(* "Users may take any action, including apply and task-exec, to modify    *)
(* infrastructure, if and only if their PR is approved by a different user *)
(* who has `role`."  The run named after this refutes it.                  *)
ApprovedByAnother ==
  job.kind = "apply" =>
    \A t \in job.did :
      \E cfg \in since.configs \ {NoConfig} :
        MayModify(cfg, job.user, t, since.approvers \ {job.user})
=============================================================================
