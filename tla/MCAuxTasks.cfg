SPECIFICATION FairSpec
CONSTANTS
  Runs = {r1, r2}
  Dispatchers = {d1}
  Nobody = Nobody
  InboxSize = 1
  Replies = {"greeting", "pull_state_success", "pull_state_success_with_deferrals",
    "plan_overall_success", "plan_overall_success_with_deferrals",
    "plan_no_changes", "plan_error", "apply_overall_success", "misc_error"}
  MaxMail = 1
CHECK_DEADLOCK FALSE
INVARIANTS
  TypeOK
  OutboxFits
PROPERTIES
  DispatchEnds
  NoPhantom
  DisplacedRunEnds
