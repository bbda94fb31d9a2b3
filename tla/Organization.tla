---------------------------- MODULE Organization ----------------------------
(***************************************************************************)
(* The columns of the row `organizations` that billing writes and that     *)
(* every plan limit reads (app/db/models/organization.py), and the rule by *)
(* which a request's UPDATE changes them.                                  *)
(***************************************************************************)
EXTENDS Integers, FiniteSets

CONSTANTS
  Paid,         \* plans with a price
  Starter,      \* the free plan
  None          \* a NULL column, or a column an UPDATE does not name

VARIABLE org    \* the committed row

Plans == Paid \cup {Starter}

SubscriptionStatus == {"trialing", "active", "past_due", "canceled"}

\* Instants are kept as what the code asks of them: whether the grace period
\* has an end at all, and whether the granted plan's last day has passed.
OrganizationRow ==
  [ plan : Plans, subscription_status : SubscriptionStatus,
    grace_period_ends_at : {"unset", "set"},
    plan_expires_at : {"unset", "ahead", "passed"} ]

\* Columns of an UPDATE.
OrganizationUpdate ==
  [ plan : Plans \cup {None}, subscription_status : SubscriptionStatus \cup {None},
    grace_period_ends_at : {"set", "unset", None},
    plan_expires_at : {"unset", "ahead", "passed", None} ]

NoUpdate ==
  [ plan |-> None, subscription_status |-> None,
    grace_period_ends_at |-> None, plan_expires_at |-> None ]

\* The unit of work names only the columns that differ from the loaded row;
\* a fresh timestamp always differs.
Dirty(w) ==
  [ c \in DOMAIN w |->
      IF w[c] = org[c] /\ ~(c = "grace_period_ends_at" /\ w[c] = "set") THEN None ELSE w[c] ]

Written(w) == [ c \in DOMAIN org |-> IF w[c] = None THEN org[c] ELSE w[c] ]

Larger(a, b) == IF a > b THEN a ELSE b

\* create_organization: the Starter plan, on trial.
NewOrganization ==
  [ plan |-> Starter, subscription_status |-> "trialing",
    grace_period_ends_at |-> "unset", plan_expires_at |-> "unset" ]
=============================================================================
