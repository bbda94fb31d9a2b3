----------------------------- MODULE Membership -----------------------------
(***************************************************************************)
(* Who belongs to an organization, in which role: invitations, join        *)
(* requests, role changes and seats (app/api/v1/organizations.py,          *)
(* join_requests.py, me.py, app/domain/billing.py).                        *)
(*                                                                         *)
(* Each request loads its rows, checks them, and commits one INSERT,       *)
(* UPDATE or DELETE; other requests come between.  An UPDATE whose row is  *)
(* gone fails; a DELETE whose row is gone passes.                          *)
(***************************************************************************)
EXTENDS Organization

CONSTANTS
  User,
  Founder,        \* the user who creates the organization
  Requests,       \* requests in flight at once
  MaxSeats,       \* max_team_members of each plan
  AskedRoles,     \* bound of the model on the roles that requests name
  MaxRows         \* bound of the model on the rows a user has had

ASSUME MembershipAssumption ==
  /\ Founder \in User
  /\ IsFiniteSet(User) /\ IsFiniteSet(Requests)
  /\ MaxSeats \in [Plans -> Nat \ {0}]
  /\ AskedRoles \subseteq {"owner", "finance", "media", "auditor"}
  /\ MaxRows \in Nat
  /\ None \notin {"owner", "finance", "media", "auditor", "invited", "active", "requested"}

VARIABLES
  members,        \* the row of each user in this organization
  inserted,       \* how many rows each user has had: the key of the latest one
  mfa_enabled,    \* users.mfa_enabled
  mfa_secret,     \* users.mfa_secret is set
  working,        \* what each request holds in memory
  most_seats,     \* history: the most seats the organization's plans have had
  joint           \* history: two requests have been in flight at once

membershipVars == <<org, members, inserted, mfa_enabled, mfa_secret, working, most_seats, joint>>

Role == {"owner", "finance", "media", "auditor"}
MFA_REQUIRED_ROLES == {"owner", "finance"}
MembershipStatus == {"invited", "active", "requested"}      \* "suspended" is never assigned

\* A row that is not there.
Nobody == [key |-> 0, role |-> None, status |-> None]
\* A row to insert: the database gives it its key.
NewRow(role, status) == [key |-> 0, role |-> role, status |-> status]

Member(u) == members[u] # Nobody
Has(u, status) == members[u].status = status

NoWrite == [kind |-> "none", user |-> Founder, row |-> Nobody]

\* get_membership and require_roles(OWNER).
ActingOwner(u) == Has(u, "active") /\ members[u].role = "owner"

Begins(c, kind, u, row) ==
  /\ working[c] = NoWrite
  /\ working' = [working EXCEPT ![c] = [kind |-> kind, user |-> u, row |-> row]]
  /\ joint' = (joint \/ \E d \in Requests : working[d] # NoWrite)
  /\ UNCHANGED <<org, members, inserted, mfa_enabled, mfa_secret, most_seats>>

\* Mutant: a role is given whatever the user has.
AnyRole(u, role) == TRUE
MayHold(u, role) == role \in MFA_REQUIRED_ROLES => mfa_enabled[u]

\* Mutant: an off-by-one.
RoomForOneTooMany == Cardinality({u \in User : Member(u)}) <= MaxSeats[org.plan]
\* assert_can_add_team_member: every row counts, a join request too.
SeatFree ==
  /\ org.subscription_status # "canceled"
  /\ Cardinality({u \in User : Member(u)}) < MaxSeats[org.plan]

\* invite_member
Invite(c, by, u, role) ==
  /\ ActingOwner(by)
  /\ MayHold(u, role)
  /\ ~Member(u)
  /\ SeatFree
  /\ inserted[u] < MaxRows
  /\ Begins(c, "insert", u, NewRow(role, "invited"))

\* join_organization: no role, no seat taken into account.
Join(c, u) ==
  /\ ~Member(u)
  /\ inserted[u] < MaxRows
  /\ Begins(c, "insert", u, NewRow(None, "requested"))

\* Mutant: invited owners count as owners.
OwnersInvitedToo == {u \in User : members[u].role = "owner"}
Owners == {u \in User : Has(u, "active") /\ members[u].role = "owner"}

\* Mutant: a join request is given a role as well.
AnyStatus(u) == Member(u)
Settled(u) == members[u].status \in {"invited", "active"}

\* update_member_role
UpdateRole(c, by, u, role) ==
  /\ ActingOwner(by)
  /\ Settled(u)
  /\ MayHold(u, role)
  /\ members[u].role = "owner" /\ role # "owner" => Cardinality(Owners) > 1
  /\ Begins(c, "role", u, [members[u] EXCEPT !.role = role])

\* approve_join_request
Approve(c, by, u, role) ==
  /\ ActingOwner(by)
  /\ Has(u, "requested")
  /\ MayHold(u, role)
  /\ SeatFree
  /\ Begins(c, "update", u, [members[u] EXCEPT !.role = role, !.status = "active"])

\* accept_invitation
Accept(c, u) ==
  /\ Has(u, "invited")
  /\ Begins(c, "status", u, [members[u] EXCEPT !.status = "active"])

\* deny_join_request, cancel_my_join_request and decline_invitation.
Deny(c, by, u) == ActingOwner(by) /\ Has(u, "requested") /\ Begins(c, "delete", u, members[u])
CancelMine(c, u) == Has(u, "requested") /\ Begins(c, "delete", u, members[u])
Decline(c, u) == Has(u, "invited") /\ Begins(c, "delete", u, members[u])

\* What a committed UPDATE makes of a row: only the columns it names.
Merged(old, w) ==
  CASE w.kind = "role" -> [old EXCEPT !.role = w.row.role]
    [] w.kind = "status" -> [old EXCEPT !.status = w.row.status]
    [] w.kind = "update" -> w.row

\* The key a request loaded.
SameRow(w) == members[w.user].key = w.row.key

Ends(c) ==
  /\ working' = [working EXCEPT ![c] = NoWrite]
  /\ UNCHANGED <<org, mfa_enabled, mfa_secret, most_seats, joint>>

\* uq_membership_user_org refuses a second row.
InsertMember(c) ==
  LET w == working[c] IN
  /\ w.kind = "insert"
  /\ members[w.user] = Nobody
  /\ members' = [members EXCEPT ![w.user] = [w.row EXCEPT !.key = inserted[w.user] + 1]]
  /\ inserted' = [inserted EXCEPT ![w.user] = @ + 1]
  /\ Ends(c)

UpdateMember(c) ==
  LET w == working[c] IN
  /\ w.kind \in {"role", "status", "update"}
  /\ SameRow(w)
  /\ members' = [members EXCEPT ![w.user] = Merged(@, w)]
  /\ Ends(c)
  /\ UNCHANGED inserted

DeleteMember(c) ==
  LET w == working[c] IN
  /\ w.kind = "delete"
  /\ members' = [members EXCEPT ![w.user] = IF SameRow(w) THEN Nobody ELSE @]
  /\ Ends(c)
  /\ UNCHANGED inserted

GiveUp(c) ==
  /\ working[c] # NoWrite
  /\ Ends(c)
  /\ UNCHANGED <<members, inserted>>

\* enroll_mfa, then activate_mfa; nothing turns MFA off.
EnrollMfa(u) ==
  /\ ~mfa_enabled[u]
  /\ mfa_secret' = [mfa_secret EXCEPT ![u] = TRUE]
  /\ UNCHANGED <<org, members, inserted, mfa_enabled, working, most_seats, joint>>

ActivateMfa(u) ==
  /\ mfa_secret[u]
  /\ mfa_enabled' = [mfa_enabled EXCEPT ![u] = TRUE]
  /\ UNCHANGED <<org, members, inserted, mfa_secret, working, most_seats, joint>>

\* Billing moves the organization to another plan, cancels or revives it.
SubscriptionMoves(p, st) ==
  /\ org' = [org EXCEPT !.plan = p, !.subscription_status = st]
  /\ most_seats' = Larger(most_seats, MaxSeats[p])
  /\ UNCHANGED <<members, inserted, mfa_enabled, mfa_secret, working, joint>>

\* create_organization: its creator has MFA and becomes its owner.
MembershipInit ==
  /\ org = NewOrganization
  /\ mfa_enabled = [u \in User |-> u = Founder]
  /\ mfa_secret = [u \in User |-> u = Founder]
  /\ inserted = [u \in User |-> IF u = Founder THEN 1 ELSE 0]
  /\ members = [u \in User |-> IF u = Founder THEN [key |-> 1, role |-> "owner", status |-> "active"]
                                              ELSE Nobody]
  /\ working = [c \in Requests |-> NoWrite]
  /\ most_seats = MaxSeats[Starter]
  /\ joint = FALSE

Petition(c) ==
  \/ \E by, u \in User, role \in AskedRoles : \/ Invite(c, by, u, role)
                                        \/ UpdateRole(c, by, u, role)
                                        \/ Approve(c, by, u, role)
  \/ \E by, u \in User : Deny(c, by, u)
  \/ \E u \in User : Join(c, u) \/ Accept(c, u) \/ Decline(c, u) \/ CancelMine(c, u)

Finish(c) == InsertMember(c) \/ UpdateMember(c) \/ DeleteMember(c) \/ GiveUp(c)

MembershipNext ==
  \/ \E c \in Requests : Petition(c) \/ Finish(c)
  \/ \E u \in User : EnrollMfa(u) \/ ActivateMfa(u)
  \/ \E p \in Plans, st \in SubscriptionStatus : SubscriptionMoves(p, st)

MembershipSpec == MembershipInit /\ [][MembershipNext]_membershipVars

------------------------------------------------------------------------------

MemberRow == [key : Nat, role : Role \cup {None}, status : MembershipStatus \cup {None}]

\* The types.
MembershipTypeOK ==
  /\ org \in OrganizationRow
  /\ members \in [User -> MemberRow]
  /\ inserted \in [User -> Nat]
  /\ mfa_enabled \in [User -> BOOLEAN]
  /\ mfa_secret \in [User -> BOOLEAN]
  /\ working \in [Requests -> [kind : {"none", "insert", "role", "status", "update", "delete"},
                               user : User, row : MemberRow]]
  /\ most_seats \in Nat
  /\ joint \in BOOLEAN

\* Nobody owns an organization or does its finances without MFA, even when the
\* role was given by one request while others changed the row
\* (MFA_REQUIRED_ROLES is looked at when the role is given, not when it is used).
MfaBeforePrivilege ==
  \A u \in User : members[u].role \in MFA_REQUIRED_ROLES => mfa_enabled[u]

\* A member has a role and a join request has none, whatever was approved,
\* denied, withdrawn or changed at the same time.
RoleUnlessRequested ==
  \A u \in User : Member(u) => (members[u].role = None <=> members[u].status = "requested")

\* An organization has an active owner: of requests that come one by one, for
\* update_member_role counts the owners without a lock.
KeepsAnOwner == ~joint => Owners # {}

\* "This organization must keep at least one active owner" (organizations.py:264),
\* of any requests.  Two owners who demote each other both count two: it fails.
AlwaysAnOwner == Owners # {}

\* Members and invitations stay within the most seats the organization's plans
\* have had, though the plan moves between a count and its commit, but for what
\* requests at the same time have overshot, one each (assert_can_add_team_member
\* counts without a lock; a join request takes no seat until it is approved).
SeatsWithinPlan ==
  Cardinality({u \in User : members[u].status \in {"invited", "active"}})
    <= most_seats + (IF joint THEN Cardinality(Requests) - 1 ELSE 0)
=============================================================================
