--------------------------- MODULE MembershipProofs ---------------------------
(***************************************************************************)
(* Theorems about Membership, for any users, any number of requests at the *)
(* same time and any plan.  The argument: a request in flight may carry a  *)
(* privileged role only for a user with MFA, and MFA is never turned off;  *)
(* and as long as the row it loaded is there, that row is as settled as it *)
(* was then, because a key is never given twice.                           *)
(***************************************************************************)
EXTENDS Membership, FiniteSetTheorems, TLAPS

Kinds == {"none", "insert", "role", "status", "update", "delete"}
Work == [kind : Kinds, user : User, row : MemberRow]

\* A row that is there has a key no later row of that user has.
RowsKeyed ==
  \A u \in User :
    /\ members[u].key <= inserted[u]
    /\ Member(u) => members[u].key >= 1

\* A request that loaded a row has its key.
WorkKeyed(w) ==
  w.kind \in {"role", "status", "update", "delete"} => w.row.key \in 1..inserted[w.user]

\* The role a request is about to give is one the user may hold.
WorkAllowed(w) ==
  w.kind \in {"insert", "role", "update"} /\ w.row.role \in MFA_REQUIRED_ROLES => mfa_enabled[w.user]

\* Roles are changed, and invitations accepted, of rows that have a role.
WorkSettled(w) ==
  /\ w.kind = "insert" =>
       \/ w.row.role \in Role /\ w.row.status = "invited"
       \/ w.row.role = None /\ w.row.status = "requested"
  /\ w.kind = "role" => w.row.role \in Role /\ (SameRow(w) => Settled(w.user))
  /\ w.kind = "status" => w.row.status = "active" /\ (SameRow(w) => Settled(w.user))
  /\ w.kind = "update" => w.row.role \in Role /\ w.row.status = "active"

WorkOK(w) == w = NoWrite \/ (WorkKeyed(w) /\ WorkAllowed(w) /\ WorkSettled(w))

InFlightOK == \A c \in Requests : WorkOK(working[c])

MembersInv ==
  MembershipTypeOK /\ RowsKeyed /\ InFlightOK /\ MfaBeforePrivilege /\ RoleUnlessRequested

Constants == User # {} /\ Founder \in User /\ AskedRoles \subseteq Role
             /\ None \notin Role \cup MembershipStatus

LEMMA ConstantsOK == Constants
BY MembershipAssumption DEF Constants, Role, MembershipStatus

LEMMA MembersInvInit == MembershipInit => MembersInv
<1> SUFFICES ASSUME MembershipInit PROVE MembersInv
  OBVIOUS
<1> USE ConstantsOK DEF Constants
<1> most_seats \in Nat
  BY MembershipAssumption DEF MembershipInit, Plans
<1>1. MembershipTypeOK
  BY DEF MembershipInit, MembershipTypeOK, MemberRow, NoWrite, Nobody, Role, MembershipStatus,
         NewOrganization, OrganizationRow, Plans, SubscriptionStatus
<1>2. RowsKeyed /\ MfaBeforePrivilege /\ RoleUnlessRequested
  <2>1. ASSUME NEW u \in User, u # Founder
        PROVE  members[u] = Nobody /\ ~Member(u) /\ members[u].key = 0 /\ inserted[u] = 0
               /\ members[u].role = None
    BY <2>1 DEF MembershipInit, Member, Nobody
  <2>2. /\ members[Founder] = [key |-> 1, role |-> "owner", status |-> "active"]
        /\ inserted[Founder] = 1 /\ mfa_enabled[Founder] = TRUE
    BY DEF MembershipInit
  <2>3. None \notin MFA_REQUIRED_ROLES /\ None # "owner"
    BY DEF Role, MFA_REQUIRED_ROLES
  <2> QED BY <2>1, <2>2, <2>3 DEF RowsKeyed, MfaBeforePrivilege, RoleUnlessRequested, Member
<1>3. InFlightOK
  BY DEF MembershipInit, InFlightOK, WorkOK
<1> QED BY <1>1, <1>2, <1>3 DEF MembersInv

------------------------------------------------------------------------------

\* A request begins: the tables stay, its work is in order.
LEMMA BeginsOK ==
  ASSUME MembersInv, NEW c \in Requests, NEW kind \in Kinds, NEW u \in User, NEW r \in MemberRow,
         Begins(c, kind, u, r), WorkOK([kind |-> kind, user |-> u, row |-> r])
  PROVE  MembersInv'
<1> DEFINE w == [kind |-> kind, user |-> u, row |-> r]
<1>1. /\ UNCHANGED <<org, members, inserted, mfa_enabled, mfa_secret, most_seats>>
      /\ working' = [working EXCEPT ![c] = w]
      /\ joint' \in BOOLEAN
  BY DEF Begins
<1>2. w \in Work
  BY DEF Work
<1>3. MembershipTypeOK'
  BY <1>1, <1>2 DEF MembersInv, MembershipTypeOK, Work, Kinds
<1>4. RowsKeyed' /\ MfaBeforePrivilege' /\ RoleUnlessRequested'
  BY <1>1 DEF MembersInv, RowsKeyed, MfaBeforePrivilege, RoleUnlessRequested, Member
<1>5. ASSUME NEW d \in Requests PROVE WorkOK(working[d])'
  <2>1. PICK v : v = working'[d]
    OBVIOUS
  <2>2. WorkOK(v)
    <3>1. CASE d = c
      BY <1>1, <2>1, <3>1 DEF MembersInv, MembershipTypeOK
    <3>2. CASE d # c
      BY <1>1, <2>1, <3>2 DEF MembersInv, MembershipTypeOK, InFlightOK
    <3> QED BY <3>1, <3>2
  <2>3. WorkOK(v)'
    BY <1>1, <2>2 DEF WorkOK, WorkKeyed, WorkAllowed, WorkSettled, SameRow, Settled
  <2> QED BY <2>1, <2>3 DEF WorkOK, WorkKeyed, WorkAllowed, WorkSettled, SameRow, Settled, NoWrite
<1> QED BY <1>3, <1>4, <1>5 DEF MembersInv, InFlightOK

\* The row a request writes.
LEMMA RequestOK ==
  ASSUME MembersInv, NEW c \in Requests, Petition(c)
  PROVE  MembersInv'
<1> USE ConstantsOK DEF Constants
<1>1. ASSUME NEW by \in User, NEW u \in User, NEW role \in AskedRoles, Invite(c, by, u, role)
      PROVE  MembersInv'
  <2> DEFINE r == NewRow(role, "invited")
  <2>1. r \in MemberRow /\ WorkOK([kind |-> "insert", user |-> u, row |-> r])
    BY <1>1 DEF Invite, NewRow, MemberRow, Role, MembershipStatus, MayHold, WorkOK, WorkKeyed,
                WorkAllowed, WorkSettled
  <2> QED BY <1>1, <2>1, BeginsOK DEF Invite, Kinds
<1>2. ASSUME NEW u \in User, Join(c, u)
      PROVE  MembersInv'
  <2> DEFINE r == NewRow(None, "requested")
  <2>1. r \in MemberRow /\ WorkOK([kind |-> "insert", user |-> u, row |-> r])
    BY <1>2 DEF NewRow, MemberRow, Role, MembershipStatus, WorkOK, WorkKeyed, WorkAllowed,
                WorkSettled, MFA_REQUIRED_ROLES
  <2> QED BY <1>2, <2>1, BeginsOK DEF Join, Kinds
\* What a loaded row is.
<1>3. ASSUME NEW u \in User
      PROVE  /\ members[u] \in MemberRow
             /\ Settled(u) \/ Has(u, "requested") \/ Has(u, "invited") =>
                  members[u].key \in 1..inserted[u]
  BY DEF MembersInv, MembershipTypeOK, RowsKeyed, Settled, Has, Member, Nobody, MemberRow,
         MembershipStatus
<1>4. ASSUME NEW by \in User, NEW u \in User, NEW role \in AskedRoles, UpdateRole(c, by, u, role)
      PROVE  MembersInv'
  <2>1. PICK r : r = [members[u] EXCEPT !.role = role]
    OBVIOUS
  <2>2. r \in MemberRow /\ r.key = members[u].key /\ r.role = role
    BY <1>3, <2>1 DEF MemberRow, Role
  <2>3. WorkOK([kind |-> "role", user |-> u, row |-> r])
    BY <1>3, <1>4, <2>2 DEF UpdateRole, MayHold, WorkOK, WorkKeyed, WorkAllowed, WorkSettled, SameRow
  <2> QED BY <1>4, <2>1, <2>2, <2>3, BeginsOK DEF UpdateRole, Kinds
<1>5. ASSUME NEW by \in User, NEW u \in User, NEW role \in AskedRoles, Approve(c, by, u, role)
      PROVE  MembersInv'
  <2>1. PICK r : r = [members[u] EXCEPT !.role = role, !.status = "active"]
    OBVIOUS
  <2>2. r \in MemberRow /\ r.key = members[u].key /\ r.role = role /\ r.status = "active"
    BY <1>3, <2>1 DEF MemberRow, Role, MembershipStatus
  <2>3. WorkOK([kind |-> "update", user |-> u, row |-> r])
    BY <1>3, <1>5, <2>2 DEF Approve, MayHold, WorkOK, WorkKeyed, WorkAllowed, WorkSettled
  <2> QED BY <1>5, <2>1, <2>2, <2>3, BeginsOK DEF Approve, Kinds
<1>6. ASSUME NEW u \in User, Accept(c, u)
      PROVE  MembersInv'
  <2>1. PICK r : r = [members[u] EXCEPT !.status = "active"]
    OBVIOUS
  <2>2. r \in MemberRow /\ r.key = members[u].key /\ r.status = "active"
    BY <1>3, <2>1 DEF MemberRow, MembershipStatus
  <2>3. WorkOK([kind |-> "status", user |-> u, row |-> r])
    BY <1>3, <1>6, <2>2 DEF Accept, Has, Settled, WorkOK, WorkKeyed, WorkAllowed, WorkSettled, SameRow
  <2> QED BY <1>6, <2>1, <2>2, <2>3, BeginsOK DEF Accept, Kinds
<1>7. ASSUME NEW u \in User, Begins(c, "delete", u, members[u]),
             Has(u, "requested") \/ Has(u, "invited")
      PROVE  MembersInv'
  <2>1. PICK r : r = members[u]
    OBVIOUS
  <2>2. r \in MemberRow /\ WorkOK([kind |-> "delete", user |-> u, row |-> r])
    BY <1>3, <1>7, <2>1 DEF WorkOK, WorkKeyed, WorkAllowed, WorkSettled
  <2> QED BY <1>7, <2>1, <2>2, BeginsOK DEF Kinds
<1> QED BY <1>1, <1>2, <1>4, <1>5, <1>6, <1>7 DEF Petition, Deny, CancelMine, Decline

------------------------------------------------------------------------------

\* What the commit of one request leaves of the others: a key it has taken away
\* or given out is no longer, or was not yet, the key another has loaded.
LEMMA OthersOK ==
  ASSUME MembersInv, NEW w \in Work, WorkOK(w), NEW u \in User, NEW r \in MemberRow,
         members' = [members EXCEPT ![u] = r],
         UNCHANGED mfa_enabled,
         \A v \in User : inserted'[v] \in Nat /\ inserted[v] <= inserted'[v],
         r.key = members[u].key /\ Settled(u) => r.status \in {"invited", "active"},
         r.key = members[u].key \/ r.key = 0 \/ r.key > inserted[u]
  PROVE  WorkOK(w)'
<1>1. w = NoWrite \/ (WorkKeyed(w)' /\ WorkAllowed(w)')
  BY DEF WorkOK, WorkKeyed, WorkAllowed, Work, MembersInv, MembershipTypeOK, MemberRow
<1>2. CASE w.kind \in {"role", "status"} /\ w # NoWrite
  <2>1. ASSUME SameRow(w)' PROVE SameRow(w) /\ Settled(w.user)'
    <3>1. CASE w.user # u
      BY <1>2, <2>1, <3>1 DEF WorkOK, WorkSettled, SameRow, Settled, Work, MembersInv, MembershipTypeOK
    <3>2. CASE w.user = u
      <4>1. r.key = w.row.key /\ w.row.key \in 1..inserted[u]
        BY <1>2, <2>1, <3>2 DEF WorkOK, WorkKeyed, SameRow, MembersInv, MembershipTypeOK
      <4>2. r.key = members[u].key
        BY <4>1 DEF MembersInv, MembershipTypeOK
      <4> QED BY <1>2, <3>2, <4>1, <4>2 DEF WorkOK, WorkSettled, SameRow, Settled, MembersInv, MembershipTypeOK
    <3> QED BY <3>1, <3>2
  <2> QED BY <1>1, <1>2, <2>1 DEF WorkOK, WorkSettled
<1>3. CASE w.kind \notin {"role", "status"} \/ w = NoWrite
  BY <1>1, <1>3 DEF WorkOK, WorkSettled, NoWrite
<1> QED BY <1>2, <1>3

\* A row is written, and the request that wrote it has ended.
LEMMA WriteOK ==
  ASSUME MembersInv, NEW c \in Requests, Ends(c), NEW u \in User, NEW r \in MemberRow,
         members' = [members EXCEPT ![u] = r],
         inserted' \in [User -> Nat],
         \A v \in User : inserted[v] <= inserted'[v],
         r.key = members[u].key /\ Settled(u) => r.status \in {"invited", "active"},
         r.key = members[u].key \/ r.key = 0 \/ r.key > inserted[u],
         r.key <= inserted'[u],
         r # Nobody => /\ r.key >= 1
                       /\ r.role = None <=> r.status = "requested",
         r.role \in MFA_REQUIRED_ROLES => mfa_enabled[u]
  PROVE  MembersInv'
<1>1. /\ UNCHANGED <<org, mfa_enabled, mfa_secret, most_seats, joint>>
      /\ working' = [working EXCEPT ![c] = NoWrite]
  BY DEF Ends
<1>2. NoWrite \in Work /\ working \in [Requests -> Work]
  BY ConstantsOK DEF MembersInv, MembershipTypeOK, Work, Kinds, NoWrite, Nobody, MemberRow, Constants
<1>3. MembershipTypeOK'
  BY <1>1, <1>2 DEF MembersInv, MembershipTypeOK, Work, Kinds
<1>4. ASSUME NEW v \in User
      PROVE  /\ members'[v].key <= inserted'[v]
             /\ members'[v] # Nobody => /\ members'[v].key >= 1
                                        /\ members'[v].role = None <=> members'[v].status = "requested"
             /\ members'[v].role \in MFA_REQUIRED_ROLES => mfa_enabled'[v]
  <2>1. CASE v = u
    <3>1. members'[v] = r /\ mfa_enabled'[v] = mfa_enabled[u]
      BY <1>1, <2>1 DEF MembersInv, MembershipTypeOK
    <3> QED BY <2>1, <3>1
  <2>2. CASE v # u
    <3>1. members'[v] = members[v] /\ mfa_enabled'[v] = mfa_enabled[v]
      BY <1>1, <2>2 DEF MembersInv, MembershipTypeOK
    <3>2. members[v].key \in Nat /\ inserted[v] \in Nat /\ inserted'[v] \in Nat
      BY DEF MembersInv, MembershipTypeOK, MemberRow
    <3> QED BY <3>1, <3>2 DEF MembersInv, RowsKeyed, MfaBeforePrivilege, RoleUnlessRequested, Member
  <2> QED BY <2>1, <2>2
<1>5. ASSUME NEW d \in Requests PROVE WorkOK(working[d])'
  <2>1. PICK v \in Work : v = working'[d] /\ (v = NoWrite \/ v = working[d])
    BY <1>1, <1>2
  <2>2. WorkOK(v)
    BY <2>1 DEF MembersInv, InFlightOK, WorkOK
  <2>3. WorkOK(v)'
    BY <1>1, <2>2, OthersOK DEF MembersInv, MembershipTypeOK
  <2> QED BY <2>1, <2>3 DEF WorkOK, WorkKeyed, WorkAllowed, WorkSettled, SameRow, Settled, NoWrite
<1>6. RowsKeyed' /\ MfaBeforePrivilege' /\ RoleUnlessRequested'
  BY <1>4 DEF RowsKeyed, MfaBeforePrivilege, RoleUnlessRequested, Member, Nobody
<1> QED BY <1>3, <1>5, <1>6 DEF MembersInv, InFlightOK

LEMMA FinishOK ==
  ASSUME MembersInv, NEW c \in Requests, Finish(c)
  PROVE  MembersInv'
<1> USE ConstantsOK DEF Constants
<1>1. PICK w \in Work : w = working[c] /\ WorkOK(w)
  BY DEF MembersInv, MembershipTypeOK, Work, Kinds, InFlightOK
<1>2. w.user \in User /\ w.row \in MemberRow /\ members[w.user] \in MemberRow
      /\ inserted \in [User -> Nat] /\ inserted[w.user] \in Nat
  BY DEF Work, MembersInv, MembershipTypeOK
<1>3. PICK u \in User : u = w.user
  BY <1>2
\* What WriteOK asks of a row that stays.
<1>8. ASSUME inserted' = inserted
      PROVE  /\ inserted' \in [User -> Nat]
             /\ \A v \in User : inserted[v] <= inserted'[v]
             /\ members[u].key \in Nat /\ members[u].key <= inserted'[u]
             /\ members[u] # Nobody =>
                  /\ members[u].key >= 1
                  /\ members[u].role = None <=> members[u].status = "requested"
             /\ members[u].role \in MFA_REQUIRED_ROLES => mfa_enabled[u]
  BY <1>2, <1>3, <1>8 DEF MembersInv, RowsKeyed, Member, MfaBeforePrivilege, RoleUnlessRequested,
                          MemberRow
\* A key that was never given.
<1>4. CASE InsertMember(c)
  <2>1. PICK r : r = [w.row EXCEPT !.key = inserted[u] + 1]
    OBVIOUS
  <2>2. r \in MemberRow /\ r.key = inserted[u] + 1 /\ r.role = w.row.role /\ r.status = w.row.status
    BY <1>2, <1>3, <2>1 DEF MemberRow
  <2>3. /\ w.kind = "insert" /\ members[u] = Nobody
        /\ members' = [members EXCEPT ![u] = r]
        /\ inserted' = [inserted EXCEPT ![u] = @ + 1]
        /\ Ends(c)
    BY <1>1, <1>3, <1>4, <2>1 DEF InsertMember
  <2>4. inserted' \in [User -> Nat] /\ inserted'[u] = inserted[u] + 1
        /\ \A v \in User : inserted[v] <= inserted'[v]
    BY <1>2, <2>3
  <2>5. /\ (r.role = None <=> r.status = "requested")
        /\ r.role \in MFA_REQUIRED_ROLES => mfa_enabled[u]
        /\ ~Settled(u)
    BY <1>1, <1>3, <2>2, <2>3 DEF WorkOK, WorkSettled, WorkAllowed, NoWrite, Settled, Nobody,
                                  Role, MembershipStatus
  <2>6. r.key <= inserted'[u] /\ r.key > inserted[u] /\ r.key >= 1
    BY <1>2, <1>3, <2>2, <2>4
  <2> QED BY <2>2, <2>3, <2>4, <2>5, <2>6, WriteOK
\* The columns of a row that is still there.
<1>5. CASE UpdateMember(c)
  <2>1. /\ w.kind \in {"role", "status", "update"} /\ SameRow(w)
        /\ members' = [members EXCEPT ![u] = Merged(members[u], w)]
        /\ inserted' = inserted
        /\ Ends(c)
    BY <1>1, <1>3, <1>5 DEF UpdateMember
  <2>2. members[u].key = w.row.key /\ w.row.key \in 1..inserted[u] /\ Member(u)
    BY <1>1, <1>2, <1>3, <2>1 DEF SameRow, WorkOK, WorkKeyed, NoWrite, Member, Nobody
  <2>3. PICK r : r = Merged(members[u], w)
    OBVIOUS
  <2>4. /\ r \in MemberRow /\ r.key = members[u].key
        /\ r.role = IF w.kind = "status" THEN members[u].role ELSE w.row.role
        /\ r.status = IF w.kind = "role" THEN members[u].status ELSE w.row.status
    BY <1>2, <1>3, <2>1, <2>2, <2>3 DEF Merged, MemberRow
  <2>5. /\ (r.role = None <=> r.status = "requested")
        /\ r.role \in MFA_REQUIRED_ROLES => mfa_enabled[u]
        /\ Settled(u) => r.status \in {"invited", "active"}
    BY <1>1, <1>3, <2>1, <2>2, <2>4
       DEF WorkOK, WorkSettled, WorkAllowed, NoWrite, Settled, Role, MembershipStatus,
           MembersInv, MfaBeforePrivilege, RoleUnlessRequested
  <2>6. r.key <= inserted'[u] /\ r.key >= 1
    BY <1>8, <2>1, <2>2, <2>4
  <2> QED BY <1>8, <2>1, <2>3, <2>4, <2>5, <2>6, WriteOK
<1>6. CASE DeleteMember(c)
  <2>1. /\ members' = [members EXCEPT ![u] = IF SameRow(w) THEN Nobody ELSE @]
        /\ inserted' = inserted /\ Ends(c) /\ w.kind = "delete"
    BY <1>1, <1>3, <1>6 DEF DeleteMember
  <2>2. PICK r : r = IF SameRow(w) THEN Nobody ELSE members[u]
    OBVIOUS
  <2>3. r \in MemberRow /\ (r = members[u] \/ (r = Nobody /\ Member(u)))
    <3>1. SameRow(w) => members[u].key \in 1..inserted[u]
      BY <1>1, <1>3, <2>1 DEF SameRow, WorkOK, WorkKeyed, NoWrite
    <3>2. Nobody \in MemberRow
      BY DEF Nobody, MemberRow
    <3>3. Nobody.key = 0
      BY DEF Nobody
    <3>4. members[u].key \in 1..inserted[u] => members[u] # Nobody
      BY <1>2, <1>3, <3>3
    <3> QED BY <1>2, <1>3, <2>2, <3>1, <3>2, <3>4 DEF Member
  <2>4. members' = [members EXCEPT ![u] = r]
    BY <2>1, <2>2
  <2>5. CASE r = members[u]
    BY <1>8, <2>1, <2>3, <2>4, <2>5, WriteOK DEF Settled
  <2>6. CASE r = Nobody /\ Member(u)
    <3>1. r.key = 0 /\ r.role = None /\ members[u].key >= 1
      BY <2>6 DEF Nobody, MembersInv, RowsKeyed
    <3>2. r.role \notin MFA_REQUIRED_ROLES /\ r.key # members[u].key /\ r.key <= inserted'[u]
      BY <1>8, <2>1, <3>1 DEF Role, MFA_REQUIRED_ROLES
    <3> QED BY <1>8, <2>1, <2>3, <2>4, <2>6, <3>1, <3>2, WriteOK
  <2> QED BY <2>3, <2>5, <2>6
<1>7. CASE GiveUp(c)
  <2>1. PICK r \in MemberRow : r = members[u]
    BY <1>2, <1>3
  <2>2. members' = [members EXCEPT ![u] = r] /\ inserted' = inserted /\ Ends(c)
    BY <1>7, <2>1 DEF GiveUp, MembersInv, MembershipTypeOK
  <2> QED BY <1>8, <2>1, <2>2, WriteOK DEF Settled
<1> QED BY <1>4, <1>5, <1>6, <1>7 DEF Finish

\* MFA is turned on, or the organization's subscription moves: no row changes.
LEMMA AroundOK ==
  ASSUME MembersInv, UNCHANGED <<members, inserted, working, joint>>,
         org' \in OrganizationRow, most_seats' \in Nat,
         mfa_enabled' \in [User -> BOOLEAN], mfa_secret' \in [User -> BOOLEAN],
         \A u \in User : mfa_enabled[u] => mfa_enabled'[u]
  PROVE  MembersInv'
<1>1. MembershipTypeOK' /\ RowsKeyed' /\ MfaBeforePrivilege' /\ RoleUnlessRequested'
  BY DEF MembersInv, MembershipTypeOK, RowsKeyed, MfaBeforePrivilege, RoleUnlessRequested, Member
<1>2. ASSUME NEW c \in Requests PROVE WorkOK(working[c])'
  <2>1. PICK w \in Work : w = working[c] /\ WorkOK(w)
    BY DEF MembersInv, MembershipTypeOK, Work, Kinds, InFlightOK
  <2>2. WorkOK(w)'
    BY <2>1 DEF WorkOK, WorkKeyed, WorkAllowed, WorkSettled, SameRow, Settled, Work
  <2>3. w = working'[c]
    BY <2>1
  <2> QED BY <2>2, <2>3 DEF WorkOK, WorkKeyed, WorkAllowed, WorkSettled, SameRow, Settled, NoWrite
<1> QED BY <1>1, <1>2 DEF MembersInv, InFlightOK

LEMMA MembersInvStep == MembersInv /\ [MembershipNext]_membershipVars => MembersInv'
<1> SUFFICES ASSUME MembersInv, [MembershipNext]_membershipVars PROVE MembersInv'
  OBVIOUS
<1>1. CASE \E c \in Requests : Petition(c)
  BY <1>1, RequestOK
<1>2. CASE \E c \in Requests : Finish(c)
  BY <1>2, FinishOK
<1>3. CASE \E u \in User : EnrollMfa(u)
  BY <1>3, AroundOK DEF EnrollMfa, MembersInv, MembershipTypeOK
<1>4. CASE \E u \in User : ActivateMfa(u)
  BY <1>4, AroundOK DEF ActivateMfa, MembersInv, MembershipTypeOK
<1>5. CASE \E p \in Plans, st \in SubscriptionStatus : SubscriptionMoves(p, st)
  <2>1. PICK p \in Plans, st \in SubscriptionStatus : SubscriptionMoves(p, st)
    BY <1>5
  <2>2. org' \in OrganizationRow
    BY <2>1 DEF SubscriptionMoves, MembersInv, MembershipTypeOK, OrganizationRow
  <2>3. most_seats' \in Nat
    BY <2>1, MembershipAssumption DEF SubscriptionMoves, Larger, MembersInv, MembershipTypeOK
  <2> QED BY <2>1, <2>2, <2>3, AroundOK DEF SubscriptionMoves, MembersInv, MembershipTypeOK
<1>6. CASE UNCHANGED membershipVars
  BY <1>6, AroundOK DEF membershipVars, MembersInv, MembershipTypeOK
<1> QED BY <1>1, <1>2, <1>3, <1>4, <1>5, <1>6 DEF MembershipNext

\* The types of the tables and of the requests in memory.
THEOREM MembersTyped == MembershipSpec => []MembershipTypeOK
<1>1. MembersInv => MembershipTypeOK
  BY DEF MembersInv
<1> QED BY MembersInvInit, MembersInvStep, <1>1, PTL DEF MembershipSpec

\* No owner and no finance member is without MFA, however requests interleave.
THEOREM PrivilegeNeedsMfa == MembershipSpec => []MfaBeforePrivilege
<1>1. MembersInv => MfaBeforePrivilege
  BY DEF MembersInv
<1> QED BY MembersInvInit, MembersInvStep, <1>1, PTL DEF MembershipSpec

\* A member has a role and a join request has none, however requests interleave.
THEOREM OnlyMembersHaveRoles == MembershipSpec => []RoleUnlessRequested
<1>1. MembersInv => RoleUnlessRequested
  BY DEF MembersInv
<1> QED BY MembersInvInit, MembersInvStep, <1>1, PTL DEF MembershipSpec

------------------------------------------------------------------------------
(* Of requests that come one by one, none can take the last owner away.      *)

\* As long as one request is in flight alone, what it checked still holds.
OwnerStays(w) ==
  SameRow(w) =>
    /\ w.kind = "role" /\ members[w.user].role = "owner" /\ w.row.role # "owner" =>
         \E v \in Owners : v # w.user
    /\ w.kind \in {"update", "delete"} => members[w.user].status # "active"

Alone == \A c, d \in Requests : working[c] # NoWrite /\ working[d] # NoWrite => c = d

OwnersInv ==
  ~joint => /\ Alone
            /\ Owners # {}
            /\ \A c \in Requests : working[c] # NoWrite => OwnerStays(working[c])

LEMMA OwnersInvInit == MembershipInit => OwnersInv
BY ConstantsOK DEF Constants, MembershipInit, OwnersInv, Alone, Owners, Has

\* A request that begins alone, with what it checked.
LEMMA BeginsAlone ==
  ASSUME MembersInv, OwnersInv, NEW c \in Requests, NEW kind, NEW u \in User, NEW r,
         Begins(c, kind, u, r), OwnerStays([kind |-> kind, user |-> u, row |-> r])
  PROVE  OwnersInv'
<1> DEFINE w == [kind |-> kind, user |-> u, row |-> r]
<1>1. /\ UNCHANGED <<members, inserted>> /\ working[c] = NoWrite
      /\ working' = [working EXCEPT ![c] = w]
      /\ ~joint' => ~joint /\ \A d \in Requests : working[d] = NoWrite
  BY DEF Begins, MembersInv, MembershipTypeOK
<1> SUFFICES ASSUME ~joint' PROVE OwnersInv'
  BY DEF OwnersInv
<1>2. \A d \in Requests : working'[d] = IF d = c THEN w ELSE NoWrite
  BY <1>1 DEF MembersInv, MembershipTypeOK
<1>3. Alone'
  BY <1>2 DEF Alone
<1>4. Owners' = Owners
  BY <1>1 DEF Owners, Has
<1>5. Owners' # {}
  BY <1>1, <1>4 DEF OwnersInv
<1>6. ASSUME NEW d \in Requests, working'[d] # NoWrite PROVE OwnerStays(working[d])'
  <2>1. d = c /\ working'[d] = w
    BY <1>2, <1>6 DEF NoWrite
  <2>2. OwnerStays(w)'
    BY <1>1, <1>4 DEF OwnerStays, SameRow
  <2> QED BY <2>1, <2>2 DEF OwnerStays, SameRow
<1> QED BY <1>3, <1>5, <1>6 DEF OwnersInv

\* Two owners are not one.
LEMMA AnotherOwner ==
  ASSUME NEW u \in User, Cardinality(Owners) > 1
  PROVE  \E v \in Owners : v # u
<1> SUFFICES ASSUME Owners \subseteq {u} PROVE FALSE
  OBVIOUS
<1>1. Cardinality(Owners) <= Cardinality({u}) /\ Cardinality({u}) = 1
      /\ Cardinality(Owners) \in Nat
  BY FS_Singleton, FS_Subset, FS_CardinalityType
<1> QED BY <1>1

LEMMA PetitionKeepsOwner ==
  ASSUME MembersInv, OwnersInv, NEW c \in Requests, Petition(c)
  PROVE  OwnersInv'
<1> USE ConstantsOK DEF Constants
<1>1. ASSUME NEW by \in User, NEW u \in User, NEW role \in AskedRoles, Invite(c, by, u, role)
      PROVE  OwnersInv'
  BY <1>1, BeginsAlone DEF Invite, OwnerStays
<1>2. ASSUME NEW u \in User, Join(c, u) PROVE OwnersInv'
  BY <1>2, BeginsAlone DEF Join, OwnerStays
<1>3. ASSUME NEW by \in User, NEW u \in User, NEW role \in AskedRoles, UpdateRole(c, by, u, role)
      PROVE  OwnersInv'
  <2>1. PICK r : r = [members[u] EXCEPT !.role = role]
    OBVIOUS
  <2>2. r.role = role
    BY <2>1 DEF MembersInv, MembershipTypeOK, MemberRow
  <2>3. OwnerStays([kind |-> "role", user |-> u, row |-> r])
    BY <1>3, <2>2, AnotherOwner DEF UpdateRole, OwnerStays
  <2> QED BY <1>3, <2>1, <2>3, BeginsAlone DEF UpdateRole
<1>4. ASSUME NEW by \in User, NEW u \in User, NEW role \in AskedRoles, Approve(c, by, u, role)
      PROVE  OwnersInv'
  BY <1>4, BeginsAlone DEF Approve, Has, OwnerStays
<1>5. ASSUME NEW u \in User, Accept(c, u) PROVE OwnersInv'
  BY <1>5, BeginsAlone DEF Accept, OwnerStays
<1>6. ASSUME NEW u \in User, Begins(c, "delete", u, members[u]),
             Has(u, "requested") \/ Has(u, "invited")
      PROVE  OwnersInv'
  BY <1>6, BeginsAlone DEF Has, OwnerStays
<1> QED BY <1>1, <1>2, <1>3, <1>4, <1>5, <1>6 DEF Petition, Deny, CancelMine, Decline

LEMMA FinishKeepsOwner ==
  ASSUME MembersInv, OwnersInv, NEW c \in Requests, Finish(c)
  PROVE  OwnersInv'
<1> USE ConstantsOK DEF Constants
<1> SUFFICES ASSUME ~joint' PROVE OwnersInv'
  BY DEF OwnersInv
<1>1. joint' = joint /\ working' = [working EXCEPT ![c] = NoWrite] /\ working[c] # NoWrite
  BY DEF Finish, InsertMember, UpdateMember, DeleteMember, GiveUp, Ends, NoWrite
<1>2. \A d \in Requests : working'[d] = NoWrite
  BY <1>1 DEF OwnersInv, Alone, MembersInv, MembershipTypeOK
<1>3. PICK w \in Work : w = working[c] /\ WorkOK(w) /\ OwnerStays(w) /\ w # NoWrite
  BY <1>1 DEF MembersInv, MembershipTypeOK, Work, Kinds, InFlightOK, OwnersInv
<1>4. PICK u \in User : u = w.user
  BY <1>3 DEF Work
<1>5. PICK o \in User : members[o].status = "active" /\ members[o].role = "owner" /\ o \in Owners
  BY <1>1 DEF OwnersInv, Owners, Has
<1>6. ASSUME NEW v \in User, members'[v].status = "active", members'[v].role = "owner"
      PROVE  Owners' # {}
  BY <1>6 DEF Owners, Has
<1>7. CASE InsertMember(c)
  <2>1. o # u /\ members'[o] = members[o]
    BY <1>3, <1>4, <1>5, <1>7 DEF InsertMember, Nobody, MembershipStatus, MembersInv, MembershipTypeOK
  <2> QED BY <1>2, <1>5, <1>6, <2>1 DEF OwnersInv, Alone
<1>8. CASE UpdateMember(c)
  <2>1. SameRow(w) /\ w.kind \in {"role", "status", "update"}
        /\ members' = [members EXCEPT ![u] = Merged(members[u], w)]
    BY <1>3, <1>4, <1>8 DEF UpdateMember
  <2>2. CASE o # u
    BY <1>2, <1>5, <1>6, <2>1, <2>2 DEF OwnersInv, Alone, MembersInv, MembershipTypeOK
  <2>3. CASE o = u /\ w.kind = "role" /\ w.row.role # "owner"
    <3>1. PICK v \in Owners : v # u
      BY <1>3, <1>4, <1>5, <2>1, <2>3 DEF OwnerStays
    <3>2. v \in User /\ members'[v] = members[v]
      BY <2>1, <3>1 DEF Owners, MembersInv, MembershipTypeOK
    <3> QED BY <1>2, <1>6, <3>1, <3>2 DEF Owners, Has, OwnersInv, Alone
  <2>4. CASE o = u /\ ~(w.kind = "role" /\ w.row.role # "owner")
    <3>1. w.kind # "update"
      BY <1>3, <1>4, <1>5, <2>1, <2>4 DEF OwnerStays
    <3>2. PICK r : r = Merged(members[u], w)
      OBVIOUS
    <3>3. r.status = "active" /\ r.role = "owner"
      BY <1>3, <1>4, <1>5, <2>1, <2>4, <3>1, <3>2
         DEF Merged, MemberRow, MembersInv, MembershipTypeOK, WorkOK, WorkSettled
    <3>4. members'[u] = r
      BY <2>1, <3>2 DEF MembersInv, MembershipTypeOK
    <3> QED BY <1>2, <1>6, <3>3, <3>4 DEF OwnersInv, Alone
  <2> QED BY <2>2, <2>3, <2>4
<1>9. CASE DeleteMember(c)
  <2>1. w.kind = "delete" /\ members' = [members EXCEPT ![u] = IF SameRow(w) THEN Nobody ELSE @]
    BY <1>3, <1>4, <1>9 DEF DeleteMember
  <2>2. members'[o] = members[o]
    BY <1>3, <1>4, <1>5, <2>1 DEF OwnerStays, MembersInv, MembershipTypeOK
  <2> QED BY <1>2, <1>5, <1>6, <2>2 DEF OwnersInv, Alone
<1>10. CASE GiveUp(c)
  BY <1>2, <1>5, <1>6, <1>10 DEF GiveUp, OwnersInv, Alone
<1> QED BY <1>7, <1>8, <1>9, <1>10 DEF Finish

LEMMA OwnersInvStep == MembersInv /\ OwnersInv /\ [MembershipNext]_membershipVars => OwnersInv'
<1> SUFFICES ASSUME MembersInv, OwnersInv, [MembershipNext]_membershipVars PROVE OwnersInv'
  OBVIOUS
<1>1. ASSUME UNCHANGED <<members, working, joint>> PROVE OwnersInv'
  BY <1>1 DEF OwnersInv, Alone, Owners, Has, OwnerStays, SameRow
<1>2. CASE \E c \in Requests : Petition(c)
  BY <1>2, PetitionKeepsOwner
<1>3. CASE \E c \in Requests : Finish(c)
  BY <1>3, FinishKeepsOwner
<1>4. CASE \/ \E u \in User : EnrollMfa(u) \/ ActivateMfa(u)
           \/ \E p \in Plans, st \in SubscriptionStatus : SubscriptionMoves(p, st)
           \/ UNCHANGED membershipVars
  BY <1>1, <1>4 DEF EnrollMfa, ActivateMfa, SubscriptionMoves, membershipVars
<1> QED BY <1>2, <1>3, <1>4 DEF MembershipNext

\* Requests that come one by one leave the organization an owner: the count in
\* update_member_role is enough, for an owner's row is never deleted.
THEOREM AnOwnerStays == MembershipSpec => []KeepsAnOwner
<1>1. OwnersInv => KeepsAnOwner
  BY DEF OwnersInv, KeepsAnOwner
<1> QED BY MembersInvInit, MembersInvStep, OwnersInvInit, OwnersInvStep, <1>1, PTL DEF MembershipSpec

------------------------------------------------------------------------------
(* Seats: what requests in flight may still add is counted with what is there. *)

Seated == {u \in User : members[u].status \in {"invited", "active"}}

Seats(w) == \/ w.kind = "insert" /\ w.row.status = "invited"
            \/ w.kind = "update"

Seating == {c \in Requests : Seats(working[c])}

Overshoot == IF joint THEN Cardinality(Requests) - 1 ELSE 0

SeatsInv ==
  /\ ~joint => Alone
  /\ MaxSeats[org.plan] <= most_seats
  /\ Cardinality(Seated) + Cardinality(Seating) <= most_seats + Overshoot

LEMMA PartOf ==
  ASSUME NEW S, IsFiniteSet(S), NEW T, T \subseteq S
  PROVE  IsFiniteSet(T) /\ Cardinality(T) \in Nat /\ Cardinality(T) <= Cardinality(S)
<1>1. T \in SUBSET S
  OBVIOUS
<1> QED BY <1>1, FS_Subset, FS_CardinalityType

LEMMA PartOfOne ==
  ASSUME NEW x, NEW T, T \subseteq {x}
  PROVE  Cardinality(T) \in Nat /\ Cardinality(T) <= 1
<1>1. IsFiniteSet({x}) /\ Cardinality({x}) = 1
  BY FS_Singleton
<1> QED BY <1>1, PartOf

LEMMA SeatsFinite ==
  /\ IsFiniteSet(Seated) /\ Cardinality(Seated) \in Nat
  /\ IsFiniteSet(Seating) /\ Cardinality(Seating) \in Nat
  /\ IsFiniteSet(Requests) /\ Cardinality(Requests) \in Nat
<1>1. Seated \subseteq User /\ Seating \subseteq Requests
  BY DEF Seated, Seating
<1> QED BY <1>1, MembershipAssumption, FS_Subset, FS_CardinalityType

LEMMA SeatsInvInit == MembershipInit => SeatsInv
<1> SUFFICES ASSUME MembershipInit PROVE SeatsInv
  OBVIOUS
<1>1. Seated \subseteq {Founder} /\ Seating = {} /\ org.plan \in Plans
  BY ConstantsOK DEF Constants, MembershipInit, Seated, Seating, Seats, NoWrite, Nobody,
                     MembershipStatus, NewOrganization, Plans
<1>2. Cardinality(Seated) <= 1 /\ Cardinality(Seating) = 0
  BY <1>1, PartOfOne, FS_EmptySet
<1>3. ~joint /\ Alone /\ MaxSeats[org.plan] \in Nat \ {0} /\ most_seats = MaxSeats[org.plan]
  BY <1>1, MembershipAssumption DEF MembershipInit, Alone, NewOrganization
<1> QED BY <1>2, <1>3, SeatsFinite DEF SeatsInv, Overshoot

\* Nothing is taken and nothing new is asked for.
LEMMA SeatsFall ==
  ASSUME MembersInv, SeatsInv, Seated' \subseteq Seated, Seating' \subseteq Seating,
         most_seats' \in Nat, most_seats <= most_seats', MaxSeats[org'.plan] <= most_seats',
         joint => joint', joint' # joint => Requests # {},
         joint' \in BOOLEAN, ~joint' => Alone'
  PROVE  SeatsInv'
<1>1. Cardinality(Seated') <= Cardinality(Seated) /\ Cardinality(Seating') <= Cardinality(Seating)
      /\ Cardinality(Seated') \in Nat /\ Cardinality(Seating') \in Nat
  BY SeatsFinite, FS_Subset, FS_CardinalityType
<1>2. Requests # {} => Cardinality(Requests) >= 1
  BY SeatsFinite, FS_EmptySet
<1>3. org.plan \in Plans /\ joint \in BOOLEAN
  BY DEF MembersInv, MembershipTypeOK, OrganizationRow
<1>4. most_seats \in Nat
  BY DEF MembersInv, MembershipTypeOK
<1>5. Overshoot \in Int /\ Overshoot' \in Int /\ Overshoot <= Overshoot'
  BY <1>2, <1>3, SeatsFinite DEF Overshoot
<1> QED BY <1>1, <1>4, <1>5, SeatsFinite DEF SeatsInv

\* A request that begins has found a seat, or asks for none.
LEMMA BeginsSeats ==
  ASSUME MembersInv, SeatsInv, NEW c \in Requests, NEW kind, NEW u \in User, NEW r,
         Begins(c, kind, u, r), Seats([kind |-> kind, user |-> u, row |-> r]) => SeatFree
  PROVE  SeatsInv'
<1> DEFINE w == [kind |-> kind, user |-> u, row |-> r]
<1>1. /\ UNCHANGED <<org, members, most_seats>> /\ working[c] = NoWrite
      /\ most_seats \in Nat /\ MaxSeats[org.plan] <= most_seats
      /\ working' = [working EXCEPT ![c] = w]
      /\ joint => joint'
      /\ joint' \in BOOLEAN
      /\ ~joint' => \A d \in Requests : working[d] = NoWrite
  BY DEF Begins, MembersInv, MembershipTypeOK, SeatsInv
<1>2. \A d \in Requests : working'[d] = IF d = c THEN w ELSE working[d]
  BY <1>1 DEF MembersInv, MembershipTypeOK
<1>3. ~joint' => Alone'
  BY <1>1, <1>2 DEF Alone
<1>4. Seated' = Seated /\ Seating' \subseteq Requests
  BY <1>1 DEF Seated, Seating
<1>5. CASE ~Seats(w)
  <2>1. Seating' \subseteq Seating
    BY <1>2, <1>5 DEF Seating, Seats
  <2> QED BY <1>1, <1>3, <1>4, <2>1, SeatsFall
<1>6. CASE Seats(w)
  <2>1. Cardinality({v \in User : Member(v)}) < MaxSeats[org.plan]
    BY <1>6 DEF SeatFree
  <2>2. Seated \subseteq {v \in User : Member(v)} /\ IsFiniteSet({v \in User : Member(v)})
    <3>1. Seated \subseteq {v \in User : Member(v)}
      BY ConstantsOK DEF Seated, Member, Nobody, Constants, MembershipStatus
    <3>2. {v \in User : Member(v)} \subseteq User
      OBVIOUS
    <3> QED BY <3>1, <3>2, MembershipAssumption, FS_Subset
  <2>3. Cardinality(Seated) <= Cardinality({v \in User : Member(v)})
        /\ Cardinality({v \in User : Member(v)}) \in Nat
    BY <2>2, FS_Subset, FS_CardinalityType
  <2>4. org.plan \in Plans /\ MaxSeats[org.plan] \in Nat
    BY MembershipAssumption DEF MembersInv, MembershipTypeOK, OrganizationRow
  <2>5. Cardinality(Seating') \in Nat /\ Cardinality(Seating') <= Cardinality(Requests)
    BY <1>4, SeatsFinite, FS_Subset, FS_CardinalityType
  <2>6. ~joint' => Cardinality(Seating') <= 1
    <3>1. ~joint' => Seating' \subseteq {c}
      BY <1>1, <1>2 DEF Seating, Seats, NoWrite
    <3> QED BY <3>1, PartOfOne
  <2> QED BY <1>1, <1>3, <1>4, <2>1, <2>3, <2>4, <2>5, <2>6, SeatsFinite DEF SeatsInv, Overshoot
<1> QED BY <1>5, <1>6

LEMMA PetitionSeats ==
  ASSUME MembersInv, SeatsInv, NEW c \in Requests, Petition(c)
  PROVE  SeatsInv'
<1> USE ConstantsOK DEF Constants
<1>1. ASSUME NEW by \in User, NEW u \in User, NEW role \in AskedRoles, Invite(c, by, u, role)
      PROVE  SeatsInv'
  BY <1>1, BeginsSeats DEF Invite
<1>2. ASSUME NEW u \in User, Join(c, u) PROVE SeatsInv'
  BY <1>2, BeginsSeats DEF Join, Seats, NewRow
<1>3. ASSUME NEW by \in User, NEW u \in User, NEW role \in AskedRoles, UpdateRole(c, by, u, role)
      PROVE  SeatsInv'
  BY <1>3, BeginsSeats DEF UpdateRole, Seats
<1>4. ASSUME NEW by \in User, NEW u \in User, NEW role \in AskedRoles, Approve(c, by, u, role)
      PROVE  SeatsInv'
  BY <1>4, BeginsSeats DEF Approve
<1>5. ASSUME NEW u \in User, Accept(c, u) PROVE SeatsInv'
  BY <1>5, BeginsSeats DEF Accept, Seats
<1>6. ASSUME NEW u \in User, Begins(c, "delete", u, members[u]) PROVE SeatsInv'
  BY <1>6, BeginsSeats DEF Seats
<1> QED BY <1>1, <1>2, <1>3, <1>4, <1>5, <1>6 DEF Petition, Deny, CancelMine, Decline

\* A request that takes a seat at its commit no longer asks for it.
LEMMA FinishSeats ==
  ASSUME MembersInv, SeatsInv, NEW c \in Requests, Finish(c)
  PROVE  SeatsInv'
<1> USE ConstantsOK DEF Constants
<1>1. UNCHANGED <<org, joint, most_seats>> /\ working' = [working EXCEPT ![c] = NoWrite]
      /\ joint \in BOOLEAN /\ most_seats \in Nat /\ MaxSeats[org.plan] <= most_seats
  BY DEF Finish, InsertMember, UpdateMember, DeleteMember, GiveUp, Ends, MembersInv,
         MembershipTypeOK, SeatsInv
<1>2. \A d \in Requests : working'[d] = IF d = c THEN NoWrite ELSE working[d]
  BY <1>1 DEF MembersInv, MembershipTypeOK
<1>3. ~joint' => Alone'
  BY <1>1, <1>2 DEF SeatsInv, Alone
<1>4. Seating' = Seating \ {c}
  BY <1>2 DEF Seating, Seats, NoWrite
<1>5. PICK w \in Work : w = working[c] /\ WorkOK(w)
  BY DEF MembersInv, MembershipTypeOK, Work, Kinds, InFlightOK
<1>6. PICK u \in User : u = w.user
  BY <1>5 DEF Work
<1>7. Seated' \subseteq Seated \cup {u}
  BY <1>5, <1>6 DEF Finish, InsertMember, UpdateMember, DeleteMember, GiveUp, Seated,
                    MembersInv, MembershipTypeOK
<1>8. CASE Seats(w)
  <2>1. c \in Seating
    BY <1>5, <1>8 DEF Seating
  <2>2. Cardinality(Seating') = Cardinality(Seating) - 1
    BY <1>4, <2>1, SeatsFinite, FS_RemoveElement
  <2>3. Cardinality(Seated') \in Nat /\ Cardinality(Seated') <= Cardinality(Seated) + 1
    <3>1. /\ IsFiniteSet(Seated \cup {u})
          /\ Cardinality(Seated \cup {u}) =
               IF u \in Seated THEN Cardinality(Seated) ELSE Cardinality(Seated) + 1
      BY SeatsFinite, FS_AddElement
    <3>2. Cardinality(Seated') \in Nat /\ Cardinality(Seated') <= Cardinality(Seated \cup {u})
      BY <1>7, <3>1, PartOf
    <3> QED BY <3>1, <3>2, SeatsFinite
  <2> QED BY <1>1, <1>3, <2>2, <2>3, SeatsFinite DEF SeatsInv, Overshoot
<1>9. CASE ~Seats(w)
  <2>1. ASSUME u \in Seated' PROVE u \in Seated
    <3>1. CASE InsertMember(c)
      <4>1. w.kind = "insert" /\ members'[u].status = w.row.status
        BY <1>5, <1>6, <3>1 DEF InsertMember, MembersInv, MembershipTypeOK, Work, MemberRow
      <4> QED BY <1>5, <1>9, <2>1, <4>1 DEF Seats, Seated, WorkOK, WorkSettled, NoWrite
    <3>2. CASE UpdateMember(c)
      <4>1. SameRow(w) /\ w.kind \in {"role", "status"}
        BY <1>5, <1>9, <3>2 DEF UpdateMember, Seats
      <4> QED BY <1>5, <1>6, <4>1 DEF WorkOK, WorkSettled, NoWrite, Settled, Seated
    <3>3. CASE DeleteMember(c)
      BY <1>5, <1>6, <2>1, <3>3 DEF DeleteMember, Seated, Nobody, MembershipStatus, MembersInv,
                                    MembershipTypeOK
    <3>4. CASE GiveUp(c)
      BY <2>1, <3>4 DEF GiveUp, Seated
    <3> QED BY <3>1, <3>2, <3>3, <3>4 DEF Finish
  <2> QED BY <1>1, <1>3, <1>4, <1>7, <2>1, SeatsFall
<1> QED BY <1>8, <1>9

LEMMA SeatsInvStep == MembersInv /\ SeatsInv /\ [MembershipNext]_membershipVars => SeatsInv'
<1> SUFFICES ASSUME MembersInv, SeatsInv, [MembershipNext]_membershipVars PROVE SeatsInv'
  OBVIOUS
<1>1. ASSUME UNCHANGED <<members, working, joint>>, most_seats' \in Nat,
             most_seats <= most_seats', MaxSeats[org'.plan] <= most_seats'
      PROVE  SeatsInv'
  <2>1. Seated' = Seated /\ Seating' = Seating /\ (~joint' => Alone') /\ joint' = joint
        /\ joint \in BOOLEAN
    BY <1>1 DEF Seated, Seating, Seats, Alone, SeatsInv, MembersInv, MembershipTypeOK
  <2> QED BY <1>1, <2>1, SeatsFall
<1>2. CASE \E c \in Requests : Petition(c)
  BY <1>2, PetitionSeats
<1>3. CASE \E c \in Requests : Finish(c)
  BY <1>3, FinishSeats
<1>4. CASE \/ \E u \in User : EnrollMfa(u) \/ ActivateMfa(u)
           \/ UNCHANGED membershipVars
  <2>1. UNCHANGED <<org, members, working, joint, most_seats>>
    BY <1>4 DEF EnrollMfa, ActivateMfa, membershipVars
  <2> QED BY <1>1, <2>1 DEF SeatsInv, MembersInv, MembershipTypeOK
<1>5. CASE \E p \in Plans, st \in SubscriptionStatus : SubscriptionMoves(p, st)
  <2>1. PICK p \in Plans, st \in SubscriptionStatus : SubscriptionMoves(p, st)
    BY <1>5
  <2>2. UNCHANGED <<members, working, joint>> /\ org'.plan = p
    BY <2>1 DEF SubscriptionMoves, MembersInv, MembershipTypeOK, OrganizationRow
  <2>3. most_seats' \in Nat /\ most_seats <= most_seats' /\ MaxSeats[p] <= most_seats'
    BY <2>1, MembershipAssumption DEF SubscriptionMoves, Larger, MembersInv, MembershipTypeOK
  <2> QED BY <1>1, <2>2, <2>3
<1> QED BY <1>2, <1>3, <1>4, <1>5 DEF MembershipNext

\* The most seats of the organization's plans are exceeded by one at most for each further request
\* that was in flight at the same time, whatever the plan and the number of
\* requests, and though the plan moves (assert_can_add_team_member takes no lock).
THEOREM SeatsAreBounded == MembershipSpec => []SeatsWithinPlan
<1>1. MembersInv /\ SeatsInv => SeatsWithinPlan
  <2>1. SUFFICES ASSUME MembersInv, SeatsInv PROVE SeatsWithinPlan
    OBVIOUS
  <2>2. most_seats \in Nat
    BY <2>1 DEF MembersInv, MembershipTypeOK
  <2> QED BY <2>1, <2>2, SeatsFinite DEF SeatsInv, SeatsWithinPlan, Seated, Overshoot
<1> QED BY MembersInvInit, MembersInvStep, SeatsInvInit, SeatsInvStep, <1>1, PTL DEF MembershipSpec
=============================================================================
