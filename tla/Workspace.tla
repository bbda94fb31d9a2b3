----------------------------- MODULE Workspace -----------------------------
(***************************************************************************)
(* What an organization may have under its plan: sessions of the month,    *)
(* mailbox connections, display templates and exports                      *)
(* (app/domain/billing.py and its callers), and how several editors save   *)
(* the templates (app/api/v1/display_templates.py).                        *)
(*                                                                         *)
(* Each request counts or loads, then commits; other requests come         *)
(* between.  No row is locked.  A session's link to its template is        *)
(* enforced by PostgreSQL and not by SQLite, the default: the model is     *)
(* SQLite's.                                                               *)
(***************************************************************************)
EXTENDS Organization, Sequences

CONSTANTS
  Editors,        \* each with at most one request in flight
  MaxOf,          \* for each plan, its limits
  Bonus,          \* sessions a platform admin may add
  MostOf,         \* bound of the model on sessions, templates and saves ever made
  MaxMonths       \* bound of the model on months

TemplateRow == [version : Nat, elements : SUBSET Nat, is_default : BOOLEAN]

ASSUME WorkspaceAssumption ==
  /\ IsFiniteSet(Editors)
  /\ MaxOf \in [Plans -> [sessions : Nat, connections : Nat, templates : Nat, exports : Nat \cup {None}]]
  /\ Bonus \in Nat
  /\ MostOf \in [{"sessions", "templates", "saves"} -> Nat]
  /\ MaxMonths \in Nat \ {0}
  /\ None \notin Nat \cup TemplateRow

VARIABLES
  month,          \* the calendar month
  bonus_sessions, \* organizations.bonus_sessions, 0 once they have expired
  sessions,       \* rows of sessions: month of creation, template
  connections,    \* how many connections are not revoked
  templates,      \* rows of display_templates; None once deleted
  usage,          \* export_usage.count of each month; None before its row exists
  opened,         \* the template each editor has on screen
  asked,          \* what each request holds in memory
  saves,          \* how often a template has been saved
  exported,       \* history: exports made in each month, under a limit
  ceiling,        \* history: the highest limit there has been
  overwrote,      \* history: a save has replaced one its editor had not seen
  disturbed       \* history: two requests have been in flight at once

rows == <<sessions, connections, templates, usage, saves>>
past == <<exported, ceiling, overwrote>>
workspaceVars == <<org, month, bonus_sessions, sessions, connections, templates, usage, opened,
                   asked, saves, exported, ceiling, overwrote, disturbed>>

NoRequest == [kind |-> "none"]
Limits == MaxOf[org.plan]
Entitled == org.subscription_status # "canceled"

Existing == {t \in DOMAIN templates : templates[t] # None}
Defaults == {t \in Existing : templates[t].is_default}
ThisMonth == Cardinality({i \in DOMAIN sessions : sessions[i].month = month})

Ask(e, request) ==
  /\ asked[e] = NoRequest
  /\ asked' = [asked EXCEPT ![e] = request]
  /\ disturbed' = (disturbed \/ \E f \in Editors : asked[f] # NoRequest)
  /\ UNCHANGED <<org, month, bonus_sessions, rows, opened, past>>

------------------------------------------------------------------------------
(* A request reads *)

\* Mutant: an off-by-one in the count of sessions.
OneSessionMore == ThisMonth <= Limits.sessions + bonus_sessions
RoomForSession == ThisMonth < Limits.sessions + bonus_sessions

\* create_session: the default template unless another is asked for.
CreateSession(e) ==
  /\ Entitled /\ RoomForSession
  /\ Len(sessions) < MostOf.sessions
  /\ \E t \in IF Defaults = {} THEN Existing \cup {None} ELSE Existing :
       Ask(e, [kind |-> "session", template |-> t])

\* create_connection
RoomForConnection == connections < Limits.connections

CreateConnection(e) ==
  /\ Entitled /\ RoomForConnection
  /\ Ask(e, [kind |-> "connection"])

RoomForTemplate == Cardinality(Existing) < Limits.templates /\ Len(templates) < MostOf.templates

\* create_display_template and duplicate_display_template.
CreateTemplate(e) ==
  /\ Entitled /\ RoomForTemplate
  /\ Ask(e, [kind |-> "template", elements |-> {}])

DuplicateTemplate(e, t) ==
  /\ Entitled /\ RoomForTemplate
  /\ t \in Existing
  /\ Ask(e, [kind |-> "template", elements |-> templates[t].elements])

\* get_display_template
OpenTemplate(e, t) ==
  /\ t \in Existing
  /\ asked[e] = NoRequest
  /\ opened' = [opened EXCEPT ![e] = [template |-> t, version |-> templates[t].version,
                                      elements |-> templates[t].elements]]
  /\ UNCHANGED <<org, month, bonus_sessions, rows, asked, past, disturbed>>

\* Mutant: the version is not compared.
AnyVersion(e, t) == TRUE
SameVersion(e, t) == opened[e].version = templates[t].version

\* Mutant: the others keep their mark.
NoOthers(t, default) == {}
OtherDefaults(t, default) == IF default THEN Defaults \ {t} ELSE {}

\* save_display_template
SaveTemplate(e, default) ==
  /\ opened[e] # None
  /\ saves < MostOf.saves
  /\ LET t == opened[e].template IN
     /\ t \in Existing
     /\ SameVersion(e, t)
     /\ Ask(e, [kind |-> "save", template |-> t, version |-> templates[t].version + 1,
                drops |-> templates[t].elements, is_default |-> default,
                loaded |-> templates[t].is_default, clears |-> OtherDefaults(t, default)])

\* Mutant: the sessions are left to the database.
NoLinks(t) == {}
LinkedTo(t) == {i \in DOMAIN sessions : sessions[i].template = t}

\* delete_display_template
DeleteTemplate(e, t) ==
  /\ t \in Existing
  /\ Ask(e, [kind |-> "delete", template |-> t, unlinks |-> LinkedTo(t)])

Used == IF usage[month] = None THEN 0 ELSE usage[month]

\* consume_export_quota; a plan without a limit keeps no count.
Export(e) ==
  /\ Limits.exports # None
  /\ Used < Limits.exports
  /\ Ask(e, [kind |-> "export", month |-> month, inserts |-> usage[month] = None,
             count |-> Used + 1])

------------------------------------------------------------------------------
(* A request commits *)

Done(e) ==
  /\ asked' = [asked EXCEPT ![e] = NoRequest]
  /\ UNCHANGED <<org, month, bonus_sessions, disturbed, ceiling>>

CommitSession(e) ==
  /\ asked[e].kind = "session"
  /\ sessions' = Append(sessions, [month |-> month, template |-> asked[e].template])
  /\ Done(e)
  /\ UNCHANGED <<connections, templates, usage, saves, opened, exported, overwrote>>

CommitConnection(e) ==
  /\ asked[e].kind = "connection"
  /\ connections' = connections + 1
  /\ Done(e)
  /\ UNCHANGED <<sessions, templates, usage, saves, opened, exported, overwrote>>

CommitTemplate(e) ==
  /\ asked[e].kind = "template"
  /\ templates' = Append(templates,
       [version |-> 1, elements |-> asked[e].elements, is_default |-> FALSE])
  /\ Done(e)
  /\ UNCHANGED <<sessions, connections, usage, saves, opened, exported, overwrote>>

\* A mark that is the one loaded is left out of the UPDATE.
Mark(t, r) == IF r.is_default = r.loaded THEN templates[t].is_default ELSE r.is_default

\* An UPDATE of a row that is gone fails the request.  The elements deleted are
\* those that were loaded; the UPDATE does not look at the version.
CommitSave(e) ==
  LET r == asked[e] IN
  /\ r.kind = "save"
  /\ {r.template} \cup r.clears \subseteq Existing
  /\ saves' = saves + 1
  /\ templates' = [t \in DOMAIN templates |->
       IF t = r.template
       THEN [version |-> r.version, elements |-> (templates[t].elements \ r.drops) \cup {saves + 1},
             is_default |-> Mark(t, r)]
       ELSE IF t \in r.clears THEN [templates[t] EXCEPT !.is_default = FALSE]
       ELSE templates[t]]
  /\ overwrote' = (overwrote \/ templates[r.template].elements # opened[e].elements)
  /\ opened' = [opened EXCEPT ![e] = [template |-> r.template, version |-> r.version,
                                      elements |-> templates'[r.template].elements]]
  /\ Done(e)
  /\ UNCHANGED <<sessions, connections, usage, exported>>

CommitDelete(e) ==
  LET r == asked[e] IN
  /\ r.kind = "delete"
  /\ templates' = [templates EXCEPT ![r.template] = None]
  /\ sessions' = [i \in DOMAIN sessions |->
                    IF i \in r.unlinks THEN [sessions[i] EXCEPT !.template = None] ELSE sessions[i]]
  /\ Done(e)
  /\ UNCHANGED <<connections, usage, saves, opened, exported, overwrote>>

\* uq_export_usage_org_month refuses a second row; an UPDATE writes the count
\* that was computed in memory.
CommitExport(e) ==
  LET r == asked[e] IN
  /\ r.kind = "export"
  /\ r.inserts => usage[r.month] = None
  /\ usage' = [usage EXCEPT ![r.month] = r.count]
  /\ exported' = [exported EXCEPT ![r.month] = @ + 1]
  /\ Done(e)
  /\ UNCHANGED <<sessions, connections, templates, saves, opened, overwrote>>

Fail(e) ==
  /\ asked[e] # NoRequest
  /\ Done(e)
  /\ UNCHANGED <<rows, opened, exported, overwrote>>

------------------------------------------------------------------------------
(* Around the requests *)

\* revoke_connection
RevokeConnection ==
  /\ connections > 0
  /\ connections' = connections - 1
  /\ UNCHANGED <<org, month, bonus_sessions, sessions, templates, usage, saves, opened, asked, past,
                 disturbed>>

Raised(l) ==
  [ sessions |-> Larger(ceiling.sessions, l.sessions + bonus_sessions'),
    connections |-> Larger(ceiling.connections, l.connections),
    templates |-> Larger(ceiling.templates, l.templates),
    exports |-> IF l.exports = None THEN ceiling.exports ELSE Larger(ceiling.exports, l.exports) ]

\* Billing moves the organization to another plan, cancels or revives it.
PlanMoves(p, st) ==
  /\ org' = [org EXCEPT !.plan = p, !.subscription_status = st]
  /\ UNCHANGED bonus_sessions
  /\ ceiling' = Raised(MaxOf[p])
  /\ UNCHANGED <<month, rows, opened, asked, exported, overwrote, disturbed>>

\* grant_bonus_sessions: replaces what was granted before.
GrantBonus ==
  /\ bonus_sessions' = Bonus
  /\ ceiling' = Raised(Limits)
  /\ UNCHANGED <<org, month, rows, opened, asked, exported, overwrote, disturbed>>

BonusExpires ==
  /\ bonus_sessions' = 0
  /\ UNCHANGED <<org, month, rows, opened, asked, past, disturbed>>

NextMonth ==
  /\ month < MaxMonths
  /\ month' = month + 1
  /\ UNCHANGED <<org, bonus_sessions, rows, opened, asked, past, disturbed>>

WorkspaceInit ==
  /\ org = NewOrganization
  /\ month = 1
  /\ bonus_sessions = 0
  /\ sessions = <<>>
  /\ connections = 0
  /\ templates = <<>>
  /\ usage = [m \in 1..MaxMonths |-> None]
  /\ opened = [e \in Editors |-> None]
  /\ asked = [e \in Editors |-> NoRequest]
  /\ saves = 0
  /\ exported = [m \in 1..MaxMonths |-> 0]
  /\ ceiling = [MaxOf[Starter] EXCEPT !.exports = IF @ = None THEN 0 ELSE @]
  /\ overwrote = FALSE
  /\ disturbed = FALSE

Create(e) ==
  \/ CreateSession(e) \/ CreateConnection(e) \/ Export(e)
  \/ CommitSession(e) \/ CommitConnection(e) \/ CommitExport(e)

Edit(e) ==
  \/ CreateTemplate(e)
  \/ \E t \in DOMAIN templates : DuplicateTemplate(e, t) \/ OpenTemplate(e, t) \/ DeleteTemplate(e, t)
  \/ \E default \in BOOLEAN : SaveTemplate(e, default)
  \/ CommitTemplate(e) \/ CommitSave(e) \/ CommitDelete(e)

Around ==
  \/ RevokeConnection
  \/ \E p \in Plans, st \in {"active", "canceled"} : PlanMoves(p, st)
  \/ GrantBonus \/ BonusExpires
  \/ NextMonth

WorkspaceNext ==
  \/ \E e \in Editors : Create(e) \/ Edit(e) \/ Fail(e)
  \/ Around

WorkspaceSpec == WorkspaceInit /\ [][WorkspaceNext]_workspaceVars

------------------------------------------------------------------------------

\* The types; a session names a template that is there or was.
WorkspaceTypeOK ==
  /\ org \in OrganizationRow
  /\ month \in 1..MaxMonths
  /\ bonus_sessions \in {0, Bonus}
  /\ sessions \in Seq([month : 1..MaxMonths, template : DOMAIN templates \cup {None}])
  /\ connections \in Nat
  /\ templates \in Seq(TemplateRow \cup {None})
  /\ usage \in [1..MaxMonths -> Nat \cup {None}]
  /\ exported \in [1..MaxMonths -> Nat]
  /\ saves \in Nat
  /\ overwrote \in BOOLEAN /\ disturbed \in BOOLEAN

Overshoot == IF disturbed THEN Cardinality(Editors) - 1 ELSE 0

\* The sessions of the month, the connections, the templates and the month's
\* exports stay within the highest limit the organization has had, but for what
\* requests at the same time have overshot, one each: the counts are not locked.
\* Exports are promised only of requests that come one by one, for concurrent
\* ones write the same count.
WithinLimits ==
  /\ ThisMonth <= ceiling.sessions + Overshoot
  /\ connections <= ceiling.connections + Overshoot
  /\ Cardinality(Existing) <= ceiling.templates + Overshoot
  /\ ~disturbed => \A m \in 1..MaxMonths : exported[m] <= ceiling.exports

\* Of requests that come one by one: a template holds the elements of one save, at
\* most one is the default, no session names a template that is gone, and no save
\* has replaced one its editor had not seen, though editors open, save, copy and
\* delete in between.
TemplatesAreSound ==
  ~disturbed =>
    /\ \A t \in Existing : Cardinality(templates[t].elements) <= 1
    /\ Cardinality(Defaults) <= 1
    /\ \A i \in DOMAIN sessions : sessions[i].template \in Existing \cup {None}
    /\ ~overwrote

\* "Full-document replace" (display_templates.py:146): a template holds the elements
\* of one save, of any requests.  Two saves of one version that both pass the
\* comparison leave the elements of both: it fails.
FullDocumentReplaced == \A t \in Existing : Cardinality(templates[t].elements) <= 1
=============================================================================
