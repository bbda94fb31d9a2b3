--------------------------- MODULE WorkspaceProofs ---------------------------
(***************************************************************************)
(* Theorems about Workspace, for any plans, limits and number of editors.  *)
(* The argument for the limits: who is about to add a row has seen room,   *)
(* so those added and those about to be exceed the limit by at most the    *)
(* other editors.  For the templates: of requests that come one by one,    *)
(* what a request holds in memory is still so when it commits.             *)
(***************************************************************************)
EXTENDS Workspace, FiniteSetTheorems, SequenceTheorems, TLAPS

AnyRequest ==
  {NoRequest} \cup [kind : {"session"}, template : Nat \cup {None}] \cup [kind : {"connection"}]
  \cup [kind : {"template"}, elements : SUBSET Nat]
  \cup [kind : {"save"}, template : Nat, version : Nat, drops : SUBSET Nat, is_default : BOOLEAN,
        loaded : BOOLEAN, clears : SUBSET Nat]
  \cup [kind : {"delete"}, template : Nat, unlinks : SUBSET Nat]
  \cup [kind : {"export"}, month : 1..MaxMonths, inserts : BOOLEAN, count : Nat]

Screen == {None} \cup [template : Nat, version : Nat, elements : SUBSET Nat]

\* The types, in memory too; who is about to create a session names a template
\* that is there or was.
TypeInv ==
  /\ WorkspaceTypeOK
  /\ asked \in [Editors -> AnyRequest]
  /\ opened \in [Editors -> Screen]
  /\ ceiling \in [sessions : Nat, connections : Nat, templates : Nat, exports : Nat]
  /\ \A e \in Editors : asked[e].kind = "session" => asked[e].template \in DOMAIN templates \cup {None}

------------------------------------------------------------------------------
(* Sequences *)

\* A function on the same positions is a sequence as long.
LEMMA SameLength ==
  ASSUME NEW S, NEW T, NEW s \in Seq(S), NEW f \in [DOMAIN s -> T]
  PROVE  f \in Seq(T) /\ Len(f) = Len(s) /\ DOMAIN f = DOMAIN s
<1>1. DOMAIN s = 1..Len(s) /\ Len(s) \in Nat
  BY LenProperties
<1>2. f \in Seq(T)
  BY <1>1, SeqDef
<1> QED BY <1>1, <1>2, LenProperties

\* Appending adds one position, after the others.
LEMMA OneLonger ==
  ASSUME NEW S, NEW s \in Seq(S), NEW x \in S
  PROVE  /\ Append(s, x) \in Seq(S)
         /\ DOMAIN Append(s, x) = DOMAIN s \cup {Len(s) + 1}
         /\ Len(s) + 1 \in Nat \ DOMAIN s
         /\ Append(s, x)[Len(s) + 1] = x
         /\ \A i \in DOMAIN s : Append(s, x)[i] = s[i]
<1>1. Len(s) \in Nat /\ DOMAIN s = 1..Len(s)
  BY LenProperties
<1>2. Append(s, x) \in Seq(S) /\ Len(Append(s, x)) = Len(s) + 1
  BY AppendProperties
<1>3. DOMAIN Append(s, x) = 1..(Len(s) + 1)
  BY <1>2, LenProperties
<1>4. Append(s, x)[Len(s) + 1] = x /\ \A i \in 1..Len(s) : Append(s, x)[i] = s[i]
  BY AppendProperties
<1> QED BY <1>1, <1>2, <1>3, <1>4

LEMMA AtMostOneMore ==
  ASSUME NEW S, NEW x, IsFiniteSet(S)
  PROVE  IsFiniteSet(S \cup {x}) /\ Cardinality(S \cup {x}) <= Cardinality(S) + 1
<1>1. Cardinality(S) \in Nat
  BY FS_CardinalityType
<1>2. CASE x \in S
  <2>1. Cardinality(S \cup {x}) = Cardinality(S) /\ IsFiniteSet(S \cup {x})
    BY <1>2, FS_AddElement
  <2> QED BY <1>1, <2>1
<1>3. CASE x \notin S
  <2>1. Cardinality(S \cup {x}) = Cardinality(S) + 1 /\ IsFiniteSet(S \cup {x})
    BY <1>3, FS_AddElement
  <2> QED BY <1>1, <2>1
<1> QED BY <1>2, <1>3

------------------------------------------------------------------------------
(* Types *)

LEMMA TypeInvInit == WorkspaceInit => TypeInv
<1> SUFFICES ASSUME WorkspaceInit PROVE TypeInv
  OBVIOUS
<1> USE WorkspaceAssumption DEF WorkspaceInit
<1>1. MaxOf[Starter] \in [sessions : Nat, connections : Nat, templates : Nat, exports : Nat \cup {None}]
  BY DEF Plans
<1>2. ceiling \in [sessions : Nat, connections : Nat, templates : Nat, exports : Nat]
  BY <1>1
<1>0. org \in OrganizationRow
  BY DEF NewOrganization, OrganizationRow, Plans, SubscriptionStatus
<1>3. /\ month \in 1..MaxMonths /\ bonus_sessions \in {0, Bonus}
      /\ connections \in Nat /\ usage \in [1..MaxMonths -> Nat \cup {None}]
      /\ exported \in [1..MaxMonths -> Nat] /\ saves \in Nat
      /\ overwrote \in BOOLEAN /\ disturbed \in BOOLEAN
  <2>1. month \in 1..MaxMonths
    OBVIOUS
  <2>2. usage \in [1..MaxMonths -> Nat \cup {None}] /\ exported \in [1..MaxMonths -> Nat]
    OBVIOUS
  <2>3. bonus_sessions \in {0, Bonus} /\ connections \in Nat /\ saves \in Nat
    OBVIOUS
  <2>4. overwrote \in BOOLEAN /\ disturbed \in BOOLEAN
    OBVIOUS
  <2> QED BY <2>1, <2>2, <2>3, <2>4
<1>4. /\ sessions \in Seq([month : 1..MaxMonths, template : DOMAIN templates \cup {None}])
      /\ templates \in Seq(TemplateRow \cup {None})
  BY EmptySeq
<1>5. asked \in [Editors -> AnyRequest] /\ opened \in [Editors -> Screen]
  BY DEF AnyRequest, Screen
<1>6. \A e \in Editors : asked[e].kind # "session"
  BY DEF NoRequest
<1> QED BY <1>0, <1>2, <1>3, <1>4, <1>5, <1>6 DEF TypeInv, WorkspaceTypeOK

\* What a request read is of its type.
LEMMA AskTyped ==
  ASSUME TypeInv, NEW e \in Editors, NEW r \in AnyRequest, Ask(e, r),
         r.kind = "session" => r.template \in DOMAIN templates \cup {None}
  PROVE  TypeInv'
<1> USE DEF TypeInv, Ask, rows, past
<1>1. asked' \in [Editors -> AnyRequest]
  OBVIOUS
<1>2. \A f \in Editors : asked'[f].kind = "session" => asked'[f].template \in DOMAIN templates \cup {None}
  OBVIOUS
<1>3. disturbed' \in BOOLEAN
  BY DEF WorkspaceTypeOK
<1>4. WorkspaceTypeOK'
  BY <1>3 DEF WorkspaceTypeOK
<1> QED BY <1>1, <1>2, <1>4

\* Rows that are there.
LEMMA ExistingRow ==
  ASSUME TypeInv, NEW t \in Existing
  PROVE  templates[t] \in TemplateRow /\ t \in Nat /\ t \in DOMAIN templates
<1>1. templates \in Seq(TemplateRow \cup {None}) /\ t \in DOMAIN templates /\ templates[t] # None
  BY DEF TypeInv, WorkspaceTypeOK, Existing
<1>2. DOMAIN templates = 1..Len(templates) /\ Len(templates) \in Nat
  BY <1>1, LenProperties
<1>3. templates[t] \in TemplateRow \cup {None}
  BY <1>1, <1>2, ElementOfSeq
<1> QED BY <1>1, <1>2, <1>3

\* When templates are only added, what names one still does.
LEMMA StillNamed ==
  ASSUME TypeInv, NEW e \in Editors, Done(e), DOMAIN templates \subseteq DOMAIN templates',
         templates' \in Seq(TemplateRow \cup {None}),
         sessions' \in Seq([month : 1..MaxMonths, template : DOMAIN templates \cup {None}]),
         opened' \in [Editors -> Screen], saves' \in Nat, connections' \in Nat,
         usage' \in [1..MaxMonths -> Nat \cup {None}], exported' \in [1..MaxMonths -> Nat],
         overwrote' \in BOOLEAN
  PROVE  TypeInv'
<1>1. sessions' \in Seq([month : 1..MaxMonths, template : DOMAIN templates' \cup {None}])
  BY SeqMonotonic
<1>2. asked' \in [Editors -> AnyRequest]
  BY DEF TypeInv, Done, AnyRequest
<1>3. \A f \in Editors : asked'[f].kind = "session" => asked'[f].template \in DOMAIN templates' \cup {None}
  BY DEF TypeInv, Done, NoRequest
<1>4. ceiling' = ceiling /\ WorkspaceTypeOK'
  BY <1>1 DEF TypeInv, WorkspaceTypeOK, Done
<1> QED BY <1>2, <1>3, <1>4 DEF TypeInv

\* What a commit writes is of its type.
LEMMA CommitTyped ==
  ASSUME TypeInv, NEW e \in Editors,
         \/ CommitSession(e) \/ CommitConnection(e) \/ CommitTemplate(e) \/ CommitSave(e)
         \/ CommitDelete(e) \/ CommitExport(e) \/ Fail(e)
  PROVE  TypeInv'
<1> DEFINE Row == [month : 1..MaxMonths, template : DOMAIN templates \cup {None}]
<1>1. /\ sessions \in Seq(Row) /\ templates \in Seq(TemplateRow \cup {None})
      /\ opened \in [Editors -> Screen] /\ saves \in Nat /\ connections \in Nat
      /\ usage \in [1..MaxMonths -> Nat \cup {None}] /\ exported \in [1..MaxMonths -> Nat]
      /\ overwrote \in BOOLEAN /\ asked[e] \in AnyRequest /\ month \in 1..MaxMonths
  BY DEF TypeInv, WorkspaceTypeOK
<1>2. CASE CommitSession(e)
  <2>1. [month |-> month, template |-> asked[e].template] \in Row
    BY <1>1, <1>2 DEF CommitSession, TypeInv
  <2>2. sessions' \in Seq(Row)
    BY <1>1, <1>2, <2>1, OneLonger DEF CommitSession
  <2> QED BY <1>1, <1>2, <2>2, StillNamed DEF CommitSession
<1>3. CASE CommitConnection(e)
  <2>1. connections' \in Nat
    BY <1>1, <1>3 DEF CommitConnection
  <2> QED BY <1>1, <1>3, <2>1, StillNamed DEF CommitConnection
<1>4. CASE CommitTemplate(e)
  <2>1. asked[e].elements \in SUBSET Nat
    BY <1>1, <1>4 DEF CommitTemplate, AnyRequest, NoRequest
  <2>2. [version |-> 1, elements |-> asked[e].elements, is_default |-> FALSE] \in TemplateRow \cup {None}
    BY <2>1 DEF TemplateRow
  <2>3. templates' \in Seq(TemplateRow \cup {None}) /\ DOMAIN templates \subseteq DOMAIN templates'
    BY <1>1, <1>4, <2>2, OneLonger DEF CommitTemplate
  <2> QED BY <1>1, <1>4, <2>3, StillNamed DEF CommitTemplate
<1>5. CASE CommitSave(e)
  <2> DEFINE r == asked[e]
  <2>1. /\ r.template \in Nat /\ r.version \in Nat /\ r.is_default \in BOOLEAN
    BY <1>1, <1>5 DEF CommitSave, AnyRequest, NoRequest
  <2>2. \A t \in DOMAIN templates : t = r.template \/ t \in r.clears => templates[t] \in TemplateRow
    BY <1>5, ExistingRow DEF CommitSave
  <2>3. saves + 1 \in Nat /\ saves' = saves + 1
    BY <1>1, <1>5 DEF CommitSave
  <2>4. ASSUME NEW t \in DOMAIN templates, t = r.template
        PROVE  [version |-> r.version, elements |-> (templates[t].elements \ r.drops) \cup {saves + 1},
                is_default |-> Mark(t, r)] \in TemplateRow
    <3>1. Mark(t, r) \in BOOLEAN
      BY <2>1, <2>2, <2>4 DEF Mark, TemplateRow
    <3> QED BY <2>1, <2>2, <2>3, <2>4, <3>1 DEF TemplateRow
  <2>5. ASSUME NEW t \in DOMAIN templates, t \in r.clears
        PROVE  [templates[t] EXCEPT !.is_default = FALSE] \in TemplateRow
    BY <2>2, <2>5 DEF TemplateRow
  <2>6. \A t \in DOMAIN templates : templates[t] \in TemplateRow \cup {None}
    BY <1>1, LenProperties, ElementOfSeq
  <2>7. templates' \in [DOMAIN templates -> TemplateRow \cup {None}]
    BY <1>5, <2>4, <2>5, <2>6 DEF CommitSave
  <2>8. templates' \in Seq(TemplateRow \cup {None}) /\ DOMAIN templates' = DOMAIN templates
    BY <1>1, <2>7, SameLength
  <2>9. r.template \in DOMAIN templates /\ templates'[r.template].elements \in SUBSET Nat
    <3>1. r.template \in DOMAIN templates
      BY <1>5 DEF CommitSave, Existing
    <3>2. templates'[r.template] \in TemplateRow
      BY <1>5, <2>4, <3>1 DEF CommitSave
    <3> QED BY <3>1, <3>2 DEF TemplateRow
  <2>10. opened' \in [Editors -> Screen]
    BY <1>1, <1>5, <2>1, <2>9 DEF CommitSave, Screen
  <2>11. overwrote' \in BOOLEAN
    BY <1>1, <1>5 DEF CommitSave
  <2> QED BY <1>1, <1>5, <2>3, <2>8, <2>10, <2>11, StillNamed DEF CommitSave
<1>6. CASE CommitDelete(e)
  <2>1. templates' \in [DOMAIN templates -> TemplateRow \cup {None}]
    <3>1. \A t \in DOMAIN templates : templates[t] \in TemplateRow \cup {None}
      BY <1>1, LenProperties, ElementOfSeq
    <3> QED BY <1>1, <1>6, <3>1, LenProperties DEF CommitDelete
  <2>2. templates' \in Seq(TemplateRow \cup {None}) /\ DOMAIN templates' = DOMAIN templates
    BY <1>1, <2>1, SameLength
  <2>3. \A i \in DOMAIN sessions : sessions[i] \in Row
    BY <1>1, LenProperties, ElementOfSeq
  <2>4. sessions' \in [DOMAIN sessions -> Row]
    BY <1>6, <2>3 DEF CommitDelete
  <2>5. sessions' \in Seq(Row)
    BY <1>1, <2>4, SameLength
  <2> QED BY <1>1, <1>6, <2>2, <2>5, StillNamed DEF CommitDelete
<1>7. CASE CommitExport(e)
  <2>1. asked[e].month \in 1..MaxMonths /\ asked[e].count \in Nat
    BY <1>1, <1>7 DEF CommitExport, AnyRequest, NoRequest
  <2>2. usage' \in [1..MaxMonths -> Nat \cup {None}] /\ exported' \in [1..MaxMonths -> Nat]
    BY <1>1, <1>7, <2>1 DEF CommitExport
  <2> QED BY <1>1, <1>7, <2>2, StillNamed DEF CommitExport
<1>8. CASE Fail(e)
  BY <1>1, <1>8, StillNamed DEF Fail, rows
<1> QED BY <1>2, <1>3, <1>4, <1>5, <1>6, <1>7, <1>8

------------------------------------------------------------------------------
(* What a request read *)

\* The request a step puts in flight, by the step.
Asked(e, r) ==
  /\ Ask(e, r)
  /\ \/ /\ r \in [kind : {"session"}, template : Existing \cup {None}]
        /\ RoomForSession
     \/ /\ r \in [kind : {"connection"}]
        /\ RoomForConnection
     \/ /\ r \in [kind : {"template"}, elements : {{}} \cup {templates[t].elements : t \in Existing}]
        /\ RoomForTemplate
     \/ /\ opened[e] # None
        /\ opened[e].template \in Existing
        /\ opened[e].version = templates[opened[e].template].version
        /\ \E default \in BOOLEAN : 
             r = [kind |-> "save", template |-> opened[e].template,
                  version |-> templates[opened[e].template].version + 1,
                  drops |-> templates[opened[e].template].elements, is_default |-> default,
                  loaded |-> templates[opened[e].template].is_default,
                  clears |-> OtherDefaults(opened[e].template, default)]
     \/ \E t \in Existing : r = [kind |-> "delete", template |-> t, unlinks |-> LinkedTo(t)]
     \/ /\ Limits.exports # None
        /\ Used < Limits.exports
        /\ r = [kind |-> "export", month |-> month, inserts |-> usage[month] = None, count |-> Used + 1]

Asks(e) ==
  \/ CreateSession(e) \/ CreateConnection(e) \/ Export(e) \/ CreateTemplate(e)
  \/ \E t \in DOMAIN templates : DuplicateTemplate(e, t) \/ DeleteTemplate(e, t)
  \/ \E default \in BOOLEAN : SaveTemplate(e, default)

LEMMA AskedByStep ==
  ASSUME NEW e \in Editors, Asks(e)
  PROVE  \E r : Asked(e, r)
<1>1. CASE CreateSession(e)
  <2>1. PICK t \in Existing \cup {None} : Ask(e, [kind |-> "session", template |-> t])
    BY <1>1 DEF CreateSession
  <2> QED BY <1>1, <2>1 DEF CreateSession, Asked
<1>2. CASE CreateConnection(e)
  BY <1>2 DEF CreateConnection, Asked
<1>3. CASE Export(e)
  BY <1>3 DEF Export, Asked
<1>4. CASE CreateTemplate(e)
  BY <1>4 DEF CreateTemplate, Asked
<1>5. ASSUME NEW t \in DOMAIN templates, DuplicateTemplate(e, t) PROVE \E r : Asked(e, r)
  BY <1>5 DEF DuplicateTemplate, Asked
<1>6. ASSUME NEW t \in DOMAIN templates, DeleteTemplate(e, t) PROVE \E r : Asked(e, r)
  BY <1>6 DEF DeleteTemplate, Asked
<1>7. ASSUME NEW default \in BOOLEAN, SaveTemplate(e, default) PROVE \E r : Asked(e, r)
  BY <1>7 DEF SaveTemplate, SameVersion, Asked
<1> QED BY <1>1, <1>2, <1>3, <1>4, <1>5, <1>6, <1>7 DEF Asks

LEMMA AskedTyped ==
  ASSUME TypeInv, NEW e \in Editors, NEW r, Asked(e, r)
  PROVE  r \in AnyRequest /\ (r.kind = "session" => r.template \in DOMAIN templates \cup {None})
<1>1. /\ \A t \in Existing : templates[t] \in TemplateRow /\ t \in Nat /\ t \in DOMAIN templates
      /\ usage[month] \in Nat \cup {None} /\ month \in 1..MaxMonths
      /\ sessions \in Seq([month : 1..MaxMonths, template : DOMAIN templates \cup {None}])
  BY ExistingRow DEF TypeInv, WorkspaceTypeOK
<1>2. CASE r \in [kind : {"session"}, template : Existing \cup {None}]
  BY <1>1, <1>2 DEF AnyRequest
<1>3. CASE r \in [kind : {"connection"}]
  BY <1>3 DEF AnyRequest
<1>4. CASE r \in [kind : {"template"}, elements : {{}} \cup {templates[t].elements : t \in Existing}]
  BY <1>1, <1>4 DEF AnyRequest, TemplateRow
<1>5. ASSUME opened[e].template \in Existing, NEW default \in BOOLEAN,
             r = [kind |-> "save", template |-> opened[e].template,
                  version |-> templates[opened[e].template].version + 1,
                  drops |-> templates[opened[e].template].elements, is_default |-> default,
                  loaded |-> templates[opened[e].template].is_default,
                  clears |-> OtherDefaults(opened[e].template, default)]
      PROVE  r \in AnyRequest /\ r.kind = "save"
  <2>1. OtherDefaults(opened[e].template, default) \in SUBSET Nat
    BY <1>1 DEF OtherDefaults, Defaults
  <2>2. templates[opened[e].template] \in TemplateRow /\ opened[e].template \in Nat
    BY <1>1, <1>5
  <2>3. r \in [kind : {"save"}, template : Nat, version : Nat, drops : SUBSET Nat,
               is_default : BOOLEAN, loaded : BOOLEAN, clears : SUBSET Nat]
    BY <1>5, <2>1, <2>2 DEF TemplateRow
  <2> QED BY <2>3 DEF AnyRequest
<1>6. ASSUME NEW t \in Existing, r = [kind |-> "delete", template |-> t, unlinks |-> LinkedTo(t)]
      PROVE  r \in AnyRequest /\ r.kind = "delete"
  <2>1. LinkedTo(t) \in SUBSET Nat
    BY <1>1, LenProperties DEF LinkedTo
  <2> QED BY <1>1, <1>6, <2>1 DEF AnyRequest
<1>7. CASE r = [kind |-> "export", month |-> month, inserts |-> usage[month] = None, count |-> Used + 1]
  <2>1. Used + 1 \in Nat
    BY <1>1 DEF Used
  <2> QED BY <1>1, <1>7, <2>1 DEF AnyRequest
<1> QED BY <1>2, <1>3, <1>4, <1>5, <1>6, <1>7 DEF Asked

\* A ceiling is only raised, and over the plan that is moved to.
LEMMA CeilingRaised ==
  ASSUME TypeInv, NEW p \in Plans, bonus_sessions' \in {0, Bonus}, ceiling' = Raised(MaxOf[p])
  PROVE  /\ ceiling' \in [sessions : Nat, connections : Nat, templates : Nat, exports : Nat]
         /\ \A q \in {"sessions", "connections", "templates", "exports"} : ceiling[q] <= ceiling'[q]
         /\ MaxOf[p].sessions + bonus_sessions' <= ceiling'.sessions
         /\ MaxOf[p].connections <= ceiling'.connections
         /\ MaxOf[p].templates <= ceiling'.templates
         /\ MaxOf[p].exports # None => MaxOf[p].exports <= ceiling'.exports
<1>1. MaxOf[p] \in [sessions : Nat, connections : Nat, templates : Nat, exports : Nat \cup {None}]
      /\ bonus_sessions' \in Nat
  BY WorkspaceAssumption
<1>2. ceiling \in [sessions : Nat, connections : Nat, templates : Nat, exports : Nat]
  BY DEF TypeInv
<1> QED BY <1>1, <1>2 DEF Raised, Larger

LEMMA PlanOfOrg == ASSUME TypeInv PROVE org.plan \in Plans
BY DEF TypeInv, WorkspaceTypeOK, OrganizationRow

\* Around the requests, types are kept too.
LEMMA AroundTyped ==
  ASSUME TypeInv, Around
  PROVE  TypeInv'
<1> USE DEF TypeInv, WorkspaceTypeOK, rows, past
<1>1. CASE RevokeConnection
  <2>1. connections' \in Nat
    BY <1>1 DEF RevokeConnection
  <2> QED BY <1>1, <2>1 DEF RevokeConnection
<1>2. ASSUME NEW p \in Plans, NEW st \in {"active", "canceled"}, PlanMoves(p, st) PROVE TypeInv'
  <2>1. org' \in OrganizationRow
    BY <1>2 DEF PlanMoves, OrganizationRow, SubscriptionStatus
  <2>2. ceiling' \in [sessions : Nat, connections : Nat, templates : Nat, exports : Nat]
    BY <1>2, CeilingRaised DEF PlanMoves
  <2> QED BY <1>2, <2>1, <2>2 DEF PlanMoves
<1>3. CASE GrantBonus
  <2>1. bonus_sessions' \in {0, Bonus}
    BY <1>3 DEF GrantBonus
  <2>2. ceiling' \in [sessions : Nat, connections : Nat, templates : Nat, exports : Nat]
    BY <1>3, <2>1, CeilingRaised, PlanOfOrg DEF GrantBonus, Limits
  <2> QED BY <1>3, <2>1, <2>2 DEF GrantBonus
<1>4. CASE BonusExpires
  BY <1>4 DEF BonusExpires
<1>5. CASE NextMonth
  <2>1. month' \in 1..MaxMonths
    BY <1>5, WorkspaceAssumption DEF NextMonth
  <2> QED BY <1>5, <2>1 DEF NextMonth
<1> QED BY <1>1, <1>2, <1>3, <1>4, <1>5 DEF Around

LEMMA OpenTyped ==
  ASSUME TypeInv, NEW e \in Editors, NEW t \in DOMAIN templates, OpenTemplate(e, t)
  PROVE  TypeInv'
<1>1. templates[t] \in TemplateRow /\ t \in Nat
  BY ExistingRow DEF OpenTemplate
<1>2. opened' \in [Editors -> Screen]
  BY <1>1 DEF OpenTemplate, TypeInv, Screen, TemplateRow
<1> QED BY <1>2 DEF OpenTemplate, TypeInv, WorkspaceTypeOK, rows, past

\* The kinds of step: a request reads, commits or opens a template, or something
\* happens around them.
LEMMA StepKinds ==
  ASSUME WorkspaceNext
  PROVE  \/ \E e \in Editors : Asks(e)
         \/ \E e \in Editors : \/ CommitSession(e) \/ CommitConnection(e) \/ CommitTemplate(e)
                               \/ CommitSave(e) \/ CommitDelete(e) \/ CommitExport(e) \/ Fail(e)
         \/ \E e \in Editors : \E t \in DOMAIN templates : OpenTemplate(e, t)
         \/ Around
BY DEF WorkspaceNext, Create, Edit, Asks

LEMMA TypeInvNext == TypeInv /\ [WorkspaceNext]_workspaceVars => TypeInv'
<1> SUFFICES ASSUME TypeInv, [WorkspaceNext]_workspaceVars PROVE TypeInv'
  OBVIOUS
<1>1. ASSUME NEW e \in Editors, Asks(e) PROVE TypeInv'
  <2>1. PICK r : Asked(e, r)
    BY <1>1, AskedByStep
  <2> QED BY <2>1, AskedTyped, AskTyped DEF Asked
<1>2. CASE UNCHANGED workspaceVars
  BY <1>2 DEF TypeInv, WorkspaceTypeOK, workspaceVars
<1>3. CASE WorkspaceNext
  BY <1>1, <1>3, StepKinds, CommitTyped, OpenTyped, AroundTyped
<1> QED BY <1>2, <1>3

------------------------------------------------------------------------------
(* Limits *)

InFlight(k) == {e \in Editors : asked[e].kind = k}

\* Those there and those about to be.
Fits(n, k, limit) == n + Cardinality(InFlight(k)) <= limit + Overshoot

\* The ceilings are over the limits of now.
UnderCeiling ==
  /\ Limits.sessions + bonus_sessions <= ceiling.sessions
  /\ Limits.connections <= ceiling.connections
  /\ Limits.templates <= ceiling.templates
  /\ Limits.exports # None => Limits.exports <= ceiling.exports

OneByOne == \A e, f \in Editors : asked[e] # NoRequest /\ asked[f] # NoRequest => e = f

\* In a new month there are no sessions, though some may be about to be.
MonthsPassed ==
  /\ \A i \in DOMAIN sessions : sessions[i].month <= month
  /\ InFlight("session") # {} => ceiling.sessions >= 1

\* The exports made are those counted.
ExportsCounted ==
  /\ \A m \in 1..MaxMonths : exported[m] <= ceiling.exports
                             /\ exported[m] = (IF usage[m] = None THEN 0 ELSE usage[m])
  /\ \A e \in Editors : asked[e].kind = "export" =>
       asked[e].count = exported[asked[e].month] + 1 /\ asked[e].count <= ceiling.exports

LimitsInv ==
  /\ TypeInv
  /\ UnderCeiling
  /\ disturbed => Editors # {}
  /\ ~disturbed => OneByOne /\ ExportsCounted
  /\ MonthsPassed
  /\ Fits(ThisMonth, "session", ceiling.sessions)
  /\ Fits(connections, "connection", ceiling.connections)
  /\ Fits(Cardinality(Existing), "template", ceiling.templates)

LEMMA InFlightFinite ==
  ASSUME NEW k
  PROVE  /\ IsFiniteSet(InFlight(k)) /\ Cardinality(InFlight(k)) \in Nat
         /\ Cardinality(Editors) \in Nat /\ Cardinality(InFlight(k)) <= Cardinality(Editors)
BY WorkspaceAssumption, FS_Subset, FS_CardinalityType DEF InFlight

LEMMA OvershootNat ==
  ASSUME disturbed => Editors # {}
  PROVE  Overshoot \in Nat
<1>1. Cardinality(Editors) \in Nat /\ (Editors # {} => Cardinality(Editors) # 0)
  BY WorkspaceAssumption, FS_CardinalityType, FS_EmptySet
<1> QED BY <1>1 DEF Overshoot

LEMMA RowsFinite ==
  ASSUME TypeInv
  PROVE  /\ IsFiniteSet(DOMAIN sessions) /\ IsFiniteSet(DOMAIN templates)
         /\ IsFiniteSet(Existing) /\ Cardinality(Existing) \in Nat
         /\ ThisMonth \in Nat
<1>1. IsFiniteSet(DOMAIN sessions) /\ IsFiniteSet(DOMAIN templates)
  BY LenProperties, FS_Interval DEF TypeInv, WorkspaceTypeOK
<1>2. IsFiniteSet(Existing) /\ IsFiniteSet({i \in DOMAIN sessions : sessions[i].month = month})
  BY <1>1, FS_Subset DEF Existing
<1> QED BY <1>1, <1>2, FS_CardinalityType DEF ThisMonth

\* Who asks for a row has seen room for it.
LEMMA AskFits ==
  ASSUME TypeInv, disturbed => Editors # {}, ~disturbed => OneByOne,
         NEW e \in Editors, NEW r, Ask(e, r), NEW k, k # "none",
         NEW n \in Nat, NEW limit \in Nat, Fits(n, k, limit),
         r.kind = k => n < limit
  PROVE  n + Cardinality(InFlight(k)') <= limit + Overshoot'
<1>1. asked' = [asked EXCEPT ![e] = r] /\ asked[e].kind = "none"
  BY DEF Ask, NoRequest, TypeInv
<1>2. Overshoot \in Nat /\ Cardinality(Editors) \in Nat \ {0} /\ Cardinality(InFlight(k)) \in Nat
  BY OvershootNat, InFlightFinite, FS_EmptySet, WorkspaceAssumption
<1>3. Overshoot' \in Nat /\ Overshoot <= Overshoot'
  <2>1. disturbed => disturbed'
    BY DEF Ask
  <2> QED BY <1>2, <2>1 DEF Overshoot
<1>4. CASE r.kind # k
  <2>1. InFlight(k)' = InFlight(k)
    BY <1>1, <1>4 DEF InFlight, TypeInv
  <2> QED BY <1>2, <1>3, <2>1 DEF Fits
<1>5. CASE r.kind = k
  <2>1. InFlight(k)' \in SUBSET Editors
    BY DEF InFlight
  <2>2. Cardinality(InFlight(k)') <= Cardinality(Editors) /\ Cardinality(InFlight(k)') \in Nat
    BY <2>1, WorkspaceAssumption, FS_Subset, FS_CardinalityType
  <2>3. CASE disturbed'
    BY <1>2, <1>5, <2>2, <2>3 DEF Overshoot
  <2>4. CASE ~disturbed'
    <3>1. \A f \in Editors : asked[f] = NoRequest
      BY <2>4 DEF Ask
    <3>2. InFlight(k)' = {e}
      BY <1>1, <1>5, <3>1 DEF InFlight, NoRequest, TypeInv
    <3>3. Cardinality(InFlight(k)') = 1
      BY <3>2, FS_Singleton
    <3>4. n + 1 <= limit
      BY <1>5
    <3>5. Overshoot' = 0
      BY <2>4 DEF Overshoot
    <3>6. n + 1 <= limit + 0
      BY <3>4
    <3> QED BY <3>3, <3>5, <3>6
  <2> QED BY <2>3, <2>4
<1> QED BY <1>4, <1>5

\* Who commits is in flight no more.
LEMMA DoneFits ==
  ASSUME TypeInv, disturbed => Editors # {},
         NEW e \in Editors, Done(e), NEW k, k # "none",
         NEW n \in Nat, NEW m \in Nat, NEW limit \in Nat, Fits(n, k, limit),
         m <= IF asked[e].kind = k THEN n + 1 ELSE n
  PROVE  m + Cardinality(InFlight(k)') <= limit + Overshoot'
<1>1. InFlight(k)' = InFlight(k) \ {e}
  BY DEF InFlight, Done, NoRequest, TypeInv
<1>2. IsFiniteSet(InFlight(k)) /\ Cardinality(InFlight(k)) \in Nat
  BY InFlightFinite
<1>3. Cardinality(InFlight(k)') = IF e \in InFlight(k) THEN Cardinality(InFlight(k)) - 1
                                  ELSE Cardinality(InFlight(k))
  BY <1>1, <1>2, FS_RemoveElement
<1>4. e \in InFlight(k) <=> asked[e].kind = k
  BY DEF InFlight
<1>5. Overshoot' = Overshoot /\ Overshoot \in Nat
  BY OvershootNat DEF Overshoot, Done
<1> QED BY <1>2, <1>3, <1>4, <1>5 DEF Fits

\* At most one request is in flight, or as many as there are editors.
LEMMA FewInFlight ==
  ASSUME TypeInv, disturbed => Editors # {}, ~disturbed => OneByOne, NEW k, k # "none"
  PROVE  Cardinality(InFlight(k)) <= 1 + Overshoot
<1>1. CASE disturbed
  BY <1>1, InFlightFinite DEF Overshoot
<1>2. CASE ~disturbed
  <2>1. \A e, f \in InFlight(k) : e = f
    BY <1>2 DEF InFlight, OneByOne, NoRequest
  <2>2. CASE InFlight(k) = {}
    BY <1>2, <2>2, FS_EmptySet DEF Overshoot
  <2>3. ASSUME NEW e \in InFlight(k) PROVE Cardinality(InFlight(k)) = 1
    <3>1. InFlight(k) = {e}
      BY <2>1, <2>3
    <3> QED BY <3>1, FS_Singleton
  <2> QED BY <1>2, <2>2, <2>3 DEF Overshoot
<1> QED BY <1>1, <1>2

LEMMA LimitsInvInit == WorkspaceInit => LimitsInv
<1> SUFFICES ASSUME WorkspaceInit PROVE LimitsInv
  OBVIOUS
<1> USE DEF WorkspaceInit
<1>1. TypeInv
  BY TypeInvInit
<1>2. MaxOf[Starter] \in [sessions : Nat, connections : Nat, templates : Nat, exports : Nat \cup {None}]
  BY WorkspaceAssumption DEF Plans
<1>3. UnderCeiling
  BY <1>2 DEF UnderCeiling, Limits, NewOrganization
<1>4. \A e \in Editors : asked[e] = NoRequest
  OBVIOUS
<1>5. \A k : k # "none" => InFlight(k) = {}
  BY <1>4 DEF InFlight, NoRequest
<1>6. ThisMonth = 0 /\ Cardinality(Existing) = 0
  <2>1. {i \in DOMAIN sessions : sessions[i].month = month} = {} /\ Existing = {}
    BY DEF Existing
  <2> QED BY <2>1, FS_EmptySet DEF ThisMonth
<1>7. ceiling \in [sessions : Nat, connections : Nat, templates : Nat, exports : Nat]
  BY <1>1 DEF TypeInv
<1>8. /\ Fits(ThisMonth, "session", ceiling.sessions)
      /\ Fits(connections, "connection", ceiling.connections)
      /\ Fits(Cardinality(Existing), "template", ceiling.templates)
  <2>1. Overshoot = 0
    BY DEF Overshoot
  <2>2. ASSUME NEW k, k # "none", NEW limit \in Nat PROVE Fits(0, k, limit)
    <3>1. Cardinality(InFlight(k)) = 0
      BY <1>5, <2>2, FS_EmptySet
    <3> QED BY <2>1, <3>1 DEF Fits
  <2>3. connections = 0
    OBVIOUS
  <2> QED BY ONLY <1>6, <1>7, <2>2, <2>3
<1>9. OneByOne /\ ExportsCounted
  <2>1. OneByOne /\ \A e \in Editors : asked[e].kind # "export"
    BY <1>4 DEF OneByOne, NoRequest
  <2>2. \A m \in 1..MaxMonths : exported[m] = 0 /\ usage[m] = None
    OBVIOUS
  <2>3. 0 <= ceiling.exports
    BY <1>7
  <2> QED BY <2>1, <2>2, <2>3 DEF ExportsCounted
<1>10. MonthsPassed
  BY <1>5 DEF MonthsPassed
<1> QED BY <1>1, <1>3, <1>8, <1>9, <1>10 DEF LimitsInv

LEMMA LimitsInvAsk ==
  ASSUME LimitsInv, TypeInv', NEW e \in Editors, NEW r, Asked(e, r)
  PROVE  LimitsInv'
<1>1. /\ TypeInv /\ UnderCeiling /\ (disturbed => Editors # {}) /\ MonthsPassed
      /\ (~disturbed => OneByOne /\ ExportsCounted)
      /\ Fits(ThisMonth, "session", ceiling.sessions)
      /\ Fits(connections, "connection", ceiling.connections)
      /\ Fits(Cardinality(Existing), "template", ceiling.templates)
  BY DEF LimitsInv
<1>2. /\ Ask(e, r)
      /\ UNCHANGED <<org, month, bonus_sessions, sessions, connections, templates, usage, exported, ceiling>>
      /\ asked' = [asked EXCEPT ![e] = r]
  BY DEF Asked, Ask, rows, past
<1>3. /\ ThisMonth \in Nat /\ Cardinality(Existing) \in Nat /\ connections \in Nat
      /\ ceiling \in [sessions : Nat, connections : Nat, templates : Nat, exports : Nat]
      /\ bonus_sessions \in Nat
  <2>1. ThisMonth \in Nat /\ Cardinality(Existing) \in Nat
    BY <1>1, RowsFinite
  <2>2. bonus_sessions \in Nat
    BY <1>1, WorkspaceAssumption DEF TypeInv, WorkspaceTypeOK
  <2> QED BY <1>1, <2>1, <2>2 DEF TypeInv, WorkspaceTypeOK
<1>4. Limits \in [sessions : Nat, connections : Nat, templates : Nat, exports : Nat \cup {None}]
  BY <1>1, PlanOfOrg, WorkspaceAssumption DEF Limits
<1>5. /\ r.kind = "session" => ThisMonth < ceiling.sessions
      /\ r.kind = "connection" => connections < ceiling.connections
      /\ r.kind = "template" => Cardinality(Existing) < ceiling.templates
  <2>1. /\ r.kind = "session" => RoomForSession
        /\ r.kind = "connection" => RoomForConnection
        /\ r.kind = "template" => RoomForTemplate
    BY DEF Asked
  <2>2. /\ Limits.sessions + bonus_sessions <= ceiling.sessions
        /\ Limits.connections <= ceiling.connections
        /\ Limits.templates <= ceiling.templates
    BY <1>1 DEF UnderCeiling
  <2>3. r.kind = "session" => ThisMonth < ceiling.sessions
    BY <1>3, <1>4, <2>1, <2>2 DEF RoomForSession
  <2>4. r.kind = "connection" => connections < ceiling.connections
    BY <1>3, <1>4, <2>1, <2>2 DEF RoomForConnection
  <2>5. r.kind = "template" => Cardinality(Existing) < ceiling.templates
    BY <1>3, <1>4, <2>1, <2>2 DEF RoomForTemplate
  <2> QED BY <2>3, <2>4, <2>5
<1>6. Fits(ThisMonth, "session", ceiling.sessions)'
  <2>1. ThisMonth' = ThisMonth
    BY <1>2 DEF ThisMonth
  <2>2. ThisMonth + Cardinality(InFlight("session")') <= ceiling.sessions + Overshoot'
    BY <1>1, <1>2, <1>3, <1>5, AskFits
  <2> QED BY <1>2, <2>1, <2>2 DEF Fits
<1>7. Fits(connections, "connection", ceiling.connections)'
  <2>1. connections + Cardinality(InFlight("connection")') <= ceiling.connections + Overshoot'
    BY <1>1, <1>2, <1>3, <1>5, AskFits
  <2> QED BY <1>2, <2>1 DEF Fits
<1>8. Fits(Cardinality(Existing), "template", ceiling.templates)'
  <2>1. Existing' = Existing
    BY <1>2 DEF Existing
  <2>2. Cardinality(Existing) + Cardinality(InFlight("template")') <= ceiling.templates + Overshoot'
    BY <1>1, <1>2, <1>3, <1>5, AskFits
  <2> QED BY <1>2, <2>1, <2>2 DEF Fits
<1>9. UnderCeiling'
  <2>1. Limits' = Limits /\ bonus_sessions' = bonus_sessions /\ ceiling' = ceiling
    BY <1>2 DEF Limits
  <2> QED BY <1>1, <2>1 DEF UnderCeiling
<1>10. disturbed' => Editors # {}
  OBVIOUS
<1>11. MonthsPassed'
  <2>1. ASSUME NEW f \in InFlight("session")' PROVE ceiling.sessions >= 1
    <3>1. CASE f = e
      <4>1. asked'[e] = r
        BY <1>1, <1>2 DEF TypeInv
      <4>2. r.kind = "session"
        BY <2>1, <3>1, <4>1 DEF InFlight
      <4> QED BY <1>3, <1>5, <4>2
    <3>2. CASE f # e
      BY <1>1, <1>2, <2>1, <3>2 DEF InFlight, MonthsPassed, TypeInv
    <3> QED BY <3>1, <3>2
  <2> QED BY <1>1, <1>2, <2>1 DEF MonthsPassed
<1>12. ~disturbed' => OneByOne' /\ ExportsCounted'
  <2> SUFFICES ASSUME ~disturbed' PROVE OneByOne' /\ ExportsCounted'
    OBVIOUS
  <2>1. ~disturbed /\ \A f \in Editors : asked[f] = NoRequest
    BY <1>2 DEF Ask
  <2>2. OneByOne'
    BY <1>1, <1>2, <2>1 DEF OneByOne, TypeInv
  <2>3. ASSUME r.kind = "export"
        PROVE  r.count = exported[r.month] + 1 /\ r.count <= ceiling.exports
    <3>1. r = [kind |-> "export", month |-> month, inserts |-> usage[month] = None, count |-> Used + 1]
          /\ Limits.exports # None /\ Used < Limits.exports
      BY <2>3 DEF Asked
    <3>2. Used = exported[month] /\ Used \in Nat
      BY <1>1, <2>1 DEF Used, ExportsCounted, TypeInv, WorkspaceTypeOK
    <3>3. Limits.exports \in Nat /\ Limits.exports <= ceiling.exports
      BY <1>1, <1>4, <3>1 DEF UnderCeiling
    <3> QED BY <1>3, <3>1, <3>2, <3>3
  <2>4. \A f \in Editors : asked'[f].kind = "export" => f = e /\ asked'[f] = r
    BY <1>1, <1>2, <2>1 DEF NoRequest, TypeInv
  <2>5. ExportsCounted'
    BY <1>1, <1>2, <2>1, <2>3, <2>4 DEF ExportsCounted
  <2> QED BY <2>2, <2>5
<1> QED BY <1>6, <1>7, <1>8, <1>9, <1>10, <1>11, <1>12 DEF LimitsInv

Commits(e) ==
  \/ CommitSession(e) \/ CommitConnection(e) \/ CommitTemplate(e) \/ CommitSave(e)
  \/ CommitDelete(e) \/ CommitExport(e) \/ Fail(e)

\* The months of the sessions stay, and so does how many there are in this one.
LEMMA SameMonths ==
  ASSUME TypeInv, month' = month, DOMAIN sessions' = DOMAIN sessions,
         \A i \in DOMAIN sessions : sessions'[i].month = sessions[i].month
  PROVE  ThisMonth' = ThisMonth
<1>1. {i \in DOMAIN sessions' : sessions'[i].month = month'} = {i \in DOMAIN sessions : sessions[i].month = month}
  OBVIOUS
<1> QED BY <1>1 DEF ThisMonth

\* A commit adds what was asked for, and nothing else.
LEMMA CommitSessions ==
  ASSUME TypeInv, NEW e \in Editors, Commits(e)
  PROVE  /\ ThisMonth' <= IF asked[e].kind = "session" THEN ThisMonth + 1 ELSE ThisMonth
         /\ (\A i \in DOMAIN sessions : sessions[i].month <= month)
              => \A i \in DOMAIN sessions' : sessions'[i].month <= month
         /\ month' = month
<1> DEFINE Row == [month : 1..MaxMonths, template : DOMAIN templates \cup {None}]
<1>1. sessions \in Seq(Row) /\ ThisMonth \in Nat /\ month \in 1..MaxMonths
  BY RowsFinite DEF TypeInv, WorkspaceTypeOK
<1>2. CASE CommitSession(e)
  <2> DEFINE new == [month |-> month, template |-> asked[e].template]
             old == {i \in DOMAIN sessions : sessions[i].month = month}
  <2>1. new \in Row
    BY <1>1, <1>2 DEF CommitSession, TypeInv
  <2>2. sessions' = Append(sessions, new) /\ month' = month /\ asked[e].kind = "session"
    BY <1>2 DEF CommitSession, Done
  <2>3. /\ DOMAIN sessions' = DOMAIN sessions \cup {Len(sessions) + 1}
        /\ sessions'[Len(sessions) + 1] = new
        /\ \A i \in DOMAIN sessions : sessions'[i] = sessions[i]
    BY <1>1, <2>1, <2>2, OneLonger
  <2>4. {i \in DOMAIN sessions' : sessions'[i].month = month'} = old \cup {Len(sessions) + 1}
    BY <2>2, <2>3
  <2>5. IsFiniteSet(old)
    BY RowsFinite, FS_Subset
  <2>6. ThisMonth' <= ThisMonth + 1
    BY <2>4, <2>5, AtMostOneMore DEF ThisMonth
  <2> QED BY <1>1, <2>2, <2>3, <2>6
<1>3. CASE CommitDelete(e)
  <2>1. DOMAIN sessions' = DOMAIN sessions /\ month' = month
    BY <1>3 DEF CommitDelete, Done
  <2>2. \A i \in DOMAIN sessions : sessions'[i].month = sessions[i].month
    <3>1. \A i \in DOMAIN sessions : sessions[i] \in Row
      BY <1>1, LenProperties, ElementOfSeq
    <3> QED BY <1>3, <3>1 DEF CommitDelete
  <2>3. ThisMonth' = ThisMonth
    BY <2>1, <2>2, SameMonths
  <2>4. asked[e].kind # "session"
    BY <1>3 DEF CommitDelete
  <2> QED BY <1>1, <2>1, <2>2, <2>3, <2>4
<1>4. ASSUME sessions' = sessions, month' = month PROVE ThisMonth' = ThisMonth
  BY <1>4 DEF ThisMonth
<1>5. CASE CommitConnection(e) \/ CommitTemplate(e) \/ CommitSave(e) \/ CommitExport(e) \/ Fail(e)
  <2>1. sessions' = sessions /\ month' = month
    BY <1>5 DEF CommitConnection, CommitTemplate, CommitSave, CommitExport, Fail, Done, rows
  <2> QED BY <1>1, <1>4, <2>1
<1> QED BY <1>2, <1>3, <1>5 DEF Commits

LEMMA CommitTemplates ==
  ASSUME TypeInv, NEW e \in Editors, Commits(e)
  PROVE  /\ Cardinality(Existing') \in Nat
         /\ Cardinality(Existing') <= IF asked[e].kind = "template" THEN Cardinality(Existing) + 1
                                      ELSE Cardinality(Existing)
<1>1. templates \in Seq(TemplateRow \cup {None}) /\ IsFiniteSet(Existing) /\ Cardinality(Existing) \in Nat
  BY RowsFinite DEF TypeInv, WorkspaceTypeOK
<1>2. CASE CommitTemplate(e)
  <2> DEFINE new == [version |-> 1, elements |-> asked[e].elements, is_default |-> FALSE]
  <2>1. asked[e] \in AnyRequest /\ asked[e].kind = "template" /\ templates' = Append(templates, new)
    BY <1>2 DEF CommitTemplate, TypeInv
  <2>2. new \in TemplateRow \cup {None}
    BY <2>1 DEF AnyRequest, NoRequest, TemplateRow
  <2>3. Existing' \in SUBSET (Existing \cup {Len(templates) + 1})
    BY <1>1, <2>1, <2>2, OneLonger DEF Existing
  <2>4. /\ IsFiniteSet(Existing \cup {Len(templates) + 1})
        /\ Cardinality(Existing \cup {Len(templates) + 1}) <= Cardinality(Existing) + 1
    BY <1>1, AtMostOneMore
  <2>5. IsFiniteSet(Existing') /\ Cardinality(Existing') <= Cardinality(Existing \cup {Len(templates) + 1})
    BY <2>3, <2>4, FS_Subset
  <2>6. Cardinality(Existing') \in Nat /\ Cardinality(Existing \cup {Len(templates) + 1}) \in Nat
    BY <2>4, <2>5, FS_CardinalityType
  <2> QED BY <1>1, <2>1, <2>4, <2>5, <2>6
<1>3. ASSUME Existing' \in SUBSET Existing
      PROVE  Cardinality(Existing') \in Nat /\ Cardinality(Existing') <= Cardinality(Existing)
  BY <1>1, <1>3, FS_Subset, FS_CardinalityType
<1>4. CASE CommitSave(e)
  <2>1. asked[e].kind = "save" /\ Existing' \in SUBSET Existing
    BY <1>4 DEF CommitSave, Existing
  <2> QED BY <1>1, <1>3, <2>1
<1>5. CASE CommitDelete(e)
  <2>1. asked[e].kind = "delete" /\ Existing' \in SUBSET Existing
    BY <1>5 DEF CommitDelete, Existing
  <2> QED BY <1>1, <1>3, <2>1
<1>6. CASE CommitSession(e) \/ CommitConnection(e) \/ CommitExport(e) \/ Fail(e)
  <2>1. templates' = templates
    BY <1>6 DEF CommitSession, CommitConnection, CommitExport, Fail, rows
  <2>2. Existing' = Existing
    BY <2>1 DEF Existing
  <2> QED BY <1>1, <2>2
<1> QED BY <1>2, <1>4, <1>5, <1>6 DEF Commits

LEMMA CommitConnections ==
  ASSUME TypeInv, NEW e \in Editors, Commits(e)
  PROVE  connections' <= IF asked[e].kind = "connection" THEN connections + 1 ELSE connections
<1>1. connections \in Nat
  BY DEF TypeInv, WorkspaceTypeOK
<1>2. CASE CommitConnection(e)
  BY <1>1, <1>2 DEF CommitConnection
<1>3. CASE ~CommitConnection(e)
  <2>1. connections' = connections
    BY <1>3 DEF Commits, CommitSession, CommitTemplate, CommitSave, CommitDelete, CommitExport,
                Fail, rows
  <2> QED BY <1>1, <2>1
<1> QED BY <1>2, <1>3

LEMMA CommitExports ==
  ASSUME TypeInv, NEW e \in Editors, Commits(e), OneByOne, ExportsCounted
  PROVE  ExportsCounted'
<1>1. /\ usage \in [1..MaxMonths -> Nat \cup {None}] /\ exported \in [1..MaxMonths -> Nat]
      /\ ceiling' = ceiling
  BY DEF TypeInv, WorkspaceTypeOK, Commits, CommitSession, CommitConnection, CommitTemplate,
         CommitSave, CommitDelete, CommitExport, Fail, Done
<1>2. \A f \in Editors : asked'[f].kind # "export"
  <2>1. asked' = [asked EXCEPT ![e] = NoRequest] /\ asked[e] # NoRequest
    BY DEF Commits, CommitSession, CommitConnection, CommitTemplate, CommitSave, CommitDelete,
           CommitExport, Fail, Done, NoRequest
  <2> QED BY <2>1 DEF OneByOne, NoRequest, TypeInv
<1>3. CASE CommitExport(e)
  <2> DEFINE r == asked[e]
  <2>1. /\ r.month \in 1..MaxMonths /\ r.count = exported[r.month] + 1 /\ r.count <= ceiling.exports
        /\ usage' = [usage EXCEPT ![r.month] = r.count]
        /\ exported' = [exported EXCEPT ![r.month] = exported[r.month] + 1]
    BY <1>3 DEF CommitExport, ExportsCounted, TypeInv, AnyRequest, NoRequest
  <2>2. r.count \in Nat /\ r.count # None
    BY <1>1, <2>1, WorkspaceAssumption
  <2>3. ASSUME NEW m \in 1..MaxMonths
        PROVE  /\ exported'[m] <= ceiling.exports
               /\ exported'[m] = (IF usage'[m] = None THEN 0 ELSE usage'[m])
    BY <1>1, <2>1, <2>2 DEF ExportsCounted
  <2> QED BY <1>1, <1>2, <2>3 DEF ExportsCounted
<1>4. CASE ~CommitExport(e)
  <2>1. usage' = usage /\ exported' = exported
    BY <1>4 DEF Commits, CommitSession, CommitConnection, CommitTemplate, CommitSave,
                CommitDelete, Fail, rows
  <2> QED BY <1>1, <1>2, <2>1 DEF ExportsCounted
<1> QED BY <1>3, <1>4

LEMMA LimitsInvCommit ==
  ASSUME LimitsInv, TypeInv', NEW e \in Editors, Commits(e)
  PROVE  LimitsInv'
<1>1. /\ TypeInv /\ UnderCeiling /\ (disturbed => Editors # {}) /\ MonthsPassed
      /\ (~disturbed => OneByOne /\ ExportsCounted)
      /\ Fits(ThisMonth, "session", ceiling.sessions)
      /\ Fits(connections, "connection", ceiling.connections)
      /\ Fits(Cardinality(Existing), "template", ceiling.templates)
  BY DEF LimitsInv
<1>2. Done(e)
  BY DEF Commits, CommitSession, CommitConnection, CommitTemplate, CommitSave, CommitDelete,
         CommitExport, Fail
<1>3. UNCHANGED <<org, month, bonus_sessions, ceiling, disturbed>>
  BY <1>2 DEF Done
<1>4. /\ ThisMonth \in Nat /\ Cardinality(Existing) \in Nat /\ connections \in Nat
      /\ ceiling \in [sessions : Nat, connections : Nat, templates : Nat, exports : Nat]
  BY <1>1, RowsFinite DEF TypeInv, WorkspaceTypeOK
<1>5. ThisMonth' \in Nat /\ connections' \in Nat
  <2>1. IsFiniteSet(DOMAIN sessions')
    BY LenProperties, FS_Interval DEF TypeInv, WorkspaceTypeOK
  <2>2. IsFiniteSet({i \in DOMAIN sessions' : sessions'[i].month = month'})
    BY <2>1, FS_Subset
  <2> QED BY <2>2, FS_CardinalityType DEF ThisMonth, TypeInv, WorkspaceTypeOK
<1>6. Fits(ThisMonth, "session", ceiling.sessions)'
  <2>1. ThisMonth' + Cardinality(InFlight("session")') <= ceiling.sessions + Overshoot'
    BY <1>1, <1>2, <1>4, <1>5, CommitSessions, DoneFits
  <2> QED BY <1>3, <2>1 DEF Fits
<1>7. Fits(connections, "connection", ceiling.connections)'
  <2>1. connections' <= IF asked[e].kind = "connection" THEN connections + 1 ELSE connections
    BY <1>1, CommitConnections
  <2>2. connections' + Cardinality(InFlight("connection")') <= ceiling.connections + Overshoot'
    BY <1>1, <1>2, <1>4, <1>5, <2>1, DoneFits
  <2> QED BY <1>3, <2>2 DEF Fits
<1>8. Fits(Cardinality(Existing), "template", ceiling.templates)'
  <2>1. Cardinality(Existing') + Cardinality(InFlight("template")') <= ceiling.templates + Overshoot'
    BY <1>1, <1>2, <1>4, CommitTemplates, DoneFits
  <2> QED BY <1>3, <2>1 DEF Fits
<1>9. UnderCeiling'
  <2>1. Limits' = Limits
    BY <1>3 DEF Limits
  <2> QED BY <1>1, <1>3, <2>1 DEF UnderCeiling
<1>10. MonthsPassed'
  <2>1. InFlight("session")' \subseteq InFlight("session")
    BY <1>1, <1>2 DEF InFlight, Done, NoRequest, TypeInv
  <2> QED BY <1>1, <1>3, <2>1, CommitSessions DEF MonthsPassed
<1>11. ~disturbed' => OneByOne' /\ ExportsCounted'
  <2>1. OneByOne => OneByOne'
    BY <1>1, <1>2 DEF OneByOne, Done, TypeInv
  <2> QED BY <1>1, <1>3, <2>1, CommitExports
<1> QED BY <1>1, <1>3, <1>6, <1>7, <1>8, <1>9, <1>10, <1>11 DEF LimitsInv

\* A limit that rises and rows that go away keep what fits.
LEMMA FitsBetter ==
  ASSUME disturbed => Editors # {}, NEW k, NEW n \in Nat, NEW m \in Nat, NEW limit \in Nat,
         NEW higher \in Nat, Fits(n, k, limit), m <= n, limit <= higher,
         asked' = asked, disturbed' = disturbed
  PROVE  m + Cardinality(InFlight(k)') <= higher + Overshoot'
<1>1. InFlight(k)' = InFlight(k) /\ Cardinality(InFlight(k)) \in Nat
  BY InFlightFinite DEF InFlight
<1>2. Overshoot' = Overshoot /\ Overshoot \in Nat
  BY OvershootNat DEF Overshoot
<1> QED BY <1>1, <1>2 DEF Fits

\* Steps that only move the organization and its ceiling.
LEMMA CeilingSteps ==
  ASSUME LimitsInv, TypeInv', UnderCeiling',
         UNCHANGED <<month, sessions, connections, templates, usage, asked, exported, disturbed>>,
         \A q \in {"sessions", "connections", "templates", "exports"} : ceiling[q] <= ceiling'[q]
  PROVE  LimitsInv'
<1>1. /\ TypeInv /\ (disturbed => Editors # {}) /\ MonthsPassed
      /\ (~disturbed => OneByOne /\ ExportsCounted)
      /\ Fits(ThisMonth, "session", ceiling.sessions)
      /\ Fits(connections, "connection", ceiling.connections)
      /\ Fits(Cardinality(Existing), "template", ceiling.templates)
  BY DEF LimitsInv
<1>2. /\ ThisMonth \in Nat /\ Cardinality(Existing) \in Nat /\ connections \in Nat
  BY <1>1, RowsFinite DEF TypeInv, WorkspaceTypeOK
<1>3. /\ ceiling \in [sessions : Nat, connections : Nat, templates : Nat, exports : Nat]
      /\ ceiling' \in [sessions : Nat, connections : Nat, templates : Nat, exports : Nat]
  BY <1>1 DEF TypeInv
<1>4. ThisMonth' = ThisMonth /\ Existing' = Existing /\ connections' = connections
  BY DEF ThisMonth, Existing
<1>5. /\ ceiling.sessions <= ceiling'.sessions /\ ceiling.connections <= ceiling'.connections
      /\ ceiling.templates <= ceiling'.templates /\ ceiling.exports <= ceiling'.exports
  OBVIOUS
<1>6. Fits(ThisMonth, "session", ceiling.sessions)'
  <2>1. ThisMonth + Cardinality(InFlight("session")') <= ceiling'.sessions + Overshoot'
    BY <1>1, <1>2, <1>3, <1>5, FitsBetter
  <2> QED BY <1>4, <2>1 DEF Fits
<1>7. Fits(connections, "connection", ceiling.connections)'
  <2>1. connections + Cardinality(InFlight("connection")') <= ceiling'.connections + Overshoot'
    BY <1>1, <1>2, <1>3, <1>5, FitsBetter
  <2> QED BY <1>4, <2>1 DEF Fits
<1>8. Fits(Cardinality(Existing), "template", ceiling.templates)'
  <2>1. Cardinality(Existing) + Cardinality(InFlight("template")') <= ceiling'.templates + Overshoot'
    BY <1>1, <1>2, <1>3, <1>5, FitsBetter
  <2> QED BY <1>4, <2>1 DEF Fits
<1>9. MonthsPassed'
  BY <1>1, <1>3, <1>5 DEF MonthsPassed, InFlight
<1>10. ~disturbed' => OneByOne' /\ ExportsCounted'
  <2> SUFFICES ASSUME ~disturbed PROVE OneByOne' /\ ExportsCounted'
    OBVIOUS
  <2>1. OneByOne'
    BY <1>1 DEF OneByOne
  <2>2. \A m \in 1..MaxMonths : exported[m] \in Nat
    BY <1>1 DEF TypeInv, WorkspaceTypeOK
  <2>3. ASSUME NEW e \in Editors, asked[e].kind = "export"
        PROVE  asked[e].count = exported[asked[e].month] + 1 /\ asked[e].count <= ceiling'.exports
    <3>1. asked[e].count \in Nat
      BY <1>1, <2>3 DEF TypeInv, AnyRequest, NoRequest
    <3> QED BY <1>1, <1>3, <1>5, <2>3, <3>1 DEF ExportsCounted
  <2>4. ASSUME NEW m \in 1..MaxMonths
        PROVE  /\ exported[m] <= ceiling'.exports
               /\ exported[m] = (IF usage[m] = None THEN 0 ELSE usage[m])
    BY <1>1, <1>3, <1>5, <2>2 DEF ExportsCounted
  <2> QED BY <2>1, <2>3, <2>4 DEF ExportsCounted
<1> QED BY <1>1, <1>6, <1>7, <1>8, <1>9, <1>10 DEF LimitsInv

LEMMA LimitsInvAround ==
  ASSUME LimitsInv, TypeInv', Around
  PROVE  LimitsInv'
<1>1. /\ TypeInv /\ UnderCeiling /\ (disturbed => Editors # {}) /\ MonthsPassed
      /\ (~disturbed => OneByOne /\ ExportsCounted)
      /\ Fits(ThisMonth, "session", ceiling.sessions)
      /\ Fits(connections, "connection", ceiling.connections)
      /\ Fits(Cardinality(Existing), "template", ceiling.templates)
  BY DEF LimitsInv
<1>2. /\ ThisMonth \in Nat /\ Cardinality(Existing) \in Nat /\ connections \in Nat
      /\ ceiling \in [sessions : Nat, connections : Nat, templates : Nat, exports : Nat]
      /\ bonus_sessions \in Nat
  <2>1. bonus_sessions \in Nat
    BY <1>1, WorkspaceAssumption DEF TypeInv, WorkspaceTypeOK
  <2> QED BY <1>1, <2>1, RowsFinite DEF TypeInv, WorkspaceTypeOK
<1>3. Limits \in [sessions : Nat, connections : Nat, templates : Nat, exports : Nat \cup {None}]
  BY <1>1, PlanOfOrg, WorkspaceAssumption DEF Limits
<1>4. CASE RevokeConnection
  <2>1. /\ connections' \in Nat /\ connections' <= connections
        /\ UNCHANGED <<org, month, bonus_sessions, sessions, templates, usage, asked, exported,
                       ceiling, disturbed>>
    BY <1>2, <1>4 DEF RevokeConnection, past
  <2>2. connections' + Cardinality(InFlight("connection")') <= ceiling.connections + Overshoot'
    BY <1>1, <1>2, <2>1, FitsBetter
  <2>3. Fits(connections, "connection", ceiling.connections)'
    BY <2>1, <2>2 DEF Fits
  <2>4. /\ Fits(ThisMonth, "session", ceiling.sessions)'
        /\ Fits(Cardinality(Existing), "template", ceiling.templates)'
    BY <1>1, <2>1 DEF Fits, ThisMonth, Existing, InFlight, Overshoot
  <2>5. UnderCeiling' /\ MonthsPassed'
    BY <1>1, <2>1 DEF UnderCeiling, Limits, MonthsPassed, InFlight
  <2>6. ~disturbed' => OneByOne' /\ ExportsCounted'
    BY <1>1, <2>1 DEF OneByOne, ExportsCounted
  <2> QED BY <1>1, <2>1, <2>3, <2>4, <2>5, <2>6 DEF LimitsInv
<1>5. ASSUME NEW p \in Plans, NEW st \in {"active", "canceled"}, PlanMoves(p, st) PROVE LimitsInv'
  <2>1. bonus_sessions' \in {0, Bonus} /\ ceiling' = Raised(MaxOf[p]) /\ org'.plan = p
    BY <1>1, <1>5 DEF PlanMoves, TypeInv, WorkspaceTypeOK, OrganizationRow
  <2>2. UnderCeiling'
    BY <1>1, <2>1, CeilingRaised DEF UnderCeiling, Limits
  <2> QED BY <1>1, <1>5, <2>1, <2>2, CeilingRaised, CeilingSteps DEF PlanMoves, rows
<1>6. CASE GrantBonus
  <2>1. bonus_sessions' \in {0, Bonus} /\ ceiling' = Raised(MaxOf[org.plan]) /\ org' = org
    BY <1>6 DEF GrantBonus, Limits
  <2>2. UnderCeiling'
    BY <1>1, <2>1, CeilingRaised, PlanOfOrg DEF UnderCeiling, Limits
  <2> QED BY <1>1, <1>6, <2>1, <2>2, CeilingRaised, PlanOfOrg, CeilingSteps DEF GrantBonus, rows
<1>7. CASE BonusExpires
  <2>1. bonus_sessions' = 0 /\ org' = org /\ ceiling' = ceiling
    BY <1>7 DEF BonusExpires, past
  <2>2. Limits' = Limits
    BY <2>1 DEF Limits
  <2>3. Limits.sessions + 0 <= ceiling.sessions
    BY <1>1, <1>2, <1>3 DEF UnderCeiling
  <2>4. UnderCeiling'
    BY <1>1, <2>1, <2>2, <2>3 DEF UnderCeiling
  <2>5. \A q \in {"sessions", "connections", "templates", "exports"} : ceiling[q] <= ceiling'[q]
    BY <1>2, <2>1
  <2> QED BY <1>7, <2>4, <2>5, CeilingSteps DEF BonusExpires, rows, past
<1>8. CASE NextMonth
  <2>1. /\ month' = month + 1
        /\ UNCHANGED <<org, bonus_sessions, sessions, connections, templates, usage, asked, exported,
                       ceiling, disturbed>>
    BY <1>8 DEF NextMonth, rows, past
  <2>2. month \in Nat /\ \A i \in DOMAIN sessions : sessions[i].month \in Nat /\ sessions[i].month <= month
    <3>1. month \in Nat
      BY <1>1 DEF TypeInv, WorkspaceTypeOK
    <3> DEFINE Row == [month : 1..MaxMonths, template : DOMAIN templates \cup {None}]
    <3>2. sessions \in Seq(Row)
      BY <1>1 DEF TypeInv, WorkspaceTypeOK
    <3>3. \A i \in DOMAIN sessions : sessions[i] \in Row
      BY <3>2, LenProperties, ElementOfSeq
    <3> QED BY <1>1, <3>1, <3>3 DEF MonthsPassed
  <2>3. ThisMonth' = 0
    <3>1. {i \in DOMAIN sessions' : sessions'[i].month = month'} = {}
      BY <2>1, <2>2
    <3> QED BY <3>1, FS_EmptySet DEF ThisMonth
  <2>4. Cardinality(InFlight("session")) <= ceiling.sessions + Overshoot
    <3>1. Cardinality(InFlight("session")) <= 1 + Overshoot /\ Overshoot \in Nat
          /\ Cardinality(InFlight("session")) \in Nat
      BY <1>1, FewInFlight, OvershootNat, InFlightFinite
    <3>2. CASE InFlight("session") = {}
      BY <1>2, <3>1, <3>2, FS_EmptySet
    <3>3. CASE InFlight("session") # {}
      BY <1>1, <1>2, <3>1, <3>3 DEF MonthsPassed
    <3> QED BY <3>2, <3>3
  <2>5. Fits(ThisMonth, "session", ceiling.sessions)'
    <3>1. InFlight("session")' = InFlight("session") /\ Overshoot' = Overshoot
      BY <2>1 DEF InFlight, Overshoot
    <3>2. 0 + Cardinality(InFlight("session")) <= ceiling.sessions + Overshoot
      BY <2>4, InFlightFinite
    <3> QED BY <2>1, <2>3, <3>1, <3>2 DEF Fits
  <2>6. /\ Fits(connections, "connection", ceiling.connections)'
        /\ Fits(Cardinality(Existing), "template", ceiling.templates)'
    BY <1>1, <2>1 DEF Fits, Existing, InFlight, Overshoot
  <2>7. UnderCeiling'
    BY <1>1, <2>1 DEF UnderCeiling, Limits
  <2>8. MonthsPassed'
    BY <1>1, <2>1, <2>2 DEF MonthsPassed, InFlight
  <2>9. ~disturbed' => OneByOne' /\ ExportsCounted'
    BY <1>1, <2>1 DEF OneByOne, ExportsCounted
  <2> QED BY <1>1, <2>1, <2>5, <2>6, <2>7, <2>8, <2>9 DEF LimitsInv
<1> QED BY <1>4, <1>5, <1>6, <1>7, <1>8 DEF Around

LEMMA LimitsInvNext == LimitsInv /\ [WorkspaceNext]_workspaceVars => LimitsInv'
<1> SUFFICES ASSUME LimitsInv, [WorkspaceNext]_workspaceVars PROVE LimitsInv'
  OBVIOUS
<1>1. TypeInv'
  BY TypeInvNext DEF LimitsInv
<1>2. ASSUME UNCHANGED <<org, month, bonus_sessions, sessions, connections, templates, usage, asked,
                         exported, ceiling, disturbed>>
      PROVE  LimitsInv'
  BY <1>1, <1>2 DEF LimitsInv, UnderCeiling, Limits, OneByOne, ExportsCounted, MonthsPassed, Fits,
     ThisMonth, Existing, InFlight, Overshoot
<1>3. CASE UNCHANGED workspaceVars
  BY <1>2, <1>3 DEF workspaceVars
<1>4. ASSUME NEW e \in Editors, Asks(e) PROVE LimitsInv'
  BY <1>1, <1>4, AskedByStep, LimitsInvAsk
<1>5. ASSUME NEW e \in Editors, Commits(e) PROVE LimitsInv'
  BY <1>1, <1>5, LimitsInvCommit
<1>6. ASSUME NEW e \in Editors, NEW t \in DOMAIN templates, OpenTemplate(e, t) PROVE LimitsInv'
  BY <1>2, <1>6 DEF OpenTemplate, rows, past
<1>7. CASE Around
  BY <1>1, <1>7, LimitsInvAround
<1> QED BY <1>3, <1>4, <1>5, <1>6, <1>7, StepKinds DEF Commits

LEMMA LimitsAlways == WorkspaceSpec => []LimitsInv
BY LimitsInvInit, LimitsInvNext, PTL DEF WorkspaceSpec

\* Rows, templates named by sessions and counters keep their types.
THEOREM WorkspaceTyped == WorkspaceSpec => []WorkspaceTypeOK
<1>1. LimitsInv => WorkspaceTypeOK
  BY DEF LimitsInv, TypeInv
<1> QED BY <1>1, LimitsAlways, PTL

\* No limit is passed by more than the other editors' requests, whatever the plan
\* moves to and however counts and inserts interleave; one by one not at all.
THEOREM LimitsHold == WorkspaceSpec => []WithinLimits
<1>1. ASSUME LimitsInv PROVE WithinLimits
  <2>1. ASSUME NEW k, NEW n \in Nat, NEW limit \in Nat, Fits(n, k, limit)
        PROVE  n <= limit + Overshoot
    BY <1>1, <2>1, InFlightFinite, OvershootNat DEF Fits, LimitsInv
  <2>2. /\ ThisMonth \in Nat /\ Cardinality(Existing) \in Nat /\ connections \in Nat
        /\ ceiling \in [sessions : Nat, connections : Nat, templates : Nat, exports : Nat]
    BY <1>1, RowsFinite DEF LimitsInv, TypeInv, WorkspaceTypeOK
  <2>3. /\ ThisMonth <= ceiling.sessions + Overshoot
        /\ connections <= ceiling.connections + Overshoot
        /\ Cardinality(Existing) <= ceiling.templates + Overshoot
    BY <1>1, <2>1, <2>2 DEF LimitsInv
  <2>4. ~disturbed => \A m \in 1..MaxMonths : exported[m] <= ceiling.exports
    BY <1>1 DEF LimitsInv, ExportsCounted
  <2> QED BY <2>3, <2>4 DEF WithinLimits
<1> QED BY <1>1, LimitsAlways, PTL

------------------------------------------------------------------------------
(* Templates, of requests that come one by one *)

AtMostOne(S) == \A x, y \in S : x = y

\* What TemplatesAreSound says, without counting.
Sound ==
  /\ \A t \in Existing : AtMostOne(templates[t].elements)
  /\ AtMostOne(Defaults)
  /\ \A i \in DOMAIN sessions : sessions[i].template \in Existing \cup {None}
  /\ ~overwrote

\* A screen shows an earlier save of its template, or the last.
ScreenOK(e) ==
  opened[e] # None =>
    /\ opened[e].template \in DOMAIN templates
    /\ opened[e].template \in Existing =>
         /\ opened[e].version <= templates[opened[e].template].version
         /\ opened[e].version = templates[opened[e].template].version
              => opened[e].elements = templates[opened[e].template].elements

\* What a request holds is as it is in the database.
HeldOK(e) ==
  LET r == asked[e] IN
  /\ r.kind = "session" => r.template \in Existing \cup {None}
  /\ r.kind = "template" => AtMostOne(r.elements)
  /\ r.kind = "save" =>
       /\ r.template \in Existing /\ opened[e] # None /\ opened[e].template = r.template
       /\ r.version = templates[r.template].version + 1
       /\ r.drops = templates[r.template].elements
       /\ opened[e].elements = templates[r.template].elements
       /\ r.loaded = templates[r.template].is_default
       /\ r.clears = OtherDefaults(r.template, r.is_default)
  /\ r.kind = "delete" => r.template \in Existing /\ r.unlinks = LinkedTo(r.template)

TemplatesInv ==
  /\ LimitsInv
  /\ ~disturbed => Sound /\ \A e \in Editors : ScreenOK(e) /\ HeldOK(e)

LEMMA TemplatesInvInit == WorkspaceInit => TemplatesInv
<1> SUFFICES ASSUME WorkspaceInit PROVE TemplatesInv
  OBVIOUS
<1>1. Sound
  BY DEF WorkspaceInit, Sound, AtMostOne, Existing, Defaults
<1>2. \A e \in Editors : ScreenOK(e) /\ HeldOK(e)
  BY DEF WorkspaceInit, ScreenOK, HeldOK, NoRequest
<1> QED BY <1>1, <1>2, LimitsInvInit DEF TemplatesInv

\* Idle requests hold nothing.
LEMMA Idle == ASSUME NEW e, asked[e] = NoRequest PROVE HeldOK(e)
BY DEF HeldOK, NoRequest

LEMMA TemplatesInvAsk ==
  ASSUME TemplatesInv, ~disturbed', NEW e \in Editors, NEW r, Asked(e, r)
  PROVE  Sound' /\ \A f \in Editors : ScreenOK(f)' /\ HeldOK(f)'
<1>1. /\ ~disturbed /\ (\A f \in Editors : asked[f] = NoRequest)
      /\ UNCHANGED <<sessions, templates, opened, overwrote>>
      /\ asked' = [asked EXCEPT ![e] = r] /\ asked \in [Editors -> AnyRequest]
  BY DEF Asked, Ask, rows, past, TemplatesInv, LimitsInv, TypeInv
<1>2. Sound /\ \A f \in Editors : ScreenOK(f)
  BY <1>1 DEF TemplatesInv
<1>3. Existing' = Existing /\ Defaults' = Defaults /\ asked'[e] = r
  BY <1>1 DEF Existing, Defaults
<1>4. Sound' /\ \A f \in Editors : ScreenOK(f)'
  BY <1>1, <1>2, <1>3 DEF Sound, ScreenOK
<1>5. ASSUME NEW f \in Editors, f # e PROVE HeldOK(f)'
  <2>1. asked'[f] = NoRequest
    BY <1>1, <1>5
  <2> QED BY <2>1 DEF HeldOK, NoRequest
<1>6. HeldOK(e)'
  <2>1. r.kind = "session" => r.template \in Existing \cup {None}
    BY DEF Asked
  <2>2. r.kind = "template" => AtMostOne(r.elements)
    BY <1>2 DEF Asked, AtMostOne, Sound
  <2>3. ASSUME r.kind = "save"
        PROVE  /\ r.template \in Existing /\ opened[e] # None /\ opened[e].template = r.template
               /\ r.version = templates[r.template].version + 1
               /\ r.drops = templates[r.template].elements
               /\ opened[e].elements = templates[r.template].elements
               /\ r.loaded = templates[r.template].is_default
               /\ r.clears = OtherDefaults(r.template, r.is_default)
    <3>1. /\ opened[e] # None /\ opened[e].template \in Existing
          /\ opened[e].version = templates[opened[e].template].version
          /\ \E default \in BOOLEAN : 
               r = [kind |-> "save", template |-> opened[e].template,
                    version |-> templates[opened[e].template].version + 1,
                    drops |-> templates[opened[e].template].elements, is_default |-> default,
                    loaded |-> templates[opened[e].template].is_default,
                    clears |-> OtherDefaults(opened[e].template, default)]
      BY <2>3 DEF Asked
    <3>2. opened[e].elements = templates[opened[e].template].elements
      BY <1>2, <3>1 DEF ScreenOK
    <3> QED BY <3>1, <3>2
  <2>4. r.kind = "delete" => r.template \in Existing /\ r.unlinks = LinkedTo(r.template)
    BY DEF Asked
  <2>5. \A t : LinkedTo(t)' = LinkedTo(t) /\ \A d : OtherDefaults(t, d)' = OtherDefaults(t, d)
    BY <1>1, <1>3 DEF LinkedTo, OtherDefaults
  <2> QED BY <1>1, <1>3, <2>1, <2>2, <2>3, <2>4, <2>5 DEF HeldOK
<1> QED BY <1>4, <1>5, <1>6

LEMMA TemplatesInvOpen ==
  ASSUME TemplatesInv, ~disturbed', NEW e \in Editors, NEW t \in DOMAIN templates, OpenTemplate(e, t)
  PROVE  Sound' /\ \A f \in Editors : ScreenOK(f)' /\ HeldOK(f)'
<1>1. /\ ~disturbed /\ asked[e] = NoRequest /\ t \in Existing
      /\ UNCHANGED <<sessions, templates, asked, overwrote>>
      /\ opened' = [opened EXCEPT ![e] = [template |-> t, version |-> templates[t].version,
                                          elements |-> templates[t].elements]]
      /\ opened \in [Editors -> Screen]
  BY DEF OpenTemplate, rows, past, TemplatesInv, LimitsInv, TypeInv
<1>2. Sound /\ \A f \in Editors : ScreenOK(f) /\ HeldOK(f)
  BY <1>1 DEF TemplatesInv
<1>3. Existing' = Existing /\ Defaults' = Defaults
  BY <1>1 DEF Existing, Defaults
<1>4. Sound'
  BY <1>1, <1>2, <1>3 DEF Sound
<1>5. \A f \in Editors : f # e => opened'[f] = opened[f]
  BY <1>1
<1>6. ASSUME NEW f \in Editors, f # e PROVE ScreenOK(f)' /\ HeldOK(f)'
  BY <1>1, <1>2, <1>3, <1>5, <1>6 DEF ScreenOK, HeldOK, OtherDefaults, LinkedTo
<1>7. templates[t].version \in Nat
  BY <1>1, ExistingRow DEF TemplateRow, TemplatesInv, LimitsInv
<1>8. ScreenOK(e)' /\ HeldOK(e)'
  BY <1>1, <1>3, <1>7 DEF ScreenOK, HeldOK, NoRequest
<1> QED BY <1>4, <1>6, <1>8

\* The commit of the only request leaves all of them idle.
LEMMA TemplatesInvCommit ==
  ASSUME TemplatesInv, ~disturbed', NEW e \in Editors, Commits(e)
  PROVE  Sound' /\ \A f \in Editors : ScreenOK(f)' /\ HeldOK(f)'
<1> DEFINE r == asked[e]
           Row == [month : 1..MaxMonths, template : DOMAIN templates \cup {None}]
<1>1. /\ ~disturbed /\ asked' = [asked EXCEPT ![e] = NoRequest] /\ asked \in [Editors -> AnyRequest]
      /\ asked[e] # NoRequest
  BY DEF Commits, CommitSession, CommitConnection, CommitTemplate, CommitSave, CommitDelete,
         CommitExport, Fail, Done, TemplatesInv, LimitsInv, TypeInv, NoRequest
<1>2. /\ Sound /\ (\A f \in Editors : ScreenOK(f)) /\ HeldOK(e)
  BY <1>1 DEF TemplatesInv
<1>3. \A f \in Editors : HeldOK(f)'
  <2>1. \A f \in Editors : asked'[f] = NoRequest
    BY <1>1 DEF OneByOne, TemplatesInv, LimitsInv
  <2> QED BY <2>1 DEF HeldOK, NoRequest
<1>4. /\ sessions \in Seq(Row) /\ templates \in Seq(TemplateRow \cup {None})
      /\ opened \in [Editors -> Screen] /\ saves \in Nat
      /\ \A t \in Existing : templates[t] \in TemplateRow /\ t \in DOMAIN templates
  BY ExistingRow DEF TemplatesInv, LimitsInv, TypeInv, WorkspaceTypeOK
<1>5. ASSUME templates' = templates, opened' = opened PROVE \A f \in Editors : ScreenOK(f)'
  BY <1>2, <1>5 DEF ScreenOK, Existing
<1>6. CASE CommitSession(e)
  <2>1. /\ sessions' = Append(sessions, [month |-> month, template |-> r.template])
        /\ UNCHANGED <<templates, opened, overwrote>> /\ r.template \in Existing \cup {None}
    BY <1>2, <1>6 DEF CommitSession, HeldOK
  <2>2. [month |-> month, template |-> r.template] \in Row
    BY <1>4, <2>1 DEF TemplatesInv, LimitsInv, TypeInv, WorkspaceTypeOK
  <2>3. /\ DOMAIN sessions' = DOMAIN sessions \cup {Len(sessions) + 1}
        /\ sessions'[Len(sessions) + 1].template = r.template
        /\ \A i \in DOMAIN sessions : sessions'[i] = sessions[i]
    BY <1>4, <2>1, <2>2, OneLonger
  <2>4. Existing' = Existing /\ Defaults' = Defaults
    BY <2>1 DEF Existing, Defaults
  <2>5. Sound'
    BY <1>2, <2>1, <2>3, <2>4 DEF Sound
  <2> QED BY <1>3, <1>5, <2>1, <2>5
<1>7. CASE CommitConnection(e) \/ CommitExport(e) \/ Fail(e)
  <2>1. UNCHANGED <<sessions, templates, opened, overwrote>>
    BY <1>7 DEF CommitConnection, CommitExport, Fail, rows
  <2>2. Sound'
    BY <1>2, <2>1 DEF Sound, Existing, Defaults
  <2> QED BY <1>3, <1>5, <2>1, <2>2
<1>8. CASE CommitTemplate(e)
  <2> DEFINE new == [version |-> 1, elements |-> r.elements, is_default |-> FALSE]
             last == Len(templates) + 1
  <2>1. /\ r.kind = "template" /\ templates' = Append(templates, new)
        /\ UNCHANGED <<sessions, opened, overwrote>> /\ AtMostOne(r.elements)
    BY <1>2, <1>8 DEF CommitTemplate, HeldOK
  <2>2. new \in TemplateRow
    BY <1>1, <2>1 DEF AnyRequest, NoRequest, TemplateRow
  <2>3. /\ DOMAIN templates' = DOMAIN templates \cup {last} /\ last \notin DOMAIN templates
        /\ templates'[last] = new
        /\ \A t \in DOMAIN templates : templates'[t] = templates[t]
    BY <1>4, <2>1, <2>2, OneLonger
  <2>4. Existing' = Existing \cup {last}
    BY <2>2, <2>3, WorkspaceAssumption DEF Existing
  <2>5. Defaults' = Defaults
    BY <1>4, <2>3, <2>4 DEF Defaults
  <2>6. Sound'
    BY <1>2, <1>4, <2>1, <2>3, <2>4, <2>5 DEF Sound
  <2>7. \A f \in Editors : ScreenOK(f)'
    BY <1>2, <1>4, <2>1, <2>3, <2>4 DEF ScreenOK
  <2> QED BY <1>3, <2>6, <2>7
<1>9. CASE CommitSave(e)
  <2> DEFINE t == r.template
             saved == [version |-> r.version, elements |-> {saves + 1}, is_default |-> r.is_default]
  <2>1. /\ t \in Existing /\ opened[e] # None /\ opened[e].template = t
        /\ r.version = templates[t].version + 1 /\ r.drops = templates[t].elements
        /\ opened[e].elements = templates[t].elements
        /\ r.clears = OtherDefaults(t, r.is_default) /\ r.is_default \in BOOLEAN
        /\ r.loaded = templates[t].is_default
        /\ r.clears \subseteq Existing
    BY <1>1, <1>2, <1>9 DEF CommitSave, HeldOK, AnyRequest, NoRequest
  <2>2. /\ DOMAIN templates' = DOMAIN templates
        /\ \A u \in DOMAIN templates : templates'[u] =
             IF u = t
             THEN [version |-> r.version, elements |-> (templates[u].elements \ r.drops) \cup {saves + 1},
                   is_default |-> Mark(u, r)]
             ELSE IF u \in r.clears THEN [templates[u] EXCEPT !.is_default = FALSE]
             ELSE templates[u]
        /\ sessions' = sessions
        /\ overwrote' = (overwrote \/ templates[t].elements # opened[e].elements)
        /\ opened' = [opened EXCEPT ![e] = [template |-> t, version |-> r.version,
                                            elements |-> templates'[t].elements]]
    BY <1>9 DEF CommitSave
  <2>3. templates'[t] = saved
    <3>1. (templates[t].elements \ r.drops) \cup {saves + 1} = {saves + 1}
      BY <2>1
    <3>2. Mark(t, r) = r.is_default
      BY <2>1 DEF Mark
    <3> QED BY <1>4, <2>1, <2>2, <3>1, <3>2
  <2>4. \A u \in Existing : u # t =>
          /\ templates'[u] \in TemplateRow
          /\ templates'[u].version = templates[u].version
          /\ templates'[u].elements = templates[u].elements
          /\ templates'[u].is_default <=> templates[u].is_default /\ u \notin r.clears
    BY <1>4, <2>2 DEF TemplateRow
  <2>5. saved \in TemplateRow
    <3>1. templates[t].version \in Nat
      BY <1>4, <2>1 DEF TemplateRow
    <3> QED BY <1>4, <2>1, <3>1 DEF TemplateRow
  <2>6. Existing' = Existing
    <3>1. \A u \in DOMAIN templates : u \notin Existing => templates'[u] = None
      BY <2>1, <2>2 DEF Existing
    <3> QED BY <2>1, <2>2, <2>3, <2>4, <2>5, <3>1, WorkspaceAssumption DEF Existing
  <2>7. AtMostOne(Defaults')
    <3>1. CASE r.is_default
      <4>1. \A u \in Existing : u # t => ~templates'[u].is_default
        BY <2>1, <2>4, <3>1 DEF OtherDefaults, Defaults
      <4> QED BY <2>6, <4>1 DEF AtMostOne, Defaults
    <3>2. CASE ~r.is_default
      <4>1. Defaults' \subseteq Defaults
        BY <2>3, <2>4, <2>6, <3>2 DEF Defaults
      <4> QED BY <1>2, <4>1 DEF AtMostOne, Sound
    <3> QED BY <3>1, <3>2
  <2>8. \A u \in Existing' : AtMostOne(templates'[u].elements)
    BY <1>2, <2>3, <2>4, <2>6 DEF AtMostOne, Sound
  <2>9. Sound'
    BY <1>2, <2>1, <2>2, <2>6, <2>7, <2>8 DEF Sound
  <2>10. ASSUME NEW f \in Editors, f # e PROVE ScreenOK(f)'
    <3>1. opened'[f] = opened[f] /\ opened[f] \in Screen
      BY <1>4, <2>2, <2>10
    <3>2. CASE opened[f] # None /\ opened[f].template = t
      <4>1. opened[f].version <= templates[t].version /\ opened[f].version \in Nat
            /\ templates[t].version \in Nat
        BY <1>2, <1>4, <2>1, <3>1, <3>2 DEF ScreenOK, Screen, TemplateRow
      <4>2. templates'[t].version = templates[t].version + 1
        BY <2>1, <2>3
      <4>3. opened[f].version <= templates'[t].version /\ opened[f].version # templates'[t].version
        BY <4>1, <4>2
      <4> QED BY <1>4, <2>1, <2>2, <3>1, <3>2, <4>3 DEF ScreenOK
    <3>3. CASE opened[f] = None \/ opened[f].template # t
      BY <1>2, <2>2, <2>4, <2>6, <3>1, <3>3 DEF ScreenOK
    <3> QED BY <3>2, <3>3
  <2>11. ScreenOK(e)'
    <3>1. opened'[e] = [template |-> t, version |-> r.version, elements |-> templates'[t].elements]
      BY <1>4, <2>2
    <3>2. templates'[t].version = r.version /\ r.version \in Nat
      BY <2>3, <2>5 DEF TemplateRow
    <3> QED BY <1>4, <2>1, <2>2, <3>1, <3>2 DEF ScreenOK
  <2> QED BY <1>3, <2>9, <2>10, <2>11
<1>10. CASE CommitDelete(e)
  <2> DEFINE t == r.template
  <2>1. t \in Existing /\ r.unlinks = LinkedTo(t)
    BY <1>2, <1>10 DEF CommitDelete, HeldOK
  <2>2. /\ templates' = [templates EXCEPT ![t] = None]
        /\ sessions' = [i \in DOMAIN sessions |->
             IF i \in r.unlinks THEN [sessions[i] EXCEPT !.template = None] ELSE sessions[i]]
        /\ opened' = opened /\ overwrote' = overwrote
    BY <1>10 DEF CommitDelete
  <2>3. /\ DOMAIN templates' = DOMAIN templates
        /\ \A u \in DOMAIN templates : templates'[u] = IF u = t THEN None ELSE templates[u]
    BY <1>4, <2>2, LenProperties
  <2>4. Existing' = Existing \ {t}
    BY <2>3 DEF Existing
  <2>5. \A u \in Existing' : u \in Existing /\ templates'[u] = templates[u]
    BY <2>3, <2>4 DEF Existing
  <2>6. Defaults' \subseteq Defaults
    BY <2>5 DEF Defaults
  <2>7. \A i \in DOMAIN sessions : sessions[i] \in Row
    BY <1>4, LenProperties, ElementOfSeq
  <2>8. ASSUME NEW i \in DOMAIN sessions' PROVE sessions'[i].template \in Existing' \cup {None}
    <3>1. i \in DOMAIN sessions
      BY <2>2
    <3>2. CASE i \in r.unlinks
      BY <2>2, <2>7, <3>1, <3>2
    <3>3. CASE i \notin r.unlinks
      BY <1>2, <2>1, <2>2, <2>4, <3>1, <3>3 DEF LinkedTo, Sound
    <3> QED BY <3>2, <3>3
  <2>9. Sound'
    BY <1>2, <2>2, <2>5, <2>6, <2>8 DEF Sound, AtMostOne
  <2>10. \A f \in Editors : ScreenOK(f)'
    BY <1>2, <2>2, <2>3, <2>5 DEF ScreenOK
  <2> QED BY <1>3, <2>9, <2>10
<1> QED BY <1>6, <1>7, <1>8, <1>9, <1>10 DEF Commits

LEMMA TemplatesInvNext == TemplatesInv /\ [WorkspaceNext]_workspaceVars => TemplatesInv'
<1> SUFFICES ASSUME TemplatesInv, [WorkspaceNext]_workspaceVars PROVE TemplatesInv'
  OBVIOUS
<1>1. LimitsInv'
  BY LimitsInvNext DEF TemplatesInv
<1>2. ASSUME UNCHANGED <<sessions, templates, opened, asked, overwrote, disturbed>> PROVE TemplatesInv'
  BY <1>1, <1>2 DEF TemplatesInv, Sound, ScreenOK, HeldOK, Existing, Defaults, OtherDefaults, LinkedTo
<1>3. CASE UNCHANGED workspaceVars
  BY <1>2, <1>3 DEF workspaceVars
<1>4. CASE Around
  <2>1. UNCHANGED <<sessions, templates, opened, asked, overwrote, disturbed>>
    <3>1. ASSUME NEW p \in Plans, NEW st \in {"active", "canceled"}, PlanMoves(p, st)
          PROVE  UNCHANGED <<sessions, templates, opened, asked, overwrote, disturbed>>
      <4>1. UNCHANGED rows /\ UNCHANGED <<opened, asked, overwrote, disturbed>>
        BY <3>1, Zenon DEF PlanMoves
      <4> QED BY <4>1 DEF rows
    <3>2. CASE RevokeConnection \/ GrantBonus \/ BonusExpires \/ NextMonth
      BY <3>2 DEF RevokeConnection, GrantBonus, BonusExpires, NextMonth, rows, past
    <3> QED BY <1>4, <3>1, <3>2, Zenon DEF Around
  <2> QED BY <1>2, <2>1
<1>5. ASSUME NEW e \in Editors, Asks(e) PROVE TemplatesInv'
  BY <1>1, <1>5, AskedByStep, TemplatesInvAsk DEF TemplatesInv
<1>6. ASSUME NEW e \in Editors, Commits(e) PROVE TemplatesInv'
  BY <1>1, <1>6, TemplatesInvCommit DEF TemplatesInv
<1>7. ASSUME NEW e \in Editors, NEW t \in DOMAIN templates, OpenTemplate(e, t) PROVE TemplatesInv'
  BY <1>1, <1>7, TemplatesInvOpen DEF TemplatesInv
<1> QED BY <1>3, <1>4, <1>5, <1>6, <1>7, StepKinds DEF Commits

LEMMA TemplatesAlways == WorkspaceSpec => []TemplatesInv
BY TemplatesInvInit, TemplatesInvNext, PTL DEF WorkspaceSpec

\* One by one, no save loses another's elements, at most one template is the
\* default and no session is left with a template that is gone.
THEOREM TemplatesStaySound == WorkspaceSpec => []TemplatesAreSound
<1>1. ASSUME NEW S, AtMostOne(S) PROVE Cardinality(S) <= 1
  <2>1. CASE S = {}
    BY <2>1, FS_EmptySet
  <2>2. ASSUME NEW x \in S PROVE Cardinality(S) = 1
    <3>1. S = {x}
      BY <1>1, <2>2 DEF AtMostOne
    <3> QED BY <3>1, FS_Singleton
  <2> QED BY <2>1, <2>2
<1>2. ASSUME TemplatesInv PROVE TemplatesAreSound
  BY <1>1, <1>2 DEF TemplatesInv, TemplatesAreSound, Sound
<1> QED BY <1>2, TemplatesAlways, PTL
==============================================================================
