------------------------------ MODULE MCTenancy ------------------------------
(***************************************************************************)
(* One organization's billing, prices, members, limits and displays, for   *)
(* TLC.  The parts are looked at one at a time: the initial state says     *)
(* which, and only its steps are taken.                                    *)
(***************************************************************************)
EXTENDS PayPalBilling, SubscriptionPricing, Membership, Workspace, DisplayFeed, TLC

CONSTANTS
  starter, growth, premium, w1, w2, u1, c1,
  Foci            \* the parts to look at

VARIABLE focus

MCMaxSeats == (starter :> 2) @@ (growth :> 3) @@ (premium :> 3)

MCMaxOf ==
  LET limits(t, e) == [sessions |-> 1, connections |-> 1, templates |-> t, exports |-> e]
  IN (starter :> limits(1, 0)) @@ (growth :> limits(2, 2)) @@ (premium :> limits(2, None))

MCMostOf == [sessions |-> 3, templates |-> 2, saves |-> 3]

MCFirstDay == <<2023, 12, 31>>

\* The best one ends before the next charge; one is for new subscribers too;
\* one runs on.
MCOffers ==
  LET offer(percent, last, new, n) ==
        [percent_off |-> percent, starts_at |-> <<2023, 12, 1>>, ends_at |-> last,
         applies_to_existing |-> TRUE, applies_to_new |-> new, created_at |-> n]
  IN {offer(50, <<2024, 1, 30>>, FALSE, 1), offer(25, <<2024, 2, 15>>, TRUE, 2),
      offer(10, <<2024, 4, 15>>, TRUE, 3)}

billingOnly == <<subs, payments, refunds, audit, paypal, returned, events, pending,
                 activated, setBy, overlapped>>
membershipOnly == <<members, inserted, mfa_enabled, mfa_secret, working, most_seats, joint>>
workspaceOnly == <<month, bonus_sessions, sessions, connections, templates, usage, opened, asked,
                   saves, exported, ceiling, overwrote, disturbed>>

tenancyVars == <<org, billingOnly, pricingVars, membershipOnly, workspaceOnly, feedVars, focus>>

MCInit ==
  /\ focus \in Foci
  /\ BillingInit /\ PricingInit /\ MembershipInit /\ WorkspaceInit /\ FeedInit
  /\ price = 70
  /\ running \in IF focus = "prices" THEN {{}, Offers}
                ELSE IF focus = "confirmations" THEN {Offers} ELSE {{}}

\* What PayPal and payers do.
AtPayPals ==
  \/ \E s \in Sub : PayerApproves(s) \/ PayPalCancels(s) \/ ChargeFails(s)
  \/ \E sale \in Sale : Charge(sale)

\* One request at a time, two checkouts; then everything else on one
\* subscription; then two requests at once.
Subscriptions ==
  \/ Deliver(w1) \/ CancelSubscription(w1) \/ Proceed(w1)
  \/ StartSubscription(IF subs = <<>> THEN growth ELSE premium)
  \/ AtPayPals

OneCheckout == Len(subs') <= 1

Management ==
  \/ \E s \in Sub : ReceiveActivated(w1, s) \/ ReceiveCancelled(w1, s)
  \/ Manage(w1) \/ Proceed(w1)
  \/ StartSubscription(growth) /\ OneCheckout
  \/ \E s \in Sub : PayerApproves(s) \/ PayPalCancels(s)
  \/ GrantLapses

Races ==
  \/ \E w \in Workers : Deliver(w) \/ CancelSubscription(w) \/ Proceed(w)
  \/ StartSubscription(growth) /\ OneCheckout
  \/ AtPayPals

Refunds ==
  \/ \E w \in Workers, sale \in Sale : ReceiveCompleted(w, sale) \/ ReceiveRefunded(w, sale)
  \/ \E w \in Workers : Refund(w) \/ Proceed(w)
  \/ StartSubscription(growth) /\ OneCheckout
  \/ \E s \in Sub : PayerApproves(s)
  \/ \E sale \in Sale : Charge(sale)

\* One request confirms what was approved, without interruption, among everything
\* else; then two confirm at any time, while the admin changes nothing and every
\* payment is recorded on the day of its charge.
Undisturbed ==
  /\ PricingNext
  /\ \A c \in Confirms \ {c1} : confirming'[c] = NotAsked
  /\ confirming' # confirming => unconfirmed
  /\ confirming[c1] # NotAsked => confirming'[c1] # confirming[c1]

Confirmations == PricingNext /\ edits' = 0 /\ charges' <= 2 /\ today' = billed'

\* One user never turns MFA on.
MembershipSteps ==
  \/ \E c \in Requests : Petition(c) \/ Finish(c)
  \/ EnrollMfa(u1) \/ ActivateMfa(u1)
  \/ SubscriptionMoves(growth, "active") \/ SubscriptionMoves(starter, "canceled")

\* Quotas of one kind under two requests; templates under one at a time, or two.
Sessions ==
  \/ \E e \in Editors : CreateSession(e) \/ CommitSession(e) \/ Fail(e)
  \/ Around

Connections ==
  \/ \E e \in Editors : CreateConnection(e) \/ CommitConnection(e) \/ Fail(e)
  \/ Around

Exports ==
  \/ \E e \in Editors : Export(e) \/ CommitExport(e) \/ Fail(e)
  \/ Around

Templates ==
  /\ \/ \E e \in Editors : Edit(e) \/ Fail(e) \/ CommitSession(e)
     \/ \E e \in Editors : sessions = <<>> /\ CreateSession(e)
     \/ PlanMoves(growth, "active")
  /\ disturbed' => focus = "coediting"

\* Outside the billing parts a platform admin moves the organization.
ByAdmin ==
  /\ setBy' = IF org' = org THEN setBy ELSE [c \in DOMAIN setBy |-> "admin"]
  /\ UNCHANGED <<subs, payments, refunds, audit, paypal, returned, events, pending, activated, overlapped>>

OnlyBilling == UNCHANGED <<pricingVars, membershipOnly, workspaceOnly, feedVars, focus>>
OnlyWorkspace == ByAdmin /\ UNCHANGED <<pricingVars, membershipOnly, feedVars, focus>>

MCNext ==
  \/ focus = "subscriptions" /\ Subscriptions /\ OnlyBilling
  \/ focus = "management" /\ Management /\ OnlyBilling
  \/ focus = "races" /\ Races /\ OnlyBilling
  \/ focus = "refunds" /\ Refunds /\ OnlyBilling
  \/ /\ \/ focus = "prices" /\ Undisturbed
        \/ focus = "confirmations" /\ Confirmations
     /\ UNCHANGED <<org, billingOnly, membershipOnly, workspaceOnly, feedVars, focus>>
  \/ /\ focus = "members" /\ MembershipSteps
     /\ ByAdmin /\ UNCHANGED <<pricingVars, workspaceOnly, feedVars, focus>>
  \/ focus = "sessions" /\ Sessions /\ OnlyWorkspace
  \/ focus = "connections" /\ Connections /\ OnlyWorkspace
  \/ focus = "exports" /\ Exports /\ OnlyWorkspace
  \/ focus \in {"templates", "coediting"} /\ Templates /\ OnlyWorkspace
  \/ /\ focus = "displays" /\ FeedNext
     /\ UNCHANGED <<org, billingOnly, pricingVars, membershipOnly, workspaceOnly, focus>>

\* FeedFairness, asked only of the behaviours that look at displays.
MCFairness ==
  /\ WF_feedVars(focus = "displays" /\ LoadSnapshot)
  /\ SF_feedVars(focus = "displays" /\ CountSnapshot)
  /\ SF_feedVars(focus = "displays" /\ JoinFeed)
  /\ WF_feedVars(focus = "displays" /\ CloseSocket)
  /\ SF_feedVars(focus = "displays" /\ Render)

MCSpec == MCInit /\ [][MCNext]_tenancyVars /\ MCFairness

\* The types of every part.
TenancyTypeOK ==
  /\ BillingTypeOK
  /\ PricingTypeOK
  /\ MembershipTypeOK
  /\ WorkspaceTypeOK
  /\ FeedTypeOK

\* Of the behaviours that look at displays: when no change comes any more the
\* display shows the last one and stays there.
DisplaysConverge == focus = "displays" => DisplayConverges
=============================================================================
