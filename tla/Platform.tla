-------------------------------- MODULE Platform --------------------------------
(***************************************************************************)
(* The components around orders, money and checkout, side by side.  They   *)
(* share no state but the rows of coupons, which have two scenes, so a     *)
(* behavior of this module is one of a single component, the scene, while  *)
(* the others stay as they start: what holds here holds of each component  *)
(* alone, and nothing is said of two of them at the same time.             *)
(***************************************************************************)
EXTENDS Accounts, PricingVersions, CouponAdmin, Tickets, Ratings, LiveChat,
        DashboardEvents, OrderPages, WebSession, OrderForm, RequestThrottle,
        ScheduledTasks, CouponConsole

CONSTANT Scenes     \* the components that are looked at

VARIABLE scene

vars == <<scene, accountVars, pricingVars, couponVars, ticketVars, ratingVars,
          chatVars, eventVars, pageVars, webVars, formVars, throttleVars, scheduleVars,
          consoleVars>>

PlatformInit ==
    /\ scene \in Scenes
    /\ AccountsInit /\ PricingInit /\ CouponAdminInit /\ TicketsInit /\ RatingsInit
    /\ LiveChatInit /\ DashboardEventsInit /\ OrderPagesInit /\ WebSessionInit
    /\ OrderFormInit /\ ThrottleInit /\ ScheduledTasksInit /\ CouponConsoleInit
    /\ scene = "order pages" \/ shop = [o \in PageOrders |-> Service!DraftRow(Unassigned)]
    /\ scene = "chat" \/ thread = <<>>

\* Everything but the component c.
Others(c) ==
    /\ UNCHANGED scene
    /\ c # "accounts" => UNCHANGED accountVars
    /\ c # "pricing" => UNCHANGED pricingVars
    /\ c \notin {"coupons", "coupon console"} => UNCHANGED couponVars
    /\ c # "tickets" => UNCHANGED ticketVars
    /\ c # "ratings" => UNCHANGED ratingVars
    /\ c # "chat" => UNCHANGED chatVars
    /\ c # "dashboards" => UNCHANGED eventVars
    /\ c # "order pages" => UNCHANGED pageVars
    /\ c # "web session" => UNCHANGED webVars
    /\ c # "order form" => UNCHANGED formVars
    /\ c # "throttle" => UNCHANGED throttleVars
    /\ c # "tasks" => UNCHANGED scheduleVars
    /\ c # "coupon console" => UNCHANGED consoleVars

PlatformNext ==
    \/ scene = "accounts" /\ AccountsNext /\ Others("accounts")
    \/ scene = "pricing" /\ PricingNext /\ Others("pricing")
    \/ scene = "coupons" /\ CouponAdminNext /\ Others("coupons")
    \/ scene = "tickets" /\ TicketsNext /\ Others("tickets")
    \/ scene = "ratings" /\ RatingsNext /\ Others("ratings")
    \/ scene = "chat" /\ LiveChatNext /\ Others("chat")
    \/ scene = "dashboards" /\ DashboardEventsNext /\ Others("dashboards")
    \/ scene = "order pages" /\ OrderPagesNext /\ Others("order pages")
    \/ scene = "web session" /\ WebSessionNext /\ Others("web session")
    \/ scene = "order form" /\ OrderFormNext /\ Others("order form")
    \/ scene = "throttle" /\ ThrottleNext /\ Others("throttle")
    \/ scene = "tasks" /\ ScheduledTasksNext /\ Others("tasks")
    \/ scene = "coupon console" /\ CouponConsoleNext /\ Others("coupon console")

PlatformSpec == PlatformInit /\ [][PlatformNext]_vars

-------------------------------------------------------------------------------
(* Every component keeps to its types.  The others are as they start, and  *)
(* are looked at in scenes of their own.                                   *)
PlatformTypeOK ==
    /\ scene \in Scenes
    /\ scene = "accounts" => AccountsTypeOK
    /\ scene = "pricing" => PricingTypeOK
    /\ scene = "coupons" => CouponAdminTypeOK
    /\ scene = "tickets" => TicketsTypeOK
    /\ scene = "ratings" => RatingsTypeOK
    /\ scene = "chat" => LiveChatTypeOK
    /\ scene = "dashboards" => DashboardEventsTypeOK
    /\ scene = "order pages" => OrderPagesTypeOK
    /\ scene = "web session" => WebSessionTypeOK
    /\ scene = "order form" => OrderFormTypeOK
    /\ scene = "throttle" => ThrottleTypeOK
    /\ scene = "tasks" => ScheduledTasksTypeOK
    /\ scene = "coupon console" => CouponAdminTypeOK /\ CouponConsoleTypeOK

(* Whoever may log in has proven an address and has a password, and a      *)
(* link or refresh token is exchanged once.                                *)
CredentialsAreProven == ActiveAccountsAreProven /\ TokensAreSpentOnce

(* What is on a screen that is in touch with the server, and at rest, is   *)
(* what the server has: the thread of an order, the dashboards, and the    *)
(* table of coupons; and the pages of an order offer what the API takes,   *)
(* to someone for every order that is not over, and are found.             *)
ScreensFollowTheServer ==
    /\ scene = "chat" => PagesShowTheThread
    /\ scene = "dashboards" => DashboardsAreFresh
    /\ scene = "order pages" => OffersAreTaken /\ LiveOrdersAreInHand /\ OrderPagesAreFound
    /\ scene = "coupon console" => TableTellsTheCoupons

(* The order form leads a client to a route without a price only where the *)
(* list makes it so, for a start in Master that it does not price, or for a*)
(* climb that it gives away, and what its summary shows at rest is what the*)
(* order costs.  The form of a coupon makes the coupon that was on the     *)
(* screen, and one that an order can meet if its services have prices and  *)
(* it asks for extras there are.                                           *)
FormsFollowThePrices ==
    /\ scene = "order form" => RoutesPastThePickerAreQuoted /\ SummaryShowsTheCharge
    /\ scene = "coupon console" => CouponsSayWhatWasShown /\ CouponsCanBeSpent

(* Records kept from several handlers at once say the same as the events   *)
(* they are made of: whose turn a ticket is, what a reputation counts,     *)
(* whether a coupon is on, which tasks are scheduled, and which callers    *)
(* have used their limit up.                                               *)
RecordsAddUp ==
    /\ TicketWaitsForTheOther /\ ReputationCountsAll /\ HistoryTellsTheState
    /\ SchedulesFollowTheBuild /\ CallersAreApart
================================================================================
