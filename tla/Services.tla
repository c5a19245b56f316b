------------------------------- MODULE Services -------------------------------
(***************************************************************************)
(* The services beside the exchange: orders, referrals, the price adapter, *)
(* alerts, badges, achievements and congestion fees.  Referrals share the  *)
(* administrator and the limiter, and all but badges and congestion fees   *)
(* the ledger clock, but no service reads another's state, so `focus`      *)
(* names the one whose calls are explored.                                 *)
(***************************************************************************)
EXTENDS Orders, Referral, OracleAdapter, Alerts, Badges, FeeProgression, DynamicFees

VARIABLE focus

servicesVars ==
  << adminVars, ordersVars, referralVars, adapterVars, alertsVars, badgesVars, progressionVars,
     feeVars, focus >>

ServicesInit ==
  /\ AdminInit /\ OrdersInit /\ ReferralInit /\ AdapterInit
  /\ AlertsInit /\ BadgesInit /\ ProgressionInit /\ FeesInit
  /\ focus \in {"Orders", "Referral", "Adapter", "Alerts", "Badges", "Progression", "Fees"}
  \* Where a service nobody calls begins makes no difference.
  /\ focus # "Badges" => logsInfo
  /\ focus # "Fees" => feeConfig = CHOOSE c \in FirstConfigs : TRUE

\* A step of the service in focus leaves the others alone; only referrals may
\* touch the administrator and the limiter.
Focused(name, Step) ==
  /\ focus = name /\ Step
  /\ UNCHANGED focus
  /\ name # "Orders" => UNCHANGED ordersVars
  /\ name # "Referral" => UNCHANGED << adminVars, referralVars >>
  /\ name # "Adapter" => UNCHANGED adapterVars
  /\ name # "Alerts" => UNCHANGED alertsVars
  /\ name # "Badges" => UNCHANGED badgesVars
  /\ name # "Progression" => UNCHANGED progressionVars
  /\ name # "Fees" => UNCHANGED feeVars

ServicesNext ==
  \/ Focused("Orders", OrdersNext)
  \/ Focused("Referral", ReferralNext)
  \/ Focused("Adapter", AdapterNext)
  \/ Focused("Alerts", AlertsNext)
  \/ Focused("Badges", BadgesNext)
  \/ Focused("Progression", ProgressionNext)
  \/ Focused("Fees", FeesNext)
  \/ /\ focus \notin {"Badges", "Fees"}   \* which do not look at this clock
     /\ \E dt \in TimeSteps : AdvanceTime(dt)
     /\ UNCHANGED << ordersVars, referralVars, adapterVars, alertsVars, badgesVars,
                     progressionVars, feeVars, focus >>

\* No fairness: nothing obliges anybody to place, match, check, flush or update.
ServicesSpec == ServicesInit /\ [][ServicesNext]_servicesVars
=============================================================================
