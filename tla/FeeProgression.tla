---------------------------- MODULE FeeProgression ----------------------------
(***************************************************************************)
(* Fee discounts for achievements (src/fee_progression.rs).  Every fee     *)
(* calculation first brings the achievements of the trader up to date:     *)
(* streak, losses and volume are looked at, then what has expired goes.    *)
(* Time is counted in days; leaderboard_rank is written by nothing, so     *)
(* Community comes only with apply_achievement_bonus.                      *)
(***************************************************************************)
EXTENDS AdminControl, FiniteSetsExt, SeqFilter

CONSTANTS
  Earners,          \* traders
  FirstDay,         \* the day of now = 0
  StreakDays,       \* minimum streak, 7 in the code
  AchievementTerm,  \* 90 days
  VolumeGoal,       \* 50000
  TradeVolumes, Losses,  \* inputs of update_trading_activity; NoLoss is None
  NoLoss,
  Bonuses,          \* achievements apply_achievement_bonus is called with
  MaxStreak,        \* bound on the streak
  MaxAchievements   \* bound: bonuses are given to traders with fewer achievements

\* AchievementCategory.
Categories == {"Consistency", "RiskManagement", "Community", "Volume"}

ASSUME ProgressionAssumption ==
  /\ FirstDay \in Nat \ {0, 1} /\ AchievementTerm \in Nat \ {0} /\ StreakDays \in Nat
  /\ TradeVolumes \subseteq Nat /\ Losses \subseteq Nat /\ NoLoss \notin Nat
  /\ Bonuses \subseteq [category : Categories, bps : Nat, term : Nat, active : BOOLEAN]
  /\ MaxAchievements \in Nat

VARIABLES
  standing,         \* AchievementStatus
  overLoss,         \* history: the first day a loss was above 5 %, or NoLoss
  given             \* history: the RiskManagement achievements given as a bonus

progressionVars == << standing, overLoss, given >>

Day == FirstDay + now

ProgressionInit ==
  /\ standing = [u \in Earners |->
       [achievements |-> << >>, streak |-> 0, lastDay |-> 0, maxLoss |-> 0, volume |-> 0]]
  /\ overLoss = [u \in Earners |-> NoLoss]
  /\ given = [u \in Earners |-> {}]

\* An achievement that is not active does not count as held, nor as a discount;
\* it stays until it expires.
Has(s, category) ==
  \E i \in DOMAIN s.achievements :
    s.achievements[i].category = category /\ s.achievements[i].active

\* Earned by the trader's record, on its own terms, for the whole term.
Earn(s, category, bps) ==
  [s EXCEPT !.achievements =
     Append(@, [category |-> category, bps |-> bps, earned |-> Day, until |-> Day + AchievementTerm,
                active |-> TRUE])]

WithoutCategory(s, category) ==
  [s EXCEPT !.achievements = Only(@, {a \in Range(@) : a.category # category})]

\* check_consistency_achievement: a second calculation of a day counts as well, and
\* one on the day after leaves the streak as it is.
ConsistencyChecked(s) ==
  LET streak == IF s.lastDay = Day THEN s.streak + 1
                ELSE IF Day > s.lastDay + 1 THEN 1 ELSE s.streak
      t == [s EXCEPT !.streak = streak, !.lastDay = Day]
  IN  IF streak >= StreakDays THEN Earn(WithoutCategory(t, "Consistency"), "Consistency", 2) ELSE t

\* Mutant: the limit on losses is not looked at.
LossAnyway(s) == TRUE

LossWithinLimit(s) == s.maxLoss <= 5

RiskChecked(s) ==
  IF LossWithinLimit(s) /\ ~Has(s, "RiskManagement") THEN Earn(s, "RiskManagement", 3) ELSE s

VolumeChecked(s) ==
  IF s.volume >= VolumeGoal /\ ~Has(s, "Volume") THEN Earn(s, "Volume", 4) ELSE s

\* cleanup_expired_achievements.
Unexpired(s) == [s EXCEPT !.achievements = Only(@, {a \in Range(@) : Day < a.until})]

\* update_achievement_status.
Updated(s) == Unexpired(VolumeChecked(RiskChecked(ConsistencyChecked(s))))

\* Of the active ones, the stackable category adds up to 10 with what came before
\* it; the others add theirs.
Stacked(total, a) ==
  IF ~a.active THEN total
  ELSE IF a.category # "Consistency" THEN total + a.bps
  ELSE IF total < 10 THEN total + Min({2, 10 - total}) ELSE total

MaxDiscount(base) == (base * 30) \div 100

\* calculate_effective_fee, its result for a tier's base fee.
Discount(s, base) == Min({FoldLeft(Stacked, 0, s.achievements), MaxDiscount(base)})

\* calculate_effective_fee, what it leaves behind.
CalculateEffectiveFee(u) ==
  /\ standing[u].streak < MaxStreak
  /\ standing' = [standing EXCEPT ![u] = Updated(@)]
  /\ UNCHANGED << overLoss, given >>

\* update_trading_activity.
UpdateTradingActivity(u, volume, loss) ==
  /\ standing[u].streak < MaxStreak /\ standing[u].volume < VolumeGoal + 1
  /\ LET s == [standing[u] EXCEPT !.volume = @ + volume,
                                  !.maxLoss = IF loss = NoLoss THEN @ ELSE Max({@, loss})]
     IN  standing' = [standing EXCEPT ![u] = Updated(s)]
  /\ overLoss' = [overLoss EXCEPT ![u] = IF @ = NoLoss /\ loss # NoLoss /\ loss > 5 THEN Day ELSE @]
  /\ UNCHANGED given

Addable(s, a) == ~Has(s, a.category)

\* apply_achievement_bonus: given as it comes, active or not, until it expires.
ApplyAchievementBonus(u, bonus) ==
  LET a == [category |-> bonus.category, bps |-> bonus.bps, earned |-> Day, until |-> Day + bonus.term,
            active |-> bonus.active] IN
  /\ Len(standing[u].achievements) < MaxAchievements
  /\ Addable(standing[u], a)
  /\ standing' = [standing EXCEPT ![u].achievements = Append(@, a)]
  /\ given' = [given EXCEPT ![u] = @ \union {b \in {a} : b.category = "RiskManagement"}]
  /\ UNCHANGED overLoss

ProgressionNext ==
  \E u \in Earners :
    \/ CalculateEffectiveFee(u)
    \/ \E volume \in TradeVolumes, loss \in Losses \union {NoLoss} : UpdateTradingActivity(u, volume, loss)
    \/ \E bonus \in Bonuses : ApplyAchievementBonus(u, bonus)

ProgressionTypeOK ==
  \A u \in Earners :
    /\ standing[u].streak \in Nat /\ standing[u].volume \in Nat /\ standing[u].lastDay \in 0 .. Day
    /\ \A i \in DOMAIN standing[u].achievements :
         /\ standing[u].achievements[i].category \in Categories
         /\ standing[u].achievements[i].active \in BOOLEAN

\* The stackable category counts 2, whatever discount its achievement names.
Worth(a) ==
  IF ~a.active THEN 0 ELSE IF a.category = "Consistency" THEN 2 ELSE a.bps

(* The discount depends on which achievements are active and not on the      *)
(* order they came in, although the stackable one is cut by what stands      *)
(* before it: for every tier it is the sum of one discount per category, up  *)
(* to 30 % of the base fee (calculate_effective_fee).  So nothing stacks: a  *)
(* new streak replaces the one before it, and a streak of any length is      *)
(* worth 2, where fee_progression.rs:121 and its tests speak of up to 10.    *)
DiscountIsSum ==
  \A u \in Earners :
    LET held == standing[u].achievements IN
    /\ \A i, j \in DOMAIN held :
         held[i].active /\ held[j].active /\ held[i].category = held[j].category => i = j
    /\ \A base \in {30, 25, 20, 15} :
         Discount(standing[u], base) =
           Min({(base * 30) \div 100, SumFunction([i \in DOMAIN held |-> Worth(held[i])])})

(* After a loss above 5 % the risk discount is not earned again: what is     *)
(* held was earned by then, and it is over a term later at the latest,       *)
(* unless it was given as a bonus, which asks for no record                  *)
(* (check_risk_management_achievement, cleanup_expired_achievements).        *)
LossEndsRiskDiscount ==
  \A u \in Earners : \A i \in DOMAIN standing[u].achievements :
    LET a == standing[u].achievements[i] IN
    a.category = "RiskManagement" /\ overLoss[u] # NoLoss /\ a \notin given[u] =>
      a.earned <= overLoss[u] /\ a.until <= overLoss[u] + AchievementTerm

(* Discounts follow from the achievements held, and those from the record.   *)
DiscountsSound == ProgressionTypeOK /\ DiscountIsSum /\ LossEndsRiskDiscount
=============================================================================
