------------------------- MODULE ActivationContext --------------------------
(***************************************************************************)
(* The check-in streak and the days of absence a customer's entry at the   *)
(* store is decided on.  They are computed from the customer's newest      *)
(* decisions, Limit at most, however many entries a day has.               *)
(***************************************************************************)
EXTENDS Integers, Sequences, FiniteSets, FiniteSetsExt, Functions, SequencesExt

CONSTANTS Limit,               \* decisions read (90 in the code)
          Never,               \* inactiveDays of a customer never away (9999)
          MaxDay, MaxEntries     \* bounds

\* What the values of the constants satisfy.
ASSUME ActivationAssumption == Limit \in Nat /\ Never \in Nat /\ MaxDay \in Nat /\ MaxEntries \in Nat

VARIABLES today, entered,      \* entered: the day of every decision, oldest first
          context              \* context of the last entry: [streak, inactive]
avars == <<today, entered, context>>

listDecisions(days) == SubSeq(days, Len(days) - Min({Limit, Len(days)}) + 1, Len(days))

(* The days before today, walked back as long as they have a decision.     *)
checkinStreakDaysMutant(days) ==
    LET combined == Range(days)
        back[d \in -1..today] == IF d \in combined THEN 1 + back[d - 1] ELSE 0
    IN  back[today]
checkinStreakDays(days) ==
    LET combined == Range(days) \cup {today}
        back[d \in -1..today] == IF d \in combined THEN 1 + back[d - 1] ELSE 0
    IN  back[today]

(* Days without an entry before the streak.                                *)
inactiveDaysMutant(days) ==
    LET start == today - checkinStreakDays(days) + 1
        before == {d \in Range(days) : d < start}
    IN  IF before = {} THEN Never ELSE start - Max(before)
inactiveDays(days) ==
    LET start == today - checkinStreakDays(days) + 1
        before == {d \in Range(days) : d < start}
    IN  IF before = {} THEN Never ELSE start - Max(before) - 1

ActivationInit == today = 0 /\ entered = <<>> /\ context = [streak |-> 0, inactive |-> Never]

(* buildActivationContext, and the decision it is built for stored after.  *)
buildActivationContext ==
    LET days == listDecisions(entered) IN
    context' = [streak |-> Max({1, checkinStreakDays(days)}), inactive |-> inactiveDays(days)]
Enter == /\ Len(entered) < MaxEntries
         /\ buildActivationContext
         /\ entered' = Append(entered, today)
         /\ UNCHANGED today
NextDay == /\ today < MaxDay /\ today' = today + 1
           /\ UNCHANGED <<entered, context>>

ActivationNext == Enter \/ NextDay
ActivationSpec == ActivationInit /\ [][ActivationNext]_avars

-----------------------------------------------------------------------------
ActivationTypeOK == /\ today \in 0..MaxDay /\ entered \in Seq(0..MaxDay)
                    /\ context.streak \in 0..MaxDay + 1

LastEntry == Last(entered)
Days == Range(entered)

(* buildActivationContext: the streak is never longer than the customer's  *)
(* run of days, and exactly that run as long as the decisions before it    *)
(* fit the page that is read: a customer with many entries a day loses     *)
(* days of a long streak, and never gains any.                             *)
StreakIsRunOfDays ==
    entered /= <<>> =>
        LET run == Max({n \in 1..LastEntry + 1 : (LastEntry - n + 1)..LastEntry \subseteq Days})
        IN  /\ context.streak <= run
            /\ Len(entered) - 1 <= Limit => context.streak = run

(* buildActivationContext: a finite absence is the whole run of days       *)
(* without an entry just before the streak; when the page cuts the streak  *)
(* or the absence short there is none: a customer who never left is never  *)
(* taken for one who returns.                                              *)
AbsenceIsReal ==
    entered /= <<>> /\ context.inactive /= Never =>
        LET start == LastEntry - context.streak + 1
        IN  /\ context.inactive > 0
            /\ ((start - context.inactive)..(start - 1)) \cap Days = {}
            /\ start - context.inactive - 1 \in Days

(* What the decision at the door is told is true.                          *)
EntryFactsTrue == ActivationTypeOK /\ StreakIsRunOfDays /\ AbsenceIsReal
=============================================================================
