---------------------------- MODULE ScheduleForm ----------------------------
(***************************************************************************)
(* The schedule form of the portal: the step "Schedule" of the scenario    *)
(* wizard (views/CreateWorkflow/ScheduleWorkflow/index.tsx) and, nearly    *)
(* line for line again, the form of the page that edits the schedule of a  *)
(* stored scenario (pages/EditSchedule/Schedule.tsx).                      *)
(*                                                                         *)
(* A React component with two effects.  The radio buttons and pickers      *)
(* change local state; the effect on [valueDef, value] derives the cron    *)
(* value from it and stores the choice, the effect on [cronValue] stores   *)
(* the cron syntax that is later written into the manifest.  An effect     *)
(* sees the state of the render it belongs to, and what it sets is seen    *)
(* one render later, so a click is followed by a cascade of flushes.       *)
(*                                                                         *)
(* No radio button offers "specificTime" and nothing stores it, so that    *)
(* branch of the effects (and validateTime) never runs and is left out.    *)
(***************************************************************************)
EXTENDS Integers, Sequences

CONSTANTS Minutes,      \* the minutes of the hour the user picks from
          Times,        \* the times of day, in minutes since midnight
          Days,         \* the days of the week
          Dates         \* the days of the month

ASSUME InputsAssumption ==
    /\ Minutes \subseteq Nat /\ Times \subseteq Nat
    /\ Days \subseteq Nat    /\ Dates \subseteq Nat
    /\ 0 \in Minutes /\ 1 \in Dates

VARIABLES
    form,       \* the local state of the mounted form, or Closed
    sched       \* workflowData of the redux store: what the form stores

formVars == <<form, sched>>

-----------------------------------------------------------------------------
(* The five fields of a cron value: minute, hour, day of month, month, day *)
(* of week.  The codes stand for the strings '*', '', '0-23' and '0-6'.    *)
Star     == -1
Blank    == -2
AllHours == -3
AllDays  == -4

Stars  == <<Star, Star, Star, Star, Star>>
Blanks == <<Blank, Blank, Blank, Blank, Blank>>
NoCron == <<>>                          \* cronSyntax: ''

Periods == {"hour", "day", "week", "month"}
Closed  == [value |-> "closed", due |-> {}]

\* What the form's choice asks for: what a reader of the page expects to be
\* scheduled.  The reference the effects are compared with.
CronOf(f) ==
    LET min == f.time % 60
        hr  == f.time \div 60
    IN  IF f.value = "now" THEN NoCron
        ELSE CASE f.def = "hour"   -> <<f.minute, AllHours, Star, Star, Star>>
               [] f.def = "day"    -> <<min, hr, Star, Star, AllDays>>
               [] f.def = "week"   -> <<min, hr, Star, Star, f.day>>
               [] f.def = "month"  -> <<min, hr, f.date, Star, Star>>
               [] OTHER            -> NoCron

-----------------------------------------------------------------------------
\* The state hooks of a fresh mount: read from the store, except the cron
\* value, which starts as five stars.  Both effects are due.
Mounted(s) ==
    [value |-> s.once, def |-> s.rec, minute |-> s.minute, day |-> s.day,
     date |-> s.date, time |-> s.time, cron |-> Stars,
     due |-> {"cronValue", "choice"}]

IsOpen  == form.value # "closed"
Settled == IsOpen /\ form.due = {}

Open == /\ ~ IsOpen
        /\ form' = Mounted(sched)
        /\ UNCHANGED sched

Close == /\ Settled
         /\ form' = Closed
         /\ UNCHANGED sched

\* What the effect on [valueDef, value] sets cronValue to, if it sets it.
\* The branch of "now" is overwritten by the one of a period that the same
\* render still shows.
DerivedCron(f) ==
    LET min == f.time % 60
        hr  == f.time \div 60
    IN  CASE f.def = "hour"  -> <<f.minute, AllHours, Star, Star, Star>>
          [] f.def = "day"   -> <<min, hr, Star, Star, AllDays>>
          [] f.def = "week"  -> <<min, hr, Star, Star, f.day>>
          [] f.def = "month" -> <<min, hr, f.date, Star, Star>>
          [] OTHER           -> Blanks

SetsCron(f) == f.value = "now" \/ f.def \in Periods

\* A mutated form of StoredCron: the values stored are those of the fields.
StoredFields(f) == f.cron

\* The effect on [cronValue] stores the cron syntax.
StoredCron(f) == IF f.value = "now" THEN NoCron ELSE f.cron

\* The passive effects of one commit, in the order of their declaration and
\* all with the state of that commit; what they set is batched into the next.
Flush ==
    /\ form.due # {}
    /\ LET choice  == "choice" \in form.due
           newDef  == IF choice /\ form.value = "now" THEN "" ELSE form.def
           newCron == choice /\ SetsCron(form)
       IN  /\ sched' = [sched EXCEPT
                 !.cron = IF "cronValue" \in form.due THEN StoredCron(form) ELSE @,
                 !.once = IF choice THEN form.value ELSE @,
                 !.rec  = IF choice THEN form.def ELSE @]
           /\ form' = [form EXCEPT
                 !.def  = newDef,
                 !.cron = IF newCron THEN DerivedCron(form) ELSE @,
                 !.due  = (IF newCron THEN {"cronValue"} ELSE {})
                          \cup (IF newDef # form.def THEN {"choice"} ELSE {})]

-----------------------------------------------------------------------------
(* The user's clicks.  React flushes the effects that are due before it    *)
(* handles one, hence Settled.                                             *)

\* The outer radio buttons.
Choose(v) ==
    /\ Settled /\ form.value # v
    /\ form' = [form EXCEPT !.value = v, !.due = {"choice"}]
    /\ UNCHANGED sched

\* The inner radio buttons, shown for a recurring schedule only.
ChoosePeriod(p) ==
    /\ Settled /\ form.value = "recurringSchedule" /\ form.def # p
    /\ form' = [form EXCEPT !.def = p, !.due = {"choice"}]
    /\ UNCHANGED sched

Shows(p) == Settled /\ form.value = "recurringSchedule" /\ form.def = p

\* Every hour: the minute.
PickMinute(m) ==
    /\ Shows("hour")
    /\ form' = [form EXCEPT !.minute = m, !.due = {"cronValue"},
                            !.cron = [@ EXCEPT ![1] = m, ![2] = AllHours]]
    /\ sched' = [sched EXCEPT !.minute = m]

\* Every day: the time, with its own handler.
PickTimeOfDay(t) ==
    /\ Shows("day")
    /\ form' = [form EXCEPT !.time = t, !.due = {"cronValue"},
                  !.cron = [@ EXCEPT ![1] = t % 60, ![2] = t \div 60, ![5] = AllDays]]
    /\ sched' = [sched EXCEPT !.time = t]

\* Every week and every month: the time, by reccuringDateChange.
PickTime(t) ==
    /\ Shows("week") \/ Shows("month")
    /\ form' = [form EXCEPT !.time = t, !.due = {"cronValue"},
                  !.cron = [@ EXCEPT ![1] = t % 60, ![2] = t \div 60]]
    /\ sched' = [sched EXCEPT !.time = t]

\* Every week: the day.
PickDay(d) ==
    /\ Shows("week")
    /\ form' = [form EXCEPT !.day = d, !.due = {"cronValue"},
                            !.cron = [@ EXCEPT ![4] = Star, ![5] = d]]
    /\ sched' = [sched EXCEPT !.day = d]

\* Every month: the date.
PickDate(d) ==
    /\ Shows("month")
    /\ form' = [form EXCEPT !.date = d, !.due = {"cronValue"},
                            !.cron = [@ EXCEPT ![3] = d]]
    /\ sched' = [sched EXCEPT !.date = d]

\* The radio buttons; the fields of the first two periods; those of the other two.
ClickChoice ==
    \/ \E v \in {"now", "recurringSchedule"} : Choose(v)
    \/ \E p \in Periods : ChoosePeriod(p)

ClickTime ==
    \/ \E m \in Minutes : PickMinute(m)
    \/ \E t \in Times : PickTimeOfDay(t)

ClickDay ==
    \/ \E t \in Times : PickTime(t)
    \/ \E d \in Days : PickDay(d)
    \/ \E d \in Dates : PickDate(d)

Click == ClickChoice \/ ClickTime \/ ClickDay

\* Next of the wizard and the button Verify of the edit page both need a
\* period when the schedule is recurring.
Complete == Settled /\ ~ (form.value = "recurringSchedule" /\ form.def = "")

-----------------------------------------------------------------------------
(* The form by itself, over whatever the store holds of an earlier visit.  *)

CronValues == {NoCron} \cup
    (((Minutes \cup 0 .. 59 \cup {Star, Blank})
      \X (0 .. 23 \cup {Star, Blank, AllHours})
      \X (Dates \cup {Star, Blank}) \X {Star, Blank}
      \X (Days \cup {Star, Blank, AllDays})))

\* workflowData as the agent step of the wizard and the edit page set it:
\* the time and the date are those of that moment, the day is Monday.
FreshSched(cron, once, time, date) ==
    [cron |-> cron, once |-> once, rec |-> "",
     minute |-> 0, day |-> 1, date |-> date, time |-> time]

FormInit ==
    /\ form = Closed
    /\ \E t \in Times, d \in Dates : sched = FreshSched(NoCron, "now", t, d)

FormNext == Open \/ Close \/ Flush \/ Click

FormSpec == FormInit /\ [][FormNext]_formVars

-----------------------------------------------------------------------------
(* Properties.                                                             *)

\* When the form may be left for the next page, the store holds what the
\* form shows: the cron value of the choice, and the choice itself, whatever
\* was clicked before in whatever order and however often the form was left
\* and opened again.
StoresWhatItShows ==
    Complete => /\ sched.cron = CronOf(form)
                /\ sched.once = form.value /\ sched.rec = form.def
                /\ sched.minute = form.minute /\ sched.time = form.time
                /\ sched.day = form.day /\ sched.date = form.date
=============================================================================
