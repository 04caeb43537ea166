--------------------------- MODULE BrandLifecycle ---------------------------
(***************************************************************************)
(* What a brand is promised about the runs it pays for: each run that is   *)
(* saved has a click of its own or a week of the calendar, it is saved     *)
(* once, and once more for a fault at most, a scheduled summary is that of *)
(* a week that was over when it was computed, and a click's summary is one *)
(* of the week that ends on a Sunday no later than today.                  *)
(* BrandJobs implements it.                                                *)
(***************************************************************************)
EXTENDS Naturals

CONSTANTS Brands,
          Jobs       \* records: a kind, a brand and a serial, which is the week
                     \* of a weekly summary and the click of any other run

VARIABLES day,       \* per brand: 2k is a weekday after Sunday k, 2k + 1 Sunday k + 1
          written,   \* how often a run's rows have been saved
          ends,      \* per brand: <<a summary's last Sunday, whether it was over>>
          clicks,    \* clicks so far, retries included
          faults     \* faults so far

vars == <<day, written, ends, clicks, faults>>

Init ==
    /\ day = [b \in Brands |-> 2]
    /\ written = [j \in Jobs |-> 0]
    /\ ends = [b \in Brands |-> {}]
    /\ clicks = 0
    /\ faults = 0

NextDay(b) ==
    /\ day' = [day EXCEPT ![b] = @ + 1]
    /\ UNCHANGED <<written, ends, clicks, faults>>

Click ==
    /\ clicks' = clicks + 1
    /\ UNCHANGED <<day, written, ends, faults>>

Fault ==
    /\ faults' = faults + 1
    /\ UNCHANGED <<day, written, ends, clicks>>

Save(j, periods) ==
    /\ written[j] <= faults
    /\ written' = [written EXCEPT ![j] = @ + 1]
    /\ ends' = [ends EXCEPT ![j.brand] = @ \cup periods]
    /\ UNCHANGED <<day, clicks, faults>>

SaveScheduled(j) ==
    /\ j.kind = "weekly"
    /\ j.serial <= day[j.brand] \div 2
    /\ Save(j, {<<j.serial, TRUE>>})

\* The click happened, and paid for no other run.
OwnClick(j) ==
    /\ j.serial <= clicks
    /\ \A i \in Jobs :
         i.kind # "weekly" /\ i.serial = j.serial /\ written[i] > 0 => i = j

SaveClicked(j) ==
    /\ j.kind # "weekly"
    /\ OwnClick(j)
    /\ \/ Save(j, {})
       \/ /\ j.kind = "summary"
          /\ \E k \in 1..((day[j.brand] + 1) \div 2) : Save(j, {<<k, FALSE>>})

Next ==
    \/ \E b \in Brands : NextDay(b)
    \/ Click
    \/ Fault
    \/ \E j \in Jobs : SaveScheduled(j) \/ SaveClicked(j)

Spec == Init /\ [][Next]_vars
=============================================================================
