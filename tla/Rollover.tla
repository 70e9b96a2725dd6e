------------------------------ MODULE Rollover ------------------------------
(***************************************************************************)
(* The contract registry and its rollover verdicts                         *)
(* (src/contracts/contract_master.py, rollover.py), and the caller they    *)
(* are made for: one that holds a contract of a symbol, asks                *)
(* check_rollover from time to time and does what the verdict says.  A      *)
(* contract is its expiry, a date is a day number.  The caller is not part  *)
(* of the repository: it may skip days, at most RolloverDays in a row.     *)
(***************************************************************************)
EXTENDS Integers, FiniteSetsExt

CONSTANTS Expiries,      \* the expiries registered for the symbol
          RolloverDays,  \* rollover_days
          LastDay        \* bound: days explored

\* A window shorter than the distance between expiries, as monthly and weekly
\* contracts have with the default of three days.
ASSUME RolloverAssumption ==
    /\ RolloverDays \in Nat /\ LastDay \in Nat
    /\ Expiries \subseteq Nat
    /\ \A d, e \in Expiries : d < e => e - d > RolloverDays

VARIABLES today,     \* as_of
          checked,   \* the day of the caller's last check
          holding    \* the contract held, or None

rollover_vars == <<today, checked, holding>>

None == -1

Nearest(expiries) == IF expiries = {} THEN None ELSE Min(expiries)

CurrentContract(day) == Nearest({e \in Expiries : e >= day})

\* Mutant: the last contract after the current one.
NextContract_Latest(day) ==
    LET later == {e \in Expiries : e > CurrentContract(day)}
    IN  IF CurrentContract(day) = None \/ later = {} THEN None ELSE Max(later)

NextContract(day) ==
    IF CurrentContract(day) = None THEN None
    ELSE Nearest({e \in Expiries : e > CurrentContract(day)})

\* Mutant: off by one at the edge of the window.
Required_Late(day) ==
    /\ CurrentContract(day) # None
    /\ CurrentContract(day) - day < RolloverDays

Required(day) ==
    /\ CurrentContract(day) # None
    /\ CurrentContract(day) - day <= RolloverDays

\* What the verdict of check_rollover tells the caller to hold: the next
\* contract, or nothing if there is none, once a rollover is required.
Verdict(day) == IF Required(day) THEN NextContract(day) ELSE CurrentContract(day)

RolloverInit ==
    /\ today = 0
    /\ checked = 0
    /\ holding = Verdict(0)

Check ==
    /\ checked # today
    /\ checked' = today
    /\ holding' = Verdict(today)
    /\ UNCHANGED today

NextDay ==
    /\ today < LastDay
    /\ today - checked <= RolloverDays
    /\ today' = today + 1
    /\ UNCHANGED <<checked, holding>>

RolloverNext == Check \/ NextDay

RolloverSpec == RolloverInit /\ [][RolloverNext]_rollover_vars
-----------------------------------------------------------------------------
RolloverTypeOK ==
    /\ today \in Nat /\ checked \in Nat
    /\ holding \in Expiries \cup {None}

\* A caller that is never away for longer than the rollover window is never
\* left holding an expired contract, not even before its check of the day.
NeverHoldsExpired == holding # None => holding >= today

\* It is never rolled past a contract that was outside its window when it
\* last checked: rollovers go one contract at a time.
NoContractSkipped ==
    \A e \in Expiries : (e < holding /\ e >= checked) => e - checked <= RolloverDays

\* Rollovers only go forward: the verdict, computed anew from the date and
\* not from what is held, never sends the caller back to a contract it left,
\* and leaves it with none only when no later one is registered.
RollsForward ==
    [][holding' # holding =>
          \/ holding' > holding /\ holding # None
          \/ holding' = None /\ \A e \in Expiries : e <= holding]_rollover_vars
=============================================================================
