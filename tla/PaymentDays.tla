----------------------------- MODULE PaymentDays -----------------------------
(***************************************************************************)
(* The Moneris import (server/integrations/sync/moneris.ts, moneris.ts):   *)
(* succeeded payments are read day by day, within a window whose end is    *)
(* frozen while its page chain is open.  Time goes on, also past midnight, *)
(* between any two calls.  A moment has at most one payment, named by it.  *)
(***************************************************************************)
EXTENDS Naturals, FiniteSetsExt

CONSTANTS PaymentRuns,  \* runs of the import, each again and again
          NoPaymentRun,
          DayLength,    \* moments of a day
          LastMoment,   \* bound: time
          DaysPerRun    \* 7 in the code

ASSUME PaymentAssumption ==
    /\ DayLength \in Nat \ {0} /\ LastMoment \in Nat \ {0} /\ DaysPerRun \in Nat \ {0}
    /\ NoPaymentRun \notin PaymentRuns

VARIABLES
    now,       \* the present moment
    payments,  \* payments at Moneris
    unclear,   \* those among them that cannot be normalized, or changed
    account,   \* the connection row: the lease and lastSyncCursor
    received,  \* commerce_payments
    pass       \* pass[r]: a run's step and locals

paymentVars == << now, payments, unclear, account, received, pass >>

Moments == 1..LastMoment
Never == 0

FirstOf(day) == (day - 1) * DayLength + 1
LastOfDay(day) == day * DayLength
DayOf(t) == (t - 1) \div DayLength + 1

\* nextDay, the provider's cursor (the last payment read) and the frozen end.
Days == 1..DayOf(LastMoment) + 1
DayCursors == [day : Days, at : Moments \cup {Never}, end : Moments \cup {Never}]

Waiting == [pc |-> "idle"]
Passes == [pc : {"read", "day", "page", "save"}, before : DayCursors, cursor : DayCursors,
           page : SUBSET Moments, today : Days, done : Nat, warned : BOOLEAN]

PaymentTypeOK ==
    /\ now \in Moments /\ payments \subseteq Moments /\ unclear \subseteq payments
    /\ account \in [owner : PaymentRuns \cup {NoPaymentRun}, live : BOOLEAN, cursor : DayCursors]
    /\ account.live => account.owner # NoPaymentRun
    /\ received \subseteq payments
    /\ pass \in [PaymentRuns -> {Waiting} \cup Passes]

PaymentInit ==
    /\ now = 1 /\ payments = {} /\ unclear = {} /\ received = {}
    /\ account = [owner |-> NoPaymentRun, live |-> FALSE,
                  cursor |-> [day |-> 1, at |-> Never, end |-> Never]]
    /\ pass = [r \in PaymentRuns |-> Waiting]

-----------------------------------------------------------------------------
(* Moneris and the clock.                                                  *)

Pay(problem) ==
    /\ now \notin payments
    /\ payments' = payments \cup {now}
    /\ unclear' = IF problem THEN unclear \cup {now} ELSE unclear
    /\ UNCHANGED << now, account, received, pass >>

\* A payment changes, or was not what it seemed.
Alter(t) ==
    /\ t \in payments \ unclear /\ unclear' = unclear \cup {t}
    /\ UNCHANGED << now, payments, account, received, pass >>

Reconcile ==
    /\ unclear # {} /\ unclear' = {}
    /\ UNCHANGED << now, payments, account, received, pass >>

Tick ==
    /\ now < LastMoment /\ now' = now + 1
    /\ UNCHANGED << payments, unclear, account, received, pass >>

-----------------------------------------------------------------------------
(* A run.                                                                  *)

\* The connection is read with its cursor; today is fixed for the whole run.
ReadAccount(r) ==
    /\ pass[r] = Waiting
    /\ pass' = [pass EXCEPT ![r] =
           [pc |-> "read", before |-> account.cursor, cursor |-> account.cursor,
            page |-> {}, today |-> 1, done |-> 0, warned |-> FALSE]]
    /\ UNCHANGED << now, payments, unclear, account, received >>

LeaseAccount(r) ==
    /\ pass[r].pc = "read"
    /\ \/ /\ ~account.live
          /\ account' = [account EXCEPT !.owner = r, !.live = TRUE]
          /\ pass' = [pass EXCEPT ![r].pc = "day", ![r].today = DayOf(now)]
       \/ account.live /\ pass' = [pass EXCEPT ![r] = Waiting] /\ UNCHANGED account
    /\ UNCHANGED << now, payments, unclear, received >>

Holds(r) == account.owner = r /\ account.live

\* The window of a day ends with the day, or just before the present moment.
WindowEnd(c) == IF c.end # Never THEN c.end ELSE Min({LastOfDay(c.day), now - 1})

\* Payments of the window behind the provider's cursor.
Listed(c, end) == {t \in payments : FirstOf(c.day) <= t /\ t <= end /\ t > c.at}

\* Up to ten pages of a day, between two renewals of the lease.
FetchDay(r) ==
    LET c == pass[r].cursor
        end == WindowEnd(c)
        list == Listed(c, end)
    IN /\ pass[r].pc = "day" /\ Holds(r)
       /\ c.day <= pass[r].today /\ pass[r].done < DaysPerRun
       /\ \E last \in list \cup {Never} :
             LET page == IF last = Never THEN list ELSE {t \in list : t <= last}
                 more == page # list
             IN pass' = [pass EXCEPT ![r].pc = "page", ![r].page = page,
                                     ![r].cursor.at = IF more THEN last ELSE Never,
                                     ![r].cursor.end = end]
       /\ UNCHANGED << now, payments, unclear, account, received >>

\* Variant: a day is left when its page chain has ended, whenever that is.
LeavesAtEndOfChain(r, warned) == ~warned /\ pass[r].cursor.at = Never

\* A day is left when its page chain has ended, unless the frozen end falls
\* short of a day that is over by then.
LeavesDay(r, warned) ==
    LET c == pass[r].cursor
    IN /\ ~warned /\ c.at = Never
       /\ ~(c.end < LastOfDay(c.day) /\ c.day < pass[r].today)

\* The page is staged, without payments that are unclear, and the run goes on to
\* the next day or ends.
StageDay(r) ==
    LET c == pass[r].cursor
        warned == pass[r].page \cap unclear # {}
    IN /\ pass[r].pc = "page" /\ Holds(r)
       /\ received' = received \cup (pass[r].page \ unclear)
       /\ pass' = [pass EXCEPT
              ![r].pc = IF LeavesDay(r, warned) THEN "day" ELSE "save",
              ![r].page = {},
              ![r].warned = warned,
              ![r].done = IF LeavesDay(r, warned) THEN @ + 1 ELSE @,
              ![r].cursor = IF LeavesDay(r, warned)
                            THEN [day |-> c.day + 1, at |-> Never, end |-> Never]
                            ELSE IF c.at = Never THEN [c EXCEPT !.end = Never] ELSE c]
       /\ UNCHANGED << now, payments, unclear, account >>

\* An outage stops the single inserts; the run fails.
StageSome(r) ==
    /\ pass[r].pc = "page"
    /\ \E some \in SUBSET (pass[r].page \ unclear) : received' = received \cup some
    /\ pass' = [pass EXCEPT ![r] = Waiting]
    /\ account' = IF account.owner = r
                  THEN [account EXCEPT !.owner = NoPaymentRun, !.live = FALSE] ELSE account
    /\ UNCHANGED << now, payments, unclear >>

EndDays(r) ==
    /\ pass[r].pc = "day"
    /\ pass[r].cursor.day > pass[r].today \/ pass[r].done = DaysPerRun
    /\ pass' = [pass EXCEPT ![r].pc = "save"]
    /\ UNCHANGED << now, payments, unclear, account, received >>

\* Payments in review keep the cursor; today is read again in the next run.
NextDays(r) ==
    IF pass[r].warned THEN pass[r].before
    ELSE [pass[r].cursor EXCEPT !.day = Min({@, pass[r].today})]

\* The lease is renewed, and the connection updated under it.
SaveDays(r) ==
    /\ pass[r].pc = "save" /\ Holds(r)
    /\ account' = [owner |-> NoPaymentRun, live |-> FALSE, cursor |-> NextDays(r)]
    /\ pass' = [pass EXCEPT ![r] = Waiting]
    /\ UNCHANGED << now, payments, unclear, received >>

\* A failed call, or a lost lease.
FailPass(r) ==
    /\ pass[r].pc \in {"day", "page", "save"}
    /\ pass' = [pass EXCEPT ![r] = Waiting]
    /\ account' = IF account.owner = r
                  THEN [account EXCEPT !.owner = NoPaymentRun, !.live = FALSE] ELSE account
    /\ UNCHANGED << now, payments, unclear, received >>

DropPass(r) ==
    /\ pass[r] # Waiting
    /\ pass' = [pass EXCEPT ![r] = Waiting]
    /\ UNCHANGED << now, payments, unclear, account, received >>

PaymentLeaseExpires ==
    /\ account.live
    /\ account' = [account EXCEPT !.live = FALSE]
    /\ UNCHANGED << now, payments, unclear, received, pass >>

PaymentNext ==
    \/ \E problem \in BOOLEAN : Pay(problem)
    \/ \E t \in payments : Alter(t)
    \/ Reconcile \/ Tick \/ PaymentLeaseExpires
    \/ \E r \in PaymentRuns :
          ReadAccount(r) \/ LeaseAccount(r) \/ FetchDay(r) \/ StageDay(r) \/ StageSome(r)
          \/ EndDays(r) \/ SaveDays(r) \/ FailPass(r) \/ DropPass(r)

PaymentSpec == PaymentInit /\ [][PaymentNext]_paymentVars

-----------------------------------------------------------------------------
(* Properties.                                                             *)

\* "Re-read the full day from its first page before advancing to the next date":
\* every payment of a day that the cursor has left is staged, also when a page
\* chain was opened on that day and finished on another, by another run.
DaysLeftAreWhole == \A t \in payments : DayOf(t) < account.cursor.day => t \in received

\* What an open page chain has passed is staged.
ChainsAreWhole ==
    LET c == account.cursor
    IN \A t \in payments : FirstOf(c.day) <= t /\ t <= c.at => t \in received

\* No payment is passed over.
PaymentsAreWhole == PaymentTypeOK /\ DaysLeftAreWhole /\ ChainsAreWhole
=============================================================================
