---------------------------- MODULE AccountStore ----------------------------
(* The accounts table of the control plane (store.ts, store_pg.ts): one row   *)
(* per account, each query atomic. Only the columns that steer the life of    *)
(* an account are kept: its status and its step on the way out.               *)
EXTENDS Naturals

CONSTANTS
    Accounts,          \* account ids; an id is given out once
    NoRow,             \* the account has no row
    LogoutWaitPasses   \* LOGOUT_WAIT_PASSES

ASSUME StoreAssumption == LogoutWaitPasses \in Nat \ {0}

VARIABLES
    accounts,          \* the rows
    born               \* ids given out so far (a history)

storeVars == <<accounts, born>>

Statuses == {"onboarding", "active", "needs_relogin", "deleting"}

(* Steps of the deletion after which the worker has to be down. *)
SCALED_DOWN_STEPS == {"logged_out", "scaled", "pod_gone", "s3_deleted", "archive_purged"}

\* "null" is the column's null; `logout_wait:N` is the step with waited = N.
Steps == SCALED_DOWN_STEPS \cup {"null", "logout_wait"}

Row == [status : Statuses, step : Steps, waited : 0 .. LogoutWaitPasses]

StoreTypeOK ==
    /\ accounts \in [Accounts -> Row \cup {NoRow}]
    /\ born \subseteq Accounts

StoreInit ==
    /\ accounts = [a \in Accounts |-> NoRow]
    /\ born = {}

HasRow(a) == accounts[a] # NoRow
Is(a, status) == HasRow(a) /\ accounts[a].status = status
Gone(a) == a \in born /\ ~HasRow(a)

-----------------------------------------------------------------------------

insertAccount(a) ==
    /\ a \notin born
    /\ accounts' = [accounts EXCEPT ![a] =
                        [status |-> "onboarding", step |-> "null", waited |-> 0]]
    /\ born' = born \cup {a}

\* updateAccount writes the columns of its patch only, and throws without a row.
SetStatus(a, status) ==
    /\ HasRow(a)
    /\ accounts' = [accounts EXCEPT ![a].status = status]
    /\ UNCHANGED born

SetStep(a, step, waited) ==
    /\ HasRow(a)
    /\ accounts' = [accounts EXCEPT ![a].step = step, ![a].waited = waited]
    /\ UNCHANGED born

SetStatusAndStep(a, status, step) ==
    /\ HasRow(a)
    /\ accounts' = [accounts EXCEPT ![a] = [status |-> status, step |-> step, waited |-> 0]]
    /\ UNCHANGED born

deleteAccount(a) ==
    /\ accounts' = [accounts EXCEPT ![a] = NoRow]
    /\ UNCHANGED born

=============================================================================
