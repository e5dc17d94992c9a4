------------------------------- MODULE Accounts -------------------------------
(***************************************************************************)
(* The accounts of the members (storage/account_store.py) behind the       *)
(* handlers of the dashboard, each in a thread of its own.  One action is  *)
(* one SQLite transaction.  An account's id is its index; dates are day    *)
(* numbers.  The flag active and the API keys, which single updates set    *)
(* and nothing here reads, are left out.                                   *)
(***************************************************************************)
EXTENDS Integers, Sequences, FiniteSets

CONSTANTS
    Emails,         \* addresses that register
    AdminEmail,     \* the address seed_admin is called with
    Threads,        \* threads serving a request
    Period,         \* days of a paid month
    MaxAccounts,    \* bound: accounts ever created
    MaxPayments,    \* bound: payments of an account
    MaxDay          \* bound: last day

ASSUME AccountAssumption ==
    /\ AdminEmail \in Emails
    /\ Period \in Nat \ {0}
    /\ MaxAccounts \in Nat
    /\ MaxPayments \in Nat
    /\ MaxDay \in Nat \ {0}

VARIABLES
    account,    \* table accounts
    serving,    \* what each thread still has to do
    today,
    paidOn,     \* history: each account's first payment, 0 before it
    payments,   \* history: payments of each account
    collided    \* history: emails and accounts two requests were busy with at once

accountVars == <<account, serving, today, paidOn, payments, collided>>

-----------------------------------------------------------------------------
\* paidUntil 0: never paid
Account ==
    [email : Emails, role : {"admin", "member"}, paidUntil : Nat, deleted : BOOLEAN]

NoWork == [at |-> "idle", email |-> AdminEmail, of |-> 0, until |-> 0]

AccountIds == 1..Len(account)

Exists(a) == a \in AccountIds /\ ~account[a].deleted

NewAccount(email, role) ==
    [email |-> email, role |-> role, paidUntil |-> 0, deleted |-> FALSE]

Insert(row) ==
    /\ Len(account) < MaxAccounts
    /\ account' = Append(account, row)
    /\ paidOn' = Append(paidOn, 0)
    /\ payments' = Append(payments, 0)

-----------------------------------------------------------------------------
\* seed_admin, when the dashboard starts
SeedAdmin ==
    /\ \A a \in AccountIds : Exists(a) => account[a].role # "admin"
    /\ Insert(NewAccount(AdminEmail, "admin"))
    /\ UNCHANGED <<serving, today, collided>>

EmailKnown(email) == \E a \in AccountIds : Exists(a) /\ account[a].email = email

\* _handle_register_step1: the address is looked up, then the row is inserted;
\* the table has no unique address.
CheckEmail(h, email) ==
    /\ serving[h].at = "idle"
    /\ ~EmailKnown(email)
    /\ serving' = [serving EXCEPT ![h] = [NoWork EXCEPT !.at = "register", !.email = email]]
    /\ collided' = collided \cup
          {e \in {email} : \E g \in Threads : serving[g].at = "register" /\ serving[g].email = e}
    /\ UNCHANGED <<account, today, paidOn, payments>>

Register(h) ==
    /\ serving[h].at = "register"
    /\ Insert(NewAccount(serving[h].email, "member"))
    /\ serving' = [serving EXCEPT ![h] = NoWork]
    /\ UNCHANGED <<today, collided>>

Delete(a) ==
    /\ Exists(a)
    /\ account' = [account EXCEPT ![a].deleted = TRUE]
    /\ UNCHANGED <<serving, today, paidOn, payments, collided>>

-----------------------------------------------------------------------------
(* mark_paid: the account is read in one connection and written in another. *)

\* Mutant of PaidFrom: a month starts on the day it is paid.
PaidFromToday(a) == today

\* A payment extends a date that is still to come.
PaidFrom(a) == IF account[a].paidUntil < today THEN today ELSE account[a].paidUntil

ReadPaid(h, a, months) ==
    /\ serving[h].at = "idle"
    /\ Exists(a)
    /\ payments[a] + months <= MaxPayments
    /\ serving' = [serving EXCEPT ![h] = [NoWork EXCEPT !.at = "pay", !.of = a,
                                             !.until = PaidFrom(a) + Period * months]]
    /\ payments' = [payments EXCEPT ![a] = @ + months]
    /\ paidOn' = [paidOn EXCEPT ![a] = IF @ = 0 THEN today ELSE @]
    /\ collided' = collided \cup {b \in {a} : \E g \in Threads : serving[g].of = b}
    /\ UNCHANGED <<account, today>>

WritePaid(h) ==
    LET a == serving[h].of IN
    /\ serving[h].at = "pay"
    /\ account' = IF Exists(a) THEN [account EXCEPT ![a].paidUntil = serving[h].until]
                  ELSE account
    /\ serving' = [serving EXCEPT ![h] = NoWork]
    /\ UNCHANGED <<today, paidOn, payments, collided>>

NextDay ==
    /\ today < MaxDay
    /\ today' = today + 1
    /\ UNCHANGED <<account, serving, paidOn, payments, collided>>

-----------------------------------------------------------------------------
AccountInit ==
    /\ account = << >>
    /\ serving = [h \in Threads |-> NoWork]
    /\ today = 1
    /\ paidOn = << >>
    /\ payments = << >>
    /\ collided = {}

AccountNext ==
    \/ SeedAdmin
    \/ \E h \in Threads, email \in Emails : CheckEmail(h, email)
    \/ \E h \in Threads : Register(h)
    \/ \E a \in AccountIds : Delete(a)
    \/ \E h \in Threads, a \in AccountIds, months \in 1..MaxPayments : ReadPaid(h, a, months)
    \/ \E h \in Threads : WritePaid(h)
    \/ NextDay

AccountSpec == AccountInit /\ [][AccountNext]_accountVars

-----------------------------------------------------------------------------
AccountTypeOK ==
    /\ account \in Seq(Account)
    /\ \A h \in Threads :
          /\ serving[h].at \in {"idle", "register", "pay"}
          /\ serving[h].email \in Emails
          /\ serving[h].of \in {0} \cup AccountIds
          /\ serving[h].until \in Nat
    /\ today \in 1..MaxDay
    /\ Len(paidOn) = Len(account)
    /\ Len(payments) = Len(account)

(* No payment is lost: from the day of the first one an account is paid    *)
(* for at least as long as all its months together, and a member's address *)
(* belongs to one account only - unless two requests about the same        *)
(* account or address overlapped.                                          *)
NothingLostByOneAtATime ==
    /\ \A a \in AccountIds :
          (Exists(a) /\ payments[a] > 0 /\ a \notin collided
            /\ \A h \in Threads : serving[h].of # a) =>
              account[a].paidUntil >= paidOn[a] + Period * payments[a]
    /\ \A a, b \in AccountIds :
          (/\ Exists(a) /\ Exists(b) /\ a # b
           /\ account[a].role = "member" /\ account[b].role = "member"
           /\ account[a].email = account[b].email) =>
              account[a].email \in collided
=============================================================================
