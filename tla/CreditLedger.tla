----------------------------- MODULE CreditLedger -----------------------------
(***************************************************************************)
(* The prepaid credits of an organization: the wallets and the ledger of   *)
(* queries/credit-ledger.queries.ts, the callers of agents/managed-ai.ts   *)
(* that reserve credits before a model call and settle them after it, and  *)
(* the lifecycle job that releases the reservations nobody settled.        *)
(*                                                                         *)
(* Transactions run as on Postgres: a statement that takes a row lock is a *)
(* step of its own, and the last step of a transaction writes and commits. *)
(* SQLite runs each transaction in one go (BEGIN IMMEDIATE): its           *)
(* behaviours are among these.                                             *)
(***************************************************************************)
EXTENDS Integers, FiniteSets, FiniteSetsExt

CONSTANTS
    Orgs,         \* organizations; each has one wallet
    Ops,          \* operation ids of managed model calls
    OrgOf,        \* [Ops -> Orgs]: the organization a call is billed to
    Credits,      \* purchases and back-office top-ups, by idempotency key
    CreditAmount, \* what each of them adds
    Subjects,     \* users whose join is granted, by idempotency key
    GrantAmount,  \* amount of the grant policy
    MaxGrants,    \* maxGrantsPerOrg of the grant policy
    Reservations, \* the amounts a call may reserve
    Charges,      \* what a call may cost (0: it failed)
    Granters,     \* requests issuing a grant
    Sweepers,     \* runs of the lifecycle job
    MaxFaults,    \* bound on crashes and failed transactions
    Null

Keys == ({"op", "release"} \X Ops) \union ({"credit"} \X Credits)
                                   \union ({"grant"} \X Subjects)

Op(o)      == <<"op", o>>
Release(o) == <<"release", o>>

Entry == [org : Orgs, type : {"reservation", "usage", "adjustment", "credit", "grant"},
          delta : Int, after : Int, seq : Nat]

ASSUME CreditAssumption ==
    /\ OrgOf \in [Ops -> Orgs]
    /\ CreditAmount \in Nat \ {0}
    /\ GrantAmount \in Nat \ {0}
    /\ MaxGrants \in Nat \ {0}
    /\ MaxFaults \in Nat
    /\ Reservations \subseteq Nat \ {0}
    /\ Charges \subseteq Nat
    /\ Null \notin Entry /\ Null \notin Nat
    /\ Null \notin Ops \union Sweepers \union Granters
    /\ Ops \intersect Sweepers = {}
    /\ IsFiniteSet(Subjects)

VARIABLES
    balance,    \* credit_wallet.balance_micro_usd
    sequence,   \* credit_wallet.ledger_sequence
    ledger,     \* credit_ledger: idempotency key -> entry, or Null
    usage,      \* managed_ai_usage: operation id -> charge, or Null
    call,       \* where the caller of each operation is
    charge,     \* what its model call turned out to cost
    stale,      \* is the reservation older than RESERVATION_MAX_AGE_MS?
    rowLock,    \* who holds the row lock of an operation's reservation
    walletLock, \* who holds the row lock of a wallet across statements
    sweep,      \* each run of the lifecycle job: reservations left, one locked
    grant,      \* each grant request: its organization, subject and count
    faults      \* crashes and failed transactions so far

vars == <<balance, sequence, ledger, usage, call, charge, stale,
          rowLock, walletLock, sweep, grant, faults>>

money     == <<balance, sequence, ledger, usage>>
callers   == <<call, charge, stale>>
CallPhases == {"new", "exhausted", "calling", "settling", "locked", "done", "lost", "crashed"}

TypeOK ==
    /\ balance \in [Orgs -> Int]
    /\ sequence \in [Orgs -> Nat]
    /\ ledger \in [Keys -> Entry \union {Null}]
    /\ usage \in [Ops -> Nat \union {Null}]
    /\ call \in [Ops -> CallPhases]
    /\ charge \in [Ops -> Nat]
    /\ stale \in [Ops -> BOOLEAN]
    /\ rowLock \in [Ops -> Ops \union Sweepers \union {Null}]
    /\ walletLock \in [Orgs -> Granters \union {Null}]
    /\ sweep \in [Sweepers -> [todo : SUBSET Ops, locked : Ops \union {Null}]]
    /\ grant \in [Granters -> [phase : {"idle", "locked", "counted"}, org : Orgs,
                               subject : Subjects, count : Nat] \union {Null}]
    /\ faults \in 0..MaxFaults

Init ==
    /\ balance = [g \in Orgs |-> 0]
    /\ sequence = [g \in Orgs |-> 0]
    /\ ledger = [k \in Keys |-> Null]
    /\ usage = [o \in Ops |-> Null]
    /\ call = [o \in Ops |-> "new"]
    /\ charge = [o \in Ops |-> 0]
    /\ stale = [o \in Ops |-> FALSE]
    /\ rowLock = [o \in Ops |-> Null]
    /\ walletLock = [g \in Orgs |-> Null]
    /\ sweep = [s \in Sweepers |-> [todo |-> {}, locked |-> Null]]
    /\ grant = [q \in Granters |-> Null]
    /\ faults = 0

Fault       == faults < MaxFaults /\ faults' = faults + 1
Posted(k)   == ledger[k] # Null
Reserved(o) == Posted(Op(o)) /\ ledger[Op(o)].type = "reservation"

-----------------------------------------------------------------------------
(* Wallet and ledger writes *)

\* UPDATE credit_wallet waits for whoever locked the row.
Writable(org, who) == walletLock[org] \in {Null, who}

MoveBalance(org, delta) ==
    /\ balance' = [balance EXCEPT ![org] = @ + delta]
    /\ sequence' = [sequence EXCEPT ![org] = @ + 1]

\* An entry as it stands once MoveBalance(org, delta) has been applied; its
\* own delta differs when it replaces a reservation.
EntryAfter(org, type, moved, delta) ==
    [org |-> org, type |-> type, delta |-> delta,
     after |-> balance[org] + moved, seq |-> sequence[org] + 1]

\* appendSqliteLedgerEntry, appendPostgresLedgerEntry: the insert does nothing
\* when the idempotency key is taken, and then neither does the rest.
Append(key, org, type, delta) ==
    IF Posted(key)
    THEN UNCHANGED <<balance, sequence, ledger>>
    ELSE /\ MoveBalance(org, delta)
         /\ ledger' = [ledger EXCEPT ![key] = EntryAfter(org, type, delta, delta)]

-----------------------------------------------------------------------------
(* Money coming in *)

\* issueCreditPurchase and issueBackofficeCreditTopUp, called again whenever a
\* webhook or a request is delivered again.
IssueCredit(c, org) ==
    /\ Writable(org, Null)
    /\ Append(<<"credit", c>>, org, "credit", CreditAmount)
    /\ UNCHANGED <<usage, callers, rowLock, walletLock, sweep, grant, faults>>

\* Variant: ensurePostgresWallet without FOR UPDATE.
GrantWithoutLock(q, org, u) ==
    /\ grant[q] = Null
    /\ grant' = [grant EXCEPT ![q] = [phase |-> "locked", org |-> org, subject |-> u, count |-> 0]]
    /\ UNCHANGED <<money, callers, rowLock, walletLock, sweep, faults>>

\* issueCreditGrant: lock the wallet, count the grants it has, append one more.
GrantLock(q, org, u) ==
    /\ grant[q] = Null
    /\ walletLock[org] = Null
    /\ walletLock' = [walletLock EXCEPT ![org] = q]
    /\ grant' = [grant EXCEPT ![q] = [phase |-> "locked", org |-> org, subject |-> u, count |-> 0]]
    /\ UNCHANGED <<money, callers, rowLock, sweep, faults>>

Grants(org) == {u \in Subjects : Posted(<<"grant", u>>) /\ ledger[<<"grant", u>>].org = org}

GrantCount(q) ==
    /\ grant[q] # Null
    /\ grant[q].phase = "locked"
    /\ grant' = [grant EXCEPT ![q].phase = "counted",
                              ![q].count = Cardinality(Grants(grant[q].org))]
    /\ UNCHANGED <<money, callers, rowLock, walletLock, sweep, faults>>

EndGrant(q) ==
    /\ grant' = [grant EXCEPT ![q] = Null]
    /\ walletLock' = [g \in Orgs |-> IF walletLock[g] = q THEN Null ELSE walletLock[g]]

GrantCommit(q) ==
    /\ grant[q] # Null
    /\ grant[q].phase = "counted"
    /\ Writable(grant[q].org, q)
    /\ IF grant[q].count >= MaxGrants
       THEN UNCHANGED <<balance, sequence, ledger>>
       ELSE Append(<<"grant", grant[q].subject>>, grant[q].org, "grant", GrantAmount)
    /\ EndGrant(q)
    /\ UNCHANGED <<usage, callers, rowLock, sweep, faults>>

\* The process dies or the statement fails: the transaction rolls back.
GrantAbort(q) ==
    /\ Fault
    /\ grant[q] # Null
    /\ EndGrant(q)
    /\ UNCHANGED <<money, callers, rowLock, sweep>>

-----------------------------------------------------------------------------
(* A managed model call: wrapGenerate, wrapStream and meterStream *)

\* UPDATE credit_wallet ... WHERE balance_micro_usd >= amount.
Covers(org, amount) == balance[org] >= amount

\* prepareCall: take the reservation out of the balance, if it covers it.
Reserve(o, amount) ==
    LET org == OrgOf[o] IN
    /\ call[o] = "new"
    /\ Writable(org, Null)
    /\ IF Covers(org, amount)
       THEN /\ MoveBalance(org, -amount)
            /\ ledger' = [ledger EXCEPT ![Op(o)] =
                             EntryAfter(org, "reservation", -amount, -amount)]
            /\ call' = [call EXCEPT ![o] = "calling"]
       ELSE /\ call' = [call EXCEPT ![o] = "exhausted"]
            /\ UNCHANGED <<balance, sequence, ledger>>
    /\ UNCHANGED <<usage, charge, stale, rowLock, walletLock, sweep, grant, faults>>

\* The call ends, is aborted or fails, and its usage is recorded: the
\* settlement transaction starts and finds no usage of this operation.
StartSettling(o, cost) ==
    /\ call[o] = "calling"
    /\ call' = [call EXCEPT ![o] = IF usage[o] = Null THEN "settling" ELSE "done"]
    /\ charge' = [charge EXCEPT ![o] = cost]
    /\ UNCHANGED <<money, stale, rowLock, walletLock, sweep, grant, faults>>

\* Variant: the reservation is read without FOR UPDATE.
SettleWithoutLock(o) ==
    /\ call[o] = "settling"
    /\ call' = [call EXCEPT ![o] = IF Reserved(o) THEN "locked" ELSE "lost"]
    /\ UNCHANGED <<money, charge, stale, rowLock, walletLock, sweep, grant, faults>>

\* SELECT ... WHERE entry_type = 'reservation' FOR UPDATE: once the lock is
\* free, a reservation that was released meanwhile is not found and the
\* settlement throws.
SettleLock(o) ==
    /\ call[o] = "settling"
    /\ rowLock[o] = Null
    /\ IF Reserved(o)
       THEN /\ call' = [call EXCEPT ![o] = "locked"]
            /\ rowLock' = [rowLock EXCEPT ![o] = o]
       ELSE /\ call' = [call EXCEPT ![o] = "lost"]
            /\ UNCHANGED rowLock
    /\ UNCHANGED <<money, charge, stale, walletLock, sweep, grant, faults>>

\* Variant: the wallet is charged but the reservation is not given back.
SettledMoveWithoutReturn(o) == -charge[o]

\* What settling moves: the reservation comes back, the charge goes.
SettledMove(o) == -ledger[Op(o)].delta - charge[o]

\* settledReservation: the reservation entry becomes the usage entry.
SettledEntry(o) == EntryAfter(OrgOf[o], "usage", SettledMove(o), -charge[o])

\* Record the usage, give the reservation back, charge the wallet, and turn
\* the reservation into the usage entry.
SettleCommit(o) ==
    /\ call[o] = "locked"
    /\ Writable(OrgOf[o], Null)
    /\ usage' = [usage EXCEPT ![o] = charge[o]]
    /\ MoveBalance(OrgOf[o], SettledMove(o))
    /\ ledger' = [ledger EXCEPT ![Op(o)] = SettledEntry(o)]
    /\ call' = [call EXCEPT ![o] = "done"]
    /\ rowLock' = [rowLock EXCEPT ![o] = Null]
    /\ UNCHANGED <<charge, stale, walletLock, sweep, grant, faults>>

\* The process dies, or the settlement fails and is only logged: nobody will
\* settle this operation any more.
CallLost(o) ==
    /\ Fault
    /\ call[o] \in {"calling", "settling", "locked"}
    /\ call' = [call EXCEPT ![o] = "crashed"]
    /\ rowLock' = [rowLock EXCEPT ![o] = IF @ = o THEN Null ELSE @]
    /\ UNCHANGED <<money, charge, stale, walletLock, sweep, grant>>

-----------------------------------------------------------------------------
(* The lifecycle job: releaseStaleManagedAiCreditReservations *)

\* A day passes for a reservation, whether or not its call still runs.
BecomeStale(o) ==
    /\ Reserved(o)
    /\ ~stale[o]
    /\ stale' = [stale EXCEPT ![o] = TRUE]
    /\ UNCHANGED <<money, call, charge, rowLock, walletLock, sweep, grant, faults>>

SweepStart(s) ==
    /\ sweep[s].todo = {}
    /\ sweep[s].locked = Null
    /\ \E o \in Ops : Reserved(o) /\ stale[o]
    /\ sweep' = [sweep EXCEPT ![s].todo = {o \in Ops : Reserved(o) /\ stale[o]}]
    /\ UNCHANGED <<money, callers, rowLock, walletLock, grant, faults>>

ReleaseLock(s, o) ==
    /\ o \in sweep[s].todo
    /\ sweep[s].locked = Null
    /\ rowLock[o] = Null
    /\ IF Reserved(o)
       THEN /\ rowLock' = [rowLock EXCEPT ![o] = s]
            /\ sweep' = [sweep EXCEPT ![s] = [todo |-> @.todo \ {o}, locked |-> o]]
       ELSE /\ sweep' = [sweep EXCEPT ![s].todo = @ \ {o}]
            /\ UNCHANGED rowLock
    /\ UNCHANGED <<money, callers, walletLock, grant, faults>>

\* Append the release and mark the reservation released.
ReleaseCommit(s) ==
    LET o     == sweep[s].locked
        org   == ledger[Op(o)].org
        delta == -ledger[Op(o)].delta IN
    /\ sweep[s].locked # Null
    /\ Writable(org, Null)
    /\ IF Posted(Release(o))
       THEN UNCHANGED <<balance, sequence, ledger>>
       ELSE /\ MoveBalance(org, delta)
            /\ ledger' = [ledger EXCEPT
                 ![Release(o)] = EntryAfter(org, "adjustment", delta, delta),
                 ![Op(o)].type = "adjustment"]
    /\ rowLock' = [rowLock EXCEPT ![o] = Null]
    /\ sweep' = [sweep EXCEPT ![s].locked = Null]
    /\ UNCHANGED <<usage, callers, walletLock, grant, faults>>

SweepCrash(s) ==
    /\ Fault
    /\ sweep[s].todo # {} \/ sweep[s].locked # Null
    /\ sweep' = [sweep EXCEPT ![s] = [todo |-> {}, locked |-> Null]]
    /\ rowLock' = [o \in Ops |-> IF rowLock[o] = s THEN Null ELSE rowLock[o]]
    /\ UNCHANGED <<money, callers, walletLock, grant>>

-----------------------------------------------------------------------------
Granting(q) ==
    \/ \E org \in Orgs, u \in Subjects : GrantLock(q, org, u)
    \/ GrantCount(q) \/ GrantCommit(q) \/ GrantAbort(q)

Calling(o) ==
    \/ \E amount \in Reservations : Reserve(o, amount)
    \/ \E cost \in Charges : StartSettling(o, cost)
    \/ SettleLock(o) \/ SettleCommit(o) \/ CallLost(o) \/ BecomeStale(o)

Sweeping(s) ==
    \/ SweepStart(s)
    \/ \E o \in Ops : ReleaseLock(s, o)
    \/ ReleaseCommit(s) \/ SweepCrash(s)

Next ==
    \/ \E c \in Credits, org \in Orgs : IssueCredit(c, org)
    \/ \E q \in Granters : Granting(q)
    \/ \E o \in Ops : Calling(o)
    \/ \E s \in Sweepers : Sweeping(s)

Spec == Init /\ [][Next]_vars

\* Transactions end, the lifecycle job runs again every hour, and days pass.
\* A row that others keep locking is still given to the transaction that waits
\* for it (Postgres queues the waiters of a row lock): strong fairness.
Fairness ==
    /\ \A q \in Granters : WF_vars(GrantCount(q) \/ GrantCommit(q))
    /\ \A o \in Ops : /\ WF_vars(BecomeStale(o))
                      /\ SF_vars(SettleLock(o))
                      /\ SF_vars(SettleCommit(o))
    /\ \A s \in Sweepers : /\ WF_vars(SweepStart(s))
                           /\ \A o \in Ops : SF_vars(ReleaseLock(s, o))
                           /\ SF_vars(ReleaseCommit(s))

FairSpec == Spec /\ Fairness

-----------------------------------------------------------------------------
(* Properties *)

\* A reservation is settled or released, never both and never twice: a usage
\* exists exactly for the operations whose entry became a usage, a release
\* exactly for those whose entry was marked released.
SettledOrReleased ==
    \A o \in Ops :
        /\ usage[o] # Null <=> Posted(Op(o)) /\ ledger[Op(o)].type = "usage"
        /\ Posted(Release(o)) <=> Posted(Op(o)) /\ ledger[Op(o)].type = "adjustment"

\* The entries of a wallet.
EntriesOf(org) == {k \in Keys : Posted(k) /\ ledger[k].org = org}

\* The last movement of a wallet is in the ledger with the balance it left,
\* and no two entries of a wallet carry the same transaction sequence: the
\* history a customer is shown adds up to the balance.
Statement ==
    \A org \in Orgs :
        /\ sequence[org] > 0 =>
              \E k \in EntriesOf(org) : /\ ledger[k].seq = sequence[org]
                                        /\ ledger[k].after = balance[org]
        /\ \A k, m \in EntriesOf(org) : k # m => ledger[k].seq # ledger[m].seq

\* Every balance is the sum of the entries of its wallet: nothing is moved
\* without an entry, and settling rewrites the reservation by as much as it
\* moves the balance.
BalanceIsLedgerSum ==
    \A org \in Orgs : balance[org] = MapThenSumSet(LAMBDA k : ledger[k].delta, EntriesOf(org))

\* The books of every wallet are well typed and balance: the balance is the sum of
\* the ledger, and the ledger shows it after the last movement.
BooksBalance == TypeOK /\ Statement /\ BalanceIsLedgerSum

\* issueCreditGrant never grants a wallet more often than its policy allows,
\* though it counts in one statement and appends in another.
GrantLimit == \A org \in Orgs : Cardinality(Grants(org)) <= MaxGrants

\* As long as no call costs more than it reserved, no wallet is overdrawn, by
\* any interleaving of reservations, settlements and releases.
NoOverdraft ==
    (\A cost \in Charges, amount \in Reservations : cost <= amount)
        => \A org \in Orgs : balance[org] >= 0

\* What a wallet is given and what it can spend are limited, though both limits
\* are read and used in transactions that wait for each other's locks.
LimitsKept == GrantLimit /\ NoOverdraft

\* The reservation of a call that nobody will settle comes back to the wallet.
LostReservationsReturn ==
    \A o \in Ops : (call[o] = "crashed" /\ Reserved(o)) ~> ~Reserved(o)
=============================================================================
