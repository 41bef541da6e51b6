-------------------------------- MODULE Backup --------------------------------
(***************************************************************************)
(* Export of an account into a file and import of the file.  An export     *)
(* reads each table with a query of its own, while the account is in use.  *)
(* An import runs in one transaction: it maps the wallets and categories   *)
(* of the file to existing or new ones, then adds the transactions and     *)
(* transfers whose keys are not there.  Wallets and categories are known   *)
(* by their names, which are unique in an account.  A transaction is what  *)
(* its key says (day, amount, type, text) with a wallet and a category.    *)
(* Encryption and checksum of the file are left out: a file whose check    *)
(* fails is refused before anything is read from it.                       *)
(***************************************************************************)
EXTENDS Naturals, Sequences, SequencesExt, FiniteSets, FiniteSetsExt

CONSTANTS
    Owners,             \* accounts
    System,             \* the categories of the system
    Own,                \* names of categories of an account
    Keys,               \* what transactions are about
    Fresh,              \* names of wallets a user gives
    MaxOwned,           \* bound on the transactions of an account
    MaxPlans,           \* bound on the budgets and goals of all accounts
    None

VARIABLES
    estate,             \* the tables of an account
    exporting,          \* the tables an export has read, and of whom
    file,               \* the file of the last export that ended
    torn,               \* the account was written to while it was exported
    imported,           \* the last import of an account, while nothing followed
    spare               \* writes of users left

backupVars == <<estate, exporting, file, torn, imported, spare>>

Tables == {"wallets", "categories", "transactions", "transfers", "plans"}

Empty ==
    [wallets |-> <<>>, categories |-> <<>>, transactions |-> <<>>, transfers |-> {}, plans |-> 0]

Names(rows) == {rows[i].name : i \in DOMAIN rows}
RowOf(rows, n) == rows[CHOOSE i \in DOMAIN rows : rows[i].name = n]
Active(rows) == SelectSeq(rows, LAMBDA r : ~r.isArchived)
Standard(rows) == SelectSeq(Active(rows), LAMBDA r : r.type = "STANDARD")

TypeOKBackup ==
    /\ \A u \in Owners :
        /\ Cardinality(Names(estate[u].wallets)) = Len(estate[u].wallets)
        /\ Cardinality(Names(estate[u].categories)) = Len(estate[u].categories)
        /\ \A t \in Range(estate[u].transactions) :
            t.wallet \in Names(estate[u].wallets)
              /\ t.category \in System \cup Names(estate[u].categories)
        /\ \A t \in estate[u].transfers :
            t.from # t.to /\ {t.from, t.to} \subseteq Names(estate[u].wallets)
        /\ \A c \in Range(estate[u].categories) : c.parent \in {None} \cup (Own \ {c.name})
    /\ exporting # None => exporting.of \in Owners /\ exporting.left \subseteq Tables

InitBackup(start) ==
    /\ estate = [u \in Owners |-> start[u].tables] /\ spare = [u \in Owners |-> start[u].writes]
    /\ exporting = None /\ file = None /\ torn = FALSE
    /\ imported = [u \in Owners |-> None]

-----------------------------------------------------------------------------
(***************************************************************************)
(* The account is used.                                                    *)
(***************************************************************************)
Written(u, tables) ==
    /\ spare[u] > 0 /\ spare' = [spare EXCEPT ![u] = @ - 1]
    /\ estate' = [estate EXCEPT ![u] = tables]
    /\ imported' = [imported EXCEPT ![u] = None]
    /\ torn' = (torn \/ (exporting # None /\ exporting.of = u))
    /\ UNCHANGED <<exporting, file>>

WithRow(rows, n, row) == [i \in DOMAIN rows |-> IF rows[i].name = n THEN row ELSE rows[i]]

Record(u) ==
    \E w \in Range(Standard(estate[u].wallets)), k \in Keys,
       c \in System \cup Names(Active(estate[u].categories)) :
        /\ Len(estate[u].transactions) < MaxOwned
        /\ Written(u, [estate[u] EXCEPT
             !.transactions = Append(@, [wallet |-> w.name, key |-> k, category |-> c]),
             !.wallets = WithRow(@, w.name, [w EXCEPT !.balance = @ + 1])])

Move(u) ==
    \E v, w \in Range(Standard(estate[u].wallets)), k \in Keys :
        /\ v # w /\ v.balance > 0
        /\ Written(u, [estate[u] EXCEPT
             !.transfers = @ \cup {[from |-> v.name, to |-> w.name, key |-> k]},
             !.wallets = WithRow(WithRow(@, v.name, [v EXCEPT !.balance = @ - 1]),
                                 w.name, [w EXCEPT !.balance = @ + 1])])

NewWallet(u) ==
    \E n \in Fresh, type \in {"STANDARD", "SAVINGS_ACCOUNT"} :
        /\ n \notin Names(estate[u].wallets)
        /\ Written(u, [estate[u] EXCEPT !.wallets = Append(@,
             [name |-> n, balance |-> 1, type |-> type, isArchived |-> FALSE,
              isDefault |-> Active(@) = <<>>])])

Archive(u) ==
    \/ \E w \in Range(Standard(estate[u].wallets)) :
         ~w.isDefault /\ Written(u, [estate[u] EXCEPT
             !.wallets = WithRow(@, w.name, [w EXCEPT !.isArchived = TRUE])])
    \/ \E c \in Range(Active(estate[u].categories)) :
         /\ \A d \in Range(estate[u].categories) : d.parent # c.name
         /\ Written(u, [estate[u] EXCEPT
             !.categories = WithRow(@, c.name, [c EXCEPT !.isArchived = TRUE])])

-----------------------------------------------------------------------------
(***************************************************************************)
(* exportBackup: six queries that run side by side.                        *)
(***************************************************************************)
BeginExport(u) ==
    /\ exporting = None /\ file = None
    /\ exporting' = [of |-> u, left |-> Tables, tables |-> Empty]
    /\ UNCHANGED <<estate, file, torn, imported, spare>>

ReadTable(t) ==
    /\ exporting # None /\ t \in exporting.left
    /\ exporting' = [exporting EXCEPT !.left = @ \ {t},
                                      !.tables = [@ EXCEPT ![t] = estate[exporting.of][t]]]
    /\ UNCHANGED <<estate, file, torn, imported, spare>>

EndExport ==
    /\ exporting # None /\ exporting.left = {}
    /\ file' = exporting.tables /\ exporting' = None
    /\ UNCHANGED <<estate, torn, imported, spare>>

-----------------------------------------------------------------------------
(***************************************************************************)
(* importBackup.  A resolution says of a wallet of the file: merge it into *)
(* a wallet, or create it under a name; without one it is merged into the  *)
(* active wallet of its name.                                              *)
(***************************************************************************)
Resolutions(u) ==
    {None} \cup [action : {"MERGE"}, name : Names(Standard(estate[u].wallets))]
           \cup [action : {"CREATE_NEW"}, name : Names(file.wallets)]

Suffixed(name, taken) ==
    IF name \notin taken THEN name
    ELSE CHOOSE n \in {Append(name, k) : k \in 1 .. Cardinality(taken) + 1} :
           n \notin taken /\ \A k \in 1 .. Last(n) - 1 : Append(name, k) \in taken

\* One wallet of the file; state.map says where its transactions go.
TakeWallet(old, mode, state, w, r) ==
    LET known == Names(Standard(old))
        target == IF r = None THEN w.name ELSE r.name
        merges == IF r = None THEN w.name \in known ELSE r.action = "MERGE"
        name == Suffixed(target, state.taken)
        new == [name |-> name, balance |-> w.balance, type |-> "STANDARD",
                isArchived |-> w.isArchived,
                isDefault |-> w.isDefault \/ (known = {} /\ state.created = {})] IN
    IF merges
    THEN [state EXCEPT
            !.map = [@ EXCEPT ![w.name] = target],
            !.rows = IF r = None \/ mode # "ACCUMULATE" THEN @
                     ELSE WithRow(@, target,
                            [RowOf(@, target) EXCEPT !.balance = @ + w.balance])]
    ELSE [state EXCEPT
            !.map = [@ EXCEPT ![w.name] = name],
            !.rows = Append(@, new), !.created = @ \cup {name}, !.taken = @ \cup {name},
            !.refused = @ \/ name \in Names(old)]

TakeWallets(old, mode, resolution) ==
    FoldLeft(LAMBDA state, w : TakeWallet(old, mode, state, w, resolution[w.name]),
             [map |-> [n \in Names(file.wallets) |-> None], rows |-> old, created |-> {},
              taken |-> Names(Standard(old)), refused |-> FALSE],
             file.wallets)

\* Roots first, then the others in their order: a parent that comes later,
\* or is not in the file, is lost.
TakeCategory(state, c) ==
    LET parent == IF c.parent \in state.mapped THEN c.parent ELSE None IN
    IF c.name \in Names(Active(state.rows)) THEN [state EXCEPT !.mapped = @ \cup {c.name}]
    ELSE [state EXCEPT
            !.rows = Append(@, [c EXCEPT !.parent = parent]), !.mapped = @ \cup {c.name},
            !.refused = @ \/ c.name \in Names(state.rows)]

TakeCategories(old) ==
    FoldLeft(TakeCategory, [rows |-> old, mapped |-> {}, refused |-> FALSE],
             SelectSeq(file.categories, LAMBDA c : c.parent = None)
               \o SelectSeq(file.categories, LAMBDA c : c.parent # None))

KeyOf(t) == <<t.wallet, t.key>>

\* Not the code: only the transactions of the file are compared.
AmongImported(old, rows, t) ==
    \A i \in DOMAIN rows : i > Len(old) => KeyOf(rows[i]) # KeyOf(t)

\* No transaction of the account, or imported before it, has the key.
IsNew(old, rows, t) == \A i \in DOMAIN rows : KeyOf(rows[i]) # KeyOf(t)

TakeTransaction(old, rows, t, map, mapped) ==
    LET wallet == IF t.wallet \in DOMAIN map THEN map[t.wallet] ELSE None
        new == [t EXCEPT !.wallet = wallet] IN
    IF wallet = None \/ t.category \notin mapped \/ ~IsNew(old, rows, new)
    THEN rows ELSE Append(rows, new)

TakeTransactions(old, map, mapped) ==
    FoldLeft(LAMBDA rows, t : TakeTransaction(old, rows, t, map, mapped), old, file.transactions)

TakeTransfers(old, map) ==
    old \cup {t \in {[x EXCEPT !.from = map[x.from], !.to = map[x.to]] :
                       x \in {y \in file.transfers : {y.from, y.to} \subseteq DOMAIN map}} :
                t.from # t.to}

Import(u, mode, resolution) ==
    LET old == estate[u]
        w == TakeWallets(old.wallets, mode, resolution)
        c == TakeCategories(old.categories) IN
    /\ ~w.refused /\ ~c.refused
    /\ estate' = [estate EXCEPT ![u] =
         [wallets |-> w.rows, categories |-> c.rows,
          transactions |-> TakeTransactions(old.transactions, w.map, c.mapped),
          transfers |-> TakeTransfers(old.transfers, w.map),
          plans |-> old.plans + file.plans]]
    /\ imported' = [imported EXCEPT ![u] =
         [before |-> old, mode |-> mode, resolution |-> resolution, created |-> w.created,
          again |-> imported[u] # None /\ imported[u].resolution = resolution]]
    /\ UNCHANGED <<exporting, file, torn, spare>>

\* What previewBackup shows: the wallets and categories an import adds.
PreviewedWallets(tables) == Names(file.wallets) \ Names(Standard(tables.wallets))
PreviewedCategories(tables) ==
    Names(file.categories) \ Names(Active(tables.categories))

NextBackup ==
    \/ \E u \in Owners : Record(u) \/ Move(u) \/ NewWallet(u) \/ Archive(u) \/ BeginExport(u)
    \/ \E t \in Tables : ReadTable(t)
    \/ EndExport
    \/ /\ file # None
       /\ file.plans + MapThenSumSet(LAMBDA u : estate[u].plans, Owners) <= MaxPlans
       /\ \E u \in Owners, mode \in {"ACCUMULATE", "MAINTAIN_CURRENT"},
             resolution \in [Names(file.wallets) -> UNION {Resolutions(v) : v \in Owners}] :
            /\ \A n \in Names(file.wallets) : resolution[n] \in Resolutions(u)
            /\ Import(u, mode, resolution)

-----------------------------------------------------------------------------
Plain(i) == \A n \in DOMAIN i.resolution : i.resolution[n] = None
Money(rows) == FoldLeft(LAMBDA n, r : n + r.balance, 0, rows)

\* An import adds and takes nothing away: rows stay, and the money of the
\* account grows by that of the wallets that are created or accumulated.
AddsToAccount(i, tables) ==
    /\ Names(i.before.wallets) \subseteq Names(tables.wallets)
    /\ IsPrefix(i.before.transactions, tables.transactions)
    /\ i.before.transfers \subseteq tables.transfers
    /\ LET counted == SelectSeq(file.wallets, LAMBDA w :
             \/ i.resolution[w.name] # None /\ i.resolution[w.name].action = "CREATE_NEW"
             \/ i.resolution[w.name] # None /\ i.mode = "ACCUMULATE"
             \/ i.resolution[w.name] = None /\ w.name \in i.created)
       IN Money(tables.wallets) = Money(i.before.wallets) + Money(counted)

\* Into an account that has nothing, a file that was read while nobody wrote
\* brings all wallets with their balances and every transaction of the
\* account's own categories, the repeated ones once.
RestoresAccount(i, tables) ==
    i.before = Empty /\ Plain(i) /\ ~torn =>
        /\ {[w EXCEPT !.type = "STANDARD", !.isDefault = TRUE] : w \in Range(file.wallets)}
             = {[w EXCEPT !.isDefault = TRUE] : w \in Range(tables.wallets)}
        /\ Names(tables.categories) = Names(file.categories)
        /\ {KeyOf(t) : t \in Range(tables.transactions)}
             = {KeyOf(t) : t \in {x \in Range(file.transactions) : x.category \notin System}}
        /\ tables.transfers = file.transfers

\* The file that was imported last is imported again: nothing but the
\* budgets and goals is added.
AgainAddsNothing(i, tables) ==
    i.again /\ Plain(i) => tables = [i.before EXCEPT !.plans = tables.plans]

\* The preview named the wallets and categories that are new.
PreviewTellsImport(i, tables) ==
    Plain(i) =>
        /\ PreviewedWallets(i.before) = Names(tables.wallets) \ Names(i.before.wallets)
        /\ PreviewedCategories(i.before) = Names(tables.categories) \ Names(i.before.categories)

\* A backup that goes through gives the account back and spoils no other:
\* see AddsToAccount, RestoresAccount, AgainAddsNothing, PreviewTellsImport
\* (importBackup, previewBackup).
BackupsAddUp ==
    \A u \in Owners : imported[u] # None =>
        /\ AddsToAccount(imported[u], estate[u])
        /\ RestoresAccount(imported[u], estate[u])
        /\ AgainAddsNothing(imported[u], estate[u])
        /\ PreviewTellsImport(imported[u], estate[u])
=============================================================================
