-------------------------------- MODULE Files --------------------------------
(***************************************************************************)
(* What is kept outside the database.  A receipt is a file in the object   *)
(* store whose key is in the row of its transaction: it is saved before    *)
(* the row refers to it and removed after the row no longer does, each by  *)
(* a call of its own that may fail (transaction.service.ts,                *)
(* receipt-file.service.ts).  Old entries of the audit log are written     *)
(* into an archive file and then deleted in chunks                         *)
(* (audit-log-archive.service.ts), by the notification worker and by       *)
(* administrators, with no lock between them.                              *)
(*                                                                         *)
(* Abstracted: the contents and types of files, receipts on the disk from  *)
(* before there was a store, the second copy of an archive in the store,   *)
(* whose upload may fail without consequence, and the names of archives,   *)
(* which hold the millisecond and are taken to differ.                     *)
(***************************************************************************)
EXTENDS Naturals, FiniteSets, FiniteSetsExt

CONSTANTS
    Rows,               \* transactions of one user in one wallet
    Receipts,           \* keys of receipts
    Callers,            \* requests about receipts
    Entries,            \* entries of the audit log
    Archivers,          \* passes that archive it
    ChunkSize,          \* CHUNK_SIZE
    None

VARIABLES
    receipt,            \* the key in a row, "none" without one; None: no row
    stored,             \* the files in the store
    frozen,             \* the wallet is archived
    caller,             \* a request: what it does next, to which row, with what
    issued,             \* keys that were given out
    exported,           \* keys in backup files
    copied,             \* keys a row has from a backup file
    unheard,            \* keys whose row was written while the request saw an error
    left,               \* files no one will remove
    auditLog, old,      \* entries in the database, and those past the retention
    made,               \* all entries there ever were
    copies,             \* how many archive files hold an entry, 2 for more
    pass,               \* a pass over the audit log
    disturbed           \* two passes met, or one did not end

receiptVars == <<receipt, stored, frozen, caller, issued, exported, copied, unheard, left>>
archiveVars == <<auditLog, old, made, copies, pass, disturbed>>

Referenced == {receipt[t] : t \in Rows} \cap Receipts

TypeOKFiles ==
    /\ receipt \in [Rows -> Receipts \cup {"none", None}]
    /\ stored \subseteq issued /\ Referenced \subseteq issued
    /\ \A c \in Callers : caller[c] # None =>
          caller[c].row \in Rows /\ caller[c].key \in Receipts \cup {"none"}
    /\ auditLog \subseteq made /\ copies \in [Entries -> 0 .. 2]
    /\ \A w \in Archivers : pass[w] # None => pass[w].listed \subseteq made

InitFiles(present) ==
    /\ receipt = [t \in Rows |-> IF t \in present THEN "none" ELSE None]
    /\ stored = {} /\ frozen = FALSE /\ caller = [c \in Callers |-> None]
    /\ issued = {} /\ exported = {} /\ copied = {} /\ unheard = {} /\ left = {}
    /\ auditLog = {} /\ old = {} /\ made = {} /\ copies = [e \in Entries |-> 0]
    /\ pass = [w \in Archivers |-> None] /\ disturbed = FALSE

-----------------------------------------------------------------------------
\* Receipts.

Goes(c, step, t, key) == caller' = [caller EXCEPT ![c] = [step |-> step, row |-> t, key |-> key]]
Ends(c) == caller' = [caller EXCEPT ![c] = None]
At(c, step) == caller[c] # None /\ caller[c].step = step
KeepOthers == UNCHANGED <<frozen, exported, copied, unheard>>

\* uploadReceipt and deleteReceipt: the transaction is read, then the role.
Ask(c, t, step) ==
    /\ caller[c] = None /\ receipt[t] # None
    /\ Goes(c, step, t, "none")
    /\ UNCHANGED <<receipt, stored, issued, left>> /\ KeepOthers

\* save: a new key, and a call of the store that may do it and yet fail.
Save(c) ==
    \E k \in Receipts \ issued :
        /\ At(c, "save") /\ issued' = issued \cup {k}
        /\ \/ stored' = stored \cup {k} /\ Goes(c, "replace", caller[c].row, k) /\ UNCHANGED left
           \/ stored' = stored \cup {k} /\ left' = left \cup {k} /\ Ends(c)
           \/ UNCHANGED <<stored, left>> /\ Ends(c)
        /\ UNCHANGED receipt /\ KeepOthers

\* What a request does after replaceReceipt: the previous file is removed, or
\* the new one when there is no row, the wallet is archived or the write failed.
Discards(c, key) == IF key = "none" THEN Ends(c) ELSE Goes(c, "remove", caller[c].row, key)

Replace(c) ==
    LET t == caller[c].row
        key == caller[c].key
    IN /\ At(c, "replace")
       /\ \/ /\ receipt[t] # None /\ ~frozen
             /\ receipt' = [receipt EXCEPT ![t] = key]
             /\ Discards(c, receipt[t])
          \/ Discards(c, key) /\ UNCHANGED receipt
       /\ UNCHANGED <<stored, issued, left>> /\ KeepOthers

\* The write is committed and the connection lost before the answer.
ReplaceUnheard(c) ==
    /\ At(c, "replace") /\ receipt[caller[c].row] # None /\ ~frozen
    /\ receipt' = [receipt EXCEPT ![caller[c].row] = caller[c].key]
    /\ unheard' = unheard \cup ({caller[c].key} \cap Receipts)
    /\ left' = left \cup ({receipt[caller[c].row]} \cap Receipts)
    /\ Discards(c, caller[c].key)
    /\ UNCHANGED <<stored, issued, frozen, exported, copied>>

\* TransactionService.remove: the row is deleted, then its file.
Delete(c, t) ==
    /\ caller[c] = None /\ receipt[t] # None /\ ~frozen
    /\ receipt' = [receipt EXCEPT ![t] = None]
    /\ IF receipt[t] = "none" THEN UNCHANGED caller ELSE Goes(c, "remove", t, receipt[t])
    /\ UNCHANGED <<stored, issued, left>> /\ KeepOthers

\* remove: errors of the store are ignored.
Remove(c) ==
    /\ At(c, "remove")
    /\ \/ stored' = stored \ {caller[c].key} /\ UNCHANGED left
       \/ UNCHANGED stored /\ left' = left \cup {caller[c].key}
    /\ Ends(c)
    /\ UNCHANGED <<receipt, issued>> /\ KeepOthers

CallerDies(c) ==
    /\ caller[c] # None
    /\ left' = left \cup ({caller[c].key} \cap Receipts)
    /\ Ends(c)
    /\ UNCHANGED <<receipt, stored, issued>> /\ KeepOthers

\* archive and restore of the wallet
ToggleWallet ==
    /\ frozen' = ~frozen
    /\ UNCHANGED <<receipt, stored, caller, issued, exported, copied, unheard, left>>

\* A backup file holds the keys of receipts, not the receipts; an import writes
\* those of the user's own folder into new rows.
Export ==
    /\ exported' = exported \cup Referenced
    /\ UNCHANGED <<receipt, stored, frozen, caller, issued, copied, unheard, left>>

Import(t, k) ==
    /\ receipt[t] = None /\ k \in exported
    /\ receipt' = [receipt EXCEPT ![t] = k] /\ copied' = copied \cup {k}
    /\ UNCHANGED <<stored, frozen, caller, issued, exported, unheard, left>>

NextReceipts ==
    \/ \E c \in Callers, t \in Rows : Ask(c, t, "save") \/ Ask(c, t, "replace") \/ Delete(c, t)
    \/ \E c \in Callers :
          Save(c) \/ Replace(c) \/ ReplaceUnheard(c) \/ Remove(c) \/ CallerDies(c)
    \/ ToggleWallet \/ Export
    \/ \E t \in Rows, k \in Receipts : Import(t, k)

-----------------------------------------------------------------------------
\* The audit log.

Continues(w, step, listed, doomed) ==
    pass' = [pass EXCEPT ![w] = [step |-> step, cutoff |-> pass[w].cutoff,
                                 listed |-> listed, doomed |-> doomed]]
InPass(w, step) == pass[w] # None /\ pass[w].step = step

\* createAuditLog
Log(e) ==
    /\ e \notin made
    /\ made' = made \cup {e} /\ auditLog' = auditLog \cup {e}
    /\ UNCHANGED <<old, copies, pass, disturbed>>

Age(e) ==
    /\ e \in made \ old /\ old' = old \cup {e}
    /\ UNCHANGED <<auditLog, made, copies, pass, disturbed>>

\* archiveAndCleanup: the retention is read and the old entries are counted;
\* the second query lists them.
Count(w) ==
    /\ pass[w] = None /\ auditLog \cap old # {}
    /\ pass' = [pass EXCEPT ![w] =
           [step |-> "list", cutoff |-> old, listed |-> {}, doomed |-> {}]]
    /\ disturbed' = (disturbed \/ \E v \in Archivers : pass[v] # None)
    /\ UNCHANGED <<auditLog, old, made, copies>>

List(w) ==
    LET listed == auditLog \cap pass[w].cutoff
    IN /\ InPass(w, "list") /\ Continues(w, "write", listed, listed)
       /\ UNCHANGED <<auditLog, old, made, copies, disturbed>>

Write(w) ==
    /\ InPass(w, "write")
    /\ copies' = [e \in Entries |->
           IF e \in pass[w].listed THEN Min({copies[e] + 1, 2}) ELSE copies[e]]
    /\ Continues(w, "delete", pass[w].listed, pass[w].doomed)
    /\ UNCHANGED <<auditLog, old, made, disturbed>>

DeleteChunk(w) ==
    /\ InPass(w, "delete") /\ pass[w].doomed # {}
    /\ \E chunk \in SUBSET pass[w].doomed :
          /\ Cardinality(chunk) = Min({ChunkSize, Cardinality(pass[w].doomed)})
          /\ auditLog' = auditLog \ chunk
          /\ Continues(w, "delete", pass[w].listed, pass[w].doomed \ chunk)
    /\ UNCHANGED <<old, made, copies, disturbed>>

\* The pass is an entry of the log itself.
Report(w, e) ==
    /\ InPass(w, "delete") /\ pass[w].doomed = {} /\ e \notin made
    /\ made' = made \cup {e} /\ auditLog' = auditLog \cup {e}
    /\ pass' = [pass EXCEPT ![w] = None]
    /\ UNCHANGED <<old, copies, disturbed>>

\* An error of the disk or the database ends the pass, and so does a crash.
PassFails(w) ==
    /\ pass[w] # None
    /\ pass' = [pass EXCEPT ![w] = None] /\ disturbed' = TRUE
    /\ UNCHANGED <<auditLog, old, made, copies>>

NextArchives ==
    \/ \E e \in Entries : Log(e) \/ Age(e)
    \/ \E w \in Archivers :
          Count(w) \/ List(w) \/ Write(w) \/ DeleteChunk(w) \/ PassFails(w)
    \/ \E w \in Archivers, e \in Entries : Report(w, e)

-----------------------------------------------------------------------------
\* A row that has a receipt finds it, whatever uploads, deletions and errors
\* met; but for a key that an import copied into a second row, and for one
\* whose write was reported as an error: they may be gone.
ReceiptsAreKept == \A t \in Rows : receipt[t] \in Receipts \ (copied \cup unheard) =>
                       receipt[t] \in stored

\* A file that no row has is in the hands of a request that will remove it or
\* give it to its row, or was left behind by an error or a crash.
FilesHaveOwners ==
    stored \subseteq Referenced \cup left \cup {caller[c].key : c \in {d \in Callers : caller[d] # None}}

\* No entry of the audit log is deleted before a file holds it, and none is in
\* two files unless two passes met or one failed.
EntriesAreKept ==
    /\ \A e \in made : e \in auditLog \/ copies[e] > 0
    /\ disturbed \/ \A e \in Entries : copies[e] < 2

FilesAreKept == ReceiptsAreKept /\ FilesHaveOwners /\ EntriesAreKept
=============================================================================
