------------------------------ MODULE ZaloChat -------------------------------
(***************************************************************************)
(* Entering transactions in a Zalo chat: the webhook of the Zalo bot, the  *)
(* dispatcher and ZaloBotFastEntryService.  Zalo delivers a message once   *)
(* or more; each delivery is handled on its own, after it was answered.    *)
(* Conversations and handled messages are kept in the cache.               *)
(***************************************************************************)
EXTENDS Naturals, FiniteSets, MicroParser

CONSTANTS
    Members,            \* users the chat may be linked to
    Messages,           \* numbers, as they are sent
    Templates,          \* what messages say
    Rows,               \* numbers of transactions
    Handlers,           \* numbers of deliveries that are handled at one time
    MaxDelivered,
    MaxEvents           \* bound on failures, expiries and what the app does

VARIABLES
    linked,             \* the user of the chat
    message,            \* messages: what they say and quote
    delivered,          \* deliveries so far
    dedup,              \* zalo:dedup: messages that were taken up
    handler,            \* deliveries that are handled
    row,                \* transactions: user and message they are from
    context,            \* zalo:ctx: the transaction a plain message is about
    rowOf,              \* zalo:msg_tx: message, or reply to one, to transaction
    replied,            \* messages whose reply names a transaction
    acted,              \* transactions a message created or changed
    last,               \* the transaction the chat created or changed last
    twice,              \* messages that two deliveries took up at a time, or an
                        \* hour apart
    mixed,              \* two handlers were at work, or one did not end
    strayed,            \* a transaction was changed that was not meant
    events

chatVars == <<linked, message, delivered, dedup, handler, row, context, rowOf, replied, acted,
              last, twice, mixed, strayed, events>>

Ids == Messages \X {"user", "bot"}
Exists(t) == row[t] # None /\ ~row[t].deleted

Written == [user : Members, from : Messages, deleted : BOOLEAN]
Said == [says : Templates, quotes : Ids \cup {None}]

\* A delivery by what is done with it next.
Taken == [step : {"mark"}, message : Messages]
Parsing == [step : {"parse"}, message : Messages, user : Members]
Doing ==
    [step : {"create", "change", "save", "clear", "map", "map reply"},
     intent : {"create", "patch", "undo"}, message : Messages, user : Members,
     row : Rows \cup {None}]
Working == Taken \cup Parsing \cup Doing

TypeOKChat ==
    /\ linked \in Members \cup {None} /\ context \in Rows \cup {None}
    /\ message \in [Messages -> Said \cup {None}]
    /\ handler \in [Handlers -> Working \cup {None}]
    /\ row \in [Rows -> Written \cup {None}] /\ rowOf \in [Ids -> Rows \cup {None}]
    /\ acted \in [Messages -> SUBSET Rows] /\ last \in Rows \cup {None}
    /\ dedup \cup replied \cup twice \subseteq Messages
    /\ mixed \in BOOLEAN /\ strayed \in BOOLEAN

InitChat ==
    /\ linked \in Members
    /\ message = [m \in Messages |-> None] /\ delivered = 0 /\ dedup = {}
    /\ handler = [h \in Handlers |-> None]
    /\ row = [t \in Rows |-> None]
    /\ context = None /\ rowOf = [id \in Ids |-> None] /\ replied = {}
    /\ acted = [m \in Messages |-> {}] /\ last = None
    /\ twice = {} /\ mixed = FALSE /\ strayed = FALSE /\ events = 0

-----------------------------------------------------------------------------
Event == events < MaxEvents /\ events' = events + 1
First(s) == CHOOSE x \in s : \A y \in s : x <= y
At(step) == {h \in Handlers : handler[h] # None /\ handler[h].step = step}
Goes(h, step) == handler' = [handler EXCEPT ![h].step = step]
Ends(h) == handler' = [handler EXCEPT ![h] = None]

\* A message may quote another one, or the reply to it.
Quotable(m) == {None} \cup ({n \in Messages \ {m} : message[n] # None} \X {"user"})
                      \cup ((replied \ {m}) \X {"bot"})

\* processWebhook up to the look for the message in the cache.
Deliver(h, m) ==
    /\ handler[h] = None /\ \A g \in Handlers : g < h => handler[g] # None
    /\ delivered < MaxDelivered /\ delivered' = delivered + 1
    /\ \A n \in Messages : n < m => message[n] # None
    /\ IF message[m] # None THEN UNCHANGED message
       ELSE \E says \in Templates, quotes \in Quotable(m) :
              message' = [message EXCEPT ![m] = [says |-> says, quotes |-> quotes]]
    /\ handler' = IF m \in dedup THEN handler
                  ELSE [handler EXCEPT ![h] = [step |-> "mark", message |-> m]]
    /\ mixed' = (mixed \/ (m \notin dedup /\ \E g \in Handlers : handler[g] # None))
    /\ UNCHANGED <<linked, dedup, row, context, rowOf, replied, acted, last, twice, strayed, events>>

\* The message counts as handled before it is; dispatch then asks who the
\* chat is linked to (findLinkedUser), and tells a chat without user how to
\* link.
Mark(h) ==
    /\ h \in At("mark")
    /\ LET m == handler[h].message IN
       /\ dedup' = dedup \cup {m}
       /\ twice' = IF m \in dedup THEN twice \cup {m} ELSE twice
       /\ handler' = [handler EXCEPT ![h] =
            IF linked = None THEN None ELSE [step |-> "parse", message |-> m, user |-> linked]]
    /\ UNCHANGED <<linked, message, delivered, row, context, rowOf, replied, acted, last, mixed,
                   strayed, events>>

\* Not the code: a quote that nothing is known of is about the conversation.
QuotedOrLast(quotes) == IF quotes # None /\ rowOf[quotes] # None THEN rowOf[quotes] ELSE context
\* resolveConversationContext: a quote is about what it quotes, or nothing.
Conversation(quotes) == IF quotes # None THEN rowOf[quotes] ELSE context

\* getTransactionWithDetails: a transaction of the user.
Own(t, u) == Exists(t) /\ row[t].user = u

\* handleMessage up to the intent, and up to getTransactionWithDetails;
\* changes without a transaction to change are answered.
Parse(h) ==
    /\ h \in At("parse")
    /\ LET m == handler[h].message
           u == handler[h].user
           quotes == message[m].quotes
           about == Conversation(quotes)
           intent == Intent(message[m].says, about, quotes # None, TRUE) IN
       handler' = [handler EXCEPT ![h] =
         IF intent \notin {"create", "patch", "undo"} THEN None
         ELSE IF intent # "create" /\ ~Own(about, u) THEN None
         ELSE [step |-> IF intent = "create" THEN "create" ELSE "change", intent |-> intent,
               message |-> m, user |-> u, row |-> about]]
    /\ UNCHANGED <<linked, message, delivered, dedup, row, context, rowOf, replied, acted, last,
                   twice, mixed, strayed, events>>

\* executeCreate: TransactionService.create, which may refuse; ...
Create(h) ==
    /\ h \in At("create")
    /\ \/ LET m == handler[h].message
               t == First({x \in Rows : row[x] = None}) IN
            /\ \E x \in Rows : row[x] = None
            /\ row' = [row EXCEPT ![t] = [user |-> handler[h].user, from |-> m, deleted |-> FALSE]]
            /\ handler' = [handler EXCEPT ![h] = [@ EXCEPT !.step = "save", !.row = t]]
            /\ acted' = [acted EXCEPT ![m] = @ \cup {t}] /\ last' = t
       \/ Ends(h) /\ UNCHANGED <<row, acted, last>>
    /\ UNCHANGED <<linked, message, delivered, dedup, context, rowOf, replied, twice, mixed,
                   strayed, events>>

\* What a message is about: what the message it quotes created or changed,
\* and else the last transaction, if messages were handled one by one.
Meant(m) ==
    IF message[m].quotes # None THEN acted[message[m].quotes[1]]
    ELSE IF mixed THEN Rows ELSE {last}

\* executePatch and executeUndo: the transaction service refuses when the
\* transaction is gone.
ChangeRow(h) ==
    /\ h \in At("change")
    /\ LET t == handler[h].row
           m == handler[h].message
           patch == handler[h].intent = "patch" IN
       \/ /\ Exists(t)
          /\ row' = [row EXCEPT ![t].deleted = ~patch]
          /\ Goes(h, IF patch THEN "save" ELSE "clear")
          /\ strayed' = (strayed \/ t \notin Meant(m) \/ row[t].user # handler[h].user)
          /\ acted' = IF patch THEN [acted EXCEPT ![m] = @ \cup {t}] ELSE acted
          /\ last' = IF patch THEN t ELSE None
       \/ /\ Ends(h) /\ UNCHANGED <<row, strayed, acted, last>>
    /\ UNCHANGED <<linked, message, delivered, dedup, context, rowOf, replied, twice, mixed, events>>

\* saveContext; before it, executeCreate reads wallet and budget.
SaveContext(h) ==
    /\ h \in At("save")
    /\ context' = handler[h].row /\ Goes(h, "map")
    /\ UNCHANGED <<linked, message, delivered, dedup, row, rowOf, replied, acted, last, twice,
                   mixed, strayed, events>>

\* clearContext, whatever the conversation is about by now.
ClearContext(h) ==
    /\ h \in At("clear")
    /\ context' = None /\ Ends(h)
    /\ UNCHANGED <<linked, message, delivered, dedup, row, rowOf, replied, acted, last, twice,
                   mixed, strayed, events>>

\* handleMessage: the message stands for the transaction, and so does the
\* reply when Zalo has taken it.
MapMessage(h) ==
    /\ h \in At("map")
    /\ LET m == handler[h].message IN
       /\ rowOf' = [rowOf EXCEPT ![<<m, "user">>] = handler[h].row]
       /\ \/ replied' = replied \cup {m} /\ Goes(h, "map reply") /\ UNCHANGED <<events, mixed>>
          \/ Event /\ Ends(h) /\ mixed' = TRUE /\ UNCHANGED replied
    /\ UNCHANGED <<linked, message, delivered, dedup, row, context, acted, last, twice, strayed>>

MapReply(h) ==
    /\ h \in At("map reply")
    /\ rowOf' = [rowOf EXCEPT ![<<handler[h].message, "bot">>] = handler[h].row]
    /\ Ends(h)
    /\ UNCHANGED <<linked, message, delivered, dedup, row, context, replied, acted, last, twice,
                   mixed, strayed, events>>

\* A read, the cache or Zalo fails: the user is told that it failed, also
\* when the transaction is written; nothing is tried again.
Fail(h) ==
    /\ handler[h] # None /\ handler[h].step \in {"save", "clear", "map"}
    /\ Event
    /\ Ends(h) /\ mixed' = TRUE
    /\ UNCHANGED <<linked, message, delivered, dedup, row, context, rowOf, replied, acted, last,
                   twice, strayed>>

\* The process ends, and its deliveries were all answered.
CrashChat ==
    /\ Event
    /\ \E h \in Handlers : handler[h] # None
    /\ handler' = [h \in Handlers |-> None] /\ mixed' = TRUE
    /\ UNCHANGED <<linked, message, delivered, dedup, row, context, rowOf, replied, acted, last,
                   twice, strayed>>

-----------------------------------------------------------------------------
\* Times to live of the cache: a quarter of an hour, an hour and a day.
ExpireContext ==
    /\ Event /\ context # None /\ context' = None
    /\ UNCHANGED <<linked, message, delivered, dedup, handler, row, rowOf, replied, acted, last,
                   twice, mixed, strayed>>

Forget(m) ==
    /\ Event /\ m \in dedup /\ dedup' = dedup \ {m} /\ twice' = twice \cup {m}
    /\ UNCHANGED <<linked, message, delivered, handler, row, context, rowOf, replied, acted, last,
                   mixed, strayed>>

ExpireReply(id) ==
    /\ Event /\ rowOf[id] # None /\ rowOf' = [rowOf EXCEPT ![id] = None]
    /\ UNCHANGED <<linked, message, delivered, dedup, handler, row, context, replied, acted, last,
                   twice, mixed, strayed>>

\* The app: the chat is linked again, a transaction is deleted.
Relink ==
    /\ Event /\ linked' \in (Members \cup {None}) \ {linked}
    /\ UNCHANGED <<message, delivered, dedup, handler, row, context, rowOf, replied, acted, last,
                   twice, mixed, strayed>>

DeleteRow(t) ==
    /\ Event /\ Exists(t) /\ row' = [row EXCEPT ![t].deleted = TRUE]
    /\ UNCHANGED <<linked, message, delivered, dedup, handler, context, rowOf, replied, acted, last,
                   twice, mixed, strayed>>

NextChat ==
    \/ \E h \in Handlers, m \in Messages : Deliver(h, m)
    \/ \E h \in Handlers :
         \/ Mark(h) \/ Parse(h) \/ Create(h) \/ ChangeRow(h)
         \/ SaveContext(h) \/ ClearContext(h) \/ MapMessage(h) \/ MapReply(h)
         \/ Fail(h)
    \/ CrashChat \/ ExpireContext \/ Relink
    \/ \E m \in Messages : Forget(m)
    \/ \E id \in Ids : ExpireReply(id)
    \/ \E t \in Rows : DeleteRow(t)

-----------------------------------------------------------------------------
\* A message enters one transaction at most, however often it is delivered,
\* unless two deliveries took it up at the same time or an hour apart
\* (processWebhook).
EnteredOnce ==
    \A m \in Messages : m \in twice
        \/ Cardinality({t \in Rows : row[t] # None /\ row[t].from = m}) <= 1

\* A message that quotes changes what the quoted message or reply was about,
\* and another message the transaction that the chat was last about; nobody
\* changes what belongs to a user that the chat was linked to before
\* (resolveConversationContext, executePatch, executeUndo).
ChangesWhatIsMeant == ~strayed
=============================================================================
