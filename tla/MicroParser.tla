----------------------------- MODULE MicroParser -----------------------------
(***************************************************************************)
(* What the Zalo bot reads in a message (ZaloBotMicroParser): amounts, and *)
(* whether the message enters, changes or takes back a transaction.  A     *)
(* message is what the patterns and dictionaries find in it.               *)
(***************************************************************************)
EXTENDS Naturals, Sequences, SequencesExt

CONSTANT None

(***************************************************************************)
(* Amounts.  A token is runs of digits with separators between them, and a *)
(* unit; a separator behind the last digit is followed by an empty run.    *)
(***************************************************************************)
Multiplier == [k |-> 1000, tr |-> 1000000, vnd |-> 1, none |-> 1]

Digits(value, length) == [value |-> value, length |-> length]
Joined(runs) == FoldLeft(LAMBDA n, run : n * 10 ^ run.length + run.value, 0, runs)
Times(separator, token) == Len(SelectSeq(token.separators, LAMBDA s : s = separator))

\* Math.round of a decimal number with its unit.
Rounded(whole, fraction, unit) ==
    whole * Multiplier[unit]
      + ((2 * fraction.value * Multiplier[unit]) \div 10 ^ fraction.length + 1) \div 2

\* parseFloat ends at a second kind of separator, but the length of what is
\* behind a point is taken with it.
Mixed(token) ==
    LET runs == token.runs
        behind == runs[2].length + 1 + runs[3].length IN
    IF token.separators[1] = "," THEN runs[1].value * Multiplier[token.unit]
    ELSE IF behind = 3 /\ Multiplier[token.unit] = 1 THEN Joined(SubSeq(runs, 1, 2))
    ELSE Rounded(runs[1].value, runs[2], token.unit)

\* Three digits behind the only separator, and no unit of thousands or
\* millions: it groups thousands.
Single(token) ==
    IF token.runs[2].length = 3 /\ Multiplier[token.unit] = 1 THEN Joined(token.runs)
    ELSE Rounded(token.runs[1].value, token.runs[2], token.unit)

ParseAmount(token) ==
    IF Times(".", token) > 1 \/ Times(",", token) > 1
    THEN Joined(token.runs) * Multiplier[token.unit]
    ELSE CASE Len(token.separators) = 0 -> token.runs[1].value * Multiplier[token.unit]
           [] Len(token.separators) = 1 -> Single(token)
           [] OTHER -> Mixed(token)

\* An amount as formatMoney shows it.
FormatMoney(n) ==
    LET group(i) == (n \div 1000 ^ i) % 1000
        groups == IF n < 1000 THEN 1 ELSE IF n < 1000000 THEN 2 ELSE 3
        first == n \div 1000 ^ (groups - 1) IN
    [runs |-> [i \in 1 .. groups |->
                 IF i = 1 THEN Digits(first, IF first < 10 THEN 1 ELSE IF first < 100 THEN 2 ELSE 3)
                 ELSE Digits(group(groups - i), 3)],
     separators |-> [i \in 1 .. groups - 1 |-> "."],
     unit |-> "none"]

\* What the bot shows, it reads as the same amount; and a decimal number of
\* thousands or millions is read as such (formatMoney, parseAmount).
AmountAgrees(token, n) == ParseAmount(token) = n

-----------------------------------------------------------------------------
(***************************************************************************)
(* Wallets and categories, and the phrases that stand for them.  Messages  *)
(* and phrases are sequences of words.                                     *)
(***************************************************************************)
WalletWord == "vi"
Generic == {"tien", "an"}

\* Where a phrase is, and where it is behind the word for a wallet.
Places(words, phrase) ==
    {i \in 1 .. Len(words) - Len(phrase) + 1 : SubSeq(words, i, i + Len(phrase) - 1) = phrase}
Behind(words, phrase) == {i \in Places(words, phrase) : i > 1 /\ words[i - 1] = WalletWord}

Without(words, from, to) == SubSeq(words, 1, from - 1) \o SubSeq(words, to + 1, Len(words))
LongestFirst(found) == SortSeq(found, LAMBDA a, b : Len(a.phrase) > Len(b.phrase))

\* extractWallet: a name behind the word for a wallet, a name alone, and the
\* default wallet if nothing was said of a wallet.
ExtractWallet(words, wallets, default) ==
    LET sorted == LongestFirst(wallets)
        behind == SelectSeq(sorted, LAMBDA w : Behind(words, w.phrase) # {})
        alone == SelectSeq(sorted, LAMBDA w : Places(words, w.phrase) # {}
                                                /\ w.phrase \notin {<<g>> : g \in Generic})
        at(s) == CHOOSE i \in s : \A j \in s : i <= j
    IN IF behind # <<>>
       THEN LET i == at(Behind(words, Head(behind).phrase)) IN
            [wallet |-> Head(behind).id,
             rest |-> Without(words, i - 1, i + Len(Head(behind).phrase) - 1)]
       ELSE IF alone # <<>>
       THEN LET i == at(Places(words, Head(alone).phrase)) IN
            [wallet |-> Head(alone).id, rest |-> Without(words, i, i + Len(Head(alone).phrase) - 1)]
       ELSE IF \E i \in 1 .. Len(words) - 1 : words[i] = WalletWord
       THEN [wallet |-> None, rest |-> words]
       ELSE [wallet |-> default, rest |-> words]

\* extractCategory among the categories of the type, or among all when the
\* user has none of it: by name, and by the words for system categories.
ExtractCategory(words, type, categories) ==
    LET strict == SelectSeq(categories, LAMBDA c : c.type = type)
        compatible == IF strict # <<>> THEN strict ELSE categories
        in(c) == Places(words, c.phrase) # {}
        names == SelectSeq(LongestFirst(SelectSeq(compatible, LAMBDA c : c.by = "name")), in)
        synonyms == SelectSeq(LongestFirst(SelectSeq(compatible, LAMBDA c : c.by = "synonym")), in)
    IN IF names # <<>> THEN Head(names).id
       ELSE IF synonyms # <<>> THEN Head(synonyms).id ELSE None

\* What parseMutation enters, or None.
Entry(words, type, wallets, default, categories) ==
    LET found == ExtractWallet(words, wallets, default)
        category == ExtractCategory(found.rest, type, categories) IN
    IF found.wallet = None \/ category = None THEN None
    ELSE [wallet |-> found.wallet, category |-> category]

\* What is entered is charged to a wallet that is named behind the word for a
\* wallet if there is one, and not to the default wallet when a wallet is
\* meant that the user does not have; its category is of its type, if the
\* user has any of it, and is named apart from the wallet.
EntryAgrees(words, type, wallets, default, categories, entry) ==
    entry # None =>
        /\ \A i \in DOMAIN wallets : Behind(words, wallets[i].phrase) # {} =>
             \E j \in DOMAIN wallets : wallets[j].id = entry.wallet
                                        /\ Behind(words, wallets[j].phrase) # {}
        /\ (\E i \in 1 .. Len(words) - 1 : words[i] = WalletWord) =>
             \E j \in DOMAIN wallets : wallets[j].id = entry.wallet
                                        /\ Places(words, wallets[j].phrase) # {}
        /\ \E j \in DOMAIN categories :
             /\ categories[j].id = entry.category
             /\ Places(words, categories[j].phrase) # {}
             /\ categories[j].type = type
                  \/ \A i \in DOMAIN categories : categories[i].type # type

-----------------------------------------------------------------------------
(***************************************************************************)
(* Intents.  A message is a record: undo (its words ask to take back),     *)
(* edits (it has a word for changing), finds (what the patterns for        *)
(* changes find), bare (it is an amount and nothing else), type (it names  *)
(* another type), amount, wallet ("named", "unknown" or None) and category *)
(* (a category of its type is found).                                      *)
(***************************************************************************)
\* tryParseDelta; the type is looked for when nothing else is found.
Delta(message, isQuoteReply) ==
    LET found == message.finds \cup
                   {f \in {"amount"} : isQuoteReply /\ message.bare /\ "amount" \notin message.finds}
    IN IF found = {} /\ message.edits /\ message.type THEN {"type"} ELSE found

\* parseMutation: what is missing is asked for.
Mutation(message, hasWallet) ==
    IF ~message.amount THEN "ask amount"
    ELSE IF message.wallet = "unknown" \/ (message.wallet = None /\ ~hasWallet) THEN "ask wallet"
    ELSE IF ~message.category THEN "ask category"
    ELSE "create"

\* ZaloBotMicroParser.parse with the transaction of the conversation, if any.
Intent(message, last, isQuoteReply, hasWallet) ==
    IF message.undo THEN (IF last = None THEN "ask amount" ELSE "undo")
    ELSE IF last # None /\ (isQuoteReply \/ message.edits) /\ Delta(message, isQuoteReply) # {}
    THEN "patch"
    ELSE Mutation(message, hasWallet)
=============================================================================
