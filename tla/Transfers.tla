------------------------------ MODULE Transfers ------------------------------
(***************************************************************************)
(* The lists of transfers a TransferTransaction and a TokenAirdropTransaction *)
(* keep: how one more transfer is merged into them, how the body groups     *)
(* them by token, and how they are read back.                               *)
(***************************************************************************)
EXTENDS Integers, SequencesExt

(* doHbarTransfer: one entry for an account and approval, none where the amounts cancel out.        *)
DoHbarTransfer(hbars, t) ==
    LET i == SelectInSeq(hbars, LAMBDA h : h.account = t.account /\ h.approved = t.approved)
    IN  IF i = 0 THEN Append(hbars, t)
        ELSE IF hbars[i].amount + t.amount = 0 THEN RemoveAt(hbars, i)
        ELSE [hbars EXCEPT ![i].amount = @ + t.amount]

SameEntry(s, t) == s.token = t.token /\ s.account = t.account /\ s.approved = t.approved

(* doTokenTransfer throws when the entry it would be merged into expects other decimals.            *)
DecimalsMatch(tokens, t) == \A s \in ToSet(tokens) : SameEntry(s, t) => s.decimals = t.decimals

(* Mutant: an approved transfer is merged into one that is not.                                     *)
DoTokenTransferOfAnyApproval(tokens, t) ==
    LET i == SelectInSeq(tokens, LAMBDA s : s.token = t.token /\ s.account = t.account)
    IN  IF i = 0 THEN Append(tokens, t)
        ELSE IF tokens[i].amount + t.amount = 0 THEN RemoveAt(tokens, i)
        ELSE [tokens EXCEPT ![i].amount = @ + t.amount]

DoTokenTransfer(tokens, t) ==
    LET i == SelectInSeq(tokens, LAMBDA s : SameEntry(s, t))
    IN  IF i = 0 THEN Append(tokens, t)
        ELSE IF tokens[i].amount + t.amount = 0 THEN RemoveAt(tokens, i)
        ELSE [tokens EXCEPT ![i].amount = @ + t.amount]

(* doNftTransfer: a transfer back cancels the one there.  The tokens are not compared.              *)
DoNftTransfer(nfts, t) ==
    LET i == SelectInSeq(nfts, LAMBDA n : /\ n.serial = t.serial /\ n.approved = t.approved
                                          /\ n.sender = t.receiver /\ n.receiver = t.sender)
    IN  IF i = 0 THEN Append(nfts, t) ELSE RemoveAt(nfts, i)

-----------------------------------------------------------------------------
(* build: every transfer joins the list of its token, which is added when there is none yet, and    *)
(* writes the decimals its list expects.  The last one stays.  A token has one list, so the last    *)
(* that the code finds is the first.                                                                *)
EmptyList(token) == [token |-> token, transfers |-> <<>>, decimals |-> 0, nfts |-> <<>>]

ListOf(lists, token) == SelectInSeq(lists, LAMBDA list : list.token = token)
WithList(lists, token) ==
    IF ListOf(lists, token) = 0 THEN Append(lists, EmptyList(token)) ELSE lists

Joined(list, t) ==
    [list EXCEPT !.transfers = Append(@, [t EXCEPT !.decimals = 0]), !.decimals = t.decimals]
WithTransfer(lists, t) ==
    LET all == WithList(lists, t.token)
        i == ListOf(all, t.token)
    IN  [all EXCEPT ![i] = Joined(@, t)]

JoinedNft(list, n) == [list EXCEPT !.nfts = Append(@, n)]
WithNft(lists, n) ==
    LET all == WithList(lists, n.token)
        i == ListOf(all, n.token)
    IN  [all EXCEPT ![i] = JoinedNft(@, n)]

ListsOfTransfers(tokens) ==
    LET lists[i \in 0..Len(tokens)] ==
            IF i = 0 THEN <<>> ELSE WithTransfer(lists[i - 1], tokens[i])
    IN  lists[Len(tokens)]
TokenTransferLists(tokens, nfts) ==
    LET lists[i \in 0..Len(nfts)] ==
            IF i = 0 THEN ListsOfTransfers(tokens) ELSE WithNft(lists[i - 1], nfts[i])
    IN  lists[Len(nfts)]

(* initFromSourceTransactionBody: the entries of every list in turn.                                *)
TokensRead(lists) ==
    FlattenSeq([i \in DOMAIN lists |->
        [j \in DOMAIN lists[i].transfers |->
            [lists[i].transfers[j] EXCEPT !.decimals = lists[i].decimals]]])

NftsRead(lists) == FlattenSeq([i \in DOMAIN lists |-> lists[i].nfts])
==============================================================================
