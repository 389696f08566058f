------------------------------ MODULE MockBank -------------------------------
(***************************************************************************)
(* The mock bank application (mock_bank_app/main.py, data.py) as its       *)
(* clients see it: which page answers a request, and the handler of the    *)
(* POST that creates a sub-account.  The handlers are plain functions,     *)
(* which run in threads of their own and take no lock: two POSTs interleave *)
(* at every read and write of what they share.                             *)
(***************************************************************************)
EXTENDS Naturals

CONSTANT Post  \* POSTs that may be sent

VARIABLES posts,    \* where the handler of each POST is
          issued,   \* what it has read of the counter, in the end its id
          seq,      \* next_sub_account_seq, counted from 0
          accounts, \* tenant.sub_accounts: a dict by id
          crossed   \* POSTs that took their id while another one did (history)

bankVars == <<posts, issued, seq, accounts, crossed>>

ErrorPages == {"notfound", "denied", "expired"}
Pages == {"blank", "search", "detail", "form", "confirm"} \cup ErrorPages

Init ==
    /\ posts = [p \in Post |-> "none"]
    /\ issued = [p \in Post |-> 0]
    /\ seq = 0
    /\ accounts = <<>>
    /\ crossed = {}

\* member_detail.  "9403" is the restricted member, "0000" is nobody.
MemberPage(status, inject) ==
    IF inject = "timeout" THEN "expired"
    ELSE IF inject = "notfound" \/ status = "unknown" THEN "notfound"
    ELSE IF inject = "permission" \/ status = "restricted" THEN "denied"
    ELSE "detail"

\* create_sub_account, its first lines: the member is looked up, then the form
\* is validated (any status of the member will do).
Refused(status, valid) == status = "unknown" \/ ~valid

\* The request reaches the application.
Send(p) == posts' = [posts EXCEPT ![p] = "sent"] /\ UNCHANGED <<issued, seq, accounts, crossed>>

\* 404, or 422 with the form.
Refuse(p, status, valid) ==
    /\ posts[p] = "sent" /\ Refused(status, valid)
    /\ posts' = [posts EXCEPT ![p] = "refused"]
    /\ UNCHANGED <<issued, seq, accounts, crossed>>

\* next_sub_account_id reads the counter, writes it one higher, and reads it
\* again; other handlers may do the same in between.
Numbering == {"read", "bumped"}
Others(p) == {q \in Post \ {p} : posts[q] \in Numbering}

ReadSeq(p, status, valid) ==
    /\ posts[p] = "sent" /\ ~Refused(status, valid)
    /\ issued' = [issued EXCEPT ![p] = seq]
    /\ posts' = [posts EXCEPT ![p] = "read"]
    /\ crossed' = crossed \cup Others(p) \cup {q \in {p} : Others(p) # {}}
    /\ UNCHANGED <<seq, accounts>>

\* Mutant: the counter is not advanced.
WriteSame(p) ==
    /\ posts[p] = "read"
    /\ seq' = issued[p]
    /\ posts' = [posts EXCEPT ![p] = "bumped"]
    /\ UNCHANGED <<issued, accounts, crossed>>

WriteSeq(p) ==
    /\ posts[p] = "read"
    /\ seq' = issued[p] + 1
    /\ posts' = [posts EXCEPT ![p] = "bumped"]
    /\ UNCHANGED <<issued, accounts, crossed>>

TakeId(p) ==
    /\ posts[p] = "bumped"
    /\ issued' = [issued EXCEPT ![p] = seq]
    /\ posts' = [posts EXCEPT ![p] = "numbered"]
    /\ UNCHANGED <<seq, accounts, crossed>>

\* The sub-account is stored under its id, and the confirmation rendered.
Store(p) ==
    /\ posts[p] = "numbered"
    /\ accounts' = [i \in DOMAIN accounts \cup {issued[p]} |->
                        IF i = issued[p] THEN p ELSE accounts[i]]
    /\ posts' = [posts EXCEPT ![p] = "stored"]
    /\ UNCHANGED <<issued, seq, crossed>>

Handle(p, status, valid) ==
    Refuse(p, status, valid) \/ ReadSeq(p, status, valid) \/ WriteSeq(p) \/ TakeId(p) \/ Store(p)

\* The page that answers a POST whose handler has ended.
PostPage(p, status) ==
    IF posts[p] = "stored" THEN "confirm"
    ELSE IF status = "unknown" THEN "notfound" ELSE "form"
=============================================================================
