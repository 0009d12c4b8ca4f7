------------------------------- MODULE Faucet -------------------------------
(***************************************************************************)
(* The faucet of the Ethereum client: concurrent calls of SendTokens share *)
(* a pool of signers, each guarded by a channel of capacity one (Taken),   *)
(* and hand the signer that sent a transaction to a goroutine (waitForTx)  *)
(* that frees it once the transaction has a receipt.  The chain is the     *)
(* environment: it accepts, mines and, possibly, drops transactions.       *)
(***************************************************************************)
EXTENDS Integers, FiniteSets

CONSTANTS Calls,       \* the calls of SendTokens, each made once
          Addrs,       \* the addresses of the entities
          N,           \* the number of signers of the pool
          InitFunds,   \* the balance of each signer
          Amount,      \* DefaultFaucetAmount
          Gas,         \* what a transaction costs on top of its amount
          MaxErrors,   \* bound: the calls to the Ethereum node that fail
          Drops,       \* whether the chain forgets pending transactions
          NoAddr, NoTx

Signers == 1..N

ASSUME FaucetAssumption ==
    /\ N \in Nat \ {0} /\ Amount \in Nat \ {0} /\ Gas \in Nat /\ MaxErrors \in Nat
    /\ InitFunds \in [Signers -> Nat]
    /\ Drops \in BOOLEAN
    /\ NoAddr \notin Addrs
    /\ NoTx \notin [signer : Signers, nonce : Nat, to : Addrs, by : Calls]

VARIABLES
    taken,    \* taken[s]: the channel Taken of signer s holds a value
    pc,       \* where each call is in SendTokens
    to,       \* the destination of each call
    idx,      \* the position of each call in the pool
    answer,   \* what each call returned
    wait,     \* the transaction that the waitForTx goroutine of each call polls
    funds,    \* the balance of each signer in the latest block
    balance,  \* the balance of each entity in the latest block
    nonce,    \* the transactions of each signer the node has accepted so far
    pending,  \* the transactions of the node's pool
    mined,    \* the transactions that have a receipt
    dropped,  \* the transactions the chain has forgotten
    errors,   \* how many calls to the node have failed
    unheard,  \* history: the transactions whose sender was told that sending failed
    unseen    \* history: the transactions whose signer was freed by a failing poll

chain   == <<funds, balance, nonce, pending, mined, dropped>>
history == <<errors, unheard, unseen>>
vars    == <<taken, pc, to, idx, answer, wait, chain, history>>

Tx == [signer : Signers, nonce : Nat, to : Addrs, by : Calls]

Init ==
    /\ taken = [s \in Signers |-> FALSE]
    /\ pc = [c \in Calls |-> "idle"]
    /\ to = [c \in Calls |-> NoAddr]
    /\ idx = [c \in Calls |-> 1]
    /\ answer = [c \in Calls |-> "none"]
    /\ wait = [c \in Calls |-> NoTx]
    /\ funds = InitFunds
    /\ balance = [a \in Addrs |-> 0]
    /\ nonce = [s \in Signers |-> 0]
    /\ pending = {} /\ mined = {} /\ dropped = {}
    /\ errors = 0 /\ unheard = {} /\ unseen = {}

-----------------------------------------------------------------------------
(* SendTokens *)

\* A call to the node fails, or times out.
NodeFails == errors < MaxErrors /\ errors' = errors + 1

Goto(c, step) == pc' = [pc EXCEPT ![c] = step]
Return(c, a)  == Goto(c, "done") /\ answer' = [answer EXCEPT ![c] = a]

Call(c, a) ==
    /\ pc[c] = "idle"
    /\ to' = [to EXCEPT ![c] = a]
    /\ Goto(c, "balance")
    /\ UNCHANGED <<taken, idx, answer, wait, chain, history>>

\* The balance of the destination is read once, before any signer is taken; an
\* address that has more than maxAcceptedBalance (0 for both callers) gets nothing.
CheckDestination(c) ==
    /\ pc[c] = "balance"
    /\ IF balance[to[c]] > 0 THEN Return(c, "refused")
                             ELSE Goto(c, "scan") /\ UNCHANGED answer
    /\ UNCHANGED <<taken, to, idx, wait, chain, history>>

CheckDestinationFails(c) ==
    /\ NodeFails /\ pc[c] = "balance"
    /\ Return(c, "error")
    /\ UNCHANGED <<taken, to, idx, wait, chain, unheard, unseen>>

\* select { case signer.Taken <- true: default: continue }
TakeSigner(c) ==
    /\ pc[c] = "scan" /\ idx[c] <= N
    /\ IF taken[idx[c]]
         THEN idx' = [idx EXCEPT ![c] = @ + 1] /\ UNCHANGED <<taken, pc>>
         ELSE /\ taken' = [taken EXCEPT ![idx[c]] = TRUE]
              /\ Goto(c, "funds")
              /\ UNCHANGED idx
    /\ UNCHANGED <<to, answer, wait, chain, history>>

\* Mutant: the end of the pool frees the last signer again before starting over.
SleepFreeing(c) ==
    /\ pc[c] = "scan" /\ idx[c] > N
    /\ taken' = [taken EXCEPT ![N] = FALSE]
    /\ idx' = [idx EXCEPT ![c] = 1]
    /\ UNCHANGED <<pc, to, answer, wait, chain, history>>

\* The pool is exhausted: sleep for five seconds and start over.
Sleep(c) ==
    /\ pc[c] = "scan" /\ idx[c] > N
    /\ idx' = [idx EXCEPT ![c] = 1]
    /\ UNCHANGED <<taken, pc, to, answer, wait, chain, history>>

\* Mutant: a signer that cannot be used is not freed.
NextSignerKeeping(c) ==
    /\ idx' = [idx EXCEPT ![c] = @ + 1]
    /\ Goto(c, "scan")
    /\ UNCHANGED <<taken, to, answer, wait>>

\* <-signer.Taken; continue
NextSigner(c) ==
    /\ taken' = [taken EXCEPT ![idx[c]] = FALSE]
    /\ idx' = [idx EXCEPT ![c] = @ + 1]
    /\ Goto(c, "scan")
    /\ UNCHANGED <<to, answer, wait>>

\* checkEnoughBalance compares with the amount only, not with the gas.
CheckSigner(c) ==
    /\ pc[c] = "funds"
    /\ IF funds[idx[c]] >= Amount
         THEN Goto(c, "send") /\ UNCHANGED <<taken, to, idx, answer, wait>>
         ELSE NextSigner(c)
    /\ UNCHANGED <<chain, history>>

\* checkEnoughBalance fails, or the nonce, the network id, or the sending, before the
\* node has the transaction.
SignerFails(c) ==
    /\ NodeFails /\ pc[c] \in {"funds", "send"}
    /\ NextSigner(c)
    /\ UNCHANGED <<chain, unheard, unseen>>

\* The node's pool takes a transaction whose signer can pay for all its pending ones.
PendingOf(s) == {t \in pending : t.signer = s}
Accepted(c)  == funds[idx[c]] >= (Cardinality(PendingOf(idx[c])) + 1) * (Amount + Gas)
NewTx(c)     == [signer |-> idx[c], nonce |-> nonce[idx[c]], to |-> to[c], by |-> c]
Pool(c)      == /\ pending' = pending \cup {NewTx(c)}
                /\ nonce' = [nonce EXCEPT ![idx[c]] = @ + 1]
                /\ UNCHANGED <<funds, balance, mined, dropped>>

\* Mutant: go signer.waitForTx without the break out of the loop over the pool.
SendTokensNoBreak(c) ==
    /\ pc[c] = "send"
    /\ IF Accepted(c)
         THEN /\ Pool(c)
              /\ wait' = [wait EXCEPT ![c] = NewTx(c)]
              /\ idx' = [idx EXCEPT ![c] = @ + 1]
              /\ IF idx[c] = N THEN Return(c, "ok") ELSE Goto(c, "scan") /\ UNCHANGED answer
              /\ UNCHANGED <<taken, to>>
         ELSE NextSigner(c) /\ UNCHANGED chain
    /\ UNCHANGED history

\* The transaction is sent, waitForTx is started with the signer, and the call ends.
SendTransaction(c) ==
    /\ pc[c] = "send"
    /\ IF Accepted(c)
         THEN /\ Pool(c)
              /\ wait' = [wait EXCEPT ![c] = NewTx(c)]
              /\ Return(c, "ok")
              /\ UNCHANGED <<taken, to, idx>>
         ELSE NextSigner(c) /\ UNCHANGED chain
    /\ UNCHANGED history

\* The node took the transaction but its answer is lost: the next signer is tried.
SendUnknown(c) ==
    /\ NodeFails /\ pc[c] = "send" /\ Accepted(c)
    /\ Pool(c) /\ NextSigner(c)
    /\ unheard' = unheard \cup {NewTx(c)}
    /\ UNCHANGED unseen

-----------------------------------------------------------------------------
(* waitForTx: it polls while the receipt is NotFound and frees the signer  *)
(* on any other outcome.                                                   *)

Free(c) == /\ taken' = [taken EXCEPT ![wait[c].signer] = FALSE]
           /\ wait' = [wait EXCEPT ![c] = NoTx]
           /\ UNCHANGED <<pc, to, idx, answer, chain>>

\* Mutant: a NotFound receipt frees the signer too.
ReceiptOrNotFound(c) == wait[c] # NoTx /\ Free(c) /\ UNCHANGED history

\* Mutant: the goroutine returns without freeing the signer.
ReceiptKeepsSigner(c) ==
    /\ wait[c] # NoTx /\ wait[c] \in mined
    /\ wait' = [wait EXCEPT ![c] = NoTx]
    /\ UNCHANGED <<taken, pc, to, idx, answer, chain, history>>

Receipt(c) == wait[c] # NoTx /\ wait[c] \in mined /\ Free(c) /\ UNCHANGED history

ReceiptFails(c) ==
    /\ NodeFails /\ wait[c] # NoTx
    /\ Free(c)
    /\ unseen' = unseen \cup {wait[c]}
    /\ UNCHANGED unheard

-----------------------------------------------------------------------------
(* The chain (environment) *)

Mine(t) ==
    /\ t \in pending
    /\ pending' = pending \ {t}
    /\ mined' = mined \cup {t}
    /\ funds' = [funds EXCEPT ![t.signer] = @ - (Amount + Gas)]
    /\ balance' = [balance EXCEPT ![t.to] = @ + Amount]
    /\ UNCHANGED <<taken, pc, to, idx, answer, wait, nonce, dropped, history>>

Drop(t) ==
    /\ Drops /\ t \in pending
    /\ pending' = pending \ {t}
    /\ dropped' = dropped \cup {t}
    /\ UNCHANGED <<funds, balance, nonce, mined, taken, pc, to, idx, answer, wait, history>>

-----------------------------------------------------------------------------
Step(c) == \/ CheckDestination(c) \/ TakeSigner(c) \/ Sleep(c)
           \/ CheckSigner(c) \/ SendTransaction(c)

Fault(c) == CheckDestinationFails(c) \/ SignerFails(c) \/ SendUnknown(c) \/ ReceiptFails(c)

Next == \/ \E c \in Calls : \/ \E a \in Addrs : Call(c, a)
                            \/ Step(c) \/ Receipt(c) \/ Fault(c)
        \/ \E t \in pending : Mine(t) \/ Drop(t)

Spec == Init /\ [][Next]_vars

\* Goroutines that can run do run, and a transaction that stays in the pool is mined.
FairSpec == /\ Spec
            /\ \A c \in Calls : WF_vars(Step(c)) /\ WF_vars(Receipt(c))
            /\ WF_vars(\E t \in pending : Mine(t))

-----------------------------------------------------------------------------
(* Properties *)

\* The type of every variable.
TypeOK ==
    /\ taken \in [Signers -> BOOLEAN]
    /\ pc \in [Calls -> {"idle", "balance", "scan", "funds", "send", "done"}]
    /\ to \in [Calls -> Addrs \cup {NoAddr}]
    /\ \A c \in Calls : pc[c] # "idle" => to[c] \in Addrs
    /\ idx \in [Calls -> 1..(N + 1)]
    /\ \A c \in Calls : pc[c] \in {"funds", "send"} => idx[c] \in Signers
    /\ answer \in [Calls -> {"none", "ok", "refused", "error"}]
    /\ wait \in [Calls -> Tx \cup {NoTx}]
    /\ funds \in [Signers -> Int]
    /\ balance \in [Addrs -> Nat] /\ nonce \in [Signers -> Nat]
    /\ \A set \in {pending, mined, dropped, unheard, unseen} : set \subseteq Tx
    /\ errors \in 0..MaxErrors

\* Call c, or the goroutine it started, is between taking signer s and freeing it.
Holds(c, s) == \/ pc[c] \in {"funds", "send"} /\ idx[c] = s
               \/ wait[c] # NoTx /\ wait[c].signer = s

\* The channel Taken is a lock: a signer has at most one user at any time, counting the
\* goroutine that waits for its transaction; it is marked taken exactly while it has
\* one, so no error path frees it twice, frees the signer of another, or keeps it.
SignerExclusive ==
    \A s \in Signers :
        /\ taken[s] <=> \E c \in Calls : Holds(c, s)
        /\ \A c, d \in Calls : Holds(c, s) /\ Holds(d, s) => c = d

\* A signer has two transactions in the pool, so that a nonce is used before the previous
\* one is settled, only after an error of the node: of two pending transactions of one
\* signer, all but the last were reported as not sent or had a failing poll.
OnePendingPerSigner ==
    \A t, u \in pending :
        t.signer = u.signer /\ t.nonce < u.nonce => t \in unheard \cup unseen

\* A call that returned ok has made one transaction and any other call none, however often
\* it went round the pool, except for transactions the node took and reported as failed.
OneTxPerCall ==
    \A c \in Calls :
        Cardinality({t \in (pending \cup mined \cup dropped) \ unheard : t.by = c})
            = IF answer[c] = "ok" THEN 1 ELSE 0

\* The goroutine that has signer s waits for a transaction that will have no receipt.
Stuck(s) == \E c \in Calls : /\ wait[c] # NoTx /\ wait[c].signer = s
                             /\ wait[c] \in dropped

Exhausted == \A s \in Signers : funds[s] < Amount + Gas \/ Stuck(s)

\* Once the node stops failing every call returns, and none goes round the pool for
\* ever, unless every signer is out of funds or was lost to a dropped transaction.
EveryCallReturns ==
    \A c \in Calls : pc[c] = "balance" ~> (pc[c] = "done" \/ []Exhausted)

\* Nothing but a dropped transaction keeps a signer taken for ever.
FreedUnlessDropped == \A s \in Signers : taken[s] ~> (~taken[s] \/ Stuck(s))

\* A signer that was taken is free again later (waitForTx: "if not found after waiting
\* free the signer").
SignersFreed == \A s \in Signers : taken[s] ~> ~taken[s]
=============================================================================
