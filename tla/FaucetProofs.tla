---------------------------- MODULE FaucetProofs ----------------------------
(***************************************************************************)
(* The safety of Faucet, for any number of signers, calls and failures of  *)
(* the node, and whether or not the chain drops transactions.              *)
(***************************************************************************)
EXTENDS Faucet, FiniteSetTheorems, TLAPS

-----------------------------------------------------------------------------
(* The inductive invariant *)

Made     == pending \cup mined \cup dropped
Heard(c) == {t \in Made \ unheard : t.by = c}

\* A call hands its signer over: while it is inside SendTokens no goroutine of its own
\* is waiting, and it has no answer yet.
HandOver ==
    \A c \in Calls : /\ wait[c] # NoTx => pc[c] = "done"
                     /\ pc[c] # "done" => answer[c] = "none"

\* The nonces of a signer are handed out once; what was mined is no longer pending; and a
\* pending transaction that was neither reported as failed nor lost by a failing poll
\* still has the goroutine that waits for it.
ChainInv ==
    /\ \A t \in Made : t.nonce < nonce[t.signer]
    /\ pending \cap mined = {}
    /\ unheard \subseteq Made
    /\ \A t \in pending : t \in unheard \cup unseen \/ \E c \in Calls : wait[c] = t

\* What a call has made and heard of, as a set.
HeardInv ==
    \A c \in Calls : IF answer[c] = "ok" THEN \E t \in Heard(c) : Heard(c) = {t}
                     ELSE Heard(c) = {}

FaucetInv == /\ TypeOK /\ HandOver /\ SignerExclusive
             /\ ChainInv /\ OnePendingPerSigner /\ HeardInv
-----------------------------------------------------------------------------
(* Preservation, one lemma per part of the invariant *)

\* A transaction sent by a call that has a signer is well formed.
LEMMA NewTxType ==
    ASSUME TypeOK, NEW c \in Calls, pc[c] = "send"
    PROVE  NewTx(c) \in Tx /\ idx[c] \in Signers
BY DEF TypeOK, NewTx, Tx, Signers

\* The part of the types about the calls, and the part about the node and the chain.
CallsOK ==
    /\ taken \in [Signers -> BOOLEAN]
    /\ pc \in [Calls -> {"idle", "balance", "scan", "funds", "send", "done"}]
    /\ to \in [Calls -> Addrs \cup {NoAddr}]
    /\ \A c \in Calls : pc[c] # "idle" => to[c] \in Addrs
    /\ idx \in [Calls -> 1..(N + 1)]
    /\ \A c \in Calls : pc[c] \in {"funds", "send"} => idx[c] \in Signers
    /\ answer \in [Calls -> {"none", "ok", "refused", "error"}]
    /\ wait \in [Calls -> Tx \cup {NoTx}]

NodeOK ==
    /\ funds \in [Signers -> Int]
    /\ balance \in [Addrs -> Nat] /\ nonce \in [Signers -> Nat]
    /\ \A set \in {pending, mined, dropped, unheard, unseen} : set \subseteq Tx
    /\ errors \in 0..MaxErrors

LEMMA TypeParts == TypeOK <=> CallsOK /\ NodeOK
BY DEF TypeOK, CallsOK, NodeOK

LEMMA TypePartsPrime == TypeOK' <=> CallsOK' /\ NodeOK'
BY DEF TypeOK, CallsOK, NodeOK

\* Giving up a signer and going on with the next one keeps the types.
LEMMA NextSignerType ==
    ASSUME CallsOK, NEW c \in Calls, pc[c] \in {"funds", "send"}, NextSigner(c)
    PROVE  CallsOK'
<1>1. idx[c] \in 1..N /\ idx[c] + 1 \in 1..(N + 1)
  BY FaucetAssumption DEF CallsOK, Signers
<1>2. idx' \in [Calls -> 1..(N + 1)] /\ \A d \in Calls : d # c => idx'[d] = idx[d]
  BY <1>1 DEF CallsOK, NextSigner
<1>3. pc'[c] = "scan" /\ \A d \in Calls : d # c => pc'[d] = pc[d]
  BY DEF CallsOK, NextSigner, Goto
<1> QED
  BY <1>1, <1>2, <1>3 DEF CallsOK, NextSigner, Goto

\* Every step of SendTokens, of waitForTx and of the chain keeps the types.
LEMMA TypeNext == ASSUME TypeOK, [Next]_vars PROVE TypeOK'
<1> USE FaucetAssumption DEF chain, history
<1>0. CallsOK /\ NodeOK
  BY TypeParts
<1> USE <1>0
<1>1. ASSUME NEW c \in Calls, NEW a \in Addrs, Call(c, a) PROVE TypeOK'
  BY <1>1 DEF Call, Goto, TypeOK
<1>2. ASSUME NEW c \in Calls, CheckDestination(c) PROVE TypeOK'
  BY <1>2 DEF CheckDestination, Goto, Return, TypeOK
<1>3. ASSUME NEW c \in Calls, CheckDestinationFails(c) PROVE TypeOK'
  BY <1>3 DEF CheckDestinationFails, NodeFails, Goto, Return, TypeOK
<1>4. ASSUME NEW c \in Calls, TakeSigner(c) PROVE TypeOK'
  <2>1. idx[c] \in Signers /\ idx[c] + 1 \in 1..(N + 1)
    BY <1>4 DEF TakeSigner, CallsOK, Signers
  <2>2. NodeOK'
    BY <1>4 DEF TakeSigner, NodeOK
  <2>3. CASE taken[idx[c]]
    <3>1. pc[c] = "scan" /\ idx' = [idx EXCEPT ![c] = @ + 1]
          /\ UNCHANGED <<taken, pc, to, answer, wait>>
      BY <1>4, <2>3 DEF TakeSigner
    <3> QED
      BY <2>1, <2>2, <3>1, TypePartsPrime DEF CallsOK
  <2>4. CASE ~taken[idx[c]]
    <3>1. taken' = [taken EXCEPT ![idx[c]] = TRUE] /\ pc' = [pc EXCEPT ![c] = "funds"]
          /\ pc[c] = "scan" /\ UNCHANGED <<idx, to, answer, wait>>
      BY <1>4, <2>4 DEF TakeSigner, Goto
    <3> QED
      BY <2>1, <2>2, <3>1, TypePartsPrime DEF CallsOK
  <2> QED
    BY <2>3, <2>4
<1>5. ASSUME NEW c \in Calls, Sleep(c) PROVE TypeOK'
  <2>1. pc[c] = "scan" /\ idx' = [idx EXCEPT ![c] = 1] /\ NodeOK'
        /\ UNCHANGED <<taken, pc, to, answer, wait>>
    BY <1>5 DEF Sleep, NodeOK
  <2>2. 1 \in 1..(N + 1)
    OBVIOUS
  <2> QED
    BY <2>1, <2>2, TypePartsPrime DEF CallsOK
<1>6. ASSUME NEW c \in Calls, CheckSigner(c) PROVE TypeOK'
  <2>1. NodeOK'
    BY <1>6 DEF CheckSigner, NodeOK
  <2>2. CASE funds[idx[c]] >= Amount
    BY <1>6, <2>1, <2>2, TypePartsPrime DEF CheckSigner, Goto, CallsOK
  <2>3. CASE ~(funds[idx[c]] >= Amount)
    BY <1>6, <2>1, <2>3, NextSignerType, TypePartsPrime DEF CheckSigner
  <2> QED
    BY <2>2, <2>3
<1>7. ASSUME NEW c \in Calls, SendTransaction(c) PROVE TypeOK'
  <2>1. NewTx(c) \in Tx /\ idx[c] \in Signers /\ pc[c] = "send"
    BY <1>7, NewTxType DEF SendTransaction
  <2>2. CASE Accepted(c)
    <3>1. NodeOK'
      BY <1>7, <2>1, <2>2 DEF SendTransaction, Pool, NodeOK
    <3>2. CallsOK'
      BY <1>7, <2>1, <2>2 DEF SendTransaction, Goto, Return, CallsOK
    <3> QED
      BY <3>1, <3>2, TypePartsPrime
  <2>3. CASE ~Accepted(c)
    BY <1>7, <2>1, <2>3, NextSignerType, TypePartsPrime DEF SendTransaction, NodeOK
  <2> QED
    BY <2>2, <2>3
<1>8. ASSUME NEW c \in Calls, SignerFails(c) PROVE TypeOK'
  <2>1. NodeOK'
    BY <1>8 DEF SignerFails, NodeFails, NodeOK
  <2> QED
    BY <1>8, <2>1, NextSignerType, TypePartsPrime DEF SignerFails
<1>9. ASSUME NEW c \in Calls, SendUnknown(c) PROVE TypeOK'
  <2>1. NewTx(c) \in Tx /\ idx[c] \in Signers /\ pc[c] = "send"
    BY <1>9, NewTxType DEF SendUnknown
  <2>2. NodeOK'
    BY <1>9, <2>1 DEF SendUnknown, NodeFails, Pool, NodeOK
  <2> QED
    BY <1>9, <2>1, <2>2, NextSignerType, TypePartsPrime DEF SendUnknown
<1>10. ASSUME NEW c \in Calls, wait[c] # NoTx, Free(c), UNCHANGED history PROVE TypeOK'
  BY <1>10 DEF Free, TypeOK, Tx
<1>11. ASSUME NEW c \in Calls, ReceiptFails(c) PROVE TypeOK'
  BY <1>11 DEF ReceiptFails, NodeFails, Free, TypeOK, Tx
<1>12. ASSUME NEW t \in pending, Mine(t) PROVE TypeOK'
  BY <1>12 DEF Mine, TypeOK, Tx
<1>13. ASSUME NEW t \in pending, Drop(t) PROVE TypeOK'
  BY <1>13 DEF Drop, TypeOK
<1>14. CASE UNCHANGED vars
  BY <1>14 DEF vars, TypeOK
<1> QED
  BY <1>1, <1>2, <1>3, <1>4, <1>5, <1>6, <1>7, <1>8, <1>9, <1>10, <1>11, <1>12, <1>13, <1>14
  DEF Next, Step, Fault, Receipt

\* A goroutine waits only for a call that has returned, and a call inside SendTokens has
\* no answer.
LEMMA HandOverNext == ASSUME TypeOK, HandOver, [Next]_vars PROVE HandOver'
<1> USE DEF chain, history, TypeOK, HandOver, Goto, Return
<1>1. ASSUME NEW c \in Calls, NEW a \in Addrs, Call(c, a) PROVE HandOver'
  BY <1>1 DEF Call
<1>2. ASSUME NEW c \in Calls, Step(c) PROVE HandOver'
  BY <1>2 DEF Step, CheckDestination, TakeSigner, Sleep, CheckSigner, SendTransaction,
              NextSigner
<1>3. ASSUME NEW c \in Calls, Receipt(c) PROVE HandOver'
  BY <1>3 DEF Receipt, Free
<1>4. ASSUME NEW c \in Calls, Fault(c) PROVE HandOver'
  BY <1>4 DEF Fault, CheckDestinationFails, SignerFails, SendUnknown, ReceiptFails,
              NextSigner, Free
<1>5. ASSUME NEW t \in pending, Mine(t) \/ Drop(t) PROVE HandOver'
  BY <1>5 DEF Mine, Drop
<1>6. CASE UNCHANGED vars
  BY <1>6 DEF vars
<1> QED
  BY <1>1, <1>2, <1>3, <1>4, <1>5, <1>6 DEF Next

-----------------------------------------------------------------------------
(* The channel Taken as a lock.  A step leaves the holders of all signers  *)
(* alone, takes a free signer, or gives up the one the call holds.         *)

\* The step changes neither the channels nor who holds which signer.
Keeps == /\ taken' = taken
         /\ \A d \in Calls, s \in Signers : Holds(d, s)' <=> Holds(d, s)

\* Call c becomes a holder of the signer s, whose channel was empty.
Takes(c, s) ==
    /\ ~taken[s] /\ taken' = [taken EXCEPT ![s] = TRUE]
    /\ \A d \in Calls, z \in Signers : Holds(d, z)' <=> (Holds(d, z) \/ (d = c /\ z = s))

\* Call c, which holds the signer s, empties its channel and holds nothing any more.
Frees(c, s) ==
    /\ Holds(c, s) /\ taken' = [taken EXCEPT ![s] = FALSE]
    /\ \A d \in Calls, z \in Signers : Holds(d, z)' <=> (Holds(d, z) /\ d # c)

LEMMA KeepsExclusive == ASSUME SignerExclusive, Keeps PROVE SignerExclusive'
BY DEF SignerExclusive, Keeps

LEMMA TakesExclusive ==
    ASSUME TypeOK, SignerExclusive, NEW c \in Calls, NEW s \in Signers, Takes(c, s)
    PROVE  SignerExclusive'
<1>1. ASSUME NEW z \in Signers PROVE taken'[z] <=> \E d \in Calls : Holds(d, z)'
  BY <1>1 DEF SignerExclusive, Takes, TypeOK
<1>2. ASSUME NEW z \in Signers, NEW d \in Calls, NEW e \in Calls, Holds(d, z)', Holds(e, z)'
      PROVE  d = e
  BY <1>2 DEF SignerExclusive, Takes
<1> QED
  BY <1>1, <1>2 DEF SignerExclusive

LEMMA FreesExclusive ==
    ASSUME TypeOK, SignerExclusive, NEW c \in Calls, NEW s \in Signers, Frees(c, s),
           \A z \in Signers : Holds(c, z) => z = s
    PROVE  SignerExclusive'
<1>1. ASSUME NEW z \in Signers PROVE taken'[z] <=> \E d \in Calls : Holds(d, z)'
  BY <1>1 DEF SignerExclusive, Frees, TypeOK
<1>2. ASSUME NEW z \in Signers, NEW d \in Calls, NEW e \in Calls, Holds(d, z)', Holds(e, z)'
      PROVE  d = e
  BY <1>2 DEF SignerExclusive, Frees
<1> QED
  BY <1>1, <1>2 DEF SignerExclusive

\* The error paths of SendTokens give up exactly the signer the call has.
LEMMA NextSignerFrees ==
    ASSUME TypeOK, HandOver, SignerExclusive, NEW c \in Calls, pc[c] \in {"funds", "send"},
           NextSigner(c)
    PROVE  SignerExclusive'
<1>1. idx[c] \in Signers /\ wait[c] = NoTx /\ Holds(c, idx[c])
  BY DEF TypeOK, HandOver, Holds
<1>2. \A z \in Signers : Holds(c, z) => z = idx[c]
  BY <1>1 DEF Holds
<1>3. pc'[c] = "scan" /\ \A d \in Calls : d # c => pc'[d] = pc[d] /\ idx'[d] = idx[d]
  BY DEF NextSigner, Goto, TypeOK
<1>4. wait' = wait /\ taken' = [taken EXCEPT ![idx[c]] = FALSE]
  BY DEF NextSigner
<1>5. \A d \in Calls, z \in Signers : Holds(d, z)' <=> (Holds(d, z) /\ d # c)
  BY <1>1, <1>3, <1>4 DEF Holds
<1> QED
  BY <1>1, <1>2, <1>4, <1>5, FreesExclusive DEF Frees

\* The goroutine gives up exactly the signer of the transaction it waits for.
LEMMA FreeFrees ==
    ASSUME TypeOK, HandOver, SignerExclusive, NEW c \in Calls, wait[c] # NoTx, Free(c)
    PROVE  SignerExclusive'
<1> DEFINE s == wait[c].signer
<1>1. s \in Signers /\ pc[c] = "done" /\ Holds(c, s)
  BY DEF TypeOK, HandOver, Holds, Tx
<1>2. \A z \in Signers : Holds(c, z) => z = s
  BY <1>1 DEF Holds
<1>3. wait'[c] = NoTx /\ \A d \in Calls : d # c => wait'[d] = wait[d]
  BY DEF Free, TypeOK
<1>4. pc' = pc /\ idx' = idx /\ taken' = [taken EXCEPT ![s] = FALSE]
  BY DEF Free
<1>5. \A d \in Calls, z \in Signers : Holds(d, z)' <=> (Holds(d, z) /\ d # c)
  BY <1>1, <1>3, <1>4 DEF Holds
<1> QED
  BY <1>1, <1>2, <1>4, <1>5, FreesExclusive DEF Frees

\* Every step keeps the pool of signers a set of locks.
LEMMA ExclusiveNext ==
    ASSUME TypeOK, HandOver, SignerExclusive, [Next]_vars PROVE SignerExclusive'
<1> USE DEF chain, history
<1>1. ASSUME NEW c \in Calls, NEW a \in Addrs, Call(c, a) PROVE SignerExclusive'
  BY <1>1, KeepsExclusive DEF Call, Goto, Keeps, Holds, TypeOK
<1>2. ASSUME NEW c \in Calls, CheckDestination(c) \/ CheckDestinationFails(c)
      PROVE  SignerExclusive'
  BY <1>2, KeepsExclusive DEF CheckDestination, CheckDestinationFails, Goto, Return, Keeps,
                              Holds, TypeOK
<1>3. ASSUME NEW c \in Calls, TakeSigner(c) PROVE SignerExclusive'
  <2>1. CASE taken[idx[c]]
    BY <1>3, <2>1, KeepsExclusive DEF TakeSigner, Keeps, Holds, TypeOK
  <2>2. CASE ~taken[idx[c]]
    <3>1. idx[c] \in Signers /\ wait[c] = NoTx /\ pc[c] = "scan"
      BY <1>3, FaucetAssumption DEF TakeSigner, HandOver, TypeOK, Signers
    <3>2. pc' = [pc EXCEPT ![c] = "funds"] /\ UNCHANGED <<idx, wait>>
          /\ taken' = [taken EXCEPT ![idx[c]] = TRUE]
      BY <1>3, <2>2 DEF TakeSigner, Goto
    <3>3. Takes(c, idx[c])
      BY <2>2, <3>1, <3>2 DEF Takes, Holds, TypeOK
    <3> QED
      BY <3>1, <3>3, TakesExclusive
  <2> QED
    BY <2>1, <2>2
<1>4. ASSUME NEW c \in Calls, Sleep(c) PROVE SignerExclusive'
  BY <1>4, KeepsExclusive DEF Sleep, Keeps, Holds, TypeOK
<1>5. ASSUME NEW c \in Calls, CheckSigner(c) PROVE SignerExclusive'
  <2>1. CASE funds[idx[c]] >= Amount
    BY <1>5, <2>1, KeepsExclusive DEF CheckSigner, Goto, Keeps, Holds, TypeOK
  <2>2. CASE ~(funds[idx[c]] >= Amount)
    BY <1>5, <2>2, NextSignerFrees DEF CheckSigner
  <2> QED
    BY <2>1, <2>2
<1>6. ASSUME NEW c \in Calls, SendTransaction(c) PROVE SignerExclusive'
  <2>1. CASE Accepted(c)
    <3>1. pc[c] = "send" /\ wait[c] = NoTx /\ NewTx(c).signer = idx[c]
      BY <1>6 DEF SendTransaction, HandOver, NewTx, TypeOK
    <3>2. NewTx(c) # NoTx
      BY <3>1, NewTxType, FaucetAssumption DEF Tx
    <3>3. /\ pc'[c] = "done" /\ wait'[c] = NewTx(c)
          /\ \A d \in Calls : d # c => pc'[d] = pc[d] /\ wait'[d] = wait[d]
          /\ UNCHANGED <<taken, idx>>
      BY <1>6, <2>1 DEF SendTransaction, Goto, Return, TypeOK
    <3>4. Keeps
      BY <3>1, <3>2, <3>3 DEF Keeps, Holds
    <3> QED
      BY <3>4, KeepsExclusive
  <2>2. CASE ~Accepted(c)
    BY <1>6, <2>2, NextSignerFrees DEF SendTransaction
  <2> QED
    BY <2>1, <2>2
<1>7. ASSUME NEW c \in Calls, SignerFails(c) \/ SendUnknown(c) PROVE SignerExclusive'
  BY <1>7, NextSignerFrees DEF SignerFails, SendUnknown
<1>8. ASSUME NEW c \in Calls, Receipt(c) \/ ReceiptFails(c) PROVE SignerExclusive'
  BY <1>8, FreeFrees DEF Receipt, ReceiptFails
<1>9. ASSUME NEW t \in pending, Mine(t) \/ Drop(t) PROVE SignerExclusive'
  BY <1>9, KeepsExclusive DEF Mine, Drop, Keeps, Holds
<1>10. CASE UNCHANGED vars
  BY <1>10, KeepsExclusive DEF vars, Keeps, Holds
<1> QED
  BY <1>1, <1>2, <1>3, <1>4, <1>5, <1>6, <1>7, <1>8, <1>9, <1>10 DEF Next, Step, Fault

-----------------------------------------------------------------------------
(* The transactions.  All but five actions leave them alone.               *)

TxInv == ChainInv /\ OnePendingPerSigner /\ HeardInv

\* The step makes, settles and reports no transaction.
Quiet == /\ UNCHANGED <<wait, nonce, pending, mined, dropped, unheard, unseen>>
         /\ \A c \in Calls : answer'[c] = "ok" <=> answer[c] = "ok"

LEMMA QuietTx == ASSUME TxInv, Quiet PROVE TxInv'
<1>1. Made' = Made /\ \A c \in Calls : Heard(c)' = Heard(c)
  BY DEF Quiet, Made, Heard
<1>2. ChainInv'
  BY <1>1 DEF TxInv, ChainInv, Quiet
<1>3. OnePendingPerSigner'
  BY DEF TxInv, OnePendingPerSigner, Quiet
<1>4. HeardInv'
  BY <1>1 DEF TxInv, HeardInv, Quiet
<1> QED
  BY <1>2, <1>3, <1>4 DEF TxInv

\* The transaction of a call that is about to send it has a nonce never used before, and
\* every pending transaction of the same signer was reported as failed or lost by a poll.
LEMMA FreshTx ==
    ASSUME TypeOK, HandOver, SignerExclusive, TxInv, NEW c \in Calls, pc[c] = "send"
    PROVE  /\ NewTx(c) \in Tx /\ NewTx(c) \notin Made /\ NewTx(c).by = c
           /\ NewTx(c).signer = idx[c] /\ NewTx(c).nonce = nonce[idx[c]]
           /\ \A t \in pending : t.signer = idx[c] => t \in unheard \cup unseen
<1>1. /\ NewTx(c) \in Tx /\ NewTx(c).by = c /\ NewTx(c).signer = idx[c]
      /\ NewTx(c).nonce = nonce[idx[c]] /\ idx[c] \in Signers /\ nonce[idx[c]] \in Nat
  BY NewTxType DEF NewTx, TypeOK
<1>2. NewTx(c) \notin Made
  BY <1>1 DEF TxInv, ChainInv
<1>3. ASSUME NEW t \in pending, t.signer = idx[c], t \notin unheard \cup unseen PROVE FALSE
  <2>1. PICK d \in Calls : wait[d] = t
    BY <1>3 DEF TxInv, ChainInv
  <2>2. t \in Tx /\ t # NoTx
    BY <1>3, FaucetAssumption DEF TypeOK, Tx
  <2>3. Holds(d, idx[c]) /\ Holds(c, idx[c])
    BY <1>3, <2>1, <2>2 DEF Holds
  <2>4. d = c
    BY <1>1, <2>3 DEF SignerExclusive
  <2> QED
    BY <2>1, <2>2, <2>4 DEF HandOver
<1> QED
  BY <1>1, <1>2, <1>3

\* What SendTransaction and SendUnknown have in common.
LEMMA PoolTx ==
    ASSUME TypeOK, HandOver, SignerExclusive, TxInv, NEW c \in Calls, pc[c] = "send", Pool(c)
    PROVE  /\ Made' = Made \cup {NewTx(c)}
           /\ \A t \in Made' : t.nonce < nonce'[t.signer]
           /\ pending' \cap mined' = {}
<1> DEFINE n == NewTx(c)
<1>1. /\ n \in Tx /\ n \notin Made /\ n.signer = idx[c] /\ n.nonce = nonce[idx[c]]
      /\ idx[c] \in Signers
  BY FreshTx, NewTxType
<1>2. pending' = pending \cup {n} /\ UNCHANGED <<mined, dropped>>
      /\ nonce' = [nonce EXCEPT ![idx[c]] = @ + 1]
  BY DEF Pool
<1>3. Made' = Made \cup {n}
  BY <1>2 DEF Made
<1>4. \A t \in Made : t.nonce < nonce'[t.signer]
  <2> SUFFICES ASSUME NEW t \in Made PROVE t.nonce < nonce'[t.signer]
    OBVIOUS
  <2>1. t \in Tx /\ t.signer \in Signers /\ t.nonce \in Nat /\ t.nonce < nonce[t.signer]
    BY DEF TxInv, ChainInv, Made, TypeOK, Tx
  <2> QED
    BY <1>2, <2>1 DEF TypeOK
<1>5. n.nonce < nonce'[n.signer]
  BY <1>1, <1>2 DEF TypeOK
<1>6. pending' \cap mined' = {}
  BY <1>1, <1>2 DEF TxInv, ChainInv, Made
<1> QED
  BY <1>3, <1>4, <1>5, <1>6

\* A new transaction of c joins older ones of its signer in the pool only if those were
\* reported as failed or lost by a poll.
LEMMA PoolOnePending ==
    ASSUME TypeOK, HandOver, SignerExclusive, TxInv, NEW c \in Calls, pc[c] = "send", Pool(c),
           unheard \subseteq unheard', unseen' = unseen
    PROVE  OnePendingPerSigner'
<1> DEFINE n == NewTx(c)
<1>1. /\ n \in Tx /\ n.signer = idx[c] /\ n.nonce = nonce[idx[c]]
      /\ \A t \in pending : t.signer = idx[c] => t \in unheard \cup unseen
  BY FreshTx
<1>2. pending' = pending \cup {n}
  BY DEF Pool
<1> SUFFICES ASSUME NEW t \in pending', NEW u \in pending', t.signer = u.signer,
                    t.nonce < u.nonce
             PROVE  t \in unheard' \cup unseen'
  BY DEF OnePendingPerSigner
<1>3. CASE t = n
  <2>1. u = n \/ u.nonce < nonce[u.signer]
    BY <1>2 DEF TxInv, ChainInv, Made
  <2>2. t.nonce \in Nat /\ u.nonce \in Nat
    BY <1>1, <1>2, <1>3 DEF TypeOK, Tx
  <2> QED
    BY <1>1, <1>3, <2>1, <2>2
<1>4. CASE t # n /\ u = n
  BY <1>1, <1>2, <1>4
<1>5. CASE t # n /\ u # n
  BY <1>2, <1>5 DEF TxInv, OnePendingPerSigner
<1> QED
  BY <1>3, <1>4, <1>5

\* Sending a transaction and starting waitForTx.
LEMMA SendTx ==
    ASSUME TypeOK, HandOver, SignerExclusive, TxInv, NEW c \in Calls, SendTransaction(c),
           Accepted(c)
    PROVE  TxInv'
<1> DEFINE n == NewTx(c)
<1>1. /\ pc[c] = "send" /\ Pool(c) /\ wait' = [wait EXCEPT ![c] = n]
      /\ answer' = [answer EXCEPT ![c] = "ok"] /\ UNCHANGED <<unheard, unseen>>
  BY DEF SendTransaction, Return, history
<1>2. n \in Tx /\ n \notin Made /\ n.by = c /\ wait[c] = NoTx /\ answer[c] = "none"
  BY <1>1, FreshTx DEF HandOver
<1>3. /\ Made' = Made \cup {n} /\ \A t \in Made' : t.nonce < nonce'[t.signer]
      /\ pending' \cap mined' = {} /\ pending' = pending \cup {n}
  BY <1>1, PoolTx DEF Pool
<1>4. OnePendingPerSigner'
  BY <1>1, PoolOnePending
<1>5. ASSUME NEW t \in pending' PROVE t \in unheard' \cup unseen' \/ \E d \in Calls : wait'[d] = t
  <2>1. CASE t = n
    BY <1>1, <2>1 DEF TypeOK
  <2>2. CASE t # n /\ t \notin unheard \cup unseen
    <3>1. PICK d \in Calls : wait[d] = t
      BY <1>3, <2>2 DEF TxInv, ChainInv
    <3>2. d # c
      BY <1>2, <1>3, <2>2, <3>1, FaucetAssumption DEF TypeOK, Tx
    <3> QED
      BY <1>1, <3>1, <3>2 DEF TypeOK
  <2> QED
    BY <1>1, <2>1, <2>2
<1>6. unheard' \subseteq Made' /\ n \notin unheard
  BY <1>1, <1>2, <1>3 DEF TxInv, ChainInv
<1>7. ChainInv'
  BY <1>3, <1>5, <1>6 DEF ChainInv
<1>8. HeardInv'
  <2>1. Heard(c) = {}
    BY <1>2 DEF TxInv, HeardInv
  <2>2. Heard(c)' = {n}
    BY <1>1, <1>2, <1>3, <1>6, <2>1 DEF Heard
  <2>3. \A d \in Calls : d # c => Heard(d)' = Heard(d) /\ answer'[d] = answer[d]
    BY <1>1, <1>2, <1>3 DEF Heard, TypeOK
  <2>4. answer'[c] = "ok"
    BY <1>1 DEF TypeOK
  <2> QED
    BY <2>2, <2>3, <2>4 DEF HeardInv, TxInv
<1> QED
  BY <1>4, <1>7, <1>8 DEF TxInv

\* The node took a transaction and the call believes it did not.
LEMMA UnknownTx ==
    ASSUME TypeOK, HandOver, SignerExclusive, TxInv, NEW c \in Calls, SendUnknown(c)
    PROVE  TxInv'
<1> DEFINE n == NewTx(c)
<1>1. /\ pc[c] = "send" /\ Pool(c) /\ unheard' = unheard \cup {n}
      /\ UNCHANGED <<wait, answer, unseen>>
  BY DEF SendUnknown, NextSigner
<1>2. n \in Tx /\ n \notin Made
  BY <1>1, FreshTx
<1>3. /\ Made' = Made \cup {n} /\ \A t \in Made' : t.nonce < nonce'[t.signer]
      /\ pending' \cap mined' = {} /\ pending' = pending \cup {n}
  BY <1>1, PoolTx DEF Pool
<1>4. OnePendingPerSigner'
  BY <1>1, PoolOnePending
<1>5. ChainInv'
  BY <1>1, <1>3 DEF ChainInv, TxInv
<1>6. \A d \in Calls : Heard(d)' = Heard(d)
  BY <1>1, <1>2, <1>3 DEF Heard
<1>7. HeardInv'
  BY <1>1, <1>6 DEF HeardInv, TxInv
<1> QED
  BY <1>4, <1>5, <1>7 DEF TxInv

\* waitForTx ends, with the receipt or with an error that is not NotFound.
LEMMA FreeTx ==
    ASSUME TypeOK, TxInv, NEW c \in Calls, wait[c] # NoTx, Free(c), UNCHANGED unheard,
           \/ wait[c] \in mined /\ UNCHANGED unseen
           \/ unseen' = unseen \cup {wait[c]}
    PROVE  TxInv'
<1>1. wait' = [wait EXCEPT ![c] = NoTx]
      /\ UNCHANGED <<answer, nonce, pending, mined, dropped, unheard>>
  BY DEF Free, chain
<1>2. Made' = Made /\ \A d \in Calls : Heard(d)' = Heard(d)
  BY <1>1 DEF Made, Heard
<1>3. ASSUME NEW t \in pending PROVE t \in unheard' \cup unseen' \/ \E d \in Calls : wait'[d] = t
  <2>1. CASE t = wait[c]
    BY <1>1, <2>1 DEF TxInv, ChainInv
  <2>2. CASE t # wait[c] /\ t \notin unheard \cup unseen
    <3>1. PICK d \in Calls : wait[d] = t
      BY <2>2 DEF TxInv, ChainInv
    <3> QED
      BY <1>1, <2>2, <3>1 DEF TypeOK
  <2> QED
    BY <1>1, <2>1, <2>2
<1>4. ChainInv'
  BY <1>1, <1>2, <1>3 DEF TxInv, ChainInv
<1>5. OnePendingPerSigner'
  BY <1>1 DEF TxInv, OnePendingPerSigner
<1>6. HeardInv'
  BY <1>1, <1>2 DEF TxInv, HeardInv
<1> QED
  BY <1>4, <1>5, <1>6 DEF TxInv

\* The chain mines or drops a pending transaction.
LEMMA SettleTx ==
    ASSUME TypeOK, TxInv, NEW t \in pending, Mine(t) \/ Drop(t)
    PROVE  TxInv'
<1>1. /\ pending' = pending \ {t} /\ UNCHANGED <<wait, answer, nonce, unheard, unseen>>
      /\ \/ mined' = mined \cup {t} /\ dropped' = dropped
         \/ mined' = mined /\ dropped' = dropped \cup {t}
  BY DEF Mine, Drop, history
<1>2. Made' = Made
  BY <1>1 DEF Made
<1>3. ChainInv'
  BY <1>1, <1>2 DEF TxInv, ChainInv
<1>4. OnePendingPerSigner'
  BY <1>1 DEF TxInv, OnePendingPerSigner
<1>5. HeardInv'
  BY <1>1, <1>2 DEF TxInv, HeardInv, Heard
<1> QED
  BY <1>3, <1>4, <1>5 DEF TxInv

\* Every step keeps what is known of the transactions.
LEMMA TxNext ==
    ASSUME TypeOK, HandOver, SignerExclusive, TxInv, [Next]_vars PROVE TxInv'
<1> USE DEF chain, history
<1>1. ASSUME NEW c \in Calls, NEW a \in Addrs, Call(c, a) PROVE TxInv'
  BY <1>1, QuietTx DEF Call, Quiet
<1>2. ASSUME NEW c \in Calls, CheckDestination(c) \/ CheckDestinationFails(c) PROVE TxInv'
  <2>1. answer[c] = "none" /\ UNCHANGED <<wait, nonce, pending, mined, dropped, unheard, unseen>>
    BY <1>2 DEF CheckDestination, CheckDestinationFails, HandOver
  <2>2. \/ answer' = answer
        \/ answer' = [answer EXCEPT ![c] = "refused"]
        \/ answer' = [answer EXCEPT ![c] = "error"]
    BY <1>2 DEF CheckDestination, CheckDestinationFails, Return
  <2> QED
    BY <2>1, <2>2, QuietTx DEF Quiet, TypeOK
<1>3. ASSUME NEW c \in Calls, TakeSigner(c) \/ Sleep(c) PROVE TxInv'
  BY <1>3, QuietTx DEF TakeSigner, Sleep, Quiet
<1>4. ASSUME NEW c \in Calls, CheckSigner(c) \/ SignerFails(c) PROVE TxInv'
  BY <1>4, QuietTx DEF CheckSigner, SignerFails, NextSigner, Quiet
<1>5. ASSUME NEW c \in Calls, SendTransaction(c), ~Accepted(c) PROVE TxInv'
  BY <1>5, QuietTx DEF SendTransaction, NextSigner, Quiet
<1>6. ASSUME NEW c \in Calls, Receipt(c) \/ ReceiptFails(c) PROVE TxInv'
  BY <1>6, FreeTx DEF Receipt, ReceiptFails
<1>7. CASE UNCHANGED vars
  BY <1>7, QuietTx DEF vars, Quiet
<1> QED
  BY <1>1, <1>2, <1>3, <1>4, <1>5, <1>6, <1>7, SendTx, UnknownTx, SettleTx
  DEF Next, Step, Fault

-----------------------------------------------------------------------------
(* The results *)

\* The invariant holds when the client is created, with every signer free.
LEMMA FaucetInit == Init => FaucetInv
<1> SUFFICES ASSUME Init PROVE FaucetInv
  OBVIOUS
<1> USE FaucetAssumption DEF Init
<1>1. TypeOK
  BY DEF TypeOK, Signers
<1>2. HandOver /\ SignerExclusive
  BY DEF HandOver, SignerExclusive, Holds
<1>3. Made = {} /\ \A c \in Calls : Heard(c) = {}
  BY DEF Made, Heard
<1>4. ChainInv /\ OnePendingPerSigner /\ HeardInv
  BY <1>3 DEF ChainInv, OnePendingPerSigner, HeardInv
<1> QED
  BY <1>1, <1>2, <1>4 DEF FaucetInv

\* The invariant as a whole.
LEMMA FaucetIsInv == Spec => []FaucetInv
<1>1. FaucetInv /\ [Next]_vars => FaucetInv'
  BY TypeNext, HandOverNext, ExclusiveNext, TxNext DEF FaucetInv, TxInv
<1> QED
  BY <1>1, FaucetInit, PTL DEF Spec

\* Every variable of the faucet keeps its type; in particular a call that has a signer has
\* one of the pool.
THEOREM FaucetTypeCorrect == Spec => []TypeOK
<1>1. FaucetInv => TypeOK
  BY DEF FaucetInv
<1> QED
  BY <1>1, FaucetIsInv, PTL

\* The channel Taken of a signer is full exactly while one call of SendTokens, or the
\* waitForTx goroutine it started, uses that signer, and never two: for any number of
\* concurrent calls and whichever of their requests to the node fail.
THEOREM SignersAreLocks == Spec => []SignerExclusive
<1>1. FaucetInv => SignerExclusive
  BY DEF FaucetInv
<1> QED
  BY <1>1, FaucetIsInv, PTL

\* Two transactions of one signer are in the pool together only if the older one was
\* reported as not sent or its poll failed: waitForTx serialises all the others.
THEOREM PendingSerialised == Spec => []OnePendingPerSigner
<1>1. FaucetInv => OnePendingPerSigner
  BY DEF FaucetInv
<1> QED
  BY <1>1, FaucetIsInv, PTL

\* SendTokens pays at most once: a call that returned nil made exactly one transaction it
\* knows of, and any other call none.
THEOREM PaidOnce == Spec => []OneTxPerCall
<1>1. FaucetInv => OneTxPerCall
  <2> SUFFICES ASSUME FaucetInv, NEW c \in Calls
               PROVE  Cardinality(Heard(c)) = IF answer[c] = "ok" THEN 1 ELSE 0
    BY DEF OneTxPerCall, Heard, Made
  <2>1. CASE answer[c] = "ok"
    <3>1. PICK t \in Heard(c) : Heard(c) = {t}
      BY <2>1 DEF FaucetInv, HeardInv
    <3> QED
      BY <2>1, <3>1, FS_Singleton
  <2>2. CASE answer[c] # "ok"
    <3>1. Heard(c) = {}
      BY <2>2 DEF FaucetInv, HeardInv
    <3> QED
      BY <2>2, <3>1, FS_EmptySet
  <2> QED
    BY <2>1, <2>2
<1> QED
  BY <1>1, FaucetIsInv, PTL
=============================================================================
