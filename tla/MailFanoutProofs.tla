-------------------------- MODULE MailFanoutProofs --------------------------
(***************************************************************************)
(* The goroutines that send mails and the handler that waits for them, for *)
(* any finite number of members.                                           *)
(***************************************************************************)
EXTENDS MailFanout, FiniteSetTheorems, TLAPS

-----------------------------------------------------------------------------
(* The inductive invariant *)

Running == {w \in Workers : wpc[w] # "end"}

\* How far the handler is: the channels it has closed, and that it answers at the end.
HandlerInv ==
    /\ closed = CASE main \in {"wait", "closeEc"} -> {}
                  [] main = "closeSc"             -> {"ec"}
                  [] OTHER                        -> {"ec", "sc"}
    /\ answer # "none" <=> main = "end"

\* A batch in which nothing has failed: no goroutine reported an error, each calls
\* wg.Done() exactly once, as its last step, and what is in the channel and was mailed
\* follows from where the goroutines are.  So the handler goes on only when all of them
\* have ended.
CleanInv ==
    /\ ~panicked /\ ec = 0
    /\ \A w \in Workers :
           wpc[w] \in {"check", "compose", "send", "success", "done", "end"}
    /\ wg = Cardinality(Running)
    /\ main # "wait" => Running = {}
    /\ sc = {w \in Workers : wpc[w] \in {"done", "end"}}
    /\ mailed = {w \in Workers : wpc[w] \in {"success", "done", "end"}}
    /\ answer # "none" => answer = "ok"

\* As long as the channel has no error, a member that was verified or whose mail failed
\* is one whose goroutine is not past its error; and a reported member's is past its
\* report.
ErrorInv ==
    /\ kind = "voting" => verified = {}
    /\ kind = "voting" => \A w \in Workers : wpc[w] # "check"
    /\ ec = 0 => \A w \in Workers :
           /\ w \in failed => wpc[w] = "mailError"
           /\ w \in verified => wpc[w] \in {"check", "verifiedError"}
    /\ \A w \in sc : wpc[w] \in {"done", "end"}

\* What the counts of an ok answer say, and go on saying once the channels are closed.
AnswerInv == answer = "ok" => sc # {} /\ (sc = Workers => ec = 0)

MailInv == /\ TypeOK /\ HandlerInv /\ (Clean => CleanInv) /\ ErrorInv /\ AnswerInv

-----------------------------------------------------------------------------
(* Each action preserves it *)

\* The number of goroutines is a natural number, and not zero.
LEMMA WorkersCount == n \in Nat \ {0}
  BY WorkersAssumption, FS_CardinalityType, FS_EmptySet DEF n

\* The check of the public key preserves the invariant.
LEMMA CheckPreserves ==
    ASSUME MailInv, NEW w \in Workers, ~panicked, Check(w)
    PROVE  MailInv'
<1>0. TypeOK /\ HandlerInv /\ (Clean => CleanInv) /\ ErrorInv /\ AnswerInv
  BY DEF MailInv
<1>1. TypeOK'
  BY <1>0 DEF Check, TypeOK, Goto, batch
<1>2. HandlerInv'
  BY <1>0 DEF Check, HandlerInv
<1>3. Clean' => CleanInv'
  <2> SUFFICES ASSUME Clean, Clean', CleanInv PROVE CleanInv'
    BY <1>0 DEF Check, Clean, batch
  <2>1. Running' = Running
    BY <1>0 DEF Check, Goto, Running, TypeOK
  <2> QED
    BY <1>0, <2>1 DEF Check, Goto, CleanInv, Clean, TypeOK, batch
<1>4. ErrorInv'
  BY <1>0 DEF Check, Goto, ErrorInv, TypeOK, batch
<1>5. AnswerInv'
  BY <1>0 DEF Check, AnswerInv
<1> QED
  BY <1>1, <1>2, <1>3, <1>4, <1>5 DEF MailInv

\* Composing the mail preserves the invariant; a member it fails is no longer clean.
LEMMA ComposePreserves ==
    ASSUME MailInv, NEW w \in Workers, ~panicked, Compose(w)
    PROVE  MailInv'
<1>0. TypeOK /\ HandlerInv /\ (Clean => CleanInv) /\ ErrorInv /\ AnswerInv
  BY DEF MailInv
<1>1. TypeOK'
  BY <1>0 DEF Compose, TypeOK, Goto, batch
<1>2. HandlerInv'
  BY <1>0 DEF Compose, HandlerInv
<1>3. Clean' => CleanInv'
  <2> SUFFICES ASSUME Clean, Clean', CleanInv PROVE CleanInv'
    BY <1>0 DEF Compose, Clean, batch
  <2>1. Running' = Running
    BY <1>0 DEF Compose, Goto, Running, TypeOK
  <2> QED
    BY <1>0, <2>1 DEF Compose, Goto, CleanInv, Clean, TypeOK, batch
<1>4. ErrorInv'
  BY <1>0 DEF Compose, Goto, ErrorInv, TypeOK, batch
<1>5. AnswerInv'
  BY <1>0 DEF Compose, AnswerInv
<1> QED
  BY <1>1, <1>2, <1>3, <1>4, <1>5 DEF MailInv

\* Sending the mail preserves the invariant, whether the pool delivers it or gives up.
LEMMA SendMailPreserves ==
    ASSUME MailInv, NEW w \in Workers, ~panicked, SendMail(w)
    PROVE  MailInv'
<1>0. TypeOK /\ HandlerInv /\ (Clean => CleanInv) /\ ErrorInv /\ AnswerInv
  BY DEF MailInv
<1>1. TypeOK'
  BY <1>0 DEF SendMail, TypeOK, Goto, batch
<1>2. HandlerInv'
  BY <1>0 DEF SendMail, HandlerInv
<1>3. Clean' => CleanInv'
  <2> SUFFICES ASSUME Clean, Clean', CleanInv PROVE CleanInv'
    BY <1>0 DEF SendMail, Clean, batch
  <2>1. Running' = Running
    BY <1>0 DEF SendMail, Goto, Running, TypeOK
  <2> QED
    BY <1>0, <2>1 DEF SendMail, Goto, CleanInv, Clean, TypeOK, batch
<1>4. ErrorInv'
  BY <1>0 DEF SendMail, Goto, ErrorInv, TypeOK, batch
<1>5. AnswerInv'
  BY <1>0 DEF SendMail, AnswerInv
<1> QED
  BY <1>1, <1>2, <1>3, <1>4, <1>5 DEF MailInv

\* Sending on ec preserves the invariant: there is an error in the channel from then on,
\* and none is sent in a clean batch.
LEMMA SendErrorPreserves ==
    ASSUME MailInv, NEW w \in Workers, ~panicked, SendError(w)
    PROVE  MailInv'
<1>0. TypeOK /\ HandlerInv /\ (Clean => CleanInv) /\ ErrorInv /\ AnswerInv
  BY DEF MailInv
<1>1. TypeOK'
  <2>1. wg' \in 0..n /\ ec' \in 0..n
    BY <1>0, WorkersCount DEF SendError, Panic, TypeOK
  <2>2. wpc' \in [Workers -> {"check", "verifiedError", "verifiedDone", "compose", "send",
                              "mailError", "mailDone", "success", "done", "end"}]
    BY <1>0 DEF SendError, Panic, Goto, TypeOK
  <2>3. panicked' \in BOOLEAN /\ UNCHANGED sc
    BY <1>0 DEF SendError, Panic, TypeOK
  <2> QED
    BY <1>0, <2>1, <2>2, <2>3 DEF SendError, TypeOK, batch, n
<1>2. HandlerInv'
  BY <1>0 DEF SendError, HandlerInv
<1>3. Clean' => CleanInv'
  BY <1>0 DEF SendError, Panic, CleanInv, Clean, batch
<1>4. ErrorInv'
  <2>1. CASE UNCHANGED <<wpc, ec, sc>>
    BY <1>0, <2>1 DEF SendError, ErrorInv, batch
  <2>2. CASE ec' = ec + 1
    BY <1>0, <2>2 DEF SendError, Panic, Goto, ErrorInv, TypeOK, batch
  <2> QED
    BY <2>1, <2>2 DEF SendError, Panic
<1>5. AnswerInv'
  <2>1. answer # "none" => "ec" \in closed
    BY <1>0 DEF HandlerInv, TypeOK
  <2> QED
    BY <1>0, <2>1 DEF SendError, Panic, AnswerInv
<1> QED
  BY <1>1, <1>2, <1>3, <1>4, <1>5 DEF MailInv

\* Sending on sc preserves the invariant: in a clean batch the channel is still open, and
\* once it is closed nothing is added to it.
LEMMA SendSuccessPreserves ==
    ASSUME MailInv, NEW w \in Workers, ~panicked, SendSuccess(w)
    PROVE  MailInv'
<1>0. TypeOK /\ HandlerInv /\ (Clean => CleanInv) /\ ErrorInv /\ AnswerInv
  BY DEF MailInv
<1>1. TypeOK'
  BY <1>0 DEF SendSuccess, Panic, TypeOK, Goto, batch
<1>2. HandlerInv'
  BY <1>0 DEF SendSuccess, HandlerInv
<1>3. Clean' => CleanInv'
  <2> SUFFICES ASSUME Clean, CleanInv PROVE CleanInv'
    BY <1>0 DEF SendSuccess, Clean, batch
  <2>1. w \in Running /\ main = "wait"
    BY DEF SendSuccess, Running, CleanInv
  <2>2. "sc" \notin closed
    BY <1>0, <2>1 DEF HandlerInv
  <2>3. Running' = Running
    BY <1>0, <2>2 DEF SendSuccess, Goto, Running, TypeOK
  <2> QED
    BY <1>0, <2>2, <2>3 DEF SendSuccess, Goto, CleanInv, Clean, TypeOK, batch
<1>4. ErrorInv'
  BY <1>0 DEF SendSuccess, Panic, Goto, ErrorInv, TypeOK, batch
<1>5. AnswerInv'
  <2>1. answer # "none" => "sc" \in closed
    BY <1>0 DEF HandlerInv, TypeOK
  <2> QED
    BY <1>0, <2>1 DEF SendSuccess, Panic, AnswerInv
<1> QED
  BY <1>1, <1>2, <1>3, <1>4, <1>5 DEF MailInv

\* wg.Done() preserves the invariant: in a clean batch it ends the goroutine, and the
\* counter, which is the number of those that have not ended, is not zero before it.
LEMMA DonePreserves ==
    ASSUME MailInv, NEW w \in Workers, ~panicked, Done(w)
    PROVE  MailInv'
<1>0. TypeOK /\ HandlerInv /\ (Clean => CleanInv) /\ ErrorInv /\ AnswerInv
  BY DEF MailInv
<1>1. TypeOK'
  <2>1. AfterDone(wpc[w]) \in {"compose", "success", "end"}
    BY DEF Done, AfterDone
  <2>2. wg' \in 0..n /\ UNCHANGED <<ec, sc>>
    BY <1>0, WorkersCount DEF Done, Panic, TypeOK
  <2>3. wpc' \in [Workers -> {"check", "verifiedError", "verifiedDone", "compose", "send",
                              "mailError", "mailDone", "success", "done", "end"}]
    BY <1>0, <2>1 DEF Done, Panic, Goto, TypeOK
  <2>4. panicked' \in BOOLEAN
    BY <1>0 DEF Done, Panic, TypeOK
  <2> QED
    BY <1>0, <2>2, <2>3, <2>4 DEF Done, TypeOK, batch, n
<1>2. HandlerInv'
  BY <1>0 DEF Done, HandlerInv
<1>3. Clean' => CleanInv'
  <2> SUFFICES ASSUME Clean, CleanInv PROVE CleanInv'
    BY <1>0 DEF Done, Clean, batch
  <2>1. wpc[w] = "done" /\ w \in Running /\ main = "wait"
    BY DEF Done, Running, CleanInv
  <2>2. IsFiniteSet(Running)
    BY WorkersAssumption, FS_Subset DEF Running
  <2>3. wg # 0
    BY <2>1, <2>2, FS_EmptySet DEF CleanInv
  <2>4. wpc' = [wpc EXCEPT ![w] = "end"] /\ wg' = wg - 1 /\ UNCHANGED <<ec, sc, panicked>>
    BY <2>1, <2>3 DEF Done, Goto, AfterDone
  <2>5. Running' = Running \ {w}
    BY <1>0, <2>4 DEF Running, TypeOK
  <2>6. wg' = Cardinality(Running')
    BY <2>1, <2>2, <2>4, <2>5, FS_RemoveElement DEF CleanInv
  <2> QED
    BY <1>0, <2>1, <2>4, <2>6 DEF Done, CleanInv, TypeOK
<1>4. ErrorInv'
  <2>1. CASE UNCHANGED wpc
    BY <1>0, <2>1 DEF Done, Panic, ErrorInv, batch
  <2>2. CASE Goto(w, AfterDone(wpc[w])) /\ UNCHANGED <<ec, sc>>
    <3>1. /\ wpc[w] = "verifiedDone" => AfterDone(wpc[w]) = "compose"
          /\ wpc[w] = "mailDone" => AfterDone(wpc[w]) = "success"
          /\ wpc[w] = "done" => AfterDone(wpc[w]) = "end"
      BY DEF AfterDone
    <3> HIDE DEF AfterDone
    <3> QED
      BY <1>0, <2>2, <3>1 DEF Done, Goto, ErrorInv, TypeOK, batch
  <2> QED
    BY <2>1, <2>2 DEF Done, Panic
<1>5. AnswerInv'
  BY <1>0 DEF Done, Panic, AnswerInv
<1> QED
  BY <1>1, <1>2, <1>3, <1>4, <1>5 DEF MailInv

\* The handler's wait preserves the invariant: in a clean batch it ends only when every
\* goroutine has.
LEMMA WaitPreserves ==
    ASSUME MailInv, ~panicked, Wait
    PROVE  MailInv'
<1>0. TypeOK /\ HandlerInv /\ (Clean => CleanInv) /\ ErrorInv /\ AnswerInv
  BY DEF MailInv
<1>1. TypeOK'
  BY <1>0 DEF Wait, Rest, TypeOK, batch
<1>2. HandlerInv'
  BY <1>0 DEF Wait, HandlerInv
<1>3. Clean' => CleanInv'
  <2> SUFFICES ASSUME Clean, CleanInv PROVE CleanInv'
    BY <1>0 DEF Wait, Rest, Clean, batch
  <2>1. IsFiniteSet(Running)
    BY WorkersAssumption, FS_Subset DEF Running
  <2>2. Running = {}
    BY <2>1, FS_EmptySet DEF Wait, CleanInv
  <2>3. Running' = Running
    BY DEF Wait, Rest, Running
  <2> QED
    BY <2>2, <2>3 DEF Wait, Rest, CleanInv
<1>4. ErrorInv'
  BY <1>0 DEF Wait, Rest, ErrorInv, batch
<1>5. AnswerInv'
  BY <1>0 DEF Wait, Rest, AnswerInv
<1> QED
  BY <1>1, <1>2, <1>3, <1>4, <1>5 DEF MailInv

\* Closing the channels preserves the invariant.
LEMMA CloseChannelPreserves ==
    ASSUME MailInv, ~panicked,
           CloseChannel("ec", "closeEc", "closeSc") \/ CloseChannel("sc", "closeSc", "collect")
    PROVE  MailInv'
<1>0. TypeOK /\ HandlerInv /\ (Clean => CleanInv) /\ ErrorInv /\ AnswerInv
  BY DEF MailInv
<1>1. TypeOK'
  BY <1>0 DEF CloseChannel, Rest, TypeOK, batch
<1>2. HandlerInv'
  BY <1>0 DEF CloseChannel, HandlerInv
<1>3. Clean' => CleanInv'
  <2> SUFFICES ASSUME Clean, CleanInv PROVE CleanInv'
    BY <1>0 DEF CloseChannel, Rest, Clean, batch
  <2>1. Running' = Running /\ Running = {}
    BY DEF CloseChannel, Rest, Running, CleanInv
  <2> QED
    BY <2>1 DEF CloseChannel, Rest, CleanInv
<1>4. ErrorInv'
  BY <1>0 DEF CloseChannel, Rest, ErrorInv, batch
<1>5. AnswerInv'
  BY <1>0 DEF CloseChannel, Rest, AnswerInv
<1> QED
  BY <1>1, <1>2, <1>3, <1>4, <1>5 DEF MailInv

\* The handler's counts preserve the invariant: they are those of the channels it closed.
LEMMA CollectPreserves ==
    ASSUME MailInv, ~panicked, Collect
    PROVE  MailInv'
<1>0. TypeOK /\ HandlerInv /\ (Clean => CleanInv) /\ ErrorInv /\ AnswerInv
  BY DEF MailInv
<1>1. TypeOK'
  BY <1>0 DEF Collect, Rest, TypeOK, batch
<1>2. HandlerInv'
  BY <1>0 DEF Collect, HandlerInv
<1>3. Clean' => CleanInv'
  <2> SUFFICES ASSUME Clean, CleanInv PROVE CleanInv'
    BY <1>0 DEF Collect, Rest, Clean, batch
  <2>1. Running' = Running /\ Running = {}
    BY DEF Collect, Rest, Running, CleanInv
  <2>2. sc = Workers /\ ec = 0
    BY <2>1 DEF Running, CleanInv
  <2>3. answer' = "ok"
    BY <2>2, WorkersCount DEF Collect, n
  <2> QED
    BY <2>1, <2>3 DEF Collect, Rest, CleanInv
<1>4. ErrorInv'
  BY <1>0 DEF Collect, Rest, ErrorInv, batch
<1>5. AnswerInv'
  <2> SUFFICES ASSUME ec + Cardinality(sc) = n, ec # n
               PROVE  sc # {} /\ (sc = Workers => ec = 0)
    BY DEF Collect, Rest, AnswerInv
  <2>1. ec \in Nat
    BY <1>0, WorkersCount DEF TypeOK
  <2>2. sc # {}
    BY <2>1, FS_EmptySet
  <2>3. sc = Workers => ec = 0
    BY <2>1, WorkersCount DEF n
  <2> QED
    BY <2>2, <2>3
<1> QED
  BY <1>1, <1>2, <1>3, <1>4, <1>5 DEF MailInv

-----------------------------------------------------------------------------
(* The invariant holds, and what follows *)

\* A batch that has just been started satisfies the invariant.
LEMMA InitMailInv == Init => MailInv
<1> SUFFICES ASSUME Init PROVE MailInv
  OBVIOUS
<1>1. TypeOK
  <2>1. wg \in 0..n /\ ec \in 0..n
    BY WorkersCount DEF Init
  <2> QED
    BY <2>1 DEF Init, Batch, TypeOK
<1>2. HandlerInv /\ ErrorInv /\ AnswerInv
  BY DEF Init, Batch, HandlerInv, ErrorInv, AnswerInv
<1>3. CleanInv
  <2>1. Running = Workers
    BY DEF Init, Running
  <2> QED
    BY <2>1 DEF Init, CleanInv, n
<1> QED
  BY <1>1, <1>2, <1>3 DEF MailInv

\* Every step of a goroutine and of the handler preserves the invariant.
LEMMA NextMailInv == MailInv /\ [Next]_vars => MailInv'
<1> SUFFICES ASSUME MailInv, [Next]_vars PROVE MailInv'
  OBVIOUS
<1>1. CASE Handler
  BY <1>1, WaitPreserves, CloseChannelPreserves, CollectPreserves DEF Handler
<1>2. ASSUME NEW w \in Workers, Worker(w) PROVE MailInv'
  BY <1>2, CheckPreserves, ComposePreserves, SendMailPreserves, SendErrorPreserves,
     SendSuccessPreserves, DonePreserves DEF Worker, SendValidationLink, SendVotingLink
<1>3. CASE UNCHANGED vars
  <2>1. TypeOK' /\ HandlerInv' /\ ErrorInv' /\ AnswerInv'
    BY <1>3 DEF MailInv, vars, batch, TypeOK, HandlerInv, ErrorInv, AnswerInv
  <2>2. Clean' => CleanInv'
    BY <1>3 DEF MailInv, vars, batch, Clean, CleanInv, Running
  <2> QED
    BY <2>1, <2>2 DEF MailInv
<1> QED
  BY <1>1, <1>2, <1>3 DEF Next

\* The invariant holds in every state of a batch.
THEOREM MailFanoutInv == Spec => []MailInv
  BY InitMailInv, NextMailInv, PTL DEF Spec

\* Every variable keeps its type: the WaitGroup never goes below zero or above the number
\* of goroutines, and the error channel never holds more than it has room for.
THEOREM MailFanoutTypeCorrect == Spec => []TypeOK
<1>1. MailInv => TypeOK
  BY DEF MailInv
<1> QED
  BY <1>1, MailFanoutInv, PTL

\* A batch of any size in which every mail can be sent does not panic, and is answered ok
\* with every member mailed and reported.
THEOREM CleanBatchesComplete == Spec => []CleanBatchComplete
<1>1. MailInv => CleanBatchComplete
  <2> SUFFICES ASSUME MailInv, Clean PROVE CleanBatchComplete
    BY DEF CleanBatchComplete
  <2>1. CleanInv /\ HandlerInv
    BY DEF MailInv
  <2>2. answer # "none" => Running = {}
    BY <2>1 DEF CleanInv, HandlerInv
  <2> QED
    BY <2>1, <2>2 DEF CleanBatchComplete, CleanInv, Running
<1> QED
  BY <1>1, MailFanoutInv, PTL

\* Whatever fails, and in whatever order the goroutines run, an ok answer reports a member,
\* and all of them only if none was verified and no mail failed.
THEOREM AllReportedAreClean == Spec => []AllReportedOnlyIfClean
<1>1. MailInv => AllReportedOnlyIfClean
  <2> SUFFICES ASSUME MailInv, answer = "ok" PROVE sc # {} /\ (sc = Workers => Clean)
    BY DEF AllReportedOnlyIfClean
  <2>1. TypeOK /\ ErrorInv /\ sc # {} /\ (sc = Workers => ec = 0)
    BY DEF MailInv, AnswerInv
  <2>2. ASSUME sc = Workers PROVE failed = {} /\ verified = {}
    BY <2>1, <2>2 DEF ErrorInv, TypeOK
  <2> QED
    BY <2>1, <2>2 DEF Clean
<1> QED
  BY <1>1, MailFanoutInv, PTL
=============================================================================
