----------------------------- MODULE MailFanout -----------------------------
(***************************************************************************)
(* The concurrent sending of mails in sendValidationLinks and              *)
(* sendVotingLinks: one goroutine per member, a WaitGroup, a channel for   *)
(* the errors (ec) and one for the successes (sc), both with room for one  *)
(* value per member, and the handler that waits, closes both channels and  *)
(* counts what is in them.  A send on a closed channel and a WaitGroup     *)
(* below zero panic, and the panic of a goroutine ends the process.  The   *)
(* mails go out through the pool of the SMTP client.                       *)
(***************************************************************************)
EXTENDS Integers, FiniteSets

CONSTANTS Workers    \* the members found, one goroutine each

ASSUME WorkersAssumption == IsFiniteSet(Workers) /\ Workers # {}

VARIABLES
    kind,       \* "validation" or "voting" links
    verified,   \* the members that already have a public key
    incomplete, \* the members without e-mail address or, for voting, private key
    wpc,        \* where each goroutine is
    wg,         \* the counter of the WaitGroup
    ec,         \* the number of errors in the channel ec
    sc,         \* the members in the channel sc
    closed,     \* the channels the handler has closed
    failed,     \* the members whose mail could not be sent
    mailed,     \* the members whose mail was sent
    panicked,   \* the process is gone
    main,       \* where the handler is
    answer      \* what the handler answered

batch == <<kind, verified, incomplete>>
vars  == <<batch, wpc, wg, ec, sc, closed, failed, mailed, panicked, main, answer>>
n     == Cardinality(Workers)

\* The batch: only the handler of validation links looks at the public keys.
Batch == /\ kind \in {"validation", "voting"}
         /\ verified \in SUBSET Workers /\ (kind = "voting" => verified = {})
         /\ incomplete \in SUBSET Workers

\* Mutant: the WaitGroup is told of one goroutine too few.
InitShort ==
    /\ Batch
    /\ wpc = [w \in Workers |-> IF kind = "validation" THEN "check" ELSE "compose"]
    /\ wg = n - 1 /\ ec = 0 /\ sc = {} /\ closed = {}
    /\ failed = {} /\ mailed = {} /\ panicked = FALSE
    /\ main = "wait" /\ answer = "none"

Init ==
    /\ Batch
    /\ wpc = [w \in Workers |-> IF kind = "validation" THEN "check" ELSE "compose"]
    /\ wg = n /\ ec = 0 /\ sc = {} /\ closed = {}
    /\ failed = {} /\ mailed = {} /\ panicked = FALSE
    /\ main = "wait" /\ answer = "none"

-----------------------------------------------------------------------------
(* A goroutine *)

Goto(w, step) == wpc' = [wpc EXCEPT ![w] = step]
Panic         == panicked' = TRUE /\ UNCHANGED <<wpc, wg, ec, sc>>

\* Mutant: the check that the member has no public key is dropped.
CheckNothing(w) ==
    /\ wpc[w] = "check"
    /\ Goto(w, "compose")
    /\ UNCHANGED <<batch, wg, ec, sc, closed, failed, mailed, panicked, main, answer>>

Check(w) ==
    /\ wpc[w] = "check"
    /\ Goto(w, IF w \in verified THEN "verifiedError" ELSE "compose")
    /\ UNCHANGED <<batch, wg, ec, sc, closed, failed, mailed, panicked, main, answer>>

\* The mail is composed, its link and templates filled in, unless the member is incomplete.
Compose(w) ==
    /\ wpc[w] = "compose"
    /\ IF w \in incomplete
         THEN failed' = failed \cup {w} /\ Goto(w, "mailError")
         ELSE Goto(w, "send") /\ UNCHANGED failed
    /\ UNCHANGED <<batch, wg, ec, sc, closed, mailed, panicked, main, answer>>

SendValidationLink(w) == kind = "validation" /\ Compose(w)
SendVotingLink(w)     == kind = "voting" /\ Compose(w)

\* The pool, started with the process, delivers the mail to the server or gives up.
SendMail(w) ==
    /\ wpc[w] = "send"
    /\ \/ mailed' = mailed \cup {w} /\ Goto(w, "success") /\ UNCHANGED failed
       \/ failed' = failed \cup {w} /\ Goto(w, "mailError") /\ UNCHANGED mailed
    /\ UNCHANGED <<batch, wg, ec, sc, closed, panicked, main, answer>>

\* ec <- err: it waits while the channel is full.
SendError(w) ==
    /\ wpc[w] \in {"verifiedError", "mailError"}
    /\ IF "ec" \in closed
         THEN Panic
         ELSE /\ ec < n
              /\ ec' = ec + 1
              /\ Goto(w, IF wpc[w] = "verifiedError" THEN "verifiedDone" ELSE "mailDone")
              /\ UNCHANGED <<wg, sc, panicked>>
    /\ UNCHANGED <<batch, closed, failed, mailed, main, answer>>

\* sc <- member.ID
SendSuccess(w) ==
    /\ wpc[w] = "success"
    /\ IF "sc" \in closed
         THEN Panic
         ELSE sc' = sc \cup {w} /\ Goto(w, "done") /\ UNCHANGED <<wg, ec, panicked>>
    /\ UNCHANGED <<batch, closed, failed, mailed, main, answer>>

\* Where the goroutine goes after a wg.Done(): an error does not end it, it goes on to
\* mail a verified member, and to report as a success a member it could not mail.
AfterDone(step) == CASE step = "verifiedDone" -> "compose"
                     [] step = "mailDone"     -> "success"
                     [] step = "done"         -> "end"

\* Mutant: the wg.Done() after the report is missing.
DoneOnlyOnError(w) ==
    /\ wpc[w] \in {"verifiedDone", "mailDone", "done"}
    /\ Goto(w, AfterDone(wpc[w]))
    /\ IF wpc[w] = "done" THEN UNCHANGED <<wg, panicked>>
       ELSE IF wg = 0 THEN panicked' = TRUE /\ UNCHANGED wg
       ELSE wg' = wg - 1 /\ UNCHANGED panicked
    /\ UNCHANGED <<batch, ec, sc, closed, failed, mailed, main, answer>>

\* wg.Done()
Done(w) ==
    /\ wpc[w] \in {"verifiedDone", "mailDone", "done"}
    /\ IF wg = 0
         THEN Panic
         ELSE wg' = wg - 1 /\ Goto(w, AfterDone(wpc[w])) /\ UNCHANGED <<ec, sc, panicked>>
    /\ UNCHANGED <<batch, closed, failed, mailed, main, answer>>

-----------------------------------------------------------------------------
(* The handler *)

Rest == <<batch, wpc, wg, ec, sc, failed, mailed, panicked>>

Wait == /\ main = "wait" /\ wg = 0
        /\ main' = "closeEc"
        /\ UNCHANGED <<Rest, closed, answer>>

CloseChannel(c, step, next) ==
    /\ main = step
    /\ closed' = closed \cup {c}
    /\ main' = next
    /\ UNCHANGED <<Rest, answer>>

\* The counts are compared with the number of members; no success at all is an error.
Collect ==
    /\ main = "collect"
    /\ main' = "end"
    /\ answer' = IF ec + Cardinality(sc) # n \/ ec = n THEN "error" ELSE "ok"
    /\ UNCHANGED <<Rest, closed>>

-----------------------------------------------------------------------------
Worker(w) == ~panicked /\ \/ Check(w)
                          \/ SendValidationLink(w) \/ SendVotingLink(w) \/ SendMail(w)
                          \/ SendError(w) \/ SendSuccess(w) \/ Done(w)

Handler == ~panicked /\ \/ Wait
                        \/ CloseChannel("ec", "closeEc", "closeSc")
                        \/ CloseChannel("sc", "closeSc", "collect")
                        \/ Collect

Next == Handler \/ \E w \in Workers : Worker(w)

Spec == Init /\ [][Next]_vars /\ WF_vars(Handler) /\ \A w \in Workers : WF_vars(Worker(w))

-----------------------------------------------------------------------------
(* Properties *)

\* The type of every variable; the WaitGroup and the error channel stay in bounds.
TypeOK ==
    /\ kind \in {"validation", "voting"}
    /\ verified \subseteq Workers /\ incomplete \subseteq Workers
    /\ failed \subseteq Workers /\ mailed \subseteq Workers
    /\ wpc \in [Workers -> {"check", "verifiedError", "verifiedDone", "compose", "send",
                            "mailError", "mailDone", "success", "done", "end"}]
    /\ wg \in 0..n /\ ec \in 0..n /\ sc \subseteq Workers /\ closed \subseteq {"ec", "sc"}
    /\ panicked \in BOOLEAN
    /\ main \in {"wait", "closeEc", "closeSc", "collect", "end"}
    /\ answer \in {"none", "ok", "error"}

Clean == verified = {} /\ failed = {}

\* As long as every mail of the batch can be sent, no goroutine panics, whatever the
\* order in which they run and the handler closes the channels, and the batch is answered
\* ok: the members tagged and counted are all those that were mailed.
CleanBatchComplete ==
    Clean => /\ ~panicked
             /\ answer # "none" => answer = "ok" /\ sc = Workers /\ mailed = Workers

\* What Registry relies on: an ok answer reports at least one member, and reports all of
\* them only if none was verified and no mail failed.
AllReportedOnlyIfClean ==
    answer = "ok" => sc # {} /\ (sc = Workers => Clean)

\* The handler never waits for ever on the WaitGroup or behind a full error channel.
AnsweredOrDead == <>(answer # "none" \/ panicked)
=============================================================================
