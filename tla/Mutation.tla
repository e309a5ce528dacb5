------------------------------ MODULE Mutation ------------------------------
(***************************************************************************)
(* The commands that change a workspace (create, start, stop, restart,     *)
(* resize, rename, delete, bulk stop, operations retry and cancel, task    *)
(* run): one request under an idempotency key, fenced by the ETag that was *)
(* read, its answer, the wait for its operations, the exit, the login that *)
(* app.Run puts in between, and what the user does with the guidance       *)
(* printed.  internal/app/mutation.go, flags.go, daemons.go, operations.go,*)
(* app.go, tasks.go and internal/client/resources.go, transport.go,        *)
(* task_submission.go.                                                     *)
(*                                                                         *)
(* A behaviour follows one thing that a user wants done once.  The user    *)
(* runs it under a new key the first time and after a definite refusal;    *)
(* when the outcome is not known, a confirmation is due or the process was *)
(* killed, the user replays it as told, under the same key.  What others   *)
(* do to the workspace meanwhile is OthersChange.                          *)
(***************************************************************************)
EXTENDS OperationWait, FiniteSets

CONSTANTS
  Daemon,       \* workspaces
  Wants,        \* what the user may want: of which workspaces, with If-Match, with
                \* --wait, by create, as a task, with the task's options given
  Key,          \* idempotency keys
  MaxRev,       \* bound: how often the workspace changes
  Interactive,  \* stdin and stdout are terminals
  BadAnswers,   \* something on the way may answer in the Control Plane's place
  None          \* no key, ETag, workspace

Rev  == 0..MaxRev
Want == [targets : (SUBSET Daemon) \ {{}}, fenced : BOOLEAN, waits : BOOLEAN,
         creates : BOOLEAN, task : BOOLEAN, opted : BOOLEAN]

\* More than one workspace is a bulk stop, which is sent without an ETag.
ASSUME MutationAssumption ==
  /\ Wants \subseteq Want
  /\ \A w \in Wants : w.fenced \/ w.creates \/ w.task => \E d \in Daemon : w.targets = {d}
  /\ \A w \in Wants : w.creates => ~w.fenced /\ ~w.task
  /\ \A w \in Wants : (w.opted => w.task) /\ (w.task => ~w.fenced /\ ~w.waits)
  /\ MaxRev \in Nat /\ Interactive \in BOOLEAN /\ BadAnswers \in BOOLEAN
  /\ None \notin Key \cup Rev \cup Daemon

VARIABLES
  want,     \* what the user wants; it does not change
  rev,      \* the revision of what is read: a fenced workspace, which is its
            \* ETag, or the configuration of tasks
  op,       \* what became of each workspace under a key, at the Control Plane
            \* or in the guest
  made,     \* the configuration that filled in the options of the task under a key
  net,      \* requests on their way, however old
  used,     \* keys used so far
  given,    \* those that the user passed, not the CLI generated
  told,     \* what the user knows
  cmd       \* the command that runs

server == <<rev, op, made>>
user   == <<want, used, given, told>>
vars   == <<server, net, user, cmd, wait>>

Request == [key : Key, etag : Rev \cup {None}]
Reply   == {"none", "accepted", "confirm", "refused", "unauth"}

\* What a process ends with: exit 0, 1, 8, 6, a refusal (1 to 5 and 7), a poll
\* that failed, and code authentication_required, which is exit 3.
Result == {"ok", "failed", "unknown", "confirm", "refused", "error", "unauth"}

Cmd == [at     : {"idle", "read", "send", "sent", "children", "show", "wait", "out"},
        key    : Key \cup {None},
        given  : BOOLEAN,               \* --idempotency-key
        etag   : Rev \cup {None},
        pinned : BOOLEAN,               \* --etag
        opted  : BOOLEAN,               \* all options of the task are given
        again  : BOOLEAN,               \* dispatched again after a login
        seen   : BOOLEAN,               \* the answer was printed
        reply  : Reply,                 \* of the Control Plane, on its way back
        todo   : SUBSET Daemon,         \* outcomes of a bulk stop still to handle
        child  : Daemon \cup {None},    \* the workspace whose operation is read
        total  : 0..Limit,              \* to the deadline of a bulk stop, between waits
        result : Result]

Idle == [at |-> "idle", key |-> None, given |-> FALSE, etag |-> None,
         pinned |-> FALSE, opted |-> FALSE, again |-> FALSE, seen |-> FALSE, reply |-> "none",
         todo |-> {}, child |-> None, total |-> 0, result |-> "ok"]

Told == [status : {"new", "refused", "unknown", "confirm", "accepted"},
         key    : Key \cup {None},      \* printed before anything is sent
         etag   : Rev \cup {None},      \* of the replay command
         opted  : BOOLEAN]              \* the replay command has the task's options

TypeOK ==
  /\ want \in Wants
  /\ rev \in Rev
  /\ op \in [Key -> [Daemon -> Status \cup {"none", "refused"}]]
  /\ made \in [Key -> Rev \cup {None}]
  /\ net \in SUBSET Request
  /\ used \in SUBSET Key
  /\ given \in SUBSET Key
  /\ told \in Told
  /\ cmd \in Cmd
  /\ wait \in Wait

Init ==
  /\ want \in Wants
  /\ rev = 0
  /\ op = [k \in Key |-> [d \in Daemon |-> "none"]]
  /\ made = [k \in Key |-> None]
  /\ net = {}
  /\ used = {}
  /\ given = {}
  /\ told = [status |-> "new", key |-> None, etag |-> None, opted |-> FALSE]
  /\ cmd = Idle
  /\ wait = NoWait

-----------------------------------------------------------------------------

Fresh    == Key \ used
Bulk     == \E d, e \in want.targets : d # e
Taken(s) == s \in Status
Known(k) == \E d \in Daemon : op[k][d] # "none"

\* Mutant: a status without an exit code of its own goes through.
MOutcomeThrough(s) == IF s \in {"failed", "outcome_unknown"} THEN "failed" ELSE s

\* operationResult: what a document's status means for the exit.
Outcome(s) ==
  CASE s = "failed"                            -> "failed"
    [] s \in {"outcome_unknown", "reconciling"} -> "unknown"
    [] OTHER                                   -> "ok"

End(r) == cmd' = [cmd EXCEPT !.at = "out", !.result = r, !.reply = "none"]

\* The user sees a new key before anything is sent under it.
Announce(k, g) ==
  /\ k \in Fresh
  /\ used' = used \cup {k}
  /\ given' = IF g THEN given \cup {k} ELSE given
  /\ told' = [told EXCEPT !.key = k, !.etag = None, !.opted = want.opted]
  /\ UNCHANGED want

-----------------------------------------------------------------------------
(* The user.                                                               *)

\* Without a terminal, or with --json, the key must be given.
Start ==
  /\ cmd.at = "idle" /\ told.status \in {"new", "refused"}
  /\ \E k \in Key, g \in BOOLEAN :
       /\ g \/ Interactive
       /\ Announce(k, g)
       /\ cmd' = [Idle EXCEPT !.at = "read", !.key = k, !.given = g, !.opted = want.opted]
  /\ UNCHANGED <<server, net, wait>>

MustReplay == cmd.at = "idle" /\ told.status \in {"unknown", "confirm"}

\* Mutant: the replay command leaves the ETag out.
MRerunUnfenced ==
  /\ MustReplay
  /\ cmd' = [Idle EXCEPT !.at = "read", !.key = told.key, !.given = TRUE]
  /\ UNCHANGED <<server, net, user, wait>>

\* Mutant: the replay command leaves the key out.
MRerunKeyless ==
  /\ MustReplay
  /\ \E k \in Key :
       /\ Announce(k, TRUE)
       /\ cmd' = [Idle EXCEPT !.at = "read", !.key = k, !.given = TRUE]
  /\ UNCHANGED <<server, net, wait>>

\* The replay command as printed; after a kill the user adds the key to the
\* command of the first run.
Rerun ==
  /\ MustReplay
  /\ cmd' = [Idle EXCEPT !.at = "read", !.key = told.key, !.given = TRUE,
                         !.etag = told.etag, !.pinned = told.etag # None,
                         !.opted = told.opted]
  /\ UNCHANGED <<server, net, user, wait>>

\* Ctrl-C, or any other end of the process.
Kill ==
  /\ cmd.at # "idle"
  /\ told' = [told EXCEPT !.status =
                IF cmd.seen THEN "accepted"
                ELSE IF @ \in {"new", "refused"} THEN "unknown" ELSE @]
  /\ cmd' = Idle /\ wait' = NoWait
  /\ UNCHANGED <<server, net, want, used, given>>

-----------------------------------------------------------------------------
(* The request.                                                            *)

\* The version preflight, and ShowDaemon for the ETag unless --etag is given.
ReadState ==
  /\ cmd.at = "read" /\ ~want.task
  /\ cmd' = [cmd EXCEPT !.at = "send",
                        !.etag = IF want.fenced /\ ~cmd.pinned THEN rev ELSE @]
  /\ UNCHANGED <<server, net, user, wait>>

\* createGuestTask up to its ticket: the options that were not given come from
\* the workspace's configuration.  Both identifiers come from the key alone.
ReadTask ==
  /\ cmd.at = "read" /\ want.task
  /\ cmd' = [cmd EXCEPT !.at = "send", !.etag = IF cmd.opted THEN None ELSE rev]
  /\ UNCHANGED <<server, net, user, wait>>

\* No token, no such workspace, no ETag, no connection, 504, and of a task no
\* ticket, which may ask for a confirmation: nothing was sent.
ReadFails ==
  /\ cmd.at = "read"
  /\ \E r \in {"refused", "unauth", "unknown", "confirm"} : (r = "confirm" => want.task) /\ End(r)
  /\ UNCHANGED <<server, net, user, wait>>

Send ==
  /\ cmd.at = "send"
  /\ net' = net \cup {[key |-> cmd.key, etag |-> cmd.etag]}
  /\ cmd' = [cmd EXCEPT !.at = "sent"]
  /\ UNCHANGED <<server, user, wait>>

\* The Control Plane's answer reaches the process that still waits for it.
Answer(r, s) ==
  IF cmd.at = "sent" /\ cmd.key = r.key /\ cmd.etag = r.etag /\ cmd.reply = "none"
  THEN cmd' = [cmd EXCEPT !.reply = s] ELSE UNCHANGED cmd

\* A key it has seen is answered as before, whatever the ETag is now; a task's
\* document must be the same.
ArriveAgain(r) ==
  /\ r \in net /\ Known(r.key)
  /\ want.task => r.etag = made[r.key]
  /\ net' = net \ {r}
  /\ Answer(r, "accepted")
  /\ UNCHANGED <<server, user, wait>>

\* payload_conflict: another document under the same identifiers.
ArriveConflict(r) ==
  /\ r \in net /\ Known(r.key)
  /\ want.task /\ r.etag # made[r.key]
  /\ net' = net \ {r}
  /\ Answer(r, "refused")
  /\ UNCHANGED <<server, user, wait>>

\* A new key, and the ETag is current: operations start, of a bulk stop for
\* some of the workspaces only.
ArriveNew(r) ==
  /\ r \in net /\ ~Known(r.key)
  /\ want.fenced => r.etag = rev /\ rev < MaxRev
  /\ \E A \in SUBSET want.targets :
       /\ A = want.targets \/ Bulk
       /\ op' = [op EXCEPT ![r.key] = [d \in Daemon |-> IF d \in A THEN "running"
                                                      ELSE IF d \in want.targets THEN "refused"
                                                      ELSE "none"]]
  /\ rev' = IF want.fenced THEN rev + 1 ELSE rev
  /\ made' = IF want.task THEN [made EXCEPT ![r.key] = r.etag] ELSE made
  /\ net' = net \ {r}
  /\ Answer(r, "accepted")
  /\ UNCHANGED <<user, wait>>

\* A stale ETag (412), a missing approval (409), or any other refusal.  The relay
\* of a task knows refusals only: its 401 is not a call for a login.
ArriveRefused(r) ==
  /\ r \in net /\ ~Known(r.key)
  /\ net' = net \ {r}
  /\ \E s \in IF want.task THEN {"refused"} ELSE {"confirm", "refused", "unauth"} :
       Answer(r, s)
  /\ UNCHANGED <<server, user, wait>>

ArriveNever(r) ==
  /\ r \in net
  /\ net' = net \ {r}
  /\ UNCHANGED <<server, user, cmd, wait>>

-----------------------------------------------------------------------------
(* The answer.                                                             *)

\* One operation: with --wait it is waited for.  Its document may come with a
\* Retry-After.
AnswerOne ==
  /\ cmd.at = "sent" /\ cmd.reply = "accepted" /\ ~Bulk /\ ~want.task
  /\ \E d \in want.targets, retry \in 0..MaxPause :
       LET s == op[cmd.key][d] IN
       IF want.waits
       THEN /\ cmd' = [cmd EXCEPT !.at = "wait", !.seen = TRUE, !.reply = "none"]
            /\ wait' = Entered(s, retry, Limit, "answer")
       ELSE /\ cmd' = [cmd EXCEPT !.at = "out", !.seen = TRUE, !.reply = "none",
                                  !.result = Outcome(s)]
            /\ UNCHANGED wait
  /\ UNCHANGED <<server, net, user>>

AnswerBulk ==
  /\ cmd.at = "sent" /\ cmd.reply = "accepted" /\ Bulk
  /\ cmd' = [cmd EXCEPT !.at = "children", !.seen = TRUE, !.reply = "none",
                        !.todo = want.targets, !.total = Limit]
  /\ UNCHANGED <<server, net, user, wait>>

\* The receipt says applied and names this task, whatever its status is by now.
AnswerTask ==
  /\ cmd.at = "sent" /\ cmd.reply = "accepted" /\ want.task
  /\ cmd' = [cmd EXCEPT !.at = "out", !.seen = TRUE, !.reply = "none", !.result = "ok"]
  /\ UNCHANGED <<server, net, user, wait>>

\* mutationFailure.
AnswerRefused ==
  /\ cmd.at = "sent" /\ cmd.reply \in {"confirm", "refused", "unauth"}
  /\ End(cmd.reply)
  /\ UNCHANGED <<server, net, user, wait>>

\* No answer (the Control Plane's client gives up after 30 s), one that does not
\* decode, 504.
OutcomeUnknown ==
  /\ cmd.at = "sent" /\ ~want.task
  /\ End("unknown")
  /\ UNCHANGED <<server, net, user, wait>>

\* What may happen instead, and need not: the relay of a task breaks off or its
\* receipt does not decode, for nothing bounds the wait for a gateway; or an
\* answer comes from elsewhere.  That has no version header (exit 2), no JSON
\* (exit 1) or, from a relay, any status but 2xx (exit 5), and reads as a refusal.
BrokenOff ==
  /\ cmd.at = "sent"
  /\ \E r \in {"unknown", "refused"} :
       /\ (r = "unknown" => want.task) /\ (r = "refused" => BadAnswers)
       /\ End(r)
  /\ UNCHANGED <<server, net, user, wait>>

-----------------------------------------------------------------------------
(* Outcomes of a bulk stop, and the wait.                                  *)

\* Outcomes are handled in the order of the answer, whatever it is.
Following == CHOOSE d \in cmd.todo : TRUE

\* A workspace that was refused, or is not waited for.
PassChild ==
  /\ cmd.at = "children" /\ cmd.todo # {}
  /\ LET d       == Following
         refused == op[cmd.key][d] = "refused" IN
       /\ refused \/ ~want.waits
       /\ cmd' = [cmd EXCEPT !.todo = @ \ {d},
                    !.result = IF refused /\ @ = "ok" THEN "failed" ELSE @]
  /\ UNCHANGED <<server, net, user, wait>>

\* Its share of the deadline is what remains; the read itself takes no tick.
ShowChild ==
  /\ cmd.at = "children" /\ want.waits /\ cmd.todo # {}
  /\ LET d == Following IN
       /\ op[cmd.key][d] # "refused"
       /\ IF cmd.total = 0
          THEN End("unknown") /\ UNCHANGED wait
          ELSE /\ cmd' = [cmd EXCEPT !.at = "show", !.todo = @ \ {d}, !.child = d, !.total = 0]
               /\ wait' = [NoWait EXCEPT !.left = cmd.total]
  /\ UNCHANGED <<server, net, user>>

ShowAnswers ==
  /\ cmd.at = "show"
  /\ \E retry \in 0..MaxPause : wait' = Entered(op[cmd.key][cmd.child], retry, wait.left, "poll")
  /\ cmd' = [cmd EXCEPT !.at = "wait"]
  /\ UNCHANGED <<server, net, user>>

ShowFails ==
  /\ cmd.at = "show"
  /\ \E r \in {"error", "unauth", "unknown"} : End(r)
  /\ wait' = NoWait
  /\ UNCHANGED <<server, net, user>>

WaitResult ==
  CASE wait.at = "final" -> Outcome(wait.last)
    [] wait.at = "late"  -> "unknown"
    [] OTHER             -> wait.at

WaitOver == cmd.at = "wait" /\ wait.at \in {"final", "late", "error", "unauth"}

WaitedOne ==
  /\ WaitOver /\ ~Bulk
  /\ End(WaitResult)
  /\ wait' = NoWait
  /\ UNCHANGED <<server, net, user>>

\* Mutant: the last workspace decides.
MLastChildWins ==
  /\ WaitOver /\ Bulk
  /\ cmd' = [cmd EXCEPT !.at = IF WaitResult = "unknown" THEN "out" ELSE "children",
               !.child = None, !.total = wait.left, !.result = WaitResult]
  /\ wait' = NoWait
  /\ UNCHANGED <<server, net, user>>

\* A result that is not success replaces the one so far; only exit 8 stops.
WaitedChild ==
  /\ WaitOver /\ Bulk
  /\ cmd' = [cmd EXCEPT !.at = IF WaitResult = "unknown" THEN "out" ELSE "children",
               !.child = None, !.total = wait.left,
               !.result = IF WaitResult = "ok" THEN @ ELSE WaitResult]
  /\ wait' = NoWait
  /\ UNCHANGED <<server, net, user>>

AllChildren ==
  /\ cmd.at = "children" /\ cmd.todo = {}
  /\ End(cmd.result)
  /\ UNCHANGED <<server, net, user, wait>>

\* The answer to create is a workspace, of which spawnDaemon makes the
\* operation's document: the Retry-After that came with it is dropped.
Hears == ~(want.creates /\ wait.from = "answer")

WaitStep ==
  /\ cmd.at = "wait"
  /\ \/ Loop(Hears) \/ Awake \/ PollFails
     \/ \E d \in want.targets, retry \in 0..MaxPause :
          /\ cmd.child \in {None, d}
          /\ PollAnswers(op[cmd.key][d], retry)
  /\ UNCHANGED <<server, net, user, cmd>>

Tick ==
  /\ cmd.at = "wait" /\ wait.at \in {"sleep", "poll"}
  /\ WaitTicks
  /\ UNCHANGED <<server, net, user, cmd>>

-----------------------------------------------------------------------------
(* app.Run.                                                                *)

\* A command that ended with authentication_required, at a terminal, logs in
\* and is dispatched again from the start: a key that was not given is
\* generated anew.
Relogin ==
  /\ cmd.at = "out" /\ cmd.result = "unauth" /\ Interactive /\ ~cmd.again
  /\ \E k \in Key :
       /\ \/ cmd.given /\ k = cmd.key /\ UNCHANGED user
          \/ ~cmd.given /\ Announce(k, FALSE)
       /\ cmd' = [Idle EXCEPT !.at = "read", !.key = k, !.given = cmd.given,
                    !.pinned = cmd.pinned,
                    !.etag = IF cmd.pinned THEN cmd.etag ELSE None,
                    !.opted = cmd.opted, !.again = TRUE, !.seen = cmd.seen]
  /\ UNCHANGED <<server, net, wait>>

\* The replay that runTask prints names the key and none of the options.
TaskGuide(r) == [status |-> r, key |-> cmd.key, etag |-> None, opted |-> FALSE]

\* The replay of any other command has its options and the ETag.
Guide(r) ==
  IF want.task THEN TaskGuide(r)
  ELSE [status |-> r, key |-> cmd.key, etag |-> cmd.etag, opted |-> cmd.opted]

\* The exit, and what it tells the user (mutationFailure, reconcileGuide).  A
\* definite failure of a replay says nothing of the run before it.
Exit ==
  /\ cmd.at = "out"
  /\ told' =
       CASE cmd.seen -> [told EXCEPT !.status = "accepted"]
         [] ~cmd.seen /\ cmd.result \in {"unknown", "confirm"} ->
              Guide(cmd.result)
         [] OTHER -> [told EXCEPT !.status = IF @ = "new" THEN "refused" ELSE @]
  /\ cmd' = Idle
  /\ UNCHANGED <<server, net, want, used, given, wait>>

-----------------------------------------------------------------------------
(* The Control Plane and its other users.                                  *)

\* What a task comes to matters to no command here.
OpMoves(k, d) ==
  /\ ~want.task
  /\ op[k][d] \in {"running", "reconciling"}
  /\ \E s \in Status \ {"running"} : op' = [op EXCEPT ![k][d] = s]
  /\ UNCHANGED <<rev, made, net, user, cmd, wait>>

OthersChange ==
  /\ want.fenced \/ want.task
  /\ rev < MaxRev
  /\ rev' = rev + 1
  /\ UNCHANGED <<op, made, net, user, cmd, wait>>

-----------------------------------------------------------------------------

RequestStep == ReadState \/ ReadTask \/ ReadFails \/ Send
AnswerStep  == AnswerOne \/ AnswerBulk \/ AnswerTask \/ AnswerRefused \/ OutcomeUnknown
BulkStep    == PassChild \/ ShowChild \/ ShowAnswers \/ ShowFails \/ WaitedChild \/ AllChildren

CommandStep ==
  RequestStep \/ AnswerStep \/ BulkStep \/ WaitStep \/ WaitedOne \/ Relogin \/ Exit

NetworkStep(r) ==
  ArriveAgain(r) \/ ArriveConflict(r) \/ ArriveNew(r) \/ ArriveRefused(r) \/ ArriveNever(r)

Next ==
  \/ Start \/ Rerun \/ Kill
  \/ CommandStep \/ BrokenOff
  \/ Tick
  \/ \E r \in net : NetworkStep(r)
  \/ \E k \in Key, d \in Daemon : OpMoves(k, d)
  \/ OthersChange

Spec == Init /\ [][Next]_vars

\* The process runs, its client for the Control Plane gives up on a silent server
\* (the one for the gateway does not), and time passes.  Neither the Control
\* Plane nor the gateway nor the network has to do anything.
FairSpec == Spec /\ WF_vars(CommandStep) /\ WF_vars(Tick)

-----------------------------------------------------------------------------
(* What the commands promise.                                              *)

Effects(d) == {k \in Key : Taken(op[k][d])}

\* What a user wants done once is done at most once when the user gives the
\* keys: over lost answers, kills, late requests, replays and logins.  A task
\* is, whoever makes the keys: no login comes after its request was sent.
OncePerWish ==
  used \subseteq given \/ want.task => \A d \in Daemon : \A k, l \in Effects(d) : k = l

\* The CLI "never retries a possibly destructive or billable mutation on its
\* own, and never under a new key" (README.md:157).
NeverUnderNewKey == \A d \in Daemon : \A k, l \in Effects(d) : k = l

\* "When a mutation's outcome cannot be determined (a transport failure after
\* dispatch, an invalid response, ...), the CLI exits 8" (README.md:157): what a
\* user is told is refused has had no effect, and has none later.
RefusedIsFinal ==
  cmd.at = "idle" /\ told.status = "refused" => \A d \in Daemon : Effects(d) = {}

\* "Replay guidance preserves the original command options, ETag and
\* idempotency key" (README.md:137): a replay takes effect only on the state
\* that the first run had read.
ReplayKeepsState ==
  [][\A k \in Key, d \in Daemon :
       told.etag # None /\ op[k][d] = "none" /\ op'[k][d] # "none" => rev = told.etag]_vars

\* "Replay guidance preserves the original command options" (README.md:137): a
\* task that was asked for with options does not run with the workspace's
\* defaults in their place.
ReplayKeepsOptions ==
  want.opted => \A k \in Key : Known(k) => made[k] = None

\* Exit 0 of a command that waits says that every operation succeeded, of one
\* that does not that every one was accepted.
ZeroIsDone ==
  cmd.at = "out" /\ cmd.result = "ok" => \A d \in want.targets :
    IF want.waits THEN op[cmd.key][d] = "succeeded" ELSE Taken(op[cmd.key][d])

\* "Polling honours Retry-After" (README.md:147): no poll before the last
\* document's Retry-After is over, also when the deadline comes first.  The first
\* poll of create is left out: it keeps to the backoff.
RetryAfterKept ==
  [][wait.at = "sleep" /\ wait'.at = "poll"
       => wait.hold = 0 \/ (want.creates /\ wait.from = "answer")]_vars


=============================================================================
