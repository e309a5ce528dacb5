--------------------------- MODULE UploadRecovery ---------------------------
(***************************************************************************)
(* `daemons upload` and `daemons files recover` for one daemon: the local  *)
(* record of in-flight operations (internal/upload/staging.go), the upload *)
(* loop (internal/upload/upload.go), the transfer of one file              *)
(* (internal/client), the recovery loop (internal/app/upload_recovery.go)  *)
(* and the guest that applies the upload and answers receipt reads.        *)
(*                                                                         *)
(* A CLI is one slot in which commands run one after the other; several    *)
(* slots are several terminals of the same user.  The CLIs share only the  *)
(* record on disk and the guest.  staging.go takes no lock: Add and Remove *)
(* read the record, then replace it by rename, which is two steps here.    *)
(***************************************************************************)
EXTENDS Naturals, Sequences, FiniteSets

CONSTANTS
  CLI,          \* command slots
  Op,           \* operation UUIDs the CLIs may mint
  Name,         \* basenames of files in the upload folder
  Batches,      \* the operand lists of one upload, as sequences of basenames
  MaxPending,   \* maximumPending, 256 in the code
  Protocols,    \* what a ticket may name: "relay" (HTTP) or "channel" (files.v1)
  LateErrors,   \* the gateway may answer an error status after the guest began
  LateArrival,  \* a request may reach the guest after a later receipt read
  ForeignPath,  \* the guest may put a file outside the configured upload folder
  None          \* no operation, no intent

Intent == [name : Name, force : BOOLEAN]

ASSUME ConstantsAssumption ==
  /\ None \notin Op \cup Intent
  /\ Batches \subseteq Seq(Name)
  /\ MaxPending \in Nat \ {0}
  /\ Protocols \subseteq {"relay", "channel"}
  /\ LateErrors \in BOOLEAN
  /\ LateArrival \in BOOLEAN
  /\ ForeignPath \in BOOLEAN

VARIABLES
  record,    \* operations in uploads/<daemon>.json; {} is the absent file
  cmd,       \* the command a CLI runs
  pc,        \* where it is
  batch,     \* files the upload has still to send
  force,     \* --force
  hand,      \* the operation it is working on
  listed,    \* what its last Staging.List returned
  todo,      \* operations a recovery has still to read
  guest,     \* what became of an operation outside the CLI
  files,     \* basenames present in the upload folder
  intent,    \* the file name and consent an operation was minted for
  verdicts   \* history: all that any CLI concluded about an operation

cliVars   == <<cmd, pc, batch, force, hand, listed, todo>>
guestVars == <<guest, files>>
vars      == <<record, cliVars, guestVars, intent, verdicts>>

Label   == {"idle", "check", "next", "add", "mint", "dispatch", "await",
            "remove", "rewrite", "recover"}
\* "applied" is status uploaded of an upload and applied of a recovery, "absent"
\* is not_attempted and not_found; every other status concludes nothing.
Verdict == {"applied", "absent"}

TypeOK ==
  /\ record \in SUBSET Op
  /\ cmd \in [CLI -> {"none", "upload", "recover"}]
  /\ pc \in [CLI -> Label]
  /\ batch \in [CLI -> Seq(Name)]
  /\ force \in [CLI -> BOOLEAN]
  /\ hand \in [CLI -> Op \cup {None}]
  /\ listed \in [CLI -> SUBSET Op]
  /\ todo \in [CLI -> SUBSET Op]
  /\ guest \in [Op -> {"idle", "sent", "receiving", "applied", "dropped"}]
  /\ files \in SUBSET Name
  /\ intent \in [Op -> Intent \cup {None}]
  /\ verdicts \in [Op -> SUBSET Verdict]

Init ==
  /\ record = {}
  /\ cmd = [c \in CLI |-> "none"]
  /\ pc = [c \in CLI |-> "idle"]
  /\ batch = [c \in CLI |-> <<>>]
  /\ force = [c \in CLI |-> FALSE]
  /\ hand = [c \in CLI |-> None]
  /\ listed = [c \in CLI |-> {}]
  /\ todo = [c \in CLI |-> {}]
  /\ guest = [o \in Op |-> "idle"]
  /\ files \in SUBSET Name
  /\ intent = [o \in Op |-> None]
  /\ verdicts = [o \in Op |-> {}]

-----------------------------------------------------------------------------
(* Steps of one command.                                                   *)

Goto(c, from, to) == pc[c] = from /\ pc' = [pc EXCEPT ![c] = to]

\* The process ends and takes its memory with it.
Leave(c) ==
  /\ cmd' = [cmd EXCEPT ![c] = "none"]
  /\ pc' = [pc EXCEPT ![c] = "idle"]
  /\ batch' = [batch EXCEPT ![c] = <<>>]
  /\ force' = [force EXCEPT ![c] = FALSE]
  /\ hand' = [hand EXCEPT ![c] = None]
  /\ listed' = [listed EXCEPT ![c] = {}]
  /\ todo' = [todo EXCEPT ![c] = {}]

Conclude(o, v) == verdicts' = [verdicts EXCEPT ![o] = @ \cup {v}]

\* NewUploadOperationID, and what it is minted for.
Mint(c, o) ==
  /\ pc[c] = "next" /\ batch[c] # <<>>
  /\ intent[o] = None
  /\ intent' = [intent EXCEPT ![o] = [name |-> Head(batch[c]), force |-> force[c]]]

\* The error branch of Run for any exit code but 8: the file counts as not
\* attempted, its operation leaves the record and the run stops.
GiveUp(c) ==
  /\ Conclude(hand[c], "absent")
  /\ pc' = [pc EXCEPT ![c] = "remove"]
  /\ batch' = [batch EXCEPT ![c] = <<>>]
  /\ UNCHANGED <<record, cmd, force, hand, listed, todo, guestVars, intent>>

\* Remove wrote its list, had nothing to remove or could not write.
Resume(c) ==
  /\ pc' = [pc EXCEPT ![c] = IF cmd[c] = "upload" THEN "next" ELSE "recover"]
  /\ hand' = [hand EXCEPT ![c] = None]
  /\ listed' = [listed EXCEPT ![c] = {}]
  /\ UNCHANGED <<cmd, batch, force, todo, guestVars, intent, verdicts>>

-----------------------------------------------------------------------------
(* Mutants: what a plausible bug would make of a step below.  No           *)
(* specification uses them; each breaks a property a run checks.           *)

\* A broken relay transfer counts as a refusal.
MUnknownIsRefused(c) == pc[c] = "await" /\ "relay" \in Protocols /\ GiveUp(c)

\* The new entry replaces the record instead of joining it.
MAddOverwrites(c) ==
  /\ Goto(c, "add", "mint")
  /\ record' = {hand[c]}
  /\ listed' = [listed EXCEPT ![c] = {}]
  /\ UNCHANGED <<cmd, batch, force, hand, todo, guestVars, intent, verdicts>>

\* The limit was checked on one reading of the record, the entry joins another.
MAddRereads(c) ==
  /\ Goto(c, "add", "mint")
  /\ record' = record \cup {hand[c]}
  /\ listed' = [listed EXCEPT ![c] = {}]
  /\ UNCHANGED <<cmd, batch, force, hand, todo, guestVars, intent, verdicts>>

\* The upload goes on although its record could not be written.
MAddErrorIgnored(c) ==
  /\ Goto(c, "add", "mint")
  /\ UNCHANGED <<record, cmd, batch, force, hand, listed, todo, guestVars,
                 intent, verdicts>>

\* Remove clears the file.
MRemoveClears(c) ==
  /\ pc[c] = "rewrite"
  /\ record' = {}
  /\ Resume(c)

\* Recovery takes outcome_unknown for a conclusion of its own.
MReceiptAnyStatus(o) ==
  IF guest[o] = "applied" THEN {"applied"} ELSE {"outcome_unknown"}

\* Recovery runs until nothing is pending.
MFinishWhenEmpty(c) ==
  /\ pc[c] = "recover" /\ todo[c] = {} /\ record = {}
  /\ Leave(c)
  /\ UNCHANGED <<record, guestVars, intent, verdicts>>

-----------------------------------------------------------------------------
(* daemons upload                                                          *)

\* Bound: an upload starts only while there is an unused UUID for each file.
EnoughOps(b) ==
  \E f \in [DOMAIN b -> {o \in Op : intent[o] = None}] :
    \A i, j \in DOMAIN b : f[i] = f[j] => i = j

\* Without --force the upload folder is listed before anything is sent.
StartUpload(c) ==
  /\ pc[c] = "idle"
  /\ \E b \in Batches, f \in BOOLEAN :
       /\ EnoughOps(b)
       /\ batch' = [batch EXCEPT ![c] = b]
       /\ force' = [force EXCEPT ![c] = f]
       /\ pc' = [pc EXCEPT ![c] = IF f THEN "next" ELSE "check"]
  /\ cmd' = [cmd EXCEPT ![c] = "upload"]
  /\ UNCHANGED <<record, hand, listed, todo, guestVars, intent, verdicts>>

\* assertNoOverwrite.  The names are looked up once for the whole batch.
NoCollision(c) ==
  /\ Goto(c, "check", "next")
  /\ \A i \in DOMAIN batch[c] : batch[c][i] \notin files
  /\ UNCHANGED <<record, cmd, batch, force, hand, listed, todo, guestVars,
                 intent, verdicts>>

\* A collision, a folder of too many pages or an unreadable listing.
RefuseOverwrite(c) ==
  /\ pc[c] = "check"
  /\ Leave(c)
  /\ UNCHANGED <<record, guestVars, intent, verdicts>>

\* The List half of Staging.Add.
BeginFile(c) ==
  /\ \E o \in Op : Mint(c, o) /\ hand' = [hand EXCEPT ![c] = o]
  /\ Cardinality(record) < MaxPending
  /\ pc' = [pc EXCEPT ![c] = "add"]
  /\ listed' = [listed EXCEPT ![c] = record]
  /\ batch' = [batch EXCEPT ![c] = Tail(@)]
  /\ UNCHANGED <<record, cmd, force, todo, guestVars, verdicts>>

\* upload_staging_full: the run stops; Remove finds nothing to remove.
StagingFull(c) ==
  /\ Cardinality(record) >= MaxPending
  /\ \E o \in Op : Mint(c, o) /\ Conclude(o, "absent")
  /\ Leave(c)
  /\ UNCHANGED <<record, guestVars>>

\* The write half of Staging.Add: temporary file and rename.
AddWrite(c) ==
  /\ Goto(c, "add", "mint")
  /\ record' = listed[c] \cup {hand[c]}
  /\ listed' = [listed EXCEPT ![c] = {}]
  /\ UNCHANGED <<cmd, batch, force, hand, todo, guestVars, intent, verdicts>>

AddFails(c) ==
  /\ pc[c] = "add"
  /\ Conclude(hand[c], "absent")
  /\ Leave(c)
  /\ UNCHANGED <<record, guestVars, intent>>

TicketMinted(c) ==
  /\ Goto(c, "mint", "dispatch")
  /\ UNCHANGED <<record, cmd, batch, force, hand, listed, todo, guestVars,
                 intent, verdicts>>

\* No ticket, no connection, or a lock proof that is missing or refused.
TicketRefused(c) == pc[c] \in {"mint", "dispatch"} /\ GiveUp(c)

Dispatch(c) ==
  /\ Goto(c, "dispatch", "await")
  /\ guest' = [guest EXCEPT ![hand[c]] = IF LateArrival THEN "sent" ELSE "receiving"]
  /\ UNCHANGED <<record, cmd, batch, force, hand, listed, todo, files, intent, verdicts>>

\* Exit 8: the run stops and the operation stays in the record.  The Control
\* Plane may answer the ticket request so (504), the HTTP relay reports every
\* broken transfer so, and both transports a result that is not the receipt.
OutcomeUnknown(c) ==
  /\ \/ pc[c] = "mint"
     \/ pc[c] = "await" /\ "relay" \in Protocols
     \/ pc[c] = "await" /\ guest[hand[c]] = "applied"
  /\ Leave(c)
  /\ UNCHANGED <<record, guestVars, intent, verdicts>>

\* The receipt names a path outside the configured upload folder: exit 10.  The
\* file keeps the status not_attempted, its operation stays in the record.
UnsafePath(c) ==
  /\ ForeignPath
  /\ pc[c] = "await" /\ guest[hand[c]] = "applied"
  /\ Conclude(hand[c], "absent")
  /\ Leave(c)
  /\ UNCHANGED <<record, guestVars, intent>>

\* A status outside 2xx or a file_error frame: exit 9 or 5.
AnswerRefused(c) ==
  /\ pc[c] = "await"
  /\ guest[hand[c]] = "dropped" \/ LateErrors
  /\ GiveUp(c)

\* A files channel that breaks after dispatch is filesChannelUnavailable,
\* which carries exit 5 like a refusal.
ChannelLost(c) ==
  /\ pc[c] = "await" /\ "channel" \in Protocols
  /\ GiveUp(c)

AnswerApplied(c) ==
  /\ Goto(c, "await", "remove")
  /\ guest[hand[c]] = "applied"
  /\ Conclude(hand[c], "applied")
  /\ UNCHANGED <<record, cmd, batch, force, hand, listed, todo, guestVars, intent>>

FinishUpload(c) ==
  /\ pc[c] = "next" /\ batch[c] = <<>>
  /\ Leave(c)
  /\ UNCHANGED <<record, guestVars, intent, verdicts>>

-----------------------------------------------------------------------------
(* Staging.Remove, called by both commands with the operation in hand.     *)

RemoveList(c) ==
  /\ pc[c] = "remove" /\ hand[c] \in record
  /\ pc' = [pc EXCEPT ![c] = "rewrite"]
  /\ listed' = [listed EXCEPT ![c] = record]
  /\ UNCHANGED <<record, cmd, batch, force, hand, todo, guestVars, intent, verdicts>>

RemoveNothing(c) ==
  /\ pc[c] = "remove" /\ hand[c] \notin record
  /\ Resume(c) /\ UNCHANGED record

RemoveWrite(c) ==
  /\ pc[c] = "rewrite"
  /\ record' = listed[c] \ {hand[c]}
  /\ Resume(c)

\* The upload ignores an error of Remove and recovery only reports it.
RemoveFails(c) ==
  /\ pc[c] \in {"remove", "rewrite"}
  /\ Resume(c) /\ UNCHANGED record

-----------------------------------------------------------------------------
(* daemons files recover                                                   *)

StartRecover(c) ==
  /\ Goto(c, "idle", "recover")
  /\ cmd' = [cmd EXCEPT ![c] = "recover"]
  /\ todo' = [todo EXCEPT ![c] = record]
  /\ UNCHANGED <<record, batch, force, hand, listed, guestVars, intent, verdicts>>

\* What a receipt read of an operation may conclude; a guest in the middle of
\* an upload answers outcome_unknown, one that never heard of it not_found.
Receipt(o) ==
  CASE guest[o] = "applied"                     -> {"applied"}
    [] guest[o] = "receiving"                   -> {}
    [] guest[o] \in {"idle", "sent", "dropped"} -> {"absent"}

\* One round of the loop: "applied" and "not_found" clear the record, any
\* other status and an unreadable receipt keep it.
ReadReceipt(c) ==
  /\ pc[c] = "recover"
  /\ \E o \in todo[c] :
       /\ todo' = [todo EXCEPT ![c] = @ \ {o}]
       /\ \/ \E v \in Receipt(o) :
               /\ Conclude(o, v)
               /\ hand' = [hand EXCEPT ![c] = o]
               /\ pc' = [pc EXCEPT ![c] = "remove"]
          \/ UNCHANGED <<verdicts, hand, pc>>
  /\ UNCHANGED <<record, cmd, batch, force, listed, guestVars, intent>>

FinishRecover(c) ==
  /\ pc[c] = "recover" /\ todo[c] = {}
  /\ Leave(c)
  /\ UNCHANGED <<record, guestVars, intent, verdicts>>

-----------------------------------------------------------------------------
(* The process may be killed at any step; the guest goes on by itself.     *)

Crash(c) ==
  /\ pc[c] # "idle"
  /\ Leave(c)
  /\ UNCHANGED <<record, guestVars, intent, verdicts>>

GuestAdmit(o) ==
  /\ guest[o] = "sent"
  /\ guest' = [guest EXCEPT ![o] = "receiving"]
  /\ UNCHANGED <<record, cliVars, files, intent, verdicts>>

\* The guest replaces a file of the same name.
GuestApply(o) ==
  /\ guest[o] = "receiving"
  /\ guest' = [guest EXCEPT ![o] = "applied"]
  /\ files' = files \cup {intent[o].name}
  /\ UNCHANGED <<record, cliVars, intent, verdicts>>

GuestDrop(o) ==
  /\ guest[o] \in {"sent", "receiving"}
  /\ guest' = [guest EXCEPT ![o] = "dropped"]
  /\ UNCHANGED <<record, cliVars, files, intent, verdicts>>

-----------------------------------------------------------------------------

UploadStep(c) ==
  \/ NoCollision(c) \/ RefuseOverwrite(c)
  \/ BeginFile(c) \/ StagingFull(c) \/ AddWrite(c) \/ AddFails(c)
  \/ TicketMinted(c) \/ TicketRefused(c) \/ Dispatch(c)
  \/ AnswerRefused(c) \/ AnswerApplied(c) \/ FinishUpload(c)

TransferFault(c) == OutcomeUnknown(c) \/ UnsafePath(c) \/ ChannelLost(c)

RemoveStep(c)  ==
  \/ RemoveList(c) \/ RemoveNothing(c) \/ RemoveWrite(c) \/ RemoveFails(c)
RecoverStep(c) == ReadReceipt(c) \/ FinishRecover(c)
GuestStep(o)   == GuestAdmit(o) \/ GuestApply(o) \/ GuestDrop(o)

CommandStep(c) == UploadStep(c) \/ RemoveStep(c) \/ RecoverStep(c)
UserStep(c)    == StartUpload(c) \/ StartRecover(c) \/ Crash(c)

Next ==
  \/ \E c \in CLI : CommandStep(c) \/ TransferFault(c) \/ UserStep(c)
  \/ \E o \in Op : GuestStep(o)

Spec == Init /\ [][Next]_vars

\* A running process takes its steps and the guest finishes what it began: the
\* relay has no timeout of its own, the gateway ends "a lease-governed stream"
\* (content_relay.go:272).
\* Nothing obliges a transfer to break or the user to start or kill a command.
Fairness ==
  /\ \A c \in CLI : WF_vars(CommandStep(c))
  /\ \A o \in Op : WF_vars(GuestStep(o))

FairSpec == Spec /\ Fairness

-----------------------------------------------------------------------------
(* What the record is for.                                                 *)

MayApply(o)  == guest[o] \in {"sent", "receiving", "applied"}
Confirmed(o) == "applied" \in verdicts[o]
Absent(o)    == "absent" \in verdicts[o]

\* An upload the guest may apply or has applied is either confirmed to the CLI
\* that asked or still in the record, so `files recover` can resolve it after
\* any crash, lost answer or failed write (upload.go Run, staging.go); also one
\* that was reported as not attempted because of the path in its receipt.
Recoverable == \A o \in Op : MayApply(o) /\ ~Confirmed(o) => o \in record

\* maximumPending bounds the record even when two CLIs both passed the check
\* of Staging.Add on a record with one free place.
CapacityHolds == Cardinality(record) <= MaxPending

\* "Nothing else may delete a record that is still unresolved" (staging.go:101):
\* an entry leaves the record only after its outcome was concluded.
OnlyResolvedDeleted ==
  [][\A o \in record \ record' : Confirmed(o) \/ Absent(o)]_vars

\* The record is written before the request leaves the CLI (staging.go:85), so
\* there is no moment at which a dispatched operation is unknown on disk.
RecordedBeforeDispatch ==
  [][\A o \in Op : guest[o] = "idle" /\ guest'[o] # "idle" => o \in record]_vars

\* Every command ends: an upload because its batch is finite and the guest
\* finishes, a recovery because it reads each listed receipt once and never
\* waits for an unresolved one.
CommandsEnd == \A c \in CLI : cmd[c] # "none" ~> cmd[c] = "none"

\* The record and the guest implement UploadPromise.
Entry ==
  [o \in Op |-> IF o \in record THEN "recorded"
               ELSE IF verdicts[o] = {} THEN "fresh" ELSE "closed"]

Effect ==
  [o \in Op |-> CASE guest[o] = "idle"    -> "none"
                  [] guest[o] = "applied" -> "done"
                  [] guest[o] = "dropped" -> "never"
                  [] guest[o] \in {"sent", "receiving"} -> "possible"]

Promise == INSTANCE UploadPromise WITH entry <- Entry, effect <- Effect

\* The upload loop, the recovery loop, crashes and the guest together keep the
\* promise: an entry opens before its effect is possible and closes only after
\* the effect is decided.
KeepsPromise == Promise!PSpec

=============================================================================
