------------------------ MODULE UploadRecoveryProofs ------------------------
(***************************************************************************)
(* What the upload record guarantees for every number of CLIs, operations, *)
(* files and record places.                                                *)
(***************************************************************************)
EXTENDS UploadRecovery, FiniteSetTheorems, TLAPS

-----------------------------------------------------------------------------
(* Types.                                                                  *)

\* An operation is in hand wherever the code has a local `operation`.
Working    == {"add", "mint", "dispatch", "await", "remove", "rewrite"}
HandTyped  == \A c \in CLI : pc[c] \in Working => hand[c] \in Op

\* An operation the guest heard of was minted for a file.
Sending == {"add", "mint", "dispatch", "await"}
Minted  ==
  /\ \A c \in CLI : pc[c] \in Sending => intent[hand[c]] # None
  /\ \A o \in Op : guest[o] # "idle" => intent[o] # None

\* The typing invariant: every variable keeps its type, no step runs without
\* the operation it works on, no operation is sent before it has a file.
TypeInv == TypeOK /\ HandTyped /\ Minted

LEMMA LeaveTypes ==
  ASSUME TypeInv, NEW c \in CLI, Leave(c)
  PROVE  /\ cmd' \in [CLI -> {"none", "upload", "recover"}]
         /\ pc' \in [CLI -> Label]
         /\ batch' \in [CLI -> Seq(Name)]
         /\ force' \in [CLI -> BOOLEAN]
         /\ hand' \in [CLI -> Op \cup {None}]
         /\ listed' \in [CLI -> SUBSET Op]
         /\ todo' \in [CLI -> SUBSET Op]
         /\ HandTyped'
         /\ \A d \in CLI : pc'[d] \in Sending => pc[d] \in Sending /\ hand'[d] = hand[d]
<1>1. /\ cmd' \in [CLI -> {"none", "upload", "recover"}]
      /\ force' \in [CLI -> BOOLEAN]
      /\ hand' \in [CLI -> Op \cup {None}]
      /\ listed' \in [CLI -> SUBSET Op]
      /\ todo' \in [CLI -> SUBSET Op]
  BY DEF TypeInv, TypeOK, Leave
<1>2. pc' \in [CLI -> Label] /\ batch' \in [CLI -> Seq(Name)]
  BY DEF TypeInv, TypeOK, Leave, Label
<1>3. HandTyped'
  BY DEF TypeInv, TypeOK, HandTyped, Leave, Working
<1>4. \A d \in CLI : pc'[d] \in Sending => pc[d] \in Sending /\ hand'[d] = hand[d]
  BY DEF TypeInv, TypeOK, Leave, Sending
<1> QED BY <1>1, <1>2, <1>3, <1>4

LEMMA MintTypes ==
  ASSUME TypeInv, NEW c \in CLI, NEW o \in Op, Mint(c, o)
  PROVE  /\ intent' \in [Op -> Intent \cup {None}]
         /\ \A p \in Op : intent'[p] = IF p = o THEN intent'[o] ELSE intent[p]
         /\ intent[o] = None /\ intent'[o] # None
         /\ Tail(batch[c]) \in Seq(Name)
<1> USE DEF TypeInv, TypeOK
<1>1. Head(batch[c]) \in Name /\ Tail(batch[c]) \in Seq(Name)
  BY DEF Mint
<1>2. [name |-> Head(batch[c]), force |-> force[c]] \in Intent
  BY <1>1 DEF Intent
<1> QED BY <1>1, <1>2, ConstantsAssumption DEF Mint

\* Every variable of an upload and of a recovery keeps its type for any number
\* of commands, and Run and recoverUploads have an operation in hand at every
\* step that names one in a ticket, a request or a receipt read.
THEOREM TypeCorrect == Spec => []TypeInv
<1> USE DEF TypeInv, Minted, Sending
<1>1. Init => TypeInv
  BY ConstantsAssumption DEF Init, TypeOK, HandTyped, Working, Label
<1>2. TypeInv /\ [Next]_vars => TypeInv'
  <2> SUFFICES ASSUME TypeInv, [Next]_vars PROVE TypeInv'
    OBVIOUS
  <2> USE DEF TypeOK, HandTyped, Working, Label, Goto
  <2>1. ASSUME NEW c \in CLI, StartUpload(c) PROVE TypeInv'
    BY <2>1, ConstantsAssumption DEF StartUpload, guestVars
  <2>2. ASSUME NEW c \in CLI, NoCollision(c) PROVE TypeInv'
    BY <2>2 DEF NoCollision, guestVars
  <2>3. ASSUME NEW c \in CLI, RefuseOverwrite(c) PROVE TypeInv'
    BY <2>3, LeaveTypes DEF RefuseOverwrite, guestVars
  <2>4. ASSUME NEW c \in CLI, BeginFile(c) PROVE TypeInv'
    <3>1. PICK o \in Op : Mint(c, o) /\ hand' = [hand EXCEPT ![c] = o]
      BY <2>4 DEF BeginFile
    <3>2. TypeOK' /\ HandTyped'
      BY <2>4, <3>1, MintTypes DEF BeginFile, guestVars
    <3>3. Minted'
      BY <2>4, <3>1, MintTypes DEF BeginFile, guestVars
    <3> QED BY <3>2, <3>3
  <2>5. ASSUME NEW c \in CLI, StagingFull(c) PROVE TypeInv'
    <3>1. PICK o \in Op : Mint(c, o) /\ Conclude(o, "absent")
      BY <2>5 DEF StagingFull
    <3>2. verdicts' \in [Op -> SUBSET Verdict]
      BY <3>1 DEF Conclude, Verdict
    <3>3. TypeOK' /\ HandTyped'
      BY <2>5, <3>1, <3>2, MintTypes, LeaveTypes DEF StagingFull, guestVars
    <3>4. Minted'
      BY <2>5, <3>1, MintTypes, LeaveTypes DEF StagingFull, guestVars
    <3> QED BY <3>3, <3>4
  <2>6. ASSUME NEW c \in CLI, AddWrite(c) PROVE TypeInv'
    BY <2>6 DEF AddWrite, guestVars
  <2>7. ASSUME NEW c \in CLI, AddFails(c) \/ UnsafePath(c) PROVE TypeInv'
    <3>1. Conclude(hand[c], "absent") /\ Leave(c)
          /\ UNCHANGED <<record, guestVars, intent>>
      BY <2>7 DEF AddFails, UnsafePath
    <3>2. verdicts' \in [Op -> SUBSET Verdict]
      BY <3>1 DEF Conclude, Verdict
    <3>3. TypeOK' /\ HandTyped'
      BY <3>1, <3>2, LeaveTypes DEF guestVars
    <3>4. Minted'
      BY <3>1, LeaveTypes DEF guestVars
    <3> QED BY <3>3, <3>4
  <2>8. ASSUME NEW c \in CLI, TicketMinted(c) PROVE TypeInv'
    BY <2>8 DEF TicketMinted, guestVars
  <2>9. ASSUME NEW c \in CLI, pc[c] \in Working, GiveUp(c) PROVE TypeInv'
    <3>1. verdicts' \in [Op -> SUBSET Verdict]
      BY <2>9 DEF GiveUp, Conclude, Verdict
    <3>2. batch' \in [CLI -> Seq(Name)]
      BY <2>9 DEF GiveUp
    <3> QED BY <2>9, <3>1, <3>2 DEF GiveUp, guestVars
  <2>10. ASSUME NEW c \in CLI, Dispatch(c) PROVE TypeInv'
    BY <2>10 DEF Dispatch
  <2>11. ASSUME NEW c \in CLI, OutcomeUnknown(c) PROVE TypeInv'
    BY <2>11, LeaveTypes DEF OutcomeUnknown, guestVars
  <2>12. ASSUME NEW c \in CLI, AnswerApplied(c) PROVE TypeInv'
    <3>1. verdicts' \in [Op -> SUBSET Verdict]
      BY <2>12 DEF AnswerApplied, Conclude, Verdict
    <3> QED BY <2>12, <3>1 DEF AnswerApplied, guestVars
  <2>13. ASSUME NEW c \in CLI, FinishUpload(c) \/ FinishRecover(c) \/ Crash(c)
         PROVE TypeInv'
    BY <2>13, LeaveTypes DEF FinishUpload, FinishRecover, Crash, guestVars
  <2>14. ASSUME NEW c \in CLI, RemoveStep(c) PROVE TypeInv'
    <3>1. CASE RemoveList(c)
      BY <2>14, <3>1 DEF RemoveList, guestVars
    <3>2. ASSUME Resume(c), record' \in SUBSET Op PROVE TypeInv'
      BY <3>2 DEF Resume, guestVars
    <3> QED BY <2>14, <3>1, <3>2
            DEF RemoveStep, RemoveNothing, RemoveWrite, RemoveFails
  <2>15. ASSUME NEW c \in CLI, StartRecover(c) PROVE TypeInv'
    BY <2>15 DEF StartRecover, guestVars
  <2>16. ASSUME NEW c \in CLI, ReadReceipt(c) PROVE TypeInv'
    <3>1. PICK o \in todo[c] :
            /\ todo' = [todo EXCEPT ![c] = @ \ {o}]
            /\ \/ \E v \in Receipt(o) :
                    /\ Conclude(o, v)
                    /\ hand' = [hand EXCEPT ![c] = o]
                    /\ pc' = [pc EXCEPT ![c] = "remove"]
               \/ UNCHANGED <<verdicts, hand, pc>>
      BY <2>16 DEF ReadReceipt
    <3>2. o \in Op /\ Receipt(o) \subseteq Verdict
      BY <3>1 DEF Receipt, Verdict
    <3>3. CASE UNCHANGED <<verdicts, hand, pc>>
      BY <2>16, <3>1, <3>3 DEF ReadReceipt, guestVars
    <3>4. ASSUME NEW v \in Verdict, Conclude(o, v),
                 hand' = [hand EXCEPT ![c] = o], pc' = [pc EXCEPT ![c] = "remove"]
          PROVE  TypeInv'
      <4>1. verdicts' \in [Op -> SUBSET Verdict]
        BY <3>2, <3>4 DEF Conclude, Verdict
      <4> QED BY <2>16, <3>1, <3>2, <3>4, <4>1 DEF ReadReceipt, guestVars
    <3> QED BY <3>1, <3>2, <3>3, <3>4
  <2>17. ASSUME NEW o \in Op, GuestStep(o) PROVE TypeInv'
    <3>1. CASE GuestApply(o)
      <4>1. intent[o].name \in Name
        BY <3>1 DEF GuestApply, Intent
      <4> QED BY <3>1, <4>1 DEF GuestApply, cliVars
    <3> QED BY <2>17, <3>1, ZenonT(40) DEF GuestStep, GuestAdmit, GuestDrop, cliVars
  <2>18. CASE UNCHANGED vars
    BY <2>18 DEF vars, cliVars, guestVars
  <2> QED
    BY <2>1, <2>2, <2>3, <2>4, <2>5, <2>6, <2>7, <2>8, <2>9, <2>10, <2>11, <2>12,
       <2>13, <2>14, <2>15, <2>16, <2>17, <2>18
    DEF Next, CommandStep, UploadStep, TransferFault, UserStep, RecoverStep,
        TicketRefused, AnswerRefused, ChannelLost
<1> QED BY <1>1, <1>2, PTL DEF Spec

\* In particular, the types that TLC checks.
THEOREM UploadTypeCorrect == Spec => []TypeOK
<1>1. TypeInv => TypeOK
  BY DEF TypeInv
<1> QED BY <1>1, TypeCorrect, PTL

-----------------------------------------------------------------------------
(* A confirmed upload is an applied upload, whatever runs concurrently.    *)

\* An operation is in the hands of one upload, and untouched until dispatch.
Unsent    == \A c \in CLI : pc[c] \in {"add", "mint", "dispatch"} => guest[hand[c]] = "idle"
Exclusive == \A c, d \in CLI : c # d /\ pc[c] \in Sending /\ pc[d] \in Sending
                                => hand[c] # hand[d]

Ownership    == Unsent /\ Exclusive

\* "uploaded" and "applied" are never said of bytes the guest did not take.
ConfirmedIsApplied == \A o \in Op : Confirmed(o) => guest[o] = "applied"
ConfirmedInv       == Ownership /\ ConfirmedIsApplied

LEMMA OwnershipStep ==
  ASSUME TypeInv, TypeInv', Ownership, [Next]_vars
  PROVE  Ownership'
<1> USE DEF Ownership, Unsent, Exclusive, TypeInv, TypeOK, HandTyped, Minted,
            Working, Sending, Goto
<1>1. ASSUME guest' = guest,
             \A d \in CLI : pc'[d] \in Sending =>
               /\ pc[d] \in Sending /\ hand'[d] = hand[d]
               /\ pc'[d] \in {"add", "mint", "dispatch"} => pc[d] \in {"add", "mint", "dispatch"}
      PROVE  Ownership'
  BY <1>1
<1>2. ASSUME NEW c \in CLI, BeginFile(c) PROVE Ownership'
  BY <1>2, MintTypes DEF BeginFile, Mint, guestVars
<1>3. ASSUME NEW c \in CLI, NoCollision(c) \/ TicketMinted(c) PROVE Ownership'
  BY <1>1, <1>3 DEF NoCollision, TicketMinted, guestVars
<1>4. ASSUME NEW c \in CLI, AddWrite(c) PROVE Ownership'
  BY <1>1, <1>4 DEF AddWrite, guestVars
<1>5. ASSUME NEW c \in CLI, GiveUp(c) \/ AnswerApplied(c) PROVE Ownership'
  BY <1>1, <1>5 DEF GiveUp, AnswerApplied, guestVars
<1>6. ASSUME NEW c \in CLI, Resume(c) \/ RemoveList(c) \/ (Leave(c) /\ guest' = guest)
      PROVE  Ownership'
  BY <1>1, <1>6 DEF Resume, RemoveList, Leave, guestVars
<1>7. ASSUME NEW c \in CLI, Dispatch(c) PROVE Ownership'
  BY <1>7 DEF Dispatch
<1>8. ASSUME NEW c \in CLI, StartUpload(c) \/ StartRecover(c) PROVE Ownership'
  <2>1. \A d \in CLI : pc'[d] \in Sending => pc'[d] = pc[d] /\ hand'[d] = hand[d]
    BY <1>8 DEF StartUpload, StartRecover
  <2> QED BY <1>8, <2>1 DEF StartUpload, StartRecover, guestVars
<1>9. ASSUME NEW c \in CLI, ReadReceipt(c) PROVE Ownership'
  <2>1. \A d \in CLI : pc'[d] \in Sending => pc'[d] = pc[d] /\ hand'[d] = hand[d]
    BY <1>9 DEF ReadReceipt
  <2> QED BY <1>9, <2>1 DEF ReadReceipt, guestVars
<1>10. ASSUME NEW o \in Op, GuestStep(o) PROVE Ownership'
  BY <1>10 DEF GuestStep, GuestAdmit, GuestApply, GuestDrop, cliVars
<1>11. CASE UNCHANGED vars
  BY <1>11 DEF vars, cliVars, guestVars
<1> QED
  BY <1>2, <1>3, <1>4, <1>5, <1>6, <1>7, <1>8, <1>9, <1>10, <1>11
  DEF Next, CommandStep, UploadStep, TransferFault, UserStep, RemoveStep, RecoverStep,
      RefuseOverwrite, StagingFull, AddFails, TicketRefused, OutcomeUnknown, UnsafePath,
      AnswerRefused, ChannelLost, FinishUpload, FinishRecover, Crash,
      RemoveNothing, RemoveWrite, RemoveFails, guestVars

\* What any step may do to the guest's side of an operation.
LEMMA GuestKeepsApplied ==
  ASSUME TypeInv, Ownership, [Next]_vars, NEW o \in Op, guest[o] = "applied"
  PROVE  guest'[o] = "applied"
<1> USE DEF TypeInv, TypeOK, HandTyped, Working, Ownership, Unsent
<1>1. ASSUME NEW c \in CLI, Dispatch(c) PROVE guest'[o] = "applied"
  BY <1>1 DEF Dispatch, Goto
<1>2. ASSUME NEW p \in Op, GuestStep(p) PROVE guest'[o] = "applied"
  BY <1>2 DEF GuestStep, GuestAdmit, GuestApply, GuestDrop
<1> QED
  BY <1>1, <1>2
  DEF Next, CommandStep, UploadStep, TransferFault, UserStep, RemoveStep, RecoverStep,
      StartUpload, NoCollision, RefuseOverwrite, BeginFile, StagingFull, AddWrite,
      AddFails, TicketMinted, TicketRefused, OutcomeUnknown, UnsafePath, AnswerRefused,
      ChannelLost, AnswerApplied, FinishUpload, GiveUp, Resume, RemoveList,
      RemoveNothing, RemoveWrite, RemoveFails, StartRecover, ReadReceipt,
      FinishRecover, Crash, vars, cliVars, guestVars

LEMMA ConfirmsOnlyApplied ==
  ASSUME TypeInv, [Next]_vars, NEW o \in Op, "applied" \in verdicts'[o]
  PROVE  "applied" \in verdicts[o] \/ guest[o] = "applied"
<1> USE DEF TypeInv, TypeOK, HandTyped, Working
<1>1. ASSUME NEW c \in CLI, NEW p \in Op, Conclude(p, "absent")
      PROVE  "applied" \in verdicts[o]
  BY <1>1 DEF Conclude
<1>2. ASSUME NEW c \in CLI, AnswerApplied(c)
      PROVE  "applied" \in verdicts[o] \/ guest[o] = "applied"
  BY <1>2 DEF AnswerApplied, Conclude, Goto
<1>3. ASSUME NEW c \in CLI, ReadReceipt(c)
      PROVE  "applied" \in verdicts[o] \/ guest[o] = "applied"
  <2>1. ASSUME NEW p \in Op, NEW v \in Receipt(p), Conclude(p, v)
        PROVE  "applied" \in verdicts[o] \/ guest[o] = "applied"
    BY <2>1 DEF Conclude, Receipt
  <2> QED BY <1>3, <2>1 DEF ReadReceipt
<1>4. ASSUME NEW c \in CLI, AddFails(c) \/ UnsafePath(c) \/ TicketRefused(c) \/ AnswerRefused(c)
             \/ ChannelLost(c)
      PROVE  "applied" \in verdicts[o]
  BY <1>1, <1>4 DEF AddFails, UnsafePath, TicketRefused, AnswerRefused, ChannelLost, GiveUp
<1>5. ASSUME NEW c \in CLI, StagingFull(c) PROVE "applied" \in verdicts[o]
  BY <1>1, <1>5 DEF StagingFull
<1> QED
  BY <1>2, <1>3, <1>4, <1>5
  DEF Next, CommandStep, UploadStep, TransferFault, UserStep, RemoveStep, RecoverStep,
      StartUpload, NoCollision, RefuseOverwrite, BeginFile, AddWrite, TicketMinted,
      Dispatch, OutcomeUnknown, FinishUpload, Resume, RemoveList,
      RemoveNothing, RemoveWrite, RemoveFails, StartRecover, FinishRecover, Crash,
      GuestStep, GuestAdmit, GuestApply, GuestDrop, vars

\* A CLI that reports "uploaded", or a recovery that reports "applied", is right
\* for good: nothing takes an applied upload back.
LEMMA ConfirmedCorrect == Spec => []ConfirmedIsApplied
<1>1. Init => ConfirmedInv
  BY DEF Init, ConfirmedInv, Ownership, Unsent, Exclusive, Sending,
         ConfirmedIsApplied, Confirmed
<1>2. TypeInv /\ TypeInv' /\ ConfirmedInv /\ [Next]_vars => ConfirmedInv'
  BY OwnershipStep, GuestKeepsApplied, ConfirmsOnlyApplied
  DEF ConfirmedInv, ConfirmedIsApplied, Confirmed
<1>3. ConfirmedInv => ConfirmedIsApplied
  BY DEF ConfirmedInv
<1> QED BY <1>1, <1>2, <1>3, TypeCorrect, PTL DEF Spec


-----------------------------------------------------------------------------
(* The record never outgrows maximumPending.                               *)

Small(S) == IsFiniteSet(S) /\ Cardinality(S) <= MaxPending
Room(S)  == IsFiniteSet(S) /\ Cardinality(S) < MaxPending

\* What a CLI is about to write is small because it read a small record, with
\* room for one more entry if it is adding.
CapacityInv ==
  /\ Small(record)
  /\ \A c \in CLI : pc[c] = "add" => Room(listed[c])
  /\ \A c \in CLI : pc[c] = "rewrite" => Small(listed[c])

LEMMA SmallRecord ==
  ASSUME NEW S, NEW x
  PROVE  /\ Room(S) => Small(S \cup {x})
         /\ Small(S) => Small(S \ {x})
<1>1. ASSUME Room(S) PROVE Small(S \cup {x})
  <2>1. /\ IsFiniteSet(S \cup {x})
        /\ Cardinality(S \cup {x}) = IF x \in S THEN Cardinality(S) ELSE Cardinality(S) + 1
    BY <1>1, FS_AddElement DEF Room
  <2>2. Cardinality(S) \in Nat
    BY <1>1, FS_CardinalityType DEF Room
  <2> QED BY <1>1, <2>1, <2>2, ConstantsAssumption DEF Room, Small
<1>2. ASSUME Small(S) PROVE Small(S \ {x})
  <2>1. /\ IsFiniteSet(S \ {x})
        /\ Cardinality(S \ {x}) = IF x \in S THEN Cardinality(S) - 1 ELSE Cardinality(S)
    BY <1>2, FS_RemoveElement DEF Small
  <2>2. Cardinality(S) \in Nat
    BY <1>2, FS_CardinalityType DEF Small
  <2> QED BY <1>2, <2>1, <2>2, ConstantsAssumption DEF Small
<1> QED BY <1>1, <1>2

LEMMA CapacityStep ==
  ASSUME TypeInv, CapacityInv, [Next]_vars
  PROVE  CapacityInv'
<1> USE DEF TypeInv, TypeOK, CapacityInv, Goto
\* Most steps write nothing and start no new write.
<1>1. ASSUME Small(record'),
             \A d \in CLI : pc'[d] \in {"add", "rewrite"} =>
               pc'[d] = pc[d] /\ listed'[d] = listed[d]
      PROVE  CapacityInv'
  BY <1>1
<1>2. ASSUME NEW c \in CLI, Leave(c), record' = record PROVE CapacityInv'
  BY <1>1, <1>2 DEF Leave
<1>3. ASSUME NEW c \in CLI, Resume(c), record' \in {record, listed[c] \ {hand[c]}},
             pc[c] = "rewrite" \/ record' = record
      PROVE  CapacityInv'
  <2>1. CASE record' = record
    BY <1>1, <1>3, <2>1 DEF Resume
  <2>2. CASE pc[c] = "rewrite" /\ record' = listed[c] \ {hand[c]}
    <3>1. Small(listed[c] \ {hand[c]})
      BY <2>2, SmallRecord
    <3> QED BY <1>1, <1>3, <2>2, <3>1 DEF Resume
  <2> QED BY <1>3, <2>1, <2>2
<1>4. ASSUME NEW c \in CLI, BeginFile(c) PROVE CapacityInv'
  <2>1. Room(record)
    BY <1>4 DEF BeginFile, Small, Room
  <2> QED BY <1>4, <2>1 DEF BeginFile
<1>5. ASSUME NEW c \in CLI, AddWrite(c) PROVE CapacityInv'
  <2>1. Small(record')
    BY <1>5, SmallRecord DEF AddWrite
  <2> QED BY <1>1, <1>5, <2>1 DEF AddWrite
<1>6. ASSUME NEW c \in CLI, RemoveList(c) PROVE CapacityInv'
  BY <1>6 DEF RemoveList
<1>7. ASSUME NEW c \in CLI, GiveUp(c) \/ AnswerApplied(c) \/ Dispatch(c)
      PROVE  CapacityInv'
  BY <1>1, <1>7 DEF GiveUp, AnswerApplied, Dispatch
<1>8. ASSUME NEW c \in CLI, NoCollision(c) \/ TicketMinted(c) \/ StartUpload(c) \/ StartRecover(c)
      PROVE  CapacityInv'
  BY <1>1, <1>8 DEF NoCollision, TicketMinted, StartUpload, StartRecover
<1>9. ASSUME NEW c \in CLI, ReadReceipt(c) PROVE CapacityInv'
  BY <1>1, <1>9 DEF ReadReceipt
<1>10. ASSUME NEW o \in Op, GuestStep(o) PROVE CapacityInv'
  BY <1>1, <1>10 DEF GuestStep, GuestAdmit, GuestApply, GuestDrop, cliVars
<1>11. CASE UNCHANGED vars
  BY <1>1, <1>11 DEF vars, cliVars
<1> QED
  BY <1>2, <1>3, <1>4, <1>5, <1>6, <1>7, <1>8, <1>9, <1>10, <1>11
  DEF Next, CommandStep, UploadStep, TransferFault, UserStep, RemoveStep, RecoverStep,
      RefuseOverwrite, StagingFull, AddFails, TicketRefused, OutcomeUnknown, UnsafePath,
      AnswerRefused, ChannelLost, FinishUpload, FinishRecover, Crash,
      RemoveNothing, RemoveWrite, RemoveFails

\* However many uploads run at once, the record of staging.go never holds more
\* than maximumPending operations, although nothing locks it between the check
\* of Add and its write: the lost update that loses an entry also keeps it small.
THEOREM CapacityCorrect == Spec => []CapacityHolds
<1>1. Init => CapacityInv
  <2>1. IsFiniteSet({}) /\ Cardinality({}) = 0
    BY FS_EmptySet
  <2> QED BY <2>1, ConstantsAssumption DEF Init, CapacityInv, Small
<1>2. TypeInv /\ CapacityInv /\ [Next]_vars => CapacityInv'
  BY CapacityStep
<1>3. CapacityInv => CapacityHolds
  BY DEF CapacityInv, CapacityHolds, Small
<1> QED BY <1>1, <1>2, <1>3, TypeCorrect, PTL DEF Spec


-----------------------------------------------------------------------------
(* One command at a time: the record is exact.                             *)

Sequential == \A c, d \in CLI : c = d

\* What the code between List and write takes for granted.
RecordInv ==
  /\ \A c \in CLI : pc[c] \in {"mint", "dispatch", "await"} => hand[c] \in record
  /\ \A c \in CLI : pc[c] \in {"add", "rewrite"} => listed[c] = record
  /\ \A c \in CLI : pc[c] \in {"remove", "rewrite"} => Confirmed(hand[c]) \/ Absent(hand[c])

LEMMA RecordStep ==
  ASSUME Sequential, TypeInv, RecordInv, [Next]_vars
  PROVE  RecordInv'
<1> USE DEF Sequential, TypeInv, TypeOK, HandTyped, Working, RecordInv, Confirmed, Absent, Goto
<1>1. ASSUME NEW c \in CLI, Leave(c) PROVE RecordInv'
  BY <1>1 DEF Leave
<1>2. ASSUME NEW c \in CLI, Resume(c) PROVE RecordInv'
  BY <1>2 DEF Resume
<1>3. ASSUME NEW c \in CLI, GiveUp(c), pc[c] \in Working PROVE RecordInv'
  BY <1>3 DEF GiveUp, Conclude
<1>4. ASSUME NEW c \in CLI, BeginFile(c) \/ NoCollision(c) \/ StartUpload(c) PROVE RecordInv'
  <2>1. pc'[c] \in {"add", "next", "check"} /\ (pc'[c] = "add" => listed'[c] = record')
    BY <1>4 DEF BeginFile, NoCollision, StartUpload
  <2> QED BY <2>1
<1>5. ASSUME NEW c \in CLI, AddWrite(c) \/ TicketMinted(c) \/ Dispatch(c) PROVE RecordInv'
  BY <1>5 DEF AddWrite, TicketMinted, Dispatch
<1>6. ASSUME NEW c \in CLI, AnswerApplied(c) PROVE RecordInv'
  BY <1>6 DEF AnswerApplied, Conclude
<1>7. ASSUME NEW c \in CLI, RemoveList(c) PROVE RecordInv'
  BY <1>7 DEF RemoveList
<1>8. ASSUME NEW c \in CLI, StartRecover(c) PROVE RecordInv'
  BY <1>8 DEF StartRecover
<1>9. ASSUME NEW c \in CLI, ReadReceipt(c) PROVE RecordInv'
  <2>1. ASSUME NEW o \in Op, NEW v \in Receipt(o), Conclude(o, v),
               hand' = [hand EXCEPT ![c] = o], pc' = [pc EXCEPT ![c] = "remove"]
        PROVE  RecordInv'
    <3>1. v \in {"applied", "absent"}
      BY <2>1 DEF Receipt
    <3> QED BY <2>1, <3>1 DEF Conclude
  <2>2. CASE pc'[c] = "recover"
    BY <2>2
  <2> QED BY <1>9, <2>1, <2>2 DEF ReadReceipt
<1>10. ASSUME NEW o \in Op, GuestStep(o) PROVE RecordInv'
  BY <1>10 DEF GuestStep, GuestAdmit, GuestApply, GuestDrop, cliVars
<1>11. CASE UNCHANGED vars
  BY <1>11 DEF vars, cliVars
<1> QED
  BY <1>1, <1>2, <1>3, <1>4, <1>5, <1>6, <1>7, <1>8, <1>9, <1>10, <1>11
  DEF Next, CommandStep, UploadStep, TransferFault, UserStep, RemoveStep, RecoverStep,
      RefuseOverwrite, StagingFull, AddFails, TicketRefused, OutcomeUnknown, UnsafePath,
      AnswerRefused, ChannelLost, FinishUpload, FinishRecover, Crash,
      RemoveNothing, RemoveWrite, RemoveFails

LEMMA RecordInvariant == Sequential => (Spec => []RecordInv)
<1> SUFFICES ASSUME Sequential PROVE Spec => []RecordInv
  OBVIOUS
<1>1. Init => RecordInv
  BY DEF Init, RecordInv
<1>2. TypeInv /\ RecordInv /\ [Next]_vars => RecordInv'
  BY RecordStep
<1> QED BY <1>1, <1>2, TypeCorrect, PTL DEF Spec

\* "Nothing else may delete a record that is still unresolved" (staging.go:101)
\* holds for a user who runs one command at a time, with both transports and
\* every fault of the gateway.
THEOREM OnlyResolvedDeletedCorrect == Sequential => (Spec => OnlyResolvedDeleted)
<1> SUFFICES ASSUME Sequential PROVE Spec => OnlyResolvedDeleted
  OBVIOUS
<1>1. TypeInv /\ RecordInv /\ [Next]_vars
      => [\A o \in record \ record' : Confirmed(o) \/ Absent(o)]_vars
  <2> SUFFICES ASSUME TypeInv, RecordInv, [Next]_vars, NEW o \in record, o \notin record'
               PROVE  Confirmed(o) \/ Absent(o)
    OBVIOUS
  <2> USE DEF RecordInv, Goto
  <2>1. ASSUME NEW c \in CLI, AddWrite(c) PROVE FALSE
    BY <2>1 DEF AddWrite
  <2>2. ASSUME NEW c \in CLI, RemoveWrite(c) PROVE Confirmed(o) \/ Absent(o)
    BY <2>2 DEF RemoveWrite
  <2> QED
    BY <2>1, <2>2
    DEF Next, CommandStep, UploadStep, TransferFault, UserStep, RemoveStep, RecoverStep,
        StartUpload, NoCollision, RefuseOverwrite, BeginFile, StagingFull,
        AddFails, TicketMinted, TicketRefused, Dispatch, OutcomeUnknown, UnsafePath,
        AnswerRefused, ChannelLost, AnswerApplied, FinishUpload, GiveUp, RemoveList,
        RemoveNothing, RemoveFails, StartRecover, ReadReceipt, FinishRecover, Crash,
        GuestStep, GuestAdmit, GuestApply, GuestDrop, vars
<1> QED BY <1>1, RecordInvariant, TypeCorrect, PTL DEF Spec, OnlyResolvedDeleted

\* No upload request leaves a lone CLI before its operation is on disk: Add
\* comes before UploadOperation in Run, and a failed Add ends the run.
THEOREM RecordedBeforeDispatchCorrect == Sequential => (Spec => RecordedBeforeDispatch)
<1> SUFFICES ASSUME Sequential PROVE Spec => RecordedBeforeDispatch
  OBVIOUS
<1>1. TypeInv /\ RecordInv /\ [Next]_vars
      => [\A o \in Op : guest[o] = "idle" /\ guest'[o] # "idle" => o \in record]_vars
  <2> SUFFICES ASSUME TypeInv, RecordInv, [Next]_vars,
                      NEW o \in Op, guest[o] = "idle", guest'[o] # "idle"
               PROVE  o \in record
    OBVIOUS
  <2> USE DEF TypeInv, TypeOK, HandTyped, Working, RecordInv, Goto
  <2>1. ASSUME NEW c \in CLI, Dispatch(c) PROVE o \in record
    BY <2>1 DEF Dispatch
  <2>2. ASSUME NEW p \in Op, GuestStep(p) PROVE FALSE
    BY <2>2 DEF GuestStep, GuestAdmit, GuestApply, GuestDrop
  <2> QED
    BY <2>1, <2>2
    DEF Next, CommandStep, UploadStep, TransferFault, UserStep, RemoveStep, RecoverStep,
        StartUpload, NoCollision, RefuseOverwrite, BeginFile, StagingFull, AddWrite,
        AddFails, TicketMinted, TicketRefused, OutcomeUnknown, UnsafePath, AnswerRefused,
        ChannelLost, AnswerApplied, FinishUpload, GiveUp, Resume, RemoveList,
        RemoveNothing, RemoveWrite, RemoveFails, StartRecover, ReadReceipt,
        FinishRecover, Crash, vars, guestVars
<1> QED BY <1>1, RecordInvariant, TypeCorrect, PTL DEF Spec, RecordedBeforeDispatch


-----------------------------------------------------------------------------
(* One command at a time over the HTTP relay, with a gateway that answers  *)
(* an error only for an upload the guest will not apply: nothing is lost.  *)

Relay == Protocols = {"relay"} /\ ~LateErrors /\ ~LateArrival

\* An operation nobody minted has left no trace.
Untouched == \A o \in Op : intent[o] = None =>
  /\ verdicts[o] = {} /\ o \notin record
  /\ \A c \in CLI : o \notin todo[c] /\ o \notin listed[c]

\* Absent is said of an operation only when the guest is done with it, and when
\* it is out of every hand that could still send it; and it leaves the record
\* only if it had no effect or was confirmed besides.
AbsentInv ==
  /\ \A o \in Op : guest[o] # "sent" /\ (Absent(o) => guest[o] # "receiving")
  /\ \A c \in CLI : pc[c] \in {"add", "mint", "dispatch"} => ~Absent(hand[c])
  /\ \A c \in CLI : pc[c] \in {"remove", "rewrite"} =>
       Confirmed(hand[c]) \/ guest[hand[c]] \in {"idle", "dropped"}

LEMMA UntouchedStep ==
  ASSUME TypeInv, Untouched, [Next]_vars
  PROVE  Untouched'
<1> USE DEF TypeInv, TypeOK, HandTyped, Minted, Sending, Working, Untouched, Goto
<1>1. ASSUME \A o \in Op : intent'[o] = None => intent[o] = None,
             \A o \in Op : intent'[o] = None => verdicts'[o] = verdicts[o],
             record' \subseteq record \cup {o \in Op : intent'[o] # None},
             \A c \in CLI : todo'[c] \subseteq todo[c] \cup record,
             \A c \in CLI : listed'[c] \subseteq listed[c] \cup record
      PROVE  Untouched'
  BY <1>1
<1>2. ASSUME NEW c \in CLI, Leave(c), UNCHANGED <<record, intent, verdicts>> PROVE Untouched'
  BY <1>1, <1>2 DEF Leave
<1>3. ASSUME NEW c \in CLI, Resume(c), record' \in {record, listed[c] \ {hand[c]}}
      PROVE  Untouched'
  BY <1>3 DEF Resume
<1>4. ASSUME NEW c \in CLI, (pc[c] \in Sending /\ GiveUp(c)) \/ AnswerApplied(c)
      PROVE  Untouched'
  BY <1>1, <1>4 DEF GiveUp, AnswerApplied, Conclude
<1>5. ASSUME NEW c \in CLI, BeginFile(c) PROVE Untouched'
  BY <1>1, <1>5, MintTypes DEF BeginFile
<1>6. ASSUME NEW c \in CLI, StagingFull(c) PROVE Untouched'
  BY <1>1, <1>6, MintTypes DEF StagingFull, Leave, Conclude
<1>7. ASSUME NEW c \in CLI, AddWrite(c) PROVE Untouched'
  BY <1>7 DEF AddWrite
<1>8. ASSUME NEW c \in CLI, AddFails(c) \/ UnsafePath(c) PROVE Untouched'
  <2>1. pc[c] \in Sending /\ Leave(c) /\ Conclude(hand[c], "absent")
        /\ UNCHANGED <<record, intent>>
    BY <1>8 DEF AddFails, UnsafePath
  <2> QED BY <1>1, <2>1 DEF Leave, Conclude
<1>9. ASSUME NEW c \in CLI, RemoveList(c) \/ StartRecover(c) PROVE Untouched'
  BY <1>1, <1>9, ZenonT(40) DEF RemoveList, StartRecover
<1>10. ASSUME NEW c \in CLI, ReadReceipt(c) PROVE Untouched'
  BY <1>1, <1>10 DEF ReadReceipt, Conclude
<1>11. ASSUME NEW c \in CLI,
              NoCollision(c) \/ TicketMinted(c) \/ StartUpload(c) \/ Dispatch(c)
       PROVE  Untouched'
  BY <1>1, <1>11 DEF NoCollision, TicketMinted, StartUpload, Dispatch
<1>12. ASSUME NEW o \in Op, GuestStep(o) PROVE Untouched'
  BY <1>1, <1>12 DEF GuestStep, GuestAdmit, GuestApply, GuestDrop, cliVars
<1>13. CASE UNCHANGED vars
  BY <1>1, <1>13 DEF vars, cliVars
<1>14. ASSUME NEW c \in CLI,
              RefuseOverwrite(c) \/ OutcomeUnknown(c)
              \/ FinishUpload(c) \/ FinishRecover(c) \/ Crash(c)
       PROVE  Untouched'
  BY <1>2, <1>14 DEF RefuseOverwrite, OutcomeUnknown, FinishUpload,
                     FinishRecover, Crash
<1>15. ASSUME NEW c \in CLI, TicketRefused(c) \/ AnswerRefused(c) \/ ChannelLost(c)
       PROVE  Untouched'
  BY <1>4, <1>15 DEF TicketRefused, AnswerRefused, ChannelLost
<1>16. ASSUME NEW c \in CLI, RemoveNothing(c) \/ RemoveWrite(c) \/ RemoveFails(c)
       PROVE  Untouched'
  BY <1>3, <1>16 DEF RemoveNothing, RemoveWrite, RemoveFails
<1> QED
  BY <1>4, <1>5, <1>6, <1>7, <1>8, <1>9, <1>10, <1>11, <1>12, <1>13, <1>14, <1>15, <1>16
  DEF Next, CommandStep, UploadStep, TransferFault, UserStep, RemoveStep, RecoverStep

LEMMA AbsentStep ==
  ASSUME Sequential, Relay, TypeInv, Ownership, Untouched, AbsentInv, [Next]_vars
  PROVE  AbsentInv'
<1> USE DEF Sequential, Relay, TypeInv, TypeOK, HandTyped, Minted, Sending, Working,
            Ownership, Unsent, AbsentInv, Absent, Confirmed, Goto
<1>1. ASSUME UNCHANGED guest, \A o \in Op : Absent(o)' => Absent(o),
             \A o \in Op : Confirmed(o) => Confirmed(o)',
             \A c \in CLI : pc'[c] \in {"add", "mint", "dispatch"} =>
               pc[c] \in {"add", "mint", "dispatch"} /\ hand'[c] = hand[c],
             \A c \in CLI : pc'[c] \in {"remove", "rewrite"} =>
               hand'[c] = hand[c] /\ (pc[c] \in {"remove", "rewrite"} \/ Confirmed(hand[c])')
      PROVE  AbsentInv'
  BY <1>1
<1>2. ASSUME NEW c \in CLI, UNCHANGED <<guest, verdicts>>, Leave(c) \/ Resume(c)
      PROVE  AbsentInv'
  BY <1>1, <1>2 DEF Leave, Resume
<1>3. ASSUME NEW c \in CLI, GiveUp(c), pc[c] \in Sending,
             guest[hand[c]] \in {"idle", "dropped"}
      PROVE  AbsentInv'
  BY <1>3 DEF GiveUp, Conclude, guestVars
<1>4. ASSUME NEW c \in CLI, AnswerApplied(c) PROVE AbsentInv'
  BY <1>1, <1>4 DEF AnswerApplied, Conclude, guestVars
<1>5. ASSUME NEW c \in CLI, BeginFile(c) PROVE AbsentInv'
  BY <1>5 DEF BeginFile, Mint, Untouched, guestVars
<1>6. ASSUME NEW c \in CLI, StagingFull(c) PROVE AbsentInv'
  BY <1>6 DEF StagingFull, Mint, Leave, Conclude, guestVars
<1>7. ASSUME NEW c \in CLI, AddFails(c) \/ UnsafePath(c) PROVE AbsentInv'
  BY <1>7 DEF AddFails, UnsafePath, Leave, Conclude, guestVars
<1>8. ASSUME NEW c \in CLI,
             AddWrite(c) \/ RemoveList(c) \/ NoCollision(c) \/ TicketMinted(c)
      PROVE  AbsentInv'
  BY <1>1, <1>8 DEF AddWrite, RemoveList, NoCollision, TicketMinted, guestVars
<1>9. ASSUME NEW c \in CLI, StartUpload(c) \/ StartRecover(c) PROVE AbsentInv'
  BY <1>1, <1>9 DEF StartUpload, StartRecover, guestVars
<1>10. ASSUME NEW c \in CLI, Dispatch(c) PROVE AbsentInv'
  BY <1>10 DEF Dispatch
<1>11. ASSUME NEW c \in CLI, ReadReceipt(c) PROVE AbsentInv'
  <2>1. ASSUME NEW o \in Op, NEW v \in Receipt(o), Conclude(o, v),
               hand' = [hand EXCEPT ![c] = o], pc' = [pc EXCEPT ![c] = "remove"]
        PROVE  AbsentInv'
    BY <1>11, <2>1 DEF ReadReceipt, Receipt, Conclude, guestVars
  <2>2. CASE UNCHANGED <<verdicts, hand, pc>>
    BY <1>1, <1>11, <2>2 DEF ReadReceipt, guestVars
  <2> QED BY <1>11, <2>1, <2>2 DEF ReadReceipt
<1>12. ASSUME NEW o \in Op, GuestStep(o) PROVE AbsentInv'
  BY <1>12 DEF GuestStep, GuestAdmit, GuestApply, GuestDrop, cliVars
<1>13. CASE UNCHANGED vars
  BY <1>1, <1>13 DEF vars, cliVars, guestVars
<1>14. ASSUME NEW c \in CLI,
              RefuseOverwrite(c) \/ OutcomeUnknown(c)
              \/ FinishUpload(c) \/ FinishRecover(c) \/ Crash(c)
              \/ RemoveNothing(c) \/ RemoveWrite(c) \/ RemoveFails(c)
       PROVE  AbsentInv'
  <2>1. UNCHANGED <<guest, verdicts>> /\ (Leave(c) \/ Resume(c))
    BY <1>14 DEF RefuseOverwrite, OutcomeUnknown, FinishUpload,
       FinishRecover, Crash, RemoveNothing, RemoveWrite, RemoveFails, Resume, guestVars
  <2> QED BY <1>2, <2>1
<1>15. ASSUME NEW c \in CLI, TicketRefused(c) \/ AnswerRefused(c) PROVE AbsentInv'
  BY <1>3, <1>15 DEF TicketRefused, AnswerRefused
<1>16. ASSUME NEW c \in CLI, ChannelLost(c) PROVE FALSE
  BY <1>16 DEF ChannelLost
<1> QED
  BY <1>4, <1>5, <1>6, <1>7, <1>8, <1>9, <1>10, <1>11, <1>12, <1>13, <1>14, <1>15, <1>16
  DEF Next, CommandStep, UploadStep, TransferFault, UserStep, RemoveStep, RecoverStep

LEMMA RecoverableStep ==
  ASSUME Sequential, TypeInv, RecordInv, AbsentInv, Recoverable, [Next]_vars
  PROVE  Recoverable'
<1> USE DEF TypeInv, TypeOK, HandTyped, Working, AbsentInv, RecordInv, Recoverable,
            MayApply, Confirmed, Absent, Goto
<1>1. ASSUME UNCHANGED guest, record \subseteq record',
             \A o \in Op : Confirmed(o) => Confirmed(o)'
      PROVE  Recoverable'
  BY <1>1
<1>2. ASSUME NEW o \in Op, NEW v, Conclude(o, v), UNCHANGED <<guest, record>>
      PROVE  Recoverable'
  BY <1>1, <1>2 DEF Conclude
<1>3. ASSUME NEW c \in CLI, AddWrite(c) PROVE Recoverable'
  BY <1>1, <1>3 DEF AddWrite, guestVars
<1>4. ASSUME NEW c \in CLI, RemoveWrite(c) PROVE Recoverable'
  BY <1>4 DEF RemoveWrite, Resume, guestVars
<1>5. ASSUME NEW c \in CLI, Dispatch(c) PROVE Recoverable'
  BY <1>5 DEF Dispatch
<1>6. ASSUME NEW o \in Op, GuestStep(o) PROVE Recoverable'
  BY <1>6 DEF GuestStep, GuestAdmit, GuestApply, GuestDrop, cliVars
<1>7. ASSUME NEW c \in CLI,
             AddFails(c) \/ UnsafePath(c) \/ TicketRefused(c) \/ AnswerRefused(c)
             \/ ChannelLost(c) \/ AnswerApplied(c)
      PROVE  Recoverable'
  <2>1. /\ hand[c] \in Op /\ UNCHANGED <<guest, record>>
        /\ Conclude(hand[c], "absent") \/ Conclude(hand[c], "applied")
    BY <1>7 DEF AddFails, UnsafePath, TicketRefused, AnswerRefused, ChannelLost, AnswerApplied,
                GiveUp, guestVars
  <2> QED BY <1>2, <2>1
<1>8. ASSUME NEW c \in CLI, StagingFull(c) PROVE Recoverable'
  BY <1>2, <1>8 DEF StagingFull, guestVars
<1>9. ASSUME NEW c \in CLI, ReadReceipt(c) PROVE Recoverable'
  <2>1. UNCHANGED <<guest, record>>
        /\ (UNCHANGED verdicts \/ \E o \in Op : \E v \in Receipt(o) : Conclude(o, v))
    BY <1>9 DEF ReadReceipt, guestVars
  <2>2. CASE UNCHANGED verdicts
    BY <1>1, <2>1, <2>2
  <2> QED BY <1>2, <2>1, <2>2
<1>10. CASE UNCHANGED <<guest, record, verdicts>>
  BY <1>1, <1>10
<1> QED
  BY <1>3, <1>4, <1>5, <1>6, <1>7, <1>8, <1>9, <1>10
  DEF Next, CommandStep, UploadStep, TransferFault, UserStep, RemoveStep, RecoverStep,
      StartUpload, NoCollision, RefuseOverwrite, BeginFile, TicketMinted, OutcomeUnknown,
      FinishUpload, Resume, RemoveList, RemoveNothing, RemoveFails,
      StartRecover, FinishRecover, Crash, vars, guestVars

\* What holds of one command at a time over the HTTP relay with definite errors.
RelayInv == Ownership /\ Untouched /\ AbsentInv /\ Recoverable

LEMMA RelayInvariant == Sequential /\ Relay => (Spec => []RelayInv)
<1> SUFFICES ASSUME Sequential, Relay PROVE Spec => []RelayInv
  OBVIOUS
<1>1. Init => RelayInv
  BY DEF Init, RelayInv, Ownership, Unsent, Exclusive, Sending, Untouched, AbsentInv, Absent,
         Recoverable, MayApply
<1>2. TypeInv /\ TypeInv' /\ RecordInv /\ RelayInv /\ [Next]_vars => RelayInv'
  BY OwnershipStep, UntouchedStep, AbsentStep, RecoverableStep DEF RelayInv
<1> QED BY <1>1, <1>2, TypeCorrect, RecordInvariant, PTL DEF Spec

\* For one command at a time over the HTTP relay, and a gateway whose errors
\* are definite, Run and recoverUploads together lose nothing: every upload the
\* guest may have taken is confirmed or still on record.
THEOREM RelayRecoverable == Sequential /\ Relay => (Spec => []Recoverable)
<1>1. RelayInv => Recoverable
  BY DEF RelayInv
<1> QED BY <1>1, RelayInvariant, PTL

-----------------------------------------------------------------------------
(* Under the same circumstances UploadRecovery implements UploadPromise.   *)

\* An operation that recovery has listed is on record or was concluded since.
ListedInv == \A c \in CLI : \A o \in todo[c] : o \in record \/ verdicts[o] # {}

LEMMA VerdictsGrow ==
  ASSUME TypeInv, [Next]_vars, NEW o \in Op
  PROVE  verdicts[o] \subseteq verdicts'[o]
<1> USE DEF TypeInv, TypeOK
<1>1. ASSUME NEW p, NEW v, Conclude(p, v) PROVE verdicts[o] \subseteq verdicts'[o]
  BY <1>1 DEF Conclude
<1>2. ASSUME NEW c \in CLI, ReadReceipt(c) PROVE verdicts[o] \subseteq verdicts'[o]
  BY <1>1, <1>2 DEF ReadReceipt
<1> QED
  BY <1>1, <1>2
  DEF Next, CommandStep, UploadStep, TransferFault, UserStep, RemoveStep, RecoverStep,
      StartUpload, NoCollision, RefuseOverwrite, BeginFile, StagingFull, AddWrite,
      AddFails, TicketMinted, TicketRefused, Dispatch, OutcomeUnknown, UnsafePath,
      AnswerRefused, ChannelLost, AnswerApplied, FinishUpload, GiveUp, Resume, RemoveList,
      RemoveNothing, RemoveWrite, RemoveFails, StartRecover, FinishRecover, Crash,
      GuestStep, GuestAdmit, GuestApply, GuestDrop, vars

LEMMA ListedStep ==
  ASSUME Sequential, TypeInv, RecordInv, ListedInv, [Next]_vars
  PROVE  ListedInv'
<1> USE DEF TypeInv, TypeOK, HandTyped, Working, Confirmed, Absent, Goto
<1>1. ASSUME NEW o \in record, o \notin record' PROVE verdicts[o] # {}
  <2>1. ASSUME NEW c \in CLI, AddWrite(c) PROVE FALSE
    BY <1>1, <2>1 DEF AddWrite, RecordInv
  <2>2. ASSUME NEW c \in CLI, RemoveWrite(c) PROVE verdicts[o] # {}
    BY <1>1, <2>2 DEF RemoveWrite, RecordInv
  <2> QED
    BY <1>1, <2>1, <2>2
    DEF Next, CommandStep, UploadStep, TransferFault, UserStep, RemoveStep, RecoverStep,
        StartUpload, NoCollision, RefuseOverwrite, BeginFile, StagingFull,
        AddFails, TicketMinted, TicketRefused, Dispatch, OutcomeUnknown, UnsafePath,
        AnswerRefused, ChannelLost, AnswerApplied, FinishUpload, GiveUp, RemoveList,
        RemoveNothing, RemoveFails, StartRecover, ReadReceipt, FinishRecover, Crash,
        GuestStep, GuestAdmit, GuestApply, GuestDrop, vars
<1>2. ASSUME NEW c \in CLI PROVE todo'[c] \subseteq todo[c] \cup record
  <2>1. ASSUME NEW d \in CLI, Leave(d) PROVE todo'[c] \subseteq todo[c]
    BY <2>1 DEF Leave
  <2>2. ASSUME NEW d \in CLI, StartRecover(d) \/ ReadReceipt(d)
        PROVE  todo'[c] \subseteq todo[c] \cup record
    BY <2>2, ZenonT(40) DEF StartRecover, ReadReceipt
  <2> QED
    BY <2>1, <2>2
    DEF Next, CommandStep, UploadStep, TransferFault, UserStep, RemoveStep, RecoverStep,
        StartUpload, NoCollision, RefuseOverwrite, BeginFile, StagingFull, AddWrite,
        AddFails, TicketMinted, TicketRefused, Dispatch, OutcomeUnknown, UnsafePath,
        AnswerRefused, ChannelLost, AnswerApplied, FinishUpload, GiveUp, Resume, RemoveList,
        RemoveNothing, RemoveWrite, RemoveFails, FinishRecover, Crash,
        GuestStep, GuestAdmit, GuestApply, GuestDrop, vars, cliVars
<1>3. ASSUME NEW c \in CLI, NEW o \in todo'[c] PROVE o \in record' \/ verdicts'[o] # {}
  <2>1. o \in Op /\ (o \in record \/ verdicts[o] # {})
    BY <1>2 DEF ListedInv
  <2> QED BY <1>1, <2>1, VerdictsGrow
<1> QED BY <1>3 DEF ListedInv

LEMMA ListedInvariant == Sequential => (Spec => []ListedInv)
<1> SUFFICES ASSUME Sequential PROVE Spec => []ListedInv
  OBVIOUS
<1>1. Init => ListedInv
  BY DEF Init, ListedInv
<1>2. TypeInv /\ RecordInv /\ ListedInv /\ [Next]_vars => ListedInv'
  BY ListedStep
<1> QED BY <1>1, <1>2, TypeCorrect, RecordInvariant, PTL DEF Spec

\* A step of the abstract specification, or one that it does not see.
PromiseStep == [Promise!PNext]_(Promise!pvars)

\* What the abstract specification sees of an operation, one at a time.
EntryOf(o)  == IF o \in record THEN "recorded"
               ELSE IF verdicts[o] = {} THEN "fresh" ELSE "closed"
EffectOf(o) == CASE guest[o] = "idle"    -> "none"
                 [] guest[o] = "applied" -> "done"
                 [] guest[o] = "dropped" -> "never"
                 [] guest[o] \in {"sent", "receiving"} -> "possible"

LEMMA SeenByPromise ==
  /\ Entry = [o \in Op |-> EntryOf(o)]
  /\ Effect = [o \in Op |-> EffectOf(o)]
BY DEF Entry, Effect, EntryOf, EffectOf

\* A step that moves the entry of one operation and no effect.
LEMMA EntryMoves ==
  ASSUME NEW o \in Op, guest' = guest, \A p \in Op \ {o} : EntryOf(p)' = EntryOf(p),
         \/ EntryOf(o)' = EntryOf(o)
         \/ EntryOf(o) = "fresh" /\ EntryOf(o)' = "recorded"
         \/ EntryOf(o) = "fresh" /\ EntryOf(o)' = "closed" /\ guest[o] = "idle"
         \/ EntryOf(o) = "recorded" /\ EntryOf(o)' = "closed"
            /\ guest[o] \in {"idle", "applied", "dropped"}
  PROVE  PromiseStep
<1>1. Effect' = Effect
  BY DEF Effect
<1>2. Entry' = [Entry EXCEPT ![o] = EntryOf(o)']
  BY SeenByPromise DEF EntryOf, Entry
<1>3. Entry[o] = EntryOf(o) /\ Effect[o] = EffectOf(o)
  BY SeenByPromise
<1>4. CASE EntryOf(o)' = EntryOf(o)
  <2>1. Entry' = Entry
    BY <1>2, <1>3, <1>4, SeenByPromise
  <2> QED BY <1>1, <2>1 DEF PromiseStep, Promise!pvars
<1>5. CASE EntryOf(o) = "fresh" /\ EntryOf(o)' = "recorded"
  <2>1. Promise!Open(o)
    BY <1>1, <1>2, <1>3, <1>5 DEF Promise!Open, Promise!Become
  <2> QED BY <2>1 DEF PromiseStep, Promise!PNext
<1>6. CASE EntryOf(o) = "fresh" /\ EntryOf(o)' = "closed" /\ guest[o] = "idle"
  <2>1. Promise!Abandon(o)
    BY <1>1, <1>2, <1>3, <1>6 DEF Promise!Abandon, Promise!Become, EffectOf
  <2> QED BY <2>1 DEF PromiseStep, Promise!PNext
<1>7. CASE EntryOf(o) = "recorded" /\ EntryOf(o)' = "closed"
           /\ guest[o] \in {"idle", "applied", "dropped"}
  <2>1. Effect[o] # "possible"
    BY <1>3, <1>7 DEF EffectOf
  <2>2. Promise!Close(o)
    BY <1>1, <1>2, <1>3, <1>7, <2>1 DEF Promise!Close, Promise!Become
  <2> QED BY <2>2 DEF PromiseStep, Promise!PNext
<1> QED BY <1>4, <1>5, <1>6, <1>7

\* A step that moves the effect of one operation and no entry.
LEMMA EffectMoves ==
  ASSUME TypeOK, NEW o \in Op, NEW e, UNCHANGED <<record, verdicts>>,
         guest' = [guest EXCEPT ![o] = e],
         \/ guest[o] = "idle" /\ o \in record /\ e \in {"sent", "receiving"}
         \/ guest[o] \in {"sent", "receiving"} /\ e \in {"receiving", "applied", "dropped"}
  PROVE  PromiseStep
<1>1. Entry' = Entry
  BY DEF Entry
<1>2. guest'[o] = e /\ \A p \in Op \ {o} : guest'[p] = guest[p]
  BY DEF TypeOK
<1>3. Effect' = [Effect EXCEPT ![o] = EffectOf(o)']
  <2>1. Effect' = [p \in Op |-> EffectOf(p)']
    BY DEF Effect, EffectOf
  <2>2. \A p \in Op \ {o} : EffectOf(p)' = EffectOf(p)
    BY <1>2 DEF EffectOf
  <2> QED BY <2>1, <2>2, SeenByPromise
<1>4. Entry[o] = EntryOf(o) /\ Effect[o] = EffectOf(o)
  BY SeenByPromise
<1>5. CASE guest[o] = "idle" /\ o \in record /\ e \in {"sent", "receiving"}
  <2>1. Promise!Send(o)
    BY <1>1, <1>2, <1>3, <1>4, <1>5 DEF Promise!Send, Promise!Take, EffectOf, EntryOf
  <2> QED BY <2>1 DEF PromiseStep, Promise!PNext
<1>6. CASE guest[o] \in {"sent", "receiving"} /\ e \in {"applied", "dropped"}
  <2>1. Effect[o] = "possible" /\ EffectOf(o)' \in {"done", "never"}
    BY <1>2, <1>4, <1>6 DEF EffectOf
  <2>2. Promise!Decide(o)
    BY <1>1, <1>3, <2>1 DEF Promise!Decide, Promise!Take
  <2> QED BY <2>2 DEF PromiseStep, Promise!PNext
<1>7. CASE guest[o] \in {"sent", "receiving"} /\ e = "receiving"
  <2>1. EffectOf(o)' = EffectOf(o)
    BY <1>2, <1>7 DEF EffectOf
  <2>2. Effect' = Effect
    BY <1>3, <1>4, <2>1, SeenByPromise
  <2> QED BY <1>1, <2>2 DEF PromiseStep, Promise!pvars
<1> QED BY <1>5, <1>6, <1>7

LEMMA NothingSeen ==
  ASSUME UNCHANGED <<record, guest, verdicts>>
  PROVE  PromiseStep
BY DEF PromiseStep, Promise!pvars, Entry, Effect

\* A conclusion about an operation is seen only if it is the first one about an
\* operation that is not on record, and then it gives the operation up unsent.
LEMMA ConcludeSeen ==
  ASSUME TypeOK, NEW o \in Op, NEW v, Conclude(o, v), UNCHANGED <<record, guest>>,
         o \in record \/ verdicts[o] # {} \/ guest[o] = "idle"
  PROVE  PromiseStep
<1>1. verdicts'[o] # {} /\ \A p \in Op \ {o} : verdicts'[p] = verdicts[p]
  BY DEF Conclude, TypeOK
<1>2. \A p \in Op \ {o} : EntryOf(p)' = EntryOf(p)
  BY <1>1 DEF EntryOf
<1>3. \/ EntryOf(o)' = EntryOf(o)
      \/ EntryOf(o) = "fresh" /\ EntryOf(o)' = "closed" /\ guest[o] = "idle"
  BY <1>1 DEF EntryOf
<1> QED BY <1>2, <1>3, EntryMoves

LEMMA RefinementStep ==
  ASSUME Sequential, Relay, TypeInv, RecordInv, ConfirmedIsApplied, RelayInv, ListedInv,
         [Next]_vars
  PROVE  PromiseStep
<1> USE DEF TypeInv, HandTyped, Working, RecordInv, Ownership, Unsent, RelayInv, AbsentInv,
            Goto
<1>1. ASSUME NEW c \in CLI, AddWrite(c) PROVE PromiseStep
  <2>1. hand[c] \in Op /\ record' = record \cup {hand[c]} /\ UNCHANGED <<guest, verdicts>>
    BY <1>1 DEF AddWrite, guestVars
  <2>2. ~Confirmed(hand[c]) /\ ~Absent(hand[c])
    BY <1>1, <2>1 DEF AddWrite, ConfirmedIsApplied
  <2>3. verdicts[hand[c]] \subseteq Verdict
    BY <2>1 DEF TypeOK
  <2>4. verdicts[hand[c]] = {}
    BY <2>2, <2>3 DEF Confirmed, Absent, Verdict
  <2> QED BY <2>1, <2>4, EntryMoves DEF EntryOf
<1>2. ASSUME NEW c \in CLI, RemoveWrite(c) PROVE PromiseStep
  <2>1. hand[c] \in Op /\ record' = record \ {hand[c]} /\ UNCHANGED <<guest, verdicts>>
    BY <1>2 DEF RemoveWrite, Resume, guestVars
  <2>2. verdicts[hand[c]] # {} /\ guest[hand[c]] \in {"idle", "applied", "dropped"}
    BY <1>2, <2>1 DEF RemoveWrite, ConfirmedIsApplied, Confirmed, Absent
  <2> QED BY <2>1, <2>2, EntryMoves DEF EntryOf
<1>3. ASSUME NEW c \in CLI, Dispatch(c) PROVE PromiseStep
  <2>1. hand[c] \in record /\ hand[c] \in Op /\ guest[hand[c]] = "idle"
    BY <1>3 DEF Dispatch
  <2> QED BY <1>3, <2>1, EffectMoves DEF Dispatch
<1>4. ASSUME NEW o \in Op, GuestStep(o) PROVE PromiseStep
  BY <1>4, EffectMoves DEF GuestStep, GuestAdmit, GuestApply, GuestDrop
<1>5. ASSUME NEW c \in CLI, StagingFull(c) PROVE PromiseStep
  <2>1. PICK o \in Op : Mint(c, o) /\ Conclude(o, "absent")
    BY <1>5 DEF StagingFull
  <2>2. guest[o] = "idle"
    BY <2>1 DEF Mint, Minted
  <2> QED BY <1>5, <2>1, <2>2, ConcludeSeen DEF StagingFull, guestVars
<1>6. ASSUME NEW c \in CLI, AddFails(c) PROVE PromiseStep
  BY <1>6, ConcludeSeen DEF AddFails, guestVars
<1>7. ASSUME NEW c \in CLI,
             UnsafePath(c) \/ TicketRefused(c) \/ AnswerRefused(c) \/ ChannelLost(c)
             \/ AnswerApplied(c)
      PROVE  PromiseStep
  <2>1. /\ hand[c] \in Op /\ hand[c] \in record /\ UNCHANGED <<guest, record>>
        /\ Conclude(hand[c], "absent") \/ Conclude(hand[c], "applied")
    BY <1>7 DEF UnsafePath, TicketRefused, AnswerRefused, ChannelLost, AnswerApplied,
                GiveUp, guestVars
  <2> QED BY <2>1, ConcludeSeen
<1>8. ASSUME NEW c \in CLI, ReadReceipt(c) PROVE PromiseStep
  <2>1. PICK o \in todo[c] : UNCHANGED verdicts \/ \E v \in Receipt(o) : Conclude(o, v)
    BY <1>8 DEF ReadReceipt
  <2>2. o \in Op /\ (o \in record \/ verdicts[o] # {}) /\ UNCHANGED <<record, guest>>
    BY <1>8 DEF ReadReceipt, ListedInv, TypeOK, guestVars
  <2> QED BY <2>1, <2>2, ConcludeSeen, NothingSeen
<1>9. CASE UNCHANGED <<record, guest, verdicts>>
  BY <1>9, NothingSeen
<1> QED
  BY <1>1, <1>2, <1>3, <1>4, <1>5, <1>6, <1>7, <1>8, <1>9
  DEF Next, CommandStep, UploadStep, TransferFault, UserStep, RemoveStep, RecoverStep,
      StartUpload, NoCollision, RefuseOverwrite, BeginFile, TicketMinted, OutcomeUnknown,
      FinishUpload, Resume, RemoveList, RemoveNothing, RemoveFails,
      StartRecover, FinishRecover, Crash, vars, guestVars

\* The upload loop, the recovery loop, kills and the guest, one command at a
\* time over the HTTP relay with definite errors, are an implementation of the
\* record that UploadPromise describes: staging.go opens the entry before the
\* request leaves and nothing but a decided effect closes it.
THEOREM KeepsPromiseCorrect == Sequential /\ Relay => (Spec => KeepsPromise)
<1> SUFFICES ASSUME Sequential, Relay PROVE Spec => KeepsPromise
  OBVIOUS
<1>1. Init => Promise!PInit
  BY DEF Init, Promise!PInit, Entry, Effect
<1>2. TypeInv /\ RecordInv /\ ConfirmedIsApplied /\ RelayInv /\ ListedInv /\ [Next]_vars
      => [Promise!PNext]_(Promise!pvars)
  BY RefinementStep DEF PromiseStep
<1> QED
  BY <1>1, <1>2, TypeCorrect, RecordInvariant, ConfirmedCorrect, RelayInvariant,
     ListedInvariant, PTL
  DEF Spec, KeepsPromise, Promise!PSpec

=============================================================================
