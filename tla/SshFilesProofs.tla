---------------------------- MODULE SshFilesProofs ----------------------------
(***************************************************************************)
(* The host key that commands trust, the user's own config and what        *)
(* ssh-config reported as done, for every number of terminals, workspaces, *)
(* keys and commands.                                                      *)
(***************************************************************************)
EXTENDS SshFiles, TLAPS

-----------------------------------------------------------------------------
(* The invariant.                                                          *)

\* What a command holds at each of its steps.
Sound(r) ==
  /\ r \in Cmd
  /\ r.at # "idle" => r.of # None
  /\ r.at \in {"pinRead", "pinCreate", "pinWrite", "verify"} => r.key \in Key
  /\ r.kind = "config" /\ r.at \in {"read", "write"} /\ r.file # "alias" => r.key \in Key
  /\ r.at = "verify" => r.kind = "config"
  /\ r.at \in {"read", "write"} => r.kind # "connect"
  /\ r.at \in {"backup", "backupWrite"} => r.main.text # 0
  /\ \A w \in Workspace : /\ r.known[w] # Set
                          /\ r.file = "known" => r.doc[w] # Set
                          /\ r.file # "known" => r.doc[w] \notin Key

TypeInv == TypeOK /\ \A c \in Cli : Sound(cmd[c])

\* A command trusts the key that is pinned; without a written pin none is.
TrustIsPinned ==
  \A w \in Workspace : \A k \in trusted[w] : pin[w] = k

\* A pin that is to be written was created by that command alone.
OneWriter ==
  \A c \in Cli : At(c, "pinWrite") =>
    /\ pin[cmd[c].of] = Unwritten
    /\ \A b \in Cli : At(b, "pinWrite") /\ cmd[b].of = cmd[c].of => b = c

PinInv == TypeInv /\ TrustIsPinned /\ OneWriter

\* A host key that a command carries to known_hosts, or has read there, is one
\* that was trusted.
Carries(r, tr) ==
  /\ \A w \in Workspace : /\ r.known[w] \in tr[w] \cup {None}
                          /\ r.file = "known" => r.doc[w] \in tr[w] \cup {None}
  /\ r.kind = "config" /\ r.at \in {"verify", "read", "write"} /\ r.file # "alias"
       => r.key \in tr[r.of]

KnownInv ==
  removals = 0 =>
    /\ \A w \in Workspace : managed["known"][w] \in trusted[w] \cup {None}
    /\ \A c \in Cli : Carries(cmd[c], trusted)

SshInv == PinInv /\ KnownInv

-----------------------------------------------------------------------------
(* Types.                                                                  *)

LEMMA IdleSound == Sound(Idle)
BY SshAssumption DEF Sound, Idle, Cmd, Nothing, Content, File, Main

\* A step in which one command moves: only its own record is to be looked at.
LEMMA OneCommand ==
  ASSUME TypeInv, NEW c \in Cli, NEW r, Sound(r), Step(c, r)
  PROVE  /\ cmd' \in [Cli -> Cmd]
         /\ \A b \in Cli : (cmd'[b].at # "idle" => cmd'[b].of # None) /\ Sound(cmd'[b])
<1>1. r \in Cmd /\ cmd' = [cmd EXCEPT ![c] = r] /\ cmd \in [Cli -> Cmd]
  BY DEF Sound, Step, TypeInv, TypeOK
<1>2. cmd' \in [Cli -> Cmd] /\ cmd'[c] = r /\ \A b \in Cli \ {c} : cmd'[b] = cmd[b]
  BY <1>1
<1>3. ASSUME NEW b \in Cli PROVE Sound(cmd'[b])
  BY <1>2 DEF TypeInv
<1> QED BY <1>2, <1>3 DEF Sound

\* A command goes on with what it has.
LEMMA GoSound ==
  ASSUME NEW r, Sound(r), NEW l,
         \/ l \in {"pinRead", "pinCreate", "pinWrite"} /\ r.key \in Key
         \/ l = "verify" /\ r.key \in Key /\ r.kind = "config"
         \/ l = "write" /\ r.at = "read"
         \/ l = "backupWrite" /\ r.main.text # 0
         \/ l = "mainWrite",
         r.of # None
  PROVE  Sound([r EXCEPT !.at = l])
BY DEF Sound, Cmd

LEMMA NextFileSound ==
  ASSUME TypeInv, NEW c \in Cli, At(c, "write"), NextFile(c)
  PROVE  \E r : Sound(r) /\ r.at \notin {"pinWrite", "mainWrite"} /\ Step(c, r)
<1> DEFINE r == cmd[c]
<1>1. Sound(r) /\ r.at = "write" /\ r \in Cmd
  BY DEF TypeInv, At, Sound
<1>2. Nothing \in Content /\ \A w \in Workspace : Nothing[w] = None
  BY DEF Nothing, Content
<1>3. CASE r.file = "config"
  <2> DEFINE n == [[r EXCEPT !.doc = Nothing] EXCEPT !.file = "known",
                              !.at = IF r.kind = "remove" THEN "read" ELSE "write"]
  <2>1. Step(c, n)
    BY <1>1, <1>3 DEF NextFile, Cmd
  <2>2. Sound(n) /\ n.at \notin {"pinWrite", "mainWrite"}
    BY <1>1, <1>2, <1>3, SshAssumption DEF Sound, Cmd, File
  <2> HIDE DEF n
  <2> QED BY <2>1, <2>2
<1>4. CASE r.file = "known"
  <2> DEFINE n == [[r EXCEPT !.doc = Nothing] EXCEPT !.file = "alias", !.at = "read",
                              !.known = Nothing, !.key = None]
  <2>1. Step(c, n)
    BY <1>1, <1>4 DEF NextFile, Cmd
  <2>2. Sound(n) /\ n.at \notin {"pinWrite", "mainWrite"}
    BY <1>1, <1>2, <1>4, SshAssumption DEF Sound, Cmd, File
  <2> HIDE DEF n
  <2> QED BY <2>1, <2>2
<1>5. CASE r.file = "alias" /\ r.kind = "remove"
  <2>1. Step(c, Idle)
    BY <1>1, <1>5 DEF NextFile, Cmd, End
  <2>2. Idle.at \notin {"pinWrite", "mainWrite"}
    BY DEF Idle
  <2> QED BY <2>1, <2>2, IdleSound
<1>6. CASE r.file = "alias" /\ r.kind # "remove"
  <2> DEFINE n == [[r EXCEPT !.doc = Nothing] EXCEPT !.at = "mainRead", !.file = "config"]
  <2>1. Step(c, n)
    BY <1>1, <1>6 DEF NextFile, Cmd
  <2>2. Sound(n) /\ n.at \notin {"pinWrite", "mainWrite"}
    BY <1>1, <1>2, <1>6, SshAssumption DEF Sound, Cmd, File
  <2> HIDE DEF n
  <2> QED BY <2>1, <2>2
<1> QED BY <1>1, <1>3, <1>4, <1>5, <1>6 DEF Cmd, File

\* A step that only moves a command.
LEMMA QuietTypes ==
  ASSUME TypeInv, NEW c \in Cli, NEW r, Sound(r), Step(c, r), UNCHANGED <<offered, files, told, counts>>
  PROVE  TypeInv'
BY OneCommand DEF TypeInv, TypeOK, files, told, counts

LEMMA StartTypes ==
  ASSUME TypeInv, NEW c \in Cli, NEW w \in Workspace, NEW k \in {"config", "connect"}, Start(c, k, w)
  PROVE  TypeInv'
<1> DEFINE u == \E b \in Cli : cmd[b].kind = "remove" /\ cmd[b].of = w
           r == [Idle EXCEPT !.kind = k, !.of = w, !.at = "fetch", !.undone = u]
<1>1. u \in BOOLEAN
  OBVIOUS
<1>2. Sound(r)
  <2> HIDE DEF u
  <2> QED BY <1>1, IdleSound, SshAssumption DEF Sound, Cmd, Idle
<1>3. Step(c, r)
  BY DEF Start
<1>4. runs' \in 0..MaxRuns /\ UNCHANGED <<offered, files, told, rotations, removals, edits>>
  BY SshAssumption DEF Start, TypeInv, TypeOK
<1> HIDE DEF r
<1> QED BY <1>2, <1>3, <1>4, OneCommand DEF TypeInv, TypeOK, files, told

LEMMA UndoneSound ==
  ASSUME NEW r, Sound(r), NEW u \in BOOLEAN
  PROVE  Sound([r EXCEPT !.undone = u])
BY DEF Sound, Cmd

LEMMA StartRemoveTypes ==
  ASSUME TypeInv, NEW c \in Cli, NEW w \in Workspace, StartRemove(c, w)
  PROVE  TypeInv'
<1> DEFINE n == [Idle EXCEPT !.kind = "remove", !.of = w, !.at = "read"]
           u(b) == cmd[b].undone \/ (cmd[b].of = w /\ cmd[b].kind = "config")
           o(b) == [cmd[b] EXCEPT !.undone = u(b)]
<1>1. cmd' = [b \in Cli |-> IF b = c THEN n ELSE o(b)]
  BY DEF StartRemove
<1>2. Sound(n)
  BY IdleSound, SshAssumption DEF Sound, Cmd, Idle
<1>3. ASSUME NEW b \in Cli PROVE Sound(o(b))
  <2>1. Sound(cmd[b])
    BY DEF TypeInv
  <2>2. u(b) \in BOOLEAN
    BY <2>1 DEF Sound, Cmd
  <2> HIDE DEF u
  <2> QED BY <2>1, <2>2, UndoneSound
<1> HIDE DEF n, o
<1>4. cmd' \in [Cli -> Cmd] /\ \A b \in Cli : (cmd'[b].at # "idle" => cmd'[b].of # None) /\ Sound(cmd'[b])
  BY <1>1, <1>2, <1>3 DEF Sound
<1>5. configured' \subseteq Workspace /\ runs' \in 0..MaxRuns
  BY SshAssumption DEF StartRemove, TypeInv, TypeOK
<1> QED BY <1>4, <1>5 DEF StartRemove, TypeInv, TypeOK, files

LEMMA FetchTypes ==
  ASSUME TypeInv, NEW c \in Cli, Fetch(c)
  PROVE  TypeInv'
<1>1. Sound(cmd[c]) /\ cmd[c].at = "fetch" /\ offered \in [Workspace -> Key]
  BY DEF TypeInv, TypeOK, Fetch, At
<1>2. offered[cmd[c].of] \in Key
  BY <1>1 DEF Sound, Cmd
<1>3. \E r : Sound(r) /\ Step(c, r)
  <2>1. Sound([cmd[c] EXCEPT !.at = "pinRead", !.key = offered[cmd[c].of]])
    BY <1>1, <1>2, SshAssumption DEF Sound, Cmd
  <2> QED BY <2>1, IdleSound DEF Fetch, End
<1> QED BY <1>3, QuietTypes DEF Fetch

\* The command goes on with a key, or ends.
LEMMA AcceptTypes ==
  ASSUME TypeInv, NEW c \in Cli, cmd[c].at \in {"pinRead", "pinWrite"}, Accept(c)
  PROVE  /\ \E r : Sound(r) /\ Step(c, r)
         /\ trusted' \in [Workspace -> SUBSET Key]
<1>1. Sound(cmd[c]) /\ cmd[c].of \in Workspace /\ cmd[c].key \in Key
  BY DEF TypeInv, Sound, Cmd
<1>2. \E r : Sound(r) /\ Step(c, r)
  BY <1>1, SshAssumption, GoSound, IdleSound DEF Accept, Go, End
<1> QED BY <1>1, <1>2 DEF Accept, TypeInv, TypeOK

LEMMA PinTypes ==
  ASSUME TypeInv, NEW c \in Cli, PinRead(c) \/ PinCreate(c) \/ PinWrite(c)
  PROVE  TypeInv'
<1>1. Sound(cmd[c]) /\ cmd[c].of \in Workspace /\ cmd[c].key \in Key /\ cmd[c].of # None
  BY DEF TypeInv, Sound, Cmd, PinRead, PinCreate, PinWrite, At
<1>2. CASE PinRead(c)
  <2>1. /\ \E r : Sound(r) /\ Step(c, r)
        /\ trusted' \in [Workspace -> SUBSET Key]
    BY <1>1, <1>2, AcceptTypes, GoSound, IdleSound DEF PinRead, At, Go, End, TypeInv, TypeOK
  <2> QED BY <1>2, <2>1, OneCommand DEF PinRead, TypeInv, TypeOK, files, counts
<1>3. CASE PinCreate(c)
  <2>1. /\ \E r : Sound(r) /\ Step(c, r)
        /\ pin' \in [Workspace -> Key \cup {Unwritten, None}]
    BY <1>1, <1>3, GoSound, IdleSound DEF PinCreate, Go, End, TypeInv, TypeOK
  <2> QED BY <1>3, <2>1, OneCommand DEF PinCreate, TypeInv, TypeOK, told, counts
<1>4. CASE PinWrite(c)
  <2>1. /\ \E r : Sound(r) /\ Step(c, r)
        /\ pin' \in [Workspace -> Key \cup {Unwritten, None}]
        /\ trusted' \in [Workspace -> SUBSET Key]
    BY <1>1, <1>4, AcceptTypes, IdleSound DEF PinWrite, At, End, TypeInv, TypeOK
  <2> QED BY <1>4, <2>1, OneCommand DEF PinWrite, TypeInv, TypeOK, counts
<1> QED BY <1>2, <1>3, <1>4

LEMMA ReadTypes ==
  ASSUME TypeInv, NEW c \in Cli, Verify(c) \/ Read(c)
  PROVE  TypeInv'
<1>1. Sound(cmd[c]) /\ cmd[c] \in Cmd /\ cmd[c].of # None
  BY DEF TypeInv, Sound, Verify, Read, At
<1>2. managed \in [File -> Content] /\ \A w \in Workspace :
        /\ managed["known"][w] # Set
        /\ managed["config"][w] \notin Key /\ managed["alias"][w] \notin Key
  BY DEF TypeInv, TypeOK
<1>3. CASE Verify(c)
  <2>1. cmd[c].key \in Key /\ cmd[c].kind = "config"
    BY <1>1, <1>3 DEF Verify, At, Sound
  <2>2. Sound([cmd[c] EXCEPT !.at = "read", !.known = managed["known"]])
    BY <1>1, <1>2, <2>1 DEF Sound, Cmd, File
  <2> QED BY <1>3, <2>2, IdleSound, QuietTypes DEF Verify, End
<1>4. CASE Read(c)
  <2>1. cmd[c].at = "read" /\ cmd[c].file \in File
    BY <1>1, <1>4 DEF Read, At, Cmd
  <2>2. Sound([cmd[c] EXCEPT !.at = "write", !.doc = managed[cmd[c].file]])
    BY <1>1, <1>2, <2>1 DEF Sound, Cmd, File
  <2>3. Sound([cmd[c] EXCEPT !.at = "write"])
    BY <1>1, <2>1, GoSound
  <2> QED BY <1>4, <2>2, <2>3, IdleSound, QuietTypes DEF Read, Go, End
<1> QED BY <1>3, <1>4

\* What Write puts on the disk.
Base(r)  == IF r.kind = "config" /\ r.file = "known" THEN r.known ELSE r.doc
Entry(r) == CASE r.kind = "remove" -> None
              [] r.kind # "remove" /\ r.file = "known" -> r.key
              [] OTHER -> Set

LEMMA WriteIs ==
  ASSUME TypeInv, NEW c \in Cli, Write(c)
  PROVE  /\ cmd[c].at = "write" /\ Sound(cmd[c]) /\ cmd[c].of \in Workspace /\ cmd[c].file \in File
         /\ cmd[c].kind \in {"config", "remove"}
         /\ \/ /\ managed' = [managed EXCEPT ![cmd[c].file] =
                                [Base(cmd[c]) EXCEPT ![cmd[c].of] = Entry(cmd[c])]]
               /\ lost' = IF Base(cmd[c]) = managed[cmd[c].file] THEN lost ELSE lost \cup {cmd[c].file}
               /\ NextFile(c)
            \/ End(c) /\ UNCHANGED <<managed, lost>>
         /\ UNCHANGED <<offered, pin, main, backup, trusted, configured, counts>>
<1>1. cmd[c].at = "write" /\ Sound(cmd[c]) /\ cmd[c] \in Cmd
  BY DEF TypeInv, Write, At, Sound
<1>2. cmd[c].of \in Workspace /\ cmd[c].file \in File /\ cmd[c].kind \in {"config", "remove"}
  BY <1>1 DEF Sound, Cmd
<1>3. Entry(cmd[c]) = CASE cmd[c].kind = "remove" -> None
                        [] cmd[c].kind # "remove" /\ cmd[c].file = "known" -> cmd[c].key
                        [] OTHER -> Set
  BY <1>2 DEF Entry
<1> QED BY <1>1, <1>2, <1>3 DEF Write, Base

LEMMA WriteTypes ==
  ASSUME TypeInv, NEW c \in Cli, Write(c)
  PROVE  TypeInv'
<1> DEFINE r == cmd[c]
           d == [Base(r) EXCEPT ![r.of] = Entry(r)]
<1>1. r.at = "write" /\ Sound(r) /\ r \in Cmd /\ r.of \in Workspace /\ r.file \in File
      /\ r.kind \in {"config", "remove"}
  BY WriteIs DEF Sound
<1>2. Base(r) \in Content /\ \A w \in Workspace :
        /\ r.file = "known" => Base(r)[w] # Set
        /\ r.file # "known" => Base(r)[w] \notin Key
  BY <1>1 DEF Base, Sound, Cmd
<1>3. /\ Entry(r) \in Key \cup {Set, None}
      /\ r.file = "known" => Entry(r) # Set
      /\ r.file # "known" => Entry(r) \notin Key
  BY <1>1, SshAssumption DEF Entry, Sound, File
<1>4. d \in Content /\ \A w \in Workspace :
        /\ r.file = "known" => d[w] # Set
        /\ r.file # "known" => d[w] \notin Key
  BY <1>1, <1>2, <1>3 DEF Content
<1>5. CASE managed' = [managed EXCEPT ![r.file] = d] /\ lost' \in {lost, lost \cup {r.file}} /\ NextFile(c)
  <2> HIDE DEF d
  <2>1. /\ managed' \in [File -> Content]
        /\ \A w \in Workspace : /\ managed'["known"][w] # Set
                                /\ managed'["config"][w] \notin Key /\ managed'["alias"][w] \notin Key
    BY <1>1, <1>4, <1>5 DEF TypeInv, TypeOK, File
  <2>2. lost' \subseteq File \cup {"main"}
    BY <1>1, <1>5 DEF TypeInv, TypeOK
  <2>3. \E n : Sound(n) /\ Step(c, n)
    BY <1>1, <1>5, NextFileSound DEF At
  <2> QED BY <2>1, <2>2, <2>3, WriteIs, OneCommand DEF TypeInv, TypeOK, counts
<1>6. CASE End(c) /\ UNCHANGED <<managed, lost>>
  BY <1>6, WriteIs, IdleSound, OneCommand DEF End, TypeInv, TypeOK, counts
<1> QED BY <1>5, <1>6, WriteIs

LEMMA MainTypes ==
  ASSUME TypeInv, NEW c \in Cli, MainRead(c) \/ Backup(c) \/ BackupWrite(c) \/ MainWrite(c)
  PROVE  TypeInv'
<1>1. Sound(cmd[c]) /\ cmd[c] \in Cmd /\ cmd[c].of # None /\ cmd[c].of \in Workspace
  BY DEF TypeInv, Sound, Cmd, MainRead, Backup, BackupWrite, MainWrite, At
<1>2. CASE MainRead(c)
  <2>1. main \in Main
    BY DEF TypeInv, TypeOK
  <2>2. Sound([cmd[c] EXCEPT !.main = main, !.at = IF main.text = 0 THEN "mainWrite" ELSE "backup"])
    BY <1>1, <2>1 DEF Sound, Cmd
  <2>3. /\ \E r : Sound(r) /\ Step(c, r)
        /\ configured' \subseteq Workspace
    BY <1>1, <1>2, <2>2, IdleSound DEF MainRead, Done, End, TypeInv, TypeOK
  <2> QED BY <1>2, <2>3, OneCommand DEF MainRead, TypeInv, TypeOK, files, counts
<1>3. CASE Backup(c)
  <2>1. cmd[c].main.text # 0
    BY <1>1, <1>3 DEF Backup, At, Sound
  <2>2. \E r : Sound(r) /\ Step(c, r)
    <3> DEFINE l == IF backup = None THEN "backupWrite" ELSE "mainWrite"
    <3>1. l \in {"backupWrite", "mainWrite"} /\ Go(c, l)
      BY <1>3 DEF Backup
    <3> HIDE DEF l
    <3> QED BY <1>1, <2>1, <3>1, GoSound DEF Go
  <2> QED BY <1>3, <2>2, QuietTypes DEF Backup
<1>4. CASE BackupWrite(c)
  <2>1. cmd[c].main.text \in 1..MaxEdits
    BY <1>1, <1>4, SshAssumption DEF BackupWrite, At, Sound, Cmd, Main
  <2>2. backup' \in 1..MaxEdits \cup {None}
    BY <1>4, <2>1 DEF BackupWrite, TypeInv, TypeOK
  <2>3. \E r : Sound(r) /\ Step(c, r)
    BY <1>1, <1>4, GoSound, IdleSound DEF BackupWrite, Go, End
  <2> QED BY <1>4, <2>2, <2>3, OneCommand DEF BackupWrite, TypeInv, TypeOK, told, counts
<1>5. CASE MainWrite(c)
  <2>1. main' \in Main /\ lost' \subseteq File \cup {"main"} /\ configured' \subseteq Workspace /\ Step(c, Idle)
    BY <1>1, <1>5 DEF MainWrite, Done, End, Cmd, Main, TypeInv, TypeOK
  <2> QED BY <1>5, <2>1, IdleSound, OneCommand DEF MainWrite, TypeInv, TypeOK, counts
<1> QED BY <1>2, <1>3, <1>4, <1>5

\* Kill and what other programs do.
LEMMA OutsideTypes ==
  ASSUME TypeInv,
         \/ \E c \in Cli : Kill(c)
         \/ \E w \in Workspace : RemovePin(w) \/ \E k \in Key : Rotate(w, k)
         \/ Edit
  PROVE  TypeInv'
<1>1. ASSUME NEW c \in Cli, Kill(c) PROVE TypeInv'
  BY <1>1, IdleSound, QuietTypes DEF Kill
<1>2. ASSUME NEW w \in Workspace, RemovePin(w) PROVE TypeInv'
  <2>1. /\ pin' \in [Workspace -> Key \cup {Unwritten, None}]
        /\ trusted' \in [Workspace -> SUBSET Key]
        /\ removals' \in 0..MaxRemovals
    BY <1>2, SshAssumption DEF RemovePin, TypeInv, TypeOK
  <2> QED BY <1>2, <2>1 DEF RemovePin, TypeInv, TypeOK
<1>3. ASSUME NEW w \in Workspace, NEW k \in Key, Rotate(w, k) PROVE TypeInv'
  <2>1. offered' \in [Workspace -> Key] /\ rotations' \in 0..MaxRotations
    BY <1>3, SshAssumption DEF Rotate, TypeInv, TypeOK
  <2> QED BY <1>3, <2>1 DEF Rotate, TypeInv, TypeOK, files, told
<1>4. ASSUME Edit PROVE TypeInv'
  <2>1. edits' \in 0..MaxEdits /\ main' \in Main
    BY <1>4, SshAssumption DEF Edit, TypeInv, TypeOK, Main
  <2> QED BY <1>4, <2>1 DEF Edit, TypeInv, TypeOK, told
<1> QED BY <1>1, <1>2, <1>3, <1>4

LEMMA TypeStep == TypeInv /\ [Next]_vars => TypeInv'
<1> SUFFICES ASSUME TypeInv, [Next]_vars PROVE TypeInv'
  OBVIOUS
<1>1. CASE UNCHANGED vars
  BY <1>1 DEF vars, files, told, counts, TypeInv, TypeOK
<1>2. CASE Next
  BY <1>2, StartTypes, StartRemoveTypes, FetchTypes, PinTypes, ReadTypes, WriteTypes, MainTypes,
     OutsideTypes DEF Next, CommandStep
<1> QED BY <1>1, <1>2

LEMMA TypeStart == Init => TypeInv
<1> SUFFICES ASSUME Init PROVE TypeInv
  OBVIOUS
<1>1. Nothing \in Content /\ Nothing \in [Workspace -> Key \cup {Unwritten, None}]
      /\ \A w \in Workspace : Nothing[w] = None
  BY DEF Nothing, Content
<1>2. /\ managed \in [File -> Content]
      /\ \A w \in Workspace : /\ managed["known"][w] # Set
                              /\ managed["config"][w] \notin Key /\ managed["alias"][w] \notin Key
  BY <1>1, SshAssumption DEF Init, File
<1>3. Idle.at = "idle" /\ Idle \in Cmd
  BY IdleSound DEF Idle, Sound
<1>4. /\ cmd \in [Cli -> Cmd]
      /\ \A c \in Cli : (cmd[c].at # "idle" => cmd[c].of # None) /\ Sound(cmd[c])
  BY <1>3, IdleSound DEF Init
<1>5. /\ main \in Main /\ backup \in 1..MaxEdits \cup {None} /\ lost \subseteq File \cup {"main"}
      /\ trusted \in [Workspace -> SUBSET Key] /\ configured \subseteq Workspace
  BY SshAssumption DEF Init, Main
<1>6. /\ offered \in [Workspace -> Key] /\ pin \in [Workspace -> Key \cup {Unwritten, None}]
      /\ runs \in 0..MaxRuns /\ rotations \in 0..MaxRotations
      /\ removals \in 0..MaxRemovals /\ edits \in 0..MaxEdits
  BY <1>1, SshAssumption DEF Init
<1> QED BY <1>2, <1>4, <1>5, <1>6 DEF TypeInv, TypeOK

\* Every step of every command leaves the pins, the managed files, the user's
\* config and what each command carries within their types, no host key in
\* config or aliases.json and no stanza in known_hosts.
THEOREM SshTypeCorrect == Spec => []TypeOK
<1>1. TypeInv => TypeOK
  BY DEF TypeInv
<1> QED BY <1>1, TypeStart, TypeStep, PTL DEF Spec

-----------------------------------------------------------------------------
(* A pin has one writer, and only what is pinned is trusted.               *)

\* A step of one command leaves what the others write alone.
LEMMA Others ==
  ASSUME TypeInv, NEW c \in Cli, NEW r, Step(c, r)
  PROVE  cmd'[c] = r /\ \A b \in Cli \ {c} : cmd'[b] = cmd[b]
BY DEF Step, TypeInv, TypeOK

\* A step after which no command writes a pin it did not write before.
LEMMA QuietPins ==
  ASSUME PinInv, UNCHANGED <<pin, trusted>>,
         \A b \in Cli : cmd'[b].at = "pinWrite" => cmd[b].at = "pinWrite" /\ cmd'[b].of = cmd[b].of
  PROVE  TrustIsPinned' /\ OneWriter'
BY DEF PinInv, TrustIsPinned, OneWriter, At

LEMMA PinReadPins ==
  ASSUME PinInv, NEW c \in Cli, PinRead(c)
  PROVE  TrustIsPinned' /\ OneWriter'
<1>1. TypeInv /\ Sound(cmd[c]) /\ cmd[c] \in Cmd /\ cmd[c].of \in Workspace
      /\ trusted \in [Workspace -> SUBSET Key]
  BY DEF PinInv, TypeInv, TypeOK, Sound, Cmd, PinRead, At
<1>2. \E r : Step(c, r) /\ r.at # "pinWrite"
  BY <1>1 DEF PinRead, Accept, Go, End, Idle, Cmd
<1>3. \A b \in Cli : cmd'[b].at = "pinWrite" => cmd[b].at = "pinWrite" /\ cmd'[b].of = cmd[b].of
  BY <1>1, <1>2, Others
<1>4. OneWriter'
  BY <1>3 DEF PinRead, files, PinInv, OneWriter, At
<1>5. trusted' = trusted \/ (pin[cmd[c].of] = cmd[c].key
                             /\ trusted' = [trusted EXCEPT ![cmd[c].of] = @ \cup {cmd[c].key}])
  BY DEF PinRead, Accept
<1>6. TrustIsPinned'
  BY <1>1, <1>5 DEF PinRead, files, PinInv, TrustIsPinned
<1> QED BY <1>4, <1>6

LEMMA PinCreatePins ==
  ASSUME PinInv, NEW c \in Cli, PinCreate(c)
  PROVE  TrustIsPinned' /\ OneWriter'
<1>1. TypeInv /\ cmd[c] \in Cmd /\ cmd[c].of \in Workspace
      /\ trusted \in [Workspace -> SUBSET Key] /\ pin \in [Workspace -> Key \cup {Unwritten, None}]
  BY DEF PinInv, TypeInv, TypeOK, Sound, Cmd, PinCreate, At
<1>2. CASE UNCHANGED pin /\ (Go(c, "pinRead") \/ End(c))
  <2>1. \E r : Step(c, r) /\ r.at # "pinWrite"
    BY <1>1, <1>2 DEF Go, End, Idle, Cmd
  <2>2. \A b \in Cli : cmd'[b].at = "pinWrite" => cmd[b].at = "pinWrite" /\ cmd'[b].of = cmd[b].of
    BY <1>1, <2>1, Others
  <2> QED BY <1>2, <2>2, QuietPins DEF PinCreate, told
<1>3. CASE pin[cmd[c].of] = None /\ pin' = [pin EXCEPT ![cmd[c].of] = Unwritten] /\ Go(c, "pinWrite")
  <2>1. cmd'[c].at = "pinWrite" /\ cmd'[c].of = cmd[c].of /\ \A b \in Cli \ {c} : cmd'[b] = cmd[b]
    <3> DEFINE r == [cmd[c] EXCEPT !.at = "pinWrite"]
    <3>1. Step(c, r) /\ r.at = "pinWrite" /\ r.of = cmd[c].of
      BY <1>1, <1>3 DEF Go, Cmd
    <3> HIDE DEF r
    <3> QED BY <1>1, <3>1, Others
  <2>2. \A b \in Cli \ {c} : cmd[b].at = "pinWrite" => cmd[b].of # cmd[c].of
    BY <1>3, SshAssumption DEF PinInv, OneWriter, At
  <2>3. \A b \in Cli : cmd[b].at = "pinWrite" => cmd[b].of \in Workspace
    BY DEF PinInv, TypeInv, Sound, Cmd
  <2>4. OneWriter'
    BY <1>1, <1>3, <2>1, <2>2, <2>3 DEF PinInv, OneWriter, At
  <2>5. trusted[cmd[c].of] = {}
    BY <1>1, <1>3, SshAssumption DEF PinInv, TrustIsPinned
  <2>6. TrustIsPinned'
    BY <1>1, <1>3, <2>5 DEF PinCreate, told, PinInv, TrustIsPinned
  <2> QED BY <2>4, <2>6
<1> QED BY <1>2, <1>3 DEF PinCreate

LEMMA PinWritePins ==
  ASSUME PinInv, NEW c \in Cli, PinWrite(c)
  PROVE  TrustIsPinned' /\ OneWriter'
<1>1. TypeInv /\ cmd[c] \in Cmd /\ cmd[c].of \in Workspace /\ cmd[c].at = "pinWrite"
      /\ trusted \in [Workspace -> SUBSET Key] /\ pin \in [Workspace -> Key \cup {Unwritten, None}]
  BY DEF PinInv, TypeInv, TypeOK, Sound, Cmd, PinWrite, At
<1>2. \E r : Step(c, r) /\ r.at # "pinWrite"
  BY <1>1 DEF PinWrite, Accept, Go, End, Idle, Cmd
<1>3. cmd'[c].at # "pinWrite" /\ \A b \in Cli \ {c} : cmd'[b] = cmd[b]
  BY <1>1, <1>2, Others
<1>4. pin[cmd[c].of] = Unwritten
  BY <1>1 DEF PinInv, OneWriter, At
<1>5. trusted[cmd[c].of] = {}
  BY <1>1, <1>4, SshAssumption DEF PinInv, TrustIsPinned
<1>6. \A b \in Cli \ {c} : cmd[b].at = "pinWrite" => cmd[b].of # cmd[c].of
  BY <1>1 DEF PinInv, OneWriter, At
<1>7. \/ UNCHANGED <<pin, trusted>>
      \/ /\ pin' = [pin EXCEPT ![cmd[c].of] = cmd[c].key]
         /\ \/ trusted' = [trusted EXCEPT ![cmd[c].of] = @ \cup {cmd[c].key}]
            \/ trusted' = trusted
  BY DEF PinWrite, Accept
<1>8. OneWriter'
  <2>1. \A b \in Cli : cmd[b].at = "pinWrite" => cmd[b].of \in Workspace
    BY DEF PinInv, TypeInv, Sound, Cmd
  <2> QED BY <1>1, <1>3, <1>6, <1>7, <2>1 DEF PinInv, OneWriter, At
<1>9. TrustIsPinned'
  BY <1>1, <1>5, <1>7 DEF PinInv, TrustIsPinned
<1> QED BY <1>8, <1>9

LEMMA Ends ==
  ASSUME NEW c \in Cli, NEW l, l \notin {"pinWrite", "mainWrite"}, TypeInv, Go(c, l) \/ End(c)
  PROVE  \E r : Step(c, r) /\ r.at \notin {"pinWrite", "mainWrite"}
BY DEF TypeInv, TypeOK, Cmd, Go, End, Idle

\* The steps before which and after which no pin and no user's text is at stake.
LEMMA Elsewhere ==
  ASSUME TypeInv, NEW c \in Cli,
         \/ \E w \in Workspace : Start(c, "config", w) \/ Start(c, "connect", w)
         \/ Fetch(c) \/ Verify(c) \/ Read(c) \/ Write(c) \/ Kill(c)
  PROVE  \E r : Step(c, r) /\ r.at \notin {"pinWrite", "mainWrite"}
<1>1. cmd[c] \in Cmd
  BY DEF TypeInv, TypeOK
<1>2. ASSUME NEW w \in Workspace, NEW k, Start(c, k, w)
      PROVE  \E r : Step(c, r) /\ r.at \notin {"pinWrite", "mainWrite"}
  <2> DEFINE u == \E b \in Cli : cmd[b].kind = "remove" /\ cmd[b].of = w
             r == [Idle EXCEPT !.kind = k, !.of = w, !.at = "fetch", !.undone = u]
  <2>1. Step(c, r)
    BY <1>2 DEF Start
  <2>2. r.at = "fetch"
    BY DEF Idle
  <2> HIDE DEF r
  <2> QED BY <2>1, <2>2, SMTT(30)
<1>3. CASE Write(c)
  BY <1>3, NextFileSound, Ends DEF Write
<1>4. CASE Fetch(c)
  <2> DEFINE r == [cmd[c] EXCEPT !.at = "pinRead", !.key = offered[cmd[c].of]]
  <2>1. r.at \notin {"pinWrite", "mainWrite"}
    BY <1>1 DEF Cmd
  <2>2. Step(c, r) \/ End(c)
    BY <1>4 DEF Fetch
  <2> HIDE DEF r
  <2> QED BY <2>1, <2>2, Ends
<1>5. CASE Verify(c)
  <2> DEFINE r == [cmd[c] EXCEPT !.at = "read", !.known = managed["known"]]
  <2>1. r.at \notin {"pinWrite", "mainWrite"}
    BY <1>1 DEF Cmd
  <2>2. Step(c, r) \/ End(c)
    BY <1>5 DEF Verify
  <2> HIDE DEF r
  <2> QED BY <2>1, <2>2, Ends
<1>6. CASE Read(c)
  <2> DEFINE r == [cmd[c] EXCEPT !.at = "write", !.doc = managed[cmd[c].file]]
  <2>1. r.at \notin {"pinWrite", "mainWrite"}
    BY <1>1 DEF Cmd
  <2>2. Step(c, r) \/ Go(c, "write") \/ End(c)
    BY <1>6 DEF Read
  <2> HIDE DEF r
  <2> QED BY <2>1, <2>2, Ends
<1>7. CASE Kill(c)
  BY <1>7 DEF Kill, Idle
<1> QED BY <1>2, <1>3, <1>4, <1>5, <1>6, <1>7

LEMMA GoPins ==
  ASSUME TypeInv, NEW c \in Cli, NEW l, l # "pinWrite", Go(c, l) \/ End(c)
  PROVE  \E r : Step(c, r) /\ r.at # "pinWrite"
BY DEF TypeInv, TypeOK, Cmd, Go, End, Idle

\* The steps that touch no pin.
LEMMA OtherPins ==
  ASSUME PinInv, NEW c \in Cli,
         \/ \E w \in Workspace : Start(c, "config", w) \/ Start(c, "connect", w)
         \/ Fetch(c) \/ Verify(c) \/ Read(c) \/ Write(c)
         \/ MainRead(c) \/ Backup(c) \/ BackupWrite(c) \/ MainWrite(c) \/ Kill(c)
  PROVE  TrustIsPinned' /\ OneWriter'
<1>1. TypeInv /\ cmd[c] \in Cmd
  BY DEF PinInv, TypeInv, TypeOK
<1>2. \E r : Step(c, r) /\ r.at # "pinWrite"
  <2>1. CASE MainRead(c)
    <3> DEFINE r == [cmd[c] EXCEPT !.main = main, !.at = IF main.text = 0 THEN "mainWrite" ELSE "backup"]
    <3>1. r.at # "pinWrite"
      BY <1>1 DEF Cmd
    <3>2. Step(c, r) \/ End(c)
      BY <2>1 DEF MainRead, Done
    <3> HIDE DEF r
    <3> QED BY <1>1, <3>1, <3>2, GoPins
  <2>2. CASE Backup(c) \/ BackupWrite(c) \/ MainWrite(c)
    BY <1>1, <2>2, GoPins DEF Backup, BackupWrite, MainWrite, Done
  <2> QED BY <1>1, <2>1, <2>2, Elsewhere
<1>3. \A b \in Cli : cmd'[b].at = "pinWrite" => cmd[b].at = "pinWrite" /\ cmd'[b].of = cmd[b].of
  BY <1>1, <1>2, Others, SMTT(30)
<1>4. UNCHANGED <<pin, trusted>>
  BY DEF Start, Fetch, Verify, Read, Write, MainRead, Backup, BackupWrite, MainWrite, Kill, files, told
<1> QED BY <1>3, <1>4, QuietPins

LEMMA StartRemovePins ==
  ASSUME PinInv, NEW c \in Cli, NEW w \in Workspace, StartRemove(c, w)
  PROVE  TrustIsPinned' /\ OneWriter'
<1> DEFINE n == [Idle EXCEPT !.kind = "remove", !.of = w, !.at = "read"]
           o(b) == [cmd[b] EXCEPT !.undone = @ \/ (cmd[b].of = w /\ cmd[b].kind = "config")]
<1>1. cmd' = [b \in Cli |-> IF b = c THEN n ELSE o(b)]
  BY DEF StartRemove
<1>2. n.at = "read"
  BY DEF Idle
<1>3. \A b \in Cli : o(b).at = cmd[b].at /\ o(b).of = cmd[b].of
  BY DEF PinInv, TypeInv, TypeOK, Cmd
<1> HIDE DEF n, o
<1>4. \A b \in Cli : cmd'[b].at = "pinWrite" => cmd[b].at = "pinWrite" /\ cmd'[b].of = cmd[b].of
  BY <1>1, <1>2, <1>3
<1> QED BY <1>4, QuietPins DEF StartRemove, files

LEMMA RemovePinPins ==
  ASSUME PinInv, NEW w \in Workspace, RemovePin(w)
  PROVE  TrustIsPinned' /\ OneWriter'
<1>1. trusted \in [Workspace -> SUBSET Key] /\ pin \in [Workspace -> Key \cup {Unwritten, None}]
  BY DEF PinInv, TypeInv, TypeOK
<1>2. \A b \in Cli : cmd[b].at = "pinWrite" => cmd[b].of \in Workspace \ {w}
  BY DEF RemovePin, At, PinInv, TypeInv, Sound, Cmd
<1>3. OneWriter'
  BY <1>1, <1>2 DEF RemovePin, PinInv, OneWriter, At
<1>4. TrustIsPinned'
  BY <1>1 DEF RemovePin, PinInv, TrustIsPinned
<1> QED BY <1>3, <1>4

LEMMA PinStep == PinInv /\ [Next]_vars => PinInv'
<1> SUFFICES ASSUME PinInv, [Next]_vars PROVE TrustIsPinned' /\ OneWriter'
  BY TypeStep DEF PinInv
<1>1. CASE UNCHANGED vars
  BY <1>1, QuietPins DEF vars, files, told
<1>2. CASE (\E w \in Workspace, k \in Key : Rotate(w, k)) \/ Edit
  BY <1>2, QuietPins DEF Rotate, Edit, files, told
<1>3. CASE \E c \in Cli : PinRead(c) \/ PinCreate(c) \/ PinWrite(c)
  BY <1>3, PinReadPins, PinCreatePins, PinWritePins
<1>4. CASE \E w \in Workspace : RemovePin(w) \/ \E c \in Cli : StartRemove(c, w)
  BY <1>4, StartRemovePins, RemovePinPins
<1> QED BY <1>1, <1>2, <1>3, <1>4, OtherPins DEF Next, CommandStep

LEMMA PinStart == Init => PinInv
BY TypeStart DEF Init, PinInv, TrustIsPinned, OneWriter, At, Idle

-----------------------------------------------------------------------------
(* What is trusted is all that reaches known_hosts.                        *)

\* Commands trust more and more keys, until a pin is removed.
LEMMA CarriesStays ==
  ASSUME NEW r \in Cmd, NEW tr1, NEW tr2,
         \A w \in Workspace : tr1[w] \subseteq tr2[w],
         r.of \in Workspace \/ r.at = "idle", Carries(r, tr1)
  PROVE  Carries(r, tr2)
BY DEF Carries

\* Only the record of the command that moves, and known_hosts, are to be looked at.
LEMMA OneCarrier ==
  ASSUME SshInv, UNCHANGED removals, NEW c \in Cli, NEW r, Step(c, r),
         \A w \in Workspace : trusted[w] \subseteq trusted'[w],
         removals = 0 =>
           /\ Carries(r, trusted')
           /\ \A w \in Workspace : managed'["known"][w] \in trusted'[w] \cup {None}
  PROVE  KnownInv'
<1> SUFFICES ASSUME removals = 0, NEW b \in Cli PROVE Carries(cmd'[b], trusted')
  BY DEF KnownInv
<1>1. CASE b = c
  BY <1>1, Others DEF SshInv, PinInv
<1>2. CASE b # c
  <2>1. cmd'[b] = cmd[b]
    BY <1>2, Others DEF SshInv, PinInv
  <2>2. cmd[b] \in Cmd /\ (cmd[b].of \in Workspace \/ cmd[b].at = "idle")
    BY DEF SshInv, PinInv, TypeInv, Sound, Cmd
  <2>3. Carries(cmd[b], trusted)
    BY DEF SshInv, KnownInv
  <2> QED BY <2>1, <2>2, <2>3, CarriesStays
<1> QED BY <1>1, <1>2

\* A step that neither trusts a key nor writes known_hosts.
LEMMA QuietKnown ==
  ASSUME SshInv, UNCHANGED <<removals, trusted, managed>>, NEW c \in Cli, NEW r, Step(c, r),
         Carries(cmd[c], trusted) => Carries(r, trusted)
  PROVE  KnownInv'
<1>1. removals = 0 => /\ Carries(r, trusted')
                      /\ \A w \in Workspace : managed'["known"][w] \in trusted'[w] \cup {None}
  BY DEF SshInv, KnownInv
<1> QED BY <1>1, OneCarrier

LEMMA IdleCarries == \A tr : Carries(Idle, tr)
BY DEF Carries, Idle, Nothing

LEMMA GoCarries ==
  ASSUME NEW r \in Cmd, NEW l, NEW tr, Carries(r, tr),
         l \notin {"verify", "read", "write"} \/ r.at \in {"verify", "read"}
  PROVE  Carries([r EXCEPT !.at = l], tr)
BY DEF Carries, Cmd

LEMMA StartKnown ==
  ASSUME SshInv, NEW c \in Cli, NEW w \in Workspace, NEW k, Start(c, k, w)
  PROVE  KnownInv'
<1> DEFINE u == \E b \in Cli : cmd[b].kind = "remove" /\ cmd[b].of = w
           r == [Idle EXCEPT !.kind = k, !.of = w, !.at = "fetch", !.undone = u]
<1>1. Step(c, r)
  BY DEF Start
<1>2. Carries(r, trusted)
  BY DEF Carries, Idle, Nothing
<1> HIDE DEF r
<1> QED BY <1>1, <1>2, QuietKnown DEF Start, files, told

LEMMA StartRemoveKnown ==
  ASSUME SshInv, NEW c \in Cli, NEW w \in Workspace, StartRemove(c, w)
  PROVE  KnownInv'
<1> DEFINE n == [Idle EXCEPT !.kind = "remove", !.of = w, !.at = "read"]
           o(b) == [cmd[b] EXCEPT !.undone = @ \/ (cmd[b].of = w /\ cmd[b].kind = "config")]
<1>1. cmd' = [b \in Cli |-> IF b = c THEN n ELSE o(b)]
  BY DEF StartRemove
<1>2. Carries(n, trusted)
  BY DEF Carries, Idle, Nothing
<1>3. ASSUME NEW b \in Cli, Carries(cmd[b], trusted) PROVE Carries(o(b), trusted)
  <2>1. cmd[b] \in Cmd
    BY DEF SshInv, PinInv, TypeInv, TypeOK
  <2> QED BY <1>3, <2>1 DEF Carries, Cmd
<1> HIDE DEF n, o
<1>4. UNCHANGED <<removals, trusted, managed>>
  BY DEF StartRemove, files
<1> QED BY <1>1, <1>2, <1>3, <1>4 DEF SshInv, KnownInv

LEMMA FetchKnown ==
  ASSUME SshInv, NEW c \in Cli, Fetch(c)
  PROVE  KnownInv'
<1> DEFINE r == [cmd[c] EXCEPT !.at = "pinRead", !.key = offered[cmd[c].of]]
<1>1. cmd[c] \in Cmd
  BY DEF SshInv, PinInv, TypeInv, TypeOK
<1>2. Carries(cmd[c], trusted) => Carries(r, trusted)
  BY <1>1 DEF Carries, Cmd
<1>3. Step(c, r) \/ Step(c, Idle)
  BY DEF Fetch, End
<1> HIDE DEF r
<1> QED BY <1>2, <1>3, IdleCarries, QuietKnown DEF Fetch, files, told, counts

\* The key that is trusted is the one that ssh-config takes to known_hosts.
LEMMA AcceptKnown ==
  ASSUME SshInv, NEW c \in Cli, cmd[c].at \in {"pinRead", "pinWrite"}, Accept(c),
         UNCHANGED <<removals, managed>>
  PROVE  KnownInv'
<1> DEFINE w == cmd[c].of
           r == [cmd[c] EXCEPT !.at = "verify"]
<1>1. TypeInv /\ cmd[c] \in Cmd /\ w \in Workspace /\ trusted \in [Workspace -> SUBSET Key]
  BY DEF SshInv, PinInv, TypeInv, TypeOK, Sound, Cmd
<1>2. trusted' = [trusted EXCEPT ![w] = @ \cup {cmd[c].key}]
  BY DEF Accept
<1>3. (\A v \in Workspace : trusted[v] \subseteq trusted'[v]) /\ cmd[c].key \in trusted'[w]
  BY <1>1, <1>2
<1>4. removals = 0 => \A v \in Workspace : managed'["known"][v] \in trusted'[v] \cup {None}
  BY <1>3 DEF SshInv, KnownInv
<1>5. removals = 0 => Carries(r, trusted')
  <2>1. removals = 0 => Carries(cmd[c], trusted')
    BY <1>1, <1>3, CarriesStays DEF SshInv, KnownInv
  <2> QED BY <1>1, <1>3, <2>1 DEF Carries, Cmd
<1>6. Step(c, r) \/ Step(c, Idle)
  BY DEF Accept, Go, End
<1> HIDE DEF r
<1> QED BY <1>3, <1>4, <1>5, <1>6, IdleCarries, OneCarrier

LEMMA PinKnown ==
  ASSUME SshInv, NEW c \in Cli, PinRead(c) \/ PinCreate(c) \/ PinWrite(c)
  PROVE  KnownInv'
<1>1. cmd[c] \in Cmd /\ UNCHANGED <<removals, managed>>
  BY DEF SshInv, PinInv, TypeInv, TypeOK, PinRead, PinCreate, PinWrite, files, counts
<1>2. ASSUME NEW l, l \in {"pinRead", "pinCreate", "pinWrite"}, Go(c, l) \/ End(c), UNCHANGED trusted
      PROVE  KnownInv'
  <2>1. Carries(cmd[c], trusted) => Carries([cmd[c] EXCEPT !.at = l], trusted)
    BY <1>1, <1>2, GoCarries
  <2> QED BY <1>1, <1>2, <2>1, IdleCarries, QuietKnown DEF Go, End
<1>3. CASE PinRead(c)
  BY <1>1, <1>2, <1>3, AcceptKnown DEF PinRead, At
<1>4. CASE PinCreate(c)
  BY <1>2, <1>4 DEF PinCreate, told
<1>5. CASE PinWrite(c)
  BY <1>1, <1>2, <1>5, AcceptKnown DEF PinWrite, At
<1> QED BY <1>3, <1>4, <1>5

LEMMA ReadKnown ==
  ASSUME SshInv, NEW c \in Cli, Verify(c) \/ Read(c)
  PROVE  KnownInv'
<1>1. cmd[c] \in Cmd /\ UNCHANGED <<removals, managed, trusted>>
  BY DEF SshInv, PinInv, TypeInv, TypeOK, Verify, Read, files, told, counts
<1>2. CASE removals # 0
  BY <1>1, <1>2 DEF KnownInv
<1>3. ASSUME removals = 0, Verify(c) PROVE KnownInv'
  <2> DEFINE r == [cmd[c] EXCEPT !.at = "read", !.known = managed["known"]]
  <2>1. Carries(cmd[c], trusted) => Carries(r, trusted)
    BY <1>1, <1>3 DEF Verify, At, SshInv, KnownInv, Carries, Cmd
  <2>2. Step(c, r) \/ Step(c, Idle)
    BY <1>3 DEF Verify, End
  <2> HIDE DEF r
  <2> QED BY <1>1, <2>1, <2>2, IdleCarries, QuietKnown
<1>4. ASSUME removals = 0, Read(c) PROVE KnownInv'
  <2> DEFINE r == [cmd[c] EXCEPT !.at = "write", !.doc = managed[cmd[c].file]]
             g == [cmd[c] EXCEPT !.at = "write"]
  <2>1. Carries(cmd[c], trusted) => Carries(r, trusted)
    BY <1>1, <1>4 DEF Read, At, SshInv, KnownInv, Carries, Cmd
  <2>2. Carries(cmd[c], trusted) => Carries(g, trusted)
    BY <1>1, <1>4, GoCarries DEF Read, At
  <2>3. Step(c, r) \/ Step(c, g) \/ Step(c, Idle)
    BY <1>4 DEF Read, Go, End
  <2> HIDE DEF r, g
  <2> QED BY <1>1, <2>1, <2>2, <2>3, IdleCarries, QuietKnown
<1> QED BY <1>2, <1>3, <1>4

LEMMA NextFileCarries ==
  ASSUME TypeInv, NEW c \in Cli, At(c, "write"), NextFile(c), Carries(cmd[c], trusted)
  PROVE  \E r : Step(c, r) /\ Carries(r, trusted)
<1> DEFINE r == cmd[c]
<1>1. r \in Cmd /\ r.at = "write"
  BY DEF TypeInv, TypeOK, At
<1>2. \A w \in Workspace : Nothing[w] = None
  BY DEF Nothing
<1>3. CASE r.file = "config"
  <2> DEFINE n == [[r EXCEPT !.doc = Nothing] EXCEPT !.file = "known",
                              !.at = IF r.kind = "remove" THEN "read" ELSE "write"]
  <2>1. Step(c, n)
    BY <1>1, <1>3 DEF NextFile, Cmd
  <2>2. Carries(n, trusted)
    BY <1>1, <1>2, <1>3 DEF Carries, Cmd
  <2> HIDE DEF n
  <2> QED BY <2>1, <2>2
<1>4. CASE r.file = "known"
  <2> DEFINE n == [[r EXCEPT !.doc = Nothing] EXCEPT !.file = "alias", !.at = "read",
                              !.known = Nothing, !.key = None]
  <2>1. Step(c, n)
    BY <1>1, <1>4 DEF NextFile, Cmd
  <2>2. Carries(n, trusted)
    BY <1>1, <1>2, <1>4 DEF Carries, Cmd
  <2> HIDE DEF n
  <2> QED BY <2>1, <2>2
<1>5. CASE r.file = "alias" /\ r.kind = "remove"
  <2>1. Step(c, Idle)
    BY <1>1, <1>5 DEF NextFile, Cmd, End
  <2> QED BY <2>1, IdleCarries
<1>6. CASE r.file = "alias" /\ r.kind # "remove"
  <2> DEFINE n == [[r EXCEPT !.doc = Nothing] EXCEPT !.at = "mainRead", !.file = "config"]
  <2>1. Step(c, n)
    BY <1>1, <1>6 DEF NextFile, Cmd
  <2>2. Carries(n, trusted)
    BY <1>1, <1>2, <1>6 DEF Carries, Cmd
  <2> HIDE DEF n
  <2> QED BY <2>1, <2>2
<1> QED BY <1>1, <1>3, <1>4, <1>5, <1>6 DEF Cmd, File

\* Only an entry that is the command's own, or that it read, is written.
LEMMA WriteKnown ==
  ASSUME SshInv, NEW c \in Cli, Write(c)
  PROVE  KnownInv'
<1> DEFINE r == cmd[c]
           d == [Base(r) EXCEPT ![r.of] = Entry(r)]
<1>1. TypeInv /\ r \in Cmd /\ r.at = "write" /\ r.of \in Workspace /\ r.file \in File
      /\ r.kind \in {"config", "remove"} /\ UNCHANGED <<removals, trusted>>
  BY WriteIs DEF SshInv, PinInv, Sound, counts
<1>2. CASE removals # 0
  BY <1>1, <1>2 DEF KnownInv
<1>3. CASE End(c) /\ UNCHANGED managed
  BY <1>1, <1>3, IdleCarries, QuietKnown DEF End
<1>4. ASSUME removals = 0, managed' = [managed EXCEPT ![r.file] = d], NextFile(c) PROVE KnownInv'
  <2>1. Carries(r, trusted) /\ \A w \in Workspace : managed["known"][w] \in trusted[w] \cup {None}
    BY <1>4 DEF SshInv, KnownInv
  <2>2. \A w \in Workspace : managed'["known"][w] \in trusted'[w] \cup {None}
    <3>1. CASE r.file = "known"
      <4>1. Base(r) \in Content /\ \A w \in Workspace : Base(r)[w] \in trusted[w] \cup {None}
        BY <1>1, <2>1, <3>1 DEF Base, Carries, Cmd
      <4>2. Entry(r) \in trusted[r.of] \cup {None}
        BY <1>1, <2>1, <3>1 DEF Entry, Carries
      <4>3. managed'["known"] = d
        BY <1>4, <3>1 DEF SshInv, PinInv, TypeInv, TypeOK, File
      <4> QED BY <1>1, <4>1, <4>2, <4>3 DEF Content
    <3>2. CASE r.file # "known"
      <4>1. managed'["known"] = managed["known"]
        BY <1>4, <3>2 DEF SshInv, PinInv, TypeInv, TypeOK, File
      <4> QED BY <1>1, <2>1, <4>1
    <3> QED BY <3>1, <3>2
  <2>3. \E n : Step(c, n) /\ Carries(n, trusted)
    BY <1>1, <1>4, <2>1, NextFileCarries DEF At
  <2> QED BY <1>1, <2>2, <2>3, OneCarrier
<1> QED BY <1>2, <1>3, <1>4, WriteIs DEF SshInv, PinInv

LEMMA MainKnown ==
  ASSUME SshInv, NEW c \in Cli, MainRead(c) \/ Backup(c) \/ BackupWrite(c) \/ MainWrite(c) \/ Kill(c)
  PROVE  KnownInv'
<1>1. cmd[c] \in Cmd /\ UNCHANGED <<removals, managed, trusted>>
  BY DEF SshInv, PinInv, TypeInv, TypeOK, MainRead, Backup, BackupWrite, MainWrite, Kill, files, told, counts
<1>2. CASE MainRead(c)
  <2> DEFINE r == [cmd[c] EXCEPT !.main = main, !.at = IF main.text = 0 THEN "mainWrite" ELSE "backup"]
  <2>1. Carries(cmd[c], trusted) => Carries(r, trusted)
    BY <1>1 DEF Carries, Cmd
  <2>2. Step(c, r) \/ Step(c, Idle)
    BY <1>2 DEF MainRead, Done, End
  <2> HIDE DEF r
  <2> QED BY <1>1, <2>1, <2>2, IdleCarries, QuietKnown
<1>3. CASE Backup(c) \/ BackupWrite(c)
  <2>1. \A l \in {"backupWrite", "mainWrite"} :
          Carries(cmd[c], trusted) => Carries([cmd[c] EXCEPT !.at = l], trusted)
    BY <1>1, GoCarries
  <2> QED BY <1>1, <1>3, <2>1, IdleCarries, QuietKnown DEF Backup, BackupWrite, Go, End
<1>4. CASE MainWrite(c) \/ Kill(c)
  BY <1>1, <1>4, IdleCarries, QuietKnown DEF MainWrite, Kill, Done, End
<1> QED BY <1>2, <1>3, <1>4

LEMMA OutsideKnown ==
  ASSUME SshInv,
         \/ \E w \in Workspace : RemovePin(w) \/ \E k \in Key : Rotate(w, k)
         \/ Edit \/ UNCHANGED vars
  PROVE  KnownInv'
<1>1. ASSUME NEW w \in Workspace, RemovePin(w) PROVE KnownInv'
  <2>1. removals' # 0
    BY <1>1, SshAssumption DEF RemovePin, SshInv, PinInv, TypeInv, TypeOK
  <2> QED BY <2>1 DEF KnownInv
<1>2. CASE (\E w \in Workspace, k \in Key : Rotate(w, k)) \/ Edit \/ UNCHANGED vars
  BY <1>2 DEF Rotate, Edit, vars, files, told, counts, SshInv, KnownInv
<1> QED BY <1>1, <1>2

LEMMA SshStep == SshInv /\ [Next]_vars => SshInv'
<1> SUFFICES ASSUME SshInv, [Next]_vars PROVE KnownInv'
  BY PinStep DEF SshInv
<1> QED BY StartKnown, StartRemoveKnown, FetchKnown, PinKnown, ReadKnown, WriteKnown, MainKnown,
           OutsideKnown DEF Next, CommandStep

LEMMA SshStart == Init => SshInv
<1> SUFFICES ASSUME Init PROVE KnownInv
  BY PinStart DEF SshInv
<1>1. \A c \in Cli : Carries(cmd[c], trusted)
  BY IdleCarries DEF Init
<1>2. \A w \in Workspace : managed["known"][w] = None
  BY DEF Init, File, Nothing
<1> QED BY <1>1, <1>2 DEF KnownInv

\* However many terminals fetch keys, create pins and rewrite known_hosts at
\* once, and whatever keys the Control Plane reports meanwhile: the commands
\* trust one key of each workspace until the user removes its pin, and no other
\* one is in known_hosts (pinnedHostKey, verifyKnownHost).
THEOREM OneKeyTrustedCorrect == Spec => []OneKeyTrusted
<1>1. SshInv => OneKeyTrusted
  BY DEF SshInv, PinInv, TrustIsPinned, KnownInv, OneKeyTrusted
<1> QED BY <1>1, SshStart, SshStep, PTL DEF Spec

-----------------------------------------------------------------------------
(* The user's own config.                                                  *)

\* A command that is about to change the user's text has a backup of one.
BackedUp == \A c \in Cli : At(c, "mainWrite") /\ cmd[c].main.text # 0 => backup # None

MainInv == TypeInv /\ BackedUp

\* A step after which no command comes to change it that did not before.
LEMMA QuietMain ==
  ASSUME MainInv, backup' = backup,
         \A b \in Cli : cmd'[b].at = "mainWrite" => cmd[b].at = "mainWrite" /\ cmd'[b].main = cmd[b].main
  PROVE  BackedUp'
BY DEF MainInv, BackedUp, At

LEMMA OneMain ==
  ASSUME MainInv, backup' = backup, NEW c \in Cli,
         \E r : Step(c, r) /\ (r.at = "mainWrite" => r.main.text = 0)
  PROVE  BackedUp'
<1>1. (cmd'[c].at = "mainWrite" => cmd'[c].main.text = 0) /\ \A b \in Cli \ {c} : cmd'[b] = cmd[b]
  BY Others DEF MainInv
<1> QED BY <1>1 DEF MainInv, BackedUp, At

LEMMA PinMain ==
  ASSUME MainInv, NEW c \in Cli, PinRead(c) \/ PinCreate(c) \/ PinWrite(c)
  PROVE  BackedUp'
<1>1. cmd[c] \in Cmd /\ backup' = backup
  BY DEF MainInv, TypeInv, TypeOK, PinRead, PinCreate, PinWrite, files
<1>2. ASSUME NEW l, l # "mainWrite", Go(c, l) \/ End(c)
      PROVE  \E r : Step(c, r) /\ r.at # "mainWrite"
  BY <1>1, <1>2 DEF Go, End, Idle, Cmd
<1>3. \E r : Step(c, r) /\ r.at # "mainWrite"
  BY <1>2 DEF PinRead, PinCreate, PinWrite, Accept
<1> QED BY <1>1, <1>3, OneMain

LEMMA MainReadMain ==
  ASSUME MainInv, NEW c \in Cli, MainRead(c)
  PROVE  BackedUp'
<1> DEFINE r == [cmd[c] EXCEPT !.main = main, !.at = IF main.text = 0 THEN "mainWrite" ELSE "backup"]
<1>1. cmd[c] \in Cmd
  BY DEF MainInv, TypeInv, TypeOK
<1>2. r.at = "mainWrite" => r.main.text = 0
  BY <1>1 DEF Cmd
<1>3. Idle.at # "mainWrite"
  BY DEF Idle
<1>4. Step(c, r) \/ Step(c, Idle)
  BY DEF MainRead, Done, End
<1> HIDE DEF r
<1> QED BY <1>2, <1>3, <1>4, OneMain DEF MainRead, files

LEMMA BackupMain ==
  ASSUME MainInv, NEW c \in Cli, Backup(c) \/ BackupWrite(c)
  PROVE  BackedUp'
<1>1. cmd[c] \in Cmd
  BY DEF MainInv, TypeInv, TypeOK
<1>2. CASE Backup(c)
  <2>1. CASE backup = None
    <3>1. Go(c, "backupWrite")
      BY <1>2, <2>1 DEF Backup
    <3>2. \E r : Step(c, r) /\ r.at # "mainWrite"
      BY <1>1, <3>1 DEF Go, Cmd
    <3> QED BY <1>2, <3>2, OneMain DEF Backup, files
  <2>2. CASE backup # None
    BY <1>2, <2>2 DEF Backup, files, BackedUp
  <2> QED BY <2>1, <2>2
<1>3. CASE End(c) /\ UNCHANGED backup
  <2>1. Idle.at # "mainWrite"
    BY DEF Idle
  <2> QED BY <1>3, <2>1, OneMain DEF End
<1>4. CASE backup' = cmd[c].main.text
  <2>1. cmd[c].main.text \in Nat
    BY <1>1, SshAssumption DEF Cmd, Main
  <2>2. backup' # None
    BY <1>4, <2>1, SshAssumption
  <2> QED BY <2>2 DEF BackedUp
<1> QED BY <1>2, <1>3, <1>4 DEF BackupWrite

LEMMA StartRemoveMain ==
  ASSUME MainInv, NEW c \in Cli, NEW w \in Workspace, StartRemove(c, w)
  PROVE  BackedUp'
<1> DEFINE n == [Idle EXCEPT !.kind = "remove", !.of = w, !.at = "read"]
           o(b) == [cmd[b] EXCEPT !.undone = @ \/ (cmd[b].of = w /\ cmd[b].kind = "config")]
<1>1. cmd' = [b \in Cli |-> IF b = c THEN n ELSE o(b)]
  BY DEF StartRemove
<1>2. n.at = "read"
  BY DEF Idle
<1>3. \A b \in Cli : o(b).at = cmd[b].at /\ o(b).main = cmd[b].main
  BY DEF MainInv, TypeInv, TypeOK, Cmd
<1> HIDE DEF n, o
<1>4. \A b \in Cli : cmd'[b].at = "mainWrite" => cmd[b].at = "mainWrite" /\ cmd'[b].main = cmd[b].main
  BY <1>1, <1>2, <1>3
<1> QED BY <1>4, QuietMain DEF StartRemove, files

LEMMA MainStep == MainInv /\ [Next]_vars => MainInv'
<1> SUFFICES ASSUME MainInv, [Next]_vars PROVE BackedUp'
  BY TypeStep DEF MainInv
<1>1. ASSUME NEW c \in Cli,
             \/ \E w \in Workspace : Start(c, "config", w) \/ Start(c, "connect", w)
             \/ Fetch(c) \/ Verify(c) \/ Read(c) \/ Write(c) \/ Kill(c)
      PROVE  BackedUp'
  <2>1. backup' = backup
    BY <1>1 DEF Start, Fetch, Verify, Read, Write, Kill, files
  <2> QED BY <1>1, <2>1, Elsewhere, OneMain, SMTT(30) DEF MainInv
<1>2. ASSUME NEW c \in Cli, MainWrite(c) PROVE BackedUp'
  <2>1. Idle.at # "mainWrite"
    BY DEF Idle
  <2> QED BY <1>2, <2>1, OneMain DEF MainWrite, Done, End
<1>3. CASE UNCHANGED vars \/ Edit \/ \E w \in Workspace : RemovePin(w) \/ \E k \in Key : Rotate(w, k)
  BY <1>3, QuietMain DEF vars, files, Edit, RemovePin, Rotate
<1> QED BY <1>1, <1>2, <1>3, PinMain, MainReadMain, BackupMain, StartRemoveMain DEF Next, CommandStep

\* However often ssh-config runs, fails or is killed: it changes nothing of the
\* user's text in ~/.ssh/config that it has read, and adds the Include to a text
\* only once a backup is there (ensureInclude).
THEOREM UserTextKeptCorrect == Spec => UserTextKept
<1>1. ASSUME MainInv, [Next]_vars
      PROVE  [\/ edits' # edits
              \/ "main" \in lost'
              \/ /\ main'.text = main.text
                 /\ main.text # 0 /\ main'.include /\ ~main.include => backup # None]_vars
  <2>1. CASE main' = main
    BY <2>1
  <2>2. ASSUME NEW c \in Cli, MainWrite(c), main' # main, "main" \notin lost'
        PROVE  main'.text = main.text /\ (main.text # 0 => backup # None)
    <3>1. main' = [cmd[c].main EXCEPT !.include = TRUE]
      BY <2>2 DEF MainWrite
    <3>2. lost' = IF main.text = cmd[c].main.text THEN lost ELSE lost \cup {"main"}
      BY <2>2 DEF MainWrite
    <3>3. main.text = cmd[c].main.text
      BY <2>2, <3>2
    <3>4. cmd[c] \in Cmd /\ cmd[c].at = "mainWrite"
      BY <1>1, <2>2 DEF MainWrite, At, MainInv, TypeInv, TypeOK
    <3>5. main'.text = cmd[c].main.text
      BY <3>1, <3>4 DEF Cmd, Main
    <3>6. main.text # 0 => backup # None
      BY <1>1, <3>3, <3>4 DEF MainInv, BackedUp, At
    <3> QED BY <3>3, <3>5, <3>6
  <2>3. ASSUME Edit PROVE edits' # edits
    <3>1. edits \in Nat /\ edits' = edits + 1
      BY <1>1, <2>3, SshAssumption, SMTT(30) DEF Edit, MainInv, TypeInv, TypeOK
    <3> QED BY <3>1
  <2>4. main' = main \/ Edit \/ \E c \in Cli : MainWrite(c)
    BY <1>1 DEF Next, CommandStep, vars, files, Start, StartRemove, Fetch, PinRead, PinCreate, PinWrite,
       Verify, Read, Write, MainRead, Backup, BackupWrite, Kill, RemovePin, Rotate
  <2> QED BY <2>1, <2>2, <2>3, <2>4
<1>2. Init => MainInv
  BY TypeStart DEF Init, MainInv, BackedUp, At, Idle
<1> QED BY <1>1, <1>2, MainStep, PTL DEF Spec, UserTextKept

-----------------------------------------------------------------------------
(* What was configured.                                                    *)

Removing(w) == \E b \in Cli : cmd[b].kind = "remove" /\ cmd[b].of = w

AtMain(r) == r.at \in {"mainRead", "backup", "backupWrite", "mainWrite"}

\* The files that ssh-config has behind it.
Passed(r) ==
  IF AtMain(r) THEN File
  ELSE {f \in File : (r.file = "known" /\ f = "config") \/ (r.file = "alias" /\ f # "alias")}

\* An ssh-config whose success is going to count.
Vouches(r) == r.kind = "config" /\ ~r.undone

\* What ssh-config has written is there, already while it runs, and no --remove
\* of its workspace is under way.
StayInv ==
  /\ \A w \in configured : /\ main.include /\ ~Removing(w)
                           /\ \A f \in File \ lost : managed[f][w] # None
  /\ \A c \in Cli :
       /\ AtMain(cmd[c]) => cmd[c].kind = "config"
       /\ Vouches(cmd[c]) => /\ cmd[c].of \in Workspace /\ ~Removing(cmd[c].of)
                             /\ \A f \in Passed(cmd[c]) \ lost : managed[f][cmd[c].of] # None

\* The step of one command, and what is to be looked at.
LEMMA OneStays ==
  ASSUME TypeInv, StayInv, NEW c \in Cli, NEW r, Step(c, r),
         lost \subseteq lost', main.include => main'.include,
         \A v \in Workspace : \A f \in File \ lost' :
           managed[f][v] # None /\ ~Removing(v) => managed'[f][v] # None,
         r.kind = "remove" => cmd[c].kind = "remove" /\ cmd[c].of = r.of,
         AtMain(r) => r.kind = "config",
         Vouches(r) => /\ r.of \in Workspace /\ ~Removing(r.of)
                       /\ \A f \in Passed(r) \ lost' : managed'[f][r.of] # None,
         \A v \in configured' : v \in configured \/
           (main'.include /\ ~Removing(v) /\ \A f \in File \ lost' : managed'[f][v] # None)
  PROVE  StayInv'
<1>1. cmd'[c] = r /\ \A b \in Cli \ {c} : cmd'[b] = cmd[b]
  BY Others
<1>2. \A v : Removing(v)' => Removing(v)
  BY <1>1 DEF Removing
<1>3. ASSUME NEW b \in Cli
      PROVE  /\ AtMain(cmd'[b]) => cmd'[b].kind = "config"
             /\ Vouches(cmd'[b]) =>
                  /\ cmd'[b].of \in Workspace /\ ~Removing(cmd'[b].of)
                  /\ \A f \in Passed(cmd'[b]) \ lost' : managed'[f][cmd'[b].of] # None
  <2>1. CASE b = c
    BY <1>1, <2>1
  <2>2. CASE b # c
    <3>1. \A f \in Passed(cmd[b]) : f \in File
      BY DEF Passed
    <3> QED BY <1>1, <2>2, <3>1 DEF StayInv
  <2> QED BY <2>1, <2>2
<1>4. ASSUME NEW v \in configured'
      PROVE  /\ main'.include /\ ~Removing(v)
             /\ \A f \in File \ lost' : managed'[f][v] # None
  <2>1. CASE v \in configured
    <3>1. v \in Workspace
      BY <2>1 DEF TypeInv, TypeOK
    <3> QED BY <2>1, <3>1 DEF StayInv
  <2> QED BY <2>1
<1>5. \A b \in Cli : /\ AtMain(cmd[b])' = AtMain(cmd'[b]) /\ Vouches(cmd[b])' = Vouches(cmd'[b])
                     /\ Passed(cmd[b])' = Passed(cmd'[b])
  BY DEF AtMain, Vouches, Passed
<1> QED BY <1>2, <1>3, <1>4, <1>5 DEF StayInv

\* A step that leaves the files and what was reported alone.
LEMMA QuietStays ==
  ASSUME TypeInv, StayInv, NEW c \in Cli, NEW r, Step(c, r),
         UNCHANGED <<managed, main, lost, configured>>,
         r.kind = cmd[c].kind, r.of = cmd[c].of, r.undone = cmd[c].undone,
         AtMain(r) => AtMain(cmd[c]),
         AtMain(cmd[c]) \/ r.file = cmd[c].file
  PROVE  StayInv'
<1>1. Passed(r) \subseteq Passed(cmd[c])
  BY DEF Passed
<1>2. AtMain(r) => r.kind = "config"
  BY DEF StayInv
<1>3. Vouches(r) => /\ r.of \in Workspace /\ ~Removing(r.of)
                    /\ \A f \in Passed(r) \ lost' : managed'[f][r.of] # None
  BY <1>1 DEF StayInv, Vouches
<1> QED BY <1>2, <1>3, OneStays

LEMMA EndStays ==
  ASSUME TypeInv, StayInv, NEW c \in Cli, End(c), UNCHANGED <<managed, main, lost, configured>>
  PROVE  StayInv'
<1>1. Step(c, Idle) /\ Idle.kind = "connect" /\ Idle.at = "idle"
  BY DEF End, Idle
<1>2. ~Vouches(Idle) /\ ~AtMain(Idle) /\ Idle.kind # "remove"
  BY <1>1 DEF Vouches, AtMain
<1> QED BY <1>1, <1>2, OneStays

LEMMA GoStays ==
  ASSUME TypeInv, StayInv, NEW c \in Cli, NEW l, Go(c, l),
         l \in {"backup", "backupWrite", "mainWrite"} => AtMain(cmd[c]), l # "mainRead",
         UNCHANGED <<managed, main, lost, configured>>
  PROVE  StayInv'
<1> DEFINE r == [cmd[c] EXCEPT !.at = l]
<1>1. Step(c, r)
  BY DEF Go
<1>2. r.kind = cmd[c].kind /\ r.of = cmd[c].of /\ r.undone = cmd[c].undone /\ r.file = cmd[c].file /\ r.at = l
  BY DEF TypeInv, TypeOK, Cmd
<1>3. AtMain(r) => AtMain(cmd[c])
  BY <1>2 DEF AtMain
<1> HIDE DEF r
<1> QED BY <1>1, <1>2, <1>3, QuietStays

LEMMA StartStays ==
  ASSUME TypeInv, StayInv, NEW c \in Cli, NEW w \in Workspace, NEW k \in {"config", "connect"},
         Start(c, k, w)
  PROVE  StayInv'
<1> DEFINE u == \E b \in Cli : cmd[b].kind = "remove" /\ cmd[b].of = w
           r == [Idle EXCEPT !.kind = k, !.of = w, !.at = "fetch", !.undone = u]
<1>1. Step(c, r) /\ UNCHANGED <<managed, main, lost, configured>>
  BY DEF Start, files, told
<1>2. u = Removing(w)
  BY DEF Removing
<1> HIDE DEF u
<1>3. r.kind = k /\ r.of = w /\ r.at = "fetch" /\ r.undone = u /\ r.file = "config"
  BY DEF Idle
<1> HIDE DEF r
<1>4. ~AtMain(r) /\ Passed(r) = {}
  BY <1>3 DEF AtMain, Passed
<1>5. Vouches(r) => ~Removing(w)
  BY <1>2, <1>3 DEF Vouches
<1> QED BY <1>1, <1>3, <1>4, <1>5, OneStays

\* A --remove takes what was reported back, and what is being configured.
LEMMA StartRemoveStays ==
  ASSUME TypeInv, StayInv, NEW c \in Cli, NEW w \in Workspace, StartRemove(c, w)
  PROVE  StayInv'
<1> DEFINE n == [Idle EXCEPT !.kind = "remove", !.of = w, !.at = "read"]
           u(b) == cmd[b].undone \/ (cmd[b].of = w /\ cmd[b].kind = "config")
           o(b) == [cmd[b] EXCEPT !.undone = u(b)]
<1>1. cmd' = [b \in Cli |-> IF b = c THEN n ELSE o(b)]
  BY DEF StartRemove
<1>2. n.at = "read" /\ n.kind = "remove" /\ n.of = w
  BY DEF Idle
<1>3. \A b \in Cli : /\ o(b).kind = cmd[b].kind /\ o(b).of = cmd[b].of /\ o(b).at = cmd[b].at
                     /\ o(b).file = cmd[b].file /\ o(b).undone = u(b)
  BY DEF TypeInv, TypeOK, Cmd
<1> HIDE DEF n, o
<1>4. \A v : v # w /\ Removing(v)' => Removing(v)
  BY <1>1, <1>2, <1>3 DEF Removing
<1>5. UNCHANGED <<managed, main, lost>> /\ configured' = configured \ {w}
  BY DEF StartRemove, files
<1>6. ASSUME NEW b \in Cli
      PROVE  /\ AtMain(cmd'[b]) => cmd'[b].kind = "config"
             /\ Vouches(cmd'[b]) =>
                  /\ cmd'[b].of \in Workspace /\ \A v : v = cmd'[b].of => ~Removing(v)'
                  /\ \A f \in Passed(cmd'[b]) \ lost' : managed'[f][cmd'[b].of] # None
  <2>1. CASE b = c
    BY <1>1, <1>2, <2>1 DEF AtMain, Vouches
  <2>2. CASE b # c
    <3>1. cmd'[b] = o(b)
      BY <1>1, <2>2
    <3>2. AtMain(o(b)) = AtMain(cmd[b]) /\ Passed(o(b)) = Passed(cmd[b])
      BY <1>3 DEF AtMain, Passed
    <3>3. Vouches(o(b)) => Vouches(cmd[b]) /\ cmd[b].of # w
      BY <1>3 DEF Vouches
    <3>4. AtMain(o(b)) => o(b).kind = "config"
      BY <1>3, <3>2 DEF StayInv
    <3>5. ASSUME Vouches(o(b))
          PROVE  /\ cmd[b].of \in Workspace /\ \A v : v = cmd[b].of => ~Removing(v)'
                 /\ \A f \in Passed(o(b)) \ lost' : managed'[f][cmd[b].of] # None
      BY <1>4, <1>5, <3>2, <3>3, <3>5 DEF StayInv
    <3> QED BY <1>3, <3>1, <3>4, <3>5
  <2> QED BY <2>1, <2>2
<1>7. \A b \in Cli : /\ AtMain(cmd[b])' = AtMain(cmd'[b]) /\ Vouches(cmd[b])' = Vouches(cmd'[b])
                     /\ Passed(cmd[b])' = Passed(cmd'[b])
                     /\ (\A v : v = cmd'[b].of => ~Removing(v)') => ~Removing(cmd[b].of)'
  BY DEF AtMain, Vouches, Passed, Removing
<1>8. \A v \in configured' : /\ main'.include /\ ~Removing(v)'
                             /\ \A f \in File \ lost' : managed'[f][v] # None
  BY <1>4, <1>5 DEF StayInv
<1> QED BY <1>6, <1>7, <1>8 DEF StayInv

\* The steps before the files, and the readings.
LEMMA EarlyStays ==
  ASSUME TypeInv, StayInv, NEW c \in Cli,
         Fetch(c) \/ PinRead(c) \/ PinCreate(c) \/ PinWrite(c) \/ Verify(c) \/ Read(c)
  PROVE  StayInv'
<1>1. UNCHANGED <<managed, main, lost, configured>> /\ cmd[c] \in Cmd /\ ~AtMain(cmd[c])
  BY DEF TypeInv, TypeOK, Fetch, PinRead, PinCreate, PinWrite, Verify, Read, At, AtMain, files, told
<1>2. ASSUME NEW l, l \in {"pinRead", "pinCreate", "pinWrite", "verify", "write"}, Go(c, l)
      PROVE  StayInv'
  BY <1>1, <1>2, GoStays
<1>3. ASSUME NEW r, Step(c, r), r.kind = cmd[c].kind, r.of = cmd[c].of, r.undone = cmd[c].undone,
             r.at \in {"pinRead", "read", "write"}, r.file = cmd[c].file
      PROVE  StayInv'
  BY <1>1, <1>3, QuietStays DEF AtMain
<1>4. End(c) => StayInv'
  BY <1>1, EndStays
<1>5. CASE Fetch(c)
  <2> DEFINE r == [cmd[c] EXCEPT !.at = "pinRead", !.key = offered[cmd[c].of]]
  <2>1. /\ r.kind = cmd[c].kind /\ r.of = cmd[c].of /\ r.undone = cmd[c].undone
        /\ r.at = "pinRead" /\ r.file = cmd[c].file
    BY <1>1 DEF Cmd
  <2>2. Step(c, r) \/ End(c)
    BY <1>5 DEF Fetch
  <2> HIDE DEF r
  <2> QED BY <1>3, <1>4, <2>1, <2>2
<1>6. CASE PinRead(c) \/ PinCreate(c) \/ PinWrite(c)
  BY <1>2, <1>4, <1>6 DEF PinRead, PinCreate, PinWrite, Accept
<1>7. CASE Verify(c)
  <2> DEFINE r == [cmd[c] EXCEPT !.at = "read", !.known = managed["known"]]
  <2>1. /\ r.kind = cmd[c].kind /\ r.of = cmd[c].of /\ r.undone = cmd[c].undone
        /\ r.at = "read" /\ r.file = cmd[c].file
    BY <1>1 DEF Cmd
  <2>2. Step(c, r) \/ End(c)
    BY <1>7 DEF Verify
  <2> HIDE DEF r
  <2> QED BY <1>3, <1>4, <2>1, <2>2
<1>8. CASE Read(c)
  <2> DEFINE r == [cmd[c] EXCEPT !.at = "write", !.doc = managed[cmd[c].file]]
  <2>1. /\ r.kind = cmd[c].kind /\ r.of = cmd[c].of /\ r.undone = cmd[c].undone
        /\ r.at = "write" /\ r.file = cmd[c].file
    BY <1>1 DEF Cmd
  <2>2. Step(c, r) \/ Go(c, "write") \/ End(c)
    BY <1>8 DEF Read
  <2> HIDE DEF r
  <2> QED BY <1>2, <1>3, <1>4, <2>1, <2>2
<1> QED BY <1>5, <1>6, <1>7, <1>8

\* After a file is written, it is behind the command.
LEMMA NextFilePassed ==
  ASSUME TypeInv, NEW c \in Cli, At(c, "write"), NextFile(c)
  PROVE  \E r : /\ Step(c, r)
                /\ \/ r.kind = cmd[c].kind /\ r.of = cmd[c].of /\ r.undone = cmd[c].undone
                      /\ (AtMain(r) => r.kind # "remove")
                      /\ Passed(r) = Passed(cmd[c]) \cup {cmd[c].file}
                   \/ r = Idle
<1> DEFINE r == cmd[c]
<1>1. r \in Cmd /\ r.at = "write" /\ ~AtMain(r)
  BY DEF TypeInv, TypeOK, At, AtMain
<1>2. CASE r.file = "config"
  <2> DEFINE n == [[r EXCEPT !.doc = Nothing] EXCEPT !.file = "known",
                              !.at = IF r.kind = "remove" THEN "read" ELSE "write"]
  <2>1. Step(c, n)
    BY <1>1, <1>2 DEF NextFile, Cmd
  <2>2. /\ n.kind = r.kind /\ n.of = r.of /\ n.undone = r.undone /\ n.file = "known"
        /\ n.at \in {"read", "write"}
    BY <1>1 DEF Cmd
  <2> HIDE DEF n
  <2>3. ~AtMain(n) /\ Passed(n) = {"config"} /\ Passed(r) = {}
    BY <1>1, <1>2, <2>2 DEF AtMain, Passed, File
  <2> QED BY <1>2, <2>1, <2>2, <2>3
<1>3. CASE r.file = "known"
  <2> DEFINE n == [[r EXCEPT !.doc = Nothing] EXCEPT !.file = "alias", !.at = "read",
                              !.known = Nothing, !.key = None]
  <2>1. Step(c, n)
    BY <1>1, <1>3 DEF NextFile, Cmd
  <2>2. n.kind = r.kind /\ n.of = r.of /\ n.undone = r.undone /\ n.file = "alias" /\ n.at = "read"
    BY <1>1 DEF Cmd
  <2> HIDE DEF n
  <2>3. ~AtMain(n) /\ Passed(n) = {"config", "known"} /\ Passed(r) = {"config"}
    BY <1>1, <1>3, <2>2 DEF AtMain, Passed, File
  <2> QED BY <1>3, <2>1, <2>2, <2>3
<1>4. CASE r.file = "alias" /\ r.kind = "remove"
  BY <1>1, <1>4 DEF NextFile, Cmd, End
<1>5. CASE r.file = "alias" /\ r.kind # "remove"
  <2> DEFINE n == [[r EXCEPT !.doc = Nothing] EXCEPT !.at = "mainRead", !.file = "config"]
  <2>1. Step(c, n)
    BY <1>1, <1>5 DEF NextFile, Cmd
  <2>2. n.kind = r.kind /\ n.of = r.of /\ n.undone = r.undone /\ n.at = "mainRead"
    BY <1>1 DEF Cmd
  <2> HIDE DEF n
  <2>3. AtMain(n) /\ Passed(n) = File /\ Passed(r) = {"config", "known"}
    BY <1>1, <1>5, <2>2 DEF AtMain, Passed, File
  <2> QED BY <1>5, <2>1, <2>2, <2>3 DEF File
<1> QED BY <1>1, <1>2, <1>3, <1>4, <1>5 DEF Cmd, File

\* A file is written on its last content, or it is lost.
LEMMA WriteStays ==
  ASSUME TypeInv, StayInv, NEW c \in Cli, Write(c)
  PROVE  StayInv'
<1> DEFINE r == cmd[c]
           d == [Base(r) EXCEPT ![r.of] = Entry(r)]
<1>1. r.at = "write" /\ Sound(r) /\ r \in Cmd /\ r.of \in Workspace /\ r.file \in File
      /\ r.kind \in {"config", "remove"} /\ UNCHANGED <<main, configured>>
  BY WriteIs DEF Sound
<1>2. CASE End(c) /\ UNCHANGED <<managed, lost>>
  BY <1>1, <1>2, EndStays
<1>3. ASSUME managed' = [managed EXCEPT ![r.file] = d],
             lost' = IF Base(r) = managed[r.file] THEN lost ELSE lost \cup {r.file},
             NextFile(c)
      PROVE  StayInv'
  <2>1. Base(r) \in Content /\ managed \in [File -> Content] /\ lost \subseteq lost'
    BY <1>1, <1>3 DEF Base, Cmd, TypeInv, TypeOK
  <2>2. r.kind = "config" => Entry(r) # None
    BY <1>1, SshAssumption DEF Entry, Sound, File
  <2>3. r.kind = "remove" => Removing(r.of)
    BY DEF Removing
  <2>4. \A v \in Workspace : d[v] = IF v = r.of THEN Entry(r) ELSE Base(r)[v]
    BY <1>1, <2>1 DEF Content
  <2>5. \A f \in File : managed'[f] = IF f = r.file THEN d ELSE managed[f]
    BY <1>1, <1>3, <2>1
  <2> HIDE DEF d
  <2>6. ASSUME NEW v \in Workspace, NEW f \in File \ lost', managed[f][v] # None, ~Removing(v)
        PROVE  managed'[f][v] # None
    <3>1. CASE f = r.file
      <4>1. Base(r) = managed[f]
        BY <1>3, <2>6, <3>1
      <4>2. v = r.of => r.kind = "config"
        BY <1>1, <2>3, <2>6
      <4> QED BY <2>2, <2>4, <2>5, <2>6, <3>1, <4>1, <4>2
    <3>2. CASE f # r.file
      BY <2>5, <2>6, <3>2
    <3> QED BY <3>1, <3>2
  <2>7. r.kind = "config" => managed'[r.file][r.of] # None
    BY <1>1, <2>2, <2>4, <2>5
  <2>8. PICK n : /\ Step(c, n)
                 /\ \/ n.kind = r.kind /\ n.of = r.of /\ n.undone = r.undone
                       /\ (AtMain(n) => n.kind # "remove")
                       /\ Passed(n) = Passed(r) \cup {r.file}
                    \/ n = Idle
    BY <1>1, <1>3, NextFilePassed DEF At
  <2>9. CASE n = Idle
    <3>1. n.kind = "connect" /\ n.at = "idle"
      BY <2>9 DEF Idle
    <3>2. ~Vouches(n) /\ ~AtMain(n) /\ n.kind # "remove"
      BY <3>1 DEF Vouches, AtMain
    <3> QED BY <1>1, <2>1, <2>6, <2>8, <3>2, OneStays
  <2>10. CASE n # Idle
    <3>1. /\ n.kind = r.kind /\ n.of = r.of /\ n.undone = r.undone
          /\ AtMain(n) => n.kind # "remove"
          /\ Passed(n) = Passed(r) \cup {r.file}
      BY <2>8, <2>10
    <3>2. Vouches(n) => Vouches(r) /\ r.kind = "config"
      BY <3>1 DEF Vouches
    <3>3. \A f \in Passed(r) : f \in File
      BY DEF Passed
    <3>4. Vouches(n) => /\ n.of \in Workspace /\ ~Removing(n.of)
                        /\ \A f \in Passed(n) \ lost' : managed'[f][n.of] # None
      BY <1>1, <2>1, <2>6, <2>7, <3>1, <3>2, <3>3 DEF StayInv
    <3>5. AtMain(n) => n.kind = "config"
      BY <1>1, <3>1
    <3> QED BY <1>1, <2>1, <2>6, <2>8, <3>1, <3>4, <3>5, OneStays
  <2> QED BY <2>9, <2>10
<1>4. \/ End(c) /\ UNCHANGED <<managed, lost>>
      \/ /\ managed' = [managed EXCEPT ![r.file] = d]
         /\ lost' = IF Base(r) = managed[r.file] THEN lost ELSE lost \cup {r.file}
         /\ NextFile(c)
  BY WriteIs
<1> QED BY <1>2, <1>3, <1>4

\* What is reported as done has everything behind it.
LEMMA DoneStays ==
  ASSUME TypeInv, StayInv, NEW c \in Cli, AtMain(cmd[c]), Done(c), main'.include, managed' = managed,
         lost \subseteq lost'
  PROVE  StayInv'
<1>1. Step(c, Idle) /\ Idle.kind = "connect" /\ Idle.at = "idle"
  BY DEF Done, End, Idle
<1>2. ~Vouches(Idle) /\ ~AtMain(Idle) /\ Idle.kind # "remove"
  BY <1>1 DEF Vouches, AtMain
<1>3. \A v \in configured' : v \in configured \/
        (main'.include /\ ~Removing(v) /\ \A f \in File \ lost' : managed'[f][v] # None)
  <2>1. CASE cmd[c].undone
    BY <2>1 DEF Done
  <2>2. CASE ~cmd[c].undone
    <3>1. Vouches(cmd[c]) /\ Passed(cmd[c]) = File
      BY <2>2 DEF StayInv, Vouches, Passed
    <3> QED BY <2>2, <3>1 DEF Done, StayInv
  <2> QED BY <2>1, <2>2
<1> QED BY <1>1, <1>2, <1>3, OneStays

LEMMA MainStays ==
  ASSUME TypeInv, StayInv, NEW c \in Cli, MainRead(c) \/ Backup(c) \/ BackupWrite(c) \/ MainWrite(c)
  PROVE  StayInv'
<1>1. cmd[c] \in Cmd /\ AtMain(cmd[c]) /\ managed' = managed
  BY DEF TypeInv, TypeOK, MainRead, Backup, BackupWrite, MainWrite, At, AtMain, files
<1>2. CASE MainRead(c)
  <2> DEFINE r == [cmd[c] EXCEPT !.main = main, !.at = IF main.text = 0 THEN "mainWrite" ELSE "backup"]
  <2>1. r.kind = cmd[c].kind /\ r.of = cmd[c].of /\ r.undone = cmd[c].undone
    BY <1>1 DEF Cmd
  <2>2. UNCHANGED <<managed, main, lost>>
    BY <1>2 DEF MainRead, files
  <2>3. \/ main.include /\ Done(c)
        \/ UNCHANGED configured /\ (Step(c, r) \/ End(c))
    BY <1>2 DEF MainRead
  <2> HIDE DEF r
  <2>4. CASE main.include /\ Done(c)
    BY <1>1, <2>2, <2>4, DoneStays
  <2>5. CASE UNCHANGED configured /\ (Step(c, r) \/ End(c))
    BY <1>1, <2>1, <2>2, <2>5, QuietStays, EndStays
  <2> QED BY <2>3, <2>4, <2>5
<1>3. CASE Backup(c) \/ BackupWrite(c)
  <2>1. Go(c, "backupWrite") \/ Go(c, "mainWrite") \/ End(c)
    BY <1>3 DEF Backup, BackupWrite
  <2>2. UNCHANGED <<managed, main, lost, configured>>
    BY <1>3 DEF Backup, BackupWrite, files, told
  <2> QED BY <1>1, <2>1, <2>2, GoStays, EndStays
<1>4. CASE MainWrite(c)
  <2>1. CASE End(c) /\ UNCHANGED <<main, lost, configured>>
    BY <1>1, <2>1, EndStays
  <2>2. CASE /\ main' = [cmd[c].main EXCEPT !.include = TRUE]
             /\ lost' = IF main.text = cmd[c].main.text THEN lost ELSE lost \cup {"main"}
             /\ Done(c)
    <3>1. main'.include /\ lost \subseteq lost'
      BY <1>1, <2>2 DEF Cmd, Main
    <3> QED BY <1>1, <2>2, <3>1, DoneStays
  <2> QED BY <1>4, <2>1, <2>2 DEF MainWrite
<1> QED BY <1>2, <1>3, <1>4

\* Files, commands and reports as they were.
LEMMA OutsideStays ==
  ASSUME TypeInv, StayInv,
         \/ \E w \in Workspace : RemovePin(w) \/ \E k \in Key : Rotate(w, k)
         \/ Edit \/ UNCHANGED vars
  PROVE  StayInv'
<1>1. UNCHANGED <<managed, lost, configured, cmd>> /\ main'.include = main.include
  BY DEF RemovePin, Rotate, Edit, vars, files, told, TypeInv, TypeOK, Main
<1> QED BY <1>1 DEF StayInv, Removing, AtMain, Vouches, Passed

\* What ssh-config reported as done stays complete through any number of other
\* commands that succeed, are refused, fail or are killed, until a --remove begins
\* or a file is written on an older or a failed reading (sshConfig, atomicPrivate,
\* ensureInclude).
THEOREM ConfiguredStaysCorrect == Spec => []ConfiguredStays
<1>1. TypeInv /\ StayInv /\ [Next]_vars => StayInv'
  <2> SUFFICES ASSUME TypeInv, StayInv, [Next]_vars PROVE StayInv'
    OBVIOUS
  <2>1. ASSUME NEW c \in Cli, Kill(c) PROVE StayInv'
    BY <2>1, EndStays DEF Kill, End, files, told
  <2> QED BY <2>1, StartStays, StartRemoveStays, EarlyStays, WriteStays, MainStays, OutsideStays
          DEF Next, CommandStep
<1>2. Init => StayInv
  BY DEF Init, StayInv, Idle, AtMain, Vouches
<1>3. StayInv => ConfiguredStays
  BY DEF StayInv, ConfiguredStays
<1> QED BY <1>1, <1>2, <1>3, TypeStart, TypeStep, PTL DEF Spec

=============================================================================
