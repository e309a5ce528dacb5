------------------------------ MODULE SshFiles ------------------------------
(***************************************************************************)
(* The files below ~/.ssh that the CLI writes: one host key pin for each   *)
(* workspace, the managed config, known_hosts and aliases.json of one      *)
(* host, and the Include in the user's own ~/.ssh/config.                  *)
(* internal/app/ssh_config.go and internal/app/ssh_transport.go.           *)
(*                                                                         *)
(* A pin is created exclusively and written after that; every other file   *)
(* is read, changed and renamed into place.  There is no lock.  lost names *)
(* the files where something else than the last content was changed: an    *)
(* older reading, or nothing because the reading failed.                   *)
(* A managed file that is missing has no entry.                            *)
(***************************************************************************)
EXTENDS Naturals

CONSTANTS
  Cli,           \* terminals, each with one command at a time
  Workspace,
  Key,           \* ed25519 host keys
  MaxRuns,       \* how many commands there are
  MaxRotations,  \* how often a guest gets another host key
  MaxRemovals,   \* how often the user removes a pin
  MaxEdits,      \* how often the user saves ~/.ssh/config
  Set,           \* a stanza or an alias: their text is not told apart
  Unwritten,     \* a pin that was created and not written
  None

ASSUME SshAssumption ==
  /\ {MaxRuns, MaxRotations, MaxRemovals, MaxEdits} \subseteq Nat
  /\ None \notin Key \cup Workspace \cup Nat \cup {Set, Unwritten} /\ Unwritten \notin Key /\ Set \notin Key

VARIABLES
  offered,     \* the host key the Control Plane reports of each workspace
  pin,         \* pins/<workspace>
  managed,     \* config, known_hosts and aliases.json: an entry for each workspace
  main,        \* ~/.ssh/config: the user's text, by its version, and the Include
  backup,      \* config.daemons-run.bak
  lost,        \* history: files that were not written on their last content
  trusted,     \* history: the keys commands accepted since the pin was removed
  configured,  \* history: workspaces ssh-config reported as done
  runs, rotations, removals, edits,
  cmd

files  == <<pin, managed, main, backup>>
told   == <<lost, trusted, configured>>
counts == <<runs, rotations, removals, edits>>
vars   == <<offered, files, told, counts, cmd>>

File    == {"config", "known", "alias"}
Content == [Workspace -> Key \cup {Set, None}]
Nothing == [w \in Workspace |-> None]
Main    == [text : 0..MaxEdits, include : BOOLEAN]    \* 0: missing or empty

Cmd == [at     : {"idle", "fetch", "pinRead", "pinCreate", "pinWrite", "verify",
                  "read", "write", "mainRead", "backup", "backupWrite", "mainWrite"},
        kind   : {"config", "remove", "connect"},
        of     : Workspace \cup {None},
        key    : Key \cup {None},
        file   : File,
        doc    : Content,                \* the file as it was read
        known  : Content,                \* known_hosts as ssh-config read it first
        main   : Main,
        undone : BOOLEAN]                \* history: a --remove ran meanwhile

Idle == [at |-> "idle", kind |-> "connect", of |-> None, key |-> None, file |-> "config",
         doc |-> Nothing, known |-> Nothing, main |-> [text |-> 0, include |-> FALSE],
         undone |-> FALSE]

TypeOK ==
  /\ offered \in [Workspace -> Key]
  /\ pin \in [Workspace -> Key \cup {Unwritten, None}]
  /\ managed \in [File -> Content]
  /\ \A w \in Workspace : /\ managed["known"][w] # Set
                          /\ managed["config"][w] \notin Key /\ managed["alias"][w] \notin Key
  /\ main \in Main /\ backup \in 1..MaxEdits \cup {None}
  /\ lost \subseteq File \cup {"main"}
  /\ trusted \in [Workspace -> SUBSET Key]
  /\ configured \subseteq Workspace
  /\ runs \in 0..MaxRuns /\ rotations \in 0..MaxRotations /\ removals \in 0..MaxRemovals /\ edits \in 0..MaxEdits
  /\ cmd \in [Cli -> Cmd]
  /\ \A c \in Cli : cmd[c].at # "idle" => cmd[c].of # None

Init ==
  /\ offered \in [Workspace -> Key]
  /\ pin = Nothing
  /\ managed = [f \in File |-> Nothing]
  /\ main = [text |-> 0, include |-> FALSE]
  /\ backup = None
  /\ lost = {}
  /\ trusted = [w \in Workspace |-> {}]
  /\ configured = {}
  /\ runs = 0 /\ rotations = 0 /\ removals = 0 /\ edits = 0
  /\ cmd = [c \in Cli |-> Idle]

-----------------------------------------------------------------------------

At(c, l)   == cmd[c].at = l
Step(c, r) == cmd' = [cmd EXCEPT ![c] = r]
Go(c, l)   == Step(c, [cmd[c] EXCEPT !.at = l])
End(c)     == Step(c, Idle)

\* ssh-config, ssh-config --remove, and the commands that only need the key:
\* ssh, sync and ssh-known-hosts.
Start(c, k, w) ==
  /\ runs < MaxRuns /\ At(c, "idle")
  /\ Step(c, [Idle EXCEPT !.kind = k, !.of = w, !.at = "fetch",
                          !.undone = \E b \in Cli : cmd[b].kind = "remove" /\ cmd[b].of = w])
  /\ runs' = runs + 1
  /\ UNCHANGED <<offered, files, told, rotations, removals, edits>>

StartRemove(c, w) ==
  /\ runs < MaxRuns /\ At(c, "idle")
  /\ cmd' = [b \in Cli |->
               IF b = c THEN [Idle EXCEPT !.kind = "remove", !.of = w, !.at = "read"]
               ELSE [cmd[b] EXCEPT !.undone = @ \/ (cmd[b].of = w /\ cmd[b].kind = "config")]]
  /\ configured' = configured \ {w}
  /\ runs' = runs + 1
  /\ UNCHANGED <<offered, files, lost, trusted, rotations, removals, edits>>

\* The key the Control Plane reports; SSH may be disabled, not ready or unsafe.
Fetch(c) ==
  /\ At(c, "fetch")
  /\ \/ Step(c, [cmd[c] EXCEPT !.at = "pinRead", !.key = offered[cmd[c].of]])
     \/ End(c)
  /\ UNCHANGED <<offered, files, told, counts>>

-----------------------------------------------------------------------------
(* pinnedHostKey.                                                          *)

\* The command goes on with its key.
Accept(c) ==
  /\ IF cmd[c].kind = "config" THEN Go(c, "verify") ELSE End(c)
  /\ trusted' = [trusted EXCEPT ![cmd[c].of] = @ \cup {cmd[c].key}]

PinRead(c) ==
  LET w == cmd[c].of
  IN  /\ At(c, "pinRead")
      /\ \/ pin[w] = None /\ Go(c, "pinCreate") /\ UNCHANGED trusted
         \/ pin[w] = cmd[c].key /\ Accept(c)
         \/ pin[w] \notin {None, cmd[c].key} /\ End(c) /\ UNCHANGED trusted
      /\ UNCHANGED <<offered, files, lost, configured, counts>>

\* Mutant: without O_EXCL.
MPinCreateShared(c) ==
  /\ At(c, "pinCreate")
  /\ pin' = [pin EXCEPT ![cmd[c].of] = Unwritten]
  /\ Go(c, "pinWrite")
  /\ UNCHANGED <<offered, managed, main, backup, told, counts>>

\* O_EXCL: whoever is second reads the first one's pin.
PinCreate(c) ==
  LET w == cmd[c].of
  IN  /\ At(c, "pinCreate")
      /\ \/ pin[w] = None /\ pin' = [pin EXCEPT ![w] = Unwritten] /\ Go(c, "pinWrite")
         \/ pin[w] # None /\ UNCHANGED pin /\ Go(c, "pinRead")
         \/ UNCHANGED pin /\ End(c)
      /\ UNCHANGED <<offered, managed, main, backup, told, counts>>

\* A failed write leaves the pin as it is; a failed close ends the command with
\* the pin written.
PinWrite(c) ==
  LET written == [pin EXCEPT ![cmd[c].of] = cmd[c].key]
  IN  /\ At(c, "pinWrite")
      /\ \/ pin' = written /\ Accept(c)
         \/ pin' \in {pin, written} /\ End(c) /\ UNCHANGED trusted
      /\ UNCHANGED <<offered, managed, main, backup, lost, configured, counts>>

-----------------------------------------------------------------------------
(* The managed files: config, known_hosts, aliases.json, in this order.    *)

\* verifyKnownHost, which refuses another key.  This reading of known_hosts is
\* also what is written later.
Verify(c) ==
  LET old == managed["known"]
  IN  /\ At(c, "verify")
      /\ \/ /\ old[cmd[c].of] \in {None, cmd[c].key}
            /\ Step(c, [cmd[c] EXCEPT !.at = "read", !.known = old])
         \/ End(c)
      /\ UNCHANGED <<offered, files, told, counts>>

\* A file that cannot be read or decoded: ssh-config ignores the error and starts
\* from nothing, --remove ends.
Read(c) ==
  /\ At(c, "read")
  /\ \/ Step(c, [cmd[c] EXCEPT !.at = "write", !.doc = managed[cmd[c].file]])
     \/ cmd[c].kind = "config" /\ Go(c, "write")
     \/ cmd[c].kind = "remove" /\ End(c)
  /\ UNCHANGED <<offered, files, told, counts>>

\* The step after a file was written: ssh-config has read known_hosts before.
NextFile(c) ==
  LET r == [cmd[c] EXCEPT !.doc = Nothing]
  IN  CASE r.file = "config" -> Step(c, [r EXCEPT !.file = "known",
                                                  !.at = IF r.kind = "remove" THEN "read" ELSE "write"])
        [] r.file = "known"  -> Step(c, [r EXCEPT !.file = "alias", !.at = "read",
                                                   !.known = Nothing, !.key = None])
        [] r.file = "alias"  -> IF r.kind = "remove" THEN End(c)
                                ELSE Step(c, [r EXCEPT !.at = "mainRead", !.file = "config"])

\* Mutant: the stanza is taken to reach to the end of the file.
MWriteToEnd(c) ==
  LET w == cmd[c].of  f == cmd[c].file
  IN  /\ At(c, "write")
      /\ managed' = [managed EXCEPT ![f] = [Nothing EXCEPT ![w] =
                       IF cmd[c].kind = "remove" THEN None
                       ELSE IF f = "known" THEN cmd[c].key ELSE Set]]
      /\ NextFile(c)
      /\ UNCHANGED <<offered, pin, main, backup, told, counts>>

\* replaceManagedStanza, the known_hosts line or the alias, and atomicPrivate.
Write(c) ==
  LET w    == cmd[c].of
      f    == cmd[c].file
      base == IF cmd[c].kind = "config" /\ f = "known" THEN cmd[c].known ELSE cmd[c].doc
      new  == CASE cmd[c].kind = "remove" -> None
                [] cmd[c].kind # "remove" /\ f = "known" -> cmd[c].key
                [] OTHER -> Set
  IN  /\ At(c, "write")
      /\ \/ /\ managed' = [managed EXCEPT ![f] = [base EXCEPT ![w] = new]]
            /\ lost' = IF base = managed[f] THEN lost ELSE lost \cup {f}
            /\ NextFile(c)
         \/ End(c) /\ UNCHANGED <<managed, lost>>
      /\ UNCHANGED <<offered, pin, main, backup, trusted, configured, counts>>

-----------------------------------------------------------------------------
(* ensureInclude.                                                          *)

\* Printing the alias ends ssh-config.
Done(c) ==
  /\ End(c)
  /\ configured' = IF cmd[c].undone THEN configured ELSE configured \cup {cmd[c].of}

\* Mutant: no backup.
MMainReadNoBackup(c) ==
  /\ At(c, "mainRead")
  /\ IF main.include THEN Done(c)
     ELSE Step(c, [cmd[c] EXCEPT !.main = main, !.at = "mainWrite"]) /\ UNCHANGED configured
  /\ UNCHANGED <<offered, files, lost, trusted, counts>>

\* Mutant: an empty file is backed up, too.
MMainReadEmpty(c) ==
  /\ At(c, "mainRead")
  /\ IF main.include THEN Done(c)
     ELSE Step(c, [cmd[c] EXCEPT !.main = main, !.at = "backup"]) /\ UNCHANGED configured
  /\ UNCHANGED <<offered, files, lost, trusted, counts>>

MainRead(c) ==
  /\ At(c, "mainRead")
  /\ \/ main.include /\ Done(c)
     \/ /\ ~main.include
        /\ Step(c, [cmd[c] EXCEPT !.main = main, !.at = IF main.text = 0 THEN "mainWrite" ELSE "backup"])
        /\ UNCHANGED configured
     \/ End(c) /\ UNCHANGED configured
  /\ UNCHANGED <<offered, files, lost, trusted, counts>>

\* Once, before the first change: a look whether there is one, then the write of
\* what was read.
Backup(c) ==
  /\ At(c, "backup")
  /\ Go(c, IF backup = None THEN "backupWrite" ELSE "mainWrite")
  /\ UNCHANGED <<offered, files, told, counts>>

BackupWrite(c) ==
  /\ At(c, "backupWrite")
  /\ \/ backup' = cmd[c].main.text /\ Go(c, "mainWrite")
     \/ UNCHANGED backup /\ End(c)
  /\ UNCHANGED <<offered, pin, managed, main, told, counts>>

MainWrite(c) ==
  /\ At(c, "mainWrite")
  /\ \/ /\ main' = [cmd[c].main EXCEPT !.include = TRUE]
        /\ lost' = IF main.text = cmd[c].main.text THEN lost ELSE lost \cup {"main"}
        /\ Done(c)
     \/ End(c) /\ UNCHANGED <<main, lost, configured>>
  /\ UNCHANGED <<offered, pin, managed, backup, trusted, counts>>

-----------------------------------------------------------------------------
(* The environment.                                                        *)

Kill(c) ==
  /\ cmd[c].at # "idle"
  /\ Step(c, Idle)
  /\ UNCHANGED <<offered, files, told, counts>>

\* The guest is rebuilt.
Rotate(w, k) ==
  /\ rotations < MaxRotations /\ k # offered[w]
  /\ offered' = [offered EXCEPT ![w] = k]
  /\ rotations' = rotations + 1
  /\ UNCHANGED <<files, told, runs, removals, edits, cmd>>

\* The user verified the replacement and removes a pin that is refused, while
\* no command is writing it.
RemovePin(w) ==
  /\ removals < MaxRemovals /\ pin[w] \notin {None, offered[w]}
  /\ \A c \in Cli : ~(At(c, "pinWrite") /\ cmd[c].of = w)
  /\ pin' = [pin EXCEPT ![w] = None]
  /\ trusted' = [trusted EXCEPT ![w] = {}]
  /\ removals' = removals + 1
  /\ UNCHANGED <<offered, managed, main, backup, lost, configured, runs, rotations, edits, cmd>>

\* The user saves ~/.ssh/config, with the Include if it was there.
Edit ==
  /\ edits < MaxEdits
  /\ edits' = edits + 1
  /\ main' = [main EXCEPT !.text = edits']
  /\ UNCHANGED <<offered, pin, managed, backup, told, runs, rotations, removals, cmd>>

-----------------------------------------------------------------------------

CommandStep(c) ==
  \/ Fetch(c)
  \/ PinRead(c) \/ PinCreate(c) \/ PinWrite(c)
  \/ Verify(c) \/ Read(c) \/ Write(c)
  \/ MainRead(c) \/ Backup(c) \/ BackupWrite(c) \/ MainWrite(c)

Next ==
  \/ \E c \in Cli :
       \/ CommandStep(c) \/ Kill(c)
       \/ \E w \in Workspace : Start(c, "config", w) \/ Start(c, "connect", w) \/ StartRemove(c, w)
  \/ \E w \in Workspace : RemovePin(w) \/ \E k \in Key : Rotate(w, k)
  \/ Edit

Spec == Init /\ [][Next]_vars

-----------------------------------------------------------------------------

\* Until the user removes a pin, all commands on all terminals accept one and
\* the same key of the workspace, whatever the Control Plane reports meanwhile,
\* and known_hosts has no other one (pinnedHostKey, verifyKnownHost).
OneKeyTrusted ==
  \A w \in Workspace :
    /\ \A j, k \in trusted[w] : j = k
    /\ removals = 0 => managed["known"][w] \in trusted[w] \cup {None}

\* What ssh-config reported as done stays complete - stanza, known host, alias
\* and Include - through the commands for other workspaces and through later ones
\* for the same that are refused, fail or are killed, until a --remove begins;
\* except in a file that was written on an older or a failed reading.
ConfiguredStays ==
  \A w \in configured :
    /\ \A f \in File \ lost : managed[f][w] # None
    /\ main.include

\* The user's text in ~/.ssh/config is not changed, and gets the Include only
\* once a backup is there; except when it was saved after it was read
\* (ensureInclude).
UserTextKept ==
  [][\/ edits' # edits
     \/ "main" \in lost'
     \/ /\ main'.text = main.text
        /\ main.text # 0 /\ main'.include /\ ~main.include => backup # None]_vars

=============================================================================
