---------------------------- MODULE LocalSecrets ----------------------------
(***************************************************************************)
(* load_or_create_local_secrets (src/crates/platform/src/config.rs): every *)
(* command without configured secrets reads them from one file under the   *)
(* integration directory, and the first one generates it.  Nothing locks   *)
(* the file: commands run side by side, may be killed anywhere, and a full *)
(* disk may cut the one small write short, which then fails.               *)
(***************************************************************************)
CONSTANTS
  Command,   \* commands that load the secrets, each once
  Absent     \* no file, no secrets

\* A file's content is named by the command that generated it and by how much
\* of it was written: "short" lost the tail of the second secret only, which
\* the parser accepts from 32 characters on.
Contents == [by : Command, part : {"empty", "cut", "short", "full"}]

ASSUME AbsentAssumption == Absent \notin Contents

VARIABLES
  file,      \* content of the secrets file
  load_pc,   \* step of each command
  value,     \* secrets each command returned
  harmful    \* history: a removal hit a file that was good or being written

secretsVars == <<file, load_pc, value, harmful>>

-----------------------------------------------------------------------------
Live == {"read", "create", "write", "reread"}

SecretsTypeOK ==
  /\ file \in Contents \cup {Absent}
  /\ load_pc \in [Command -> Live \cup {"ok", "invalid", "failed", "killed"}]
  /\ value \in [Command -> Contents \cup {Absent}]
  /\ harmful \in BOOLEAN

\* parse_local_secrets
Parses(contents) == contents # Absent /\ contents.part \in {"short", "full"}

SecretsInit ==
  /\ file = Absent
  /\ load_pc = [c \in Command |-> "read"]
  /\ value = [c \in Command |-> Absent]
  /\ harmful = FALSE

-----------------------------------------------------------------------------
Move(c, step) == load_pc' = [load_pc EXCEPT ![c] = step]

\* Mutant: built-in secrets, which nobody generated, replace the file's.
ReturnBuiltIn(c, contents) ==
  /\ Move(c, "ok")
  /\ value' = [value EXCEPT ![c] = [contents EXCEPT !.by = Absent]]

Return(c, contents) ==
  /\ Move(c, "ok")
  /\ value' = [value EXCEPT ![c] = contents]

\* Reading and parsing an existing file, or failing to read it.
Parse(c) ==
  \/ Parses(file) /\ Return(c, file)
  \/ file # Absent /\ ~Parses(file) /\ Move(c, "invalid") /\ UNCHANGED value
  \/ Move(c, "failed") /\ UNCHANGED value

Read(c) ==
  /\ load_pc[c] = "read"
  /\ \/ file = Absent /\ Move(c, "create") /\ UNCHANGED value
     \/ Parse(c)
  /\ UNCHANGED <<file, harmful>>

\* Mutant: the file is opened without create_new, which truncates it.
CreateOrTruncate(c) ==
  /\ load_pc[c] = "create"
  /\ \/ file' = [by |-> c, part |-> "empty"] /\ Move(c, "write")
     \/ Move(c, "failed") /\ UNCHANGED file
  /\ UNCHANGED <<value, harmful>>

\* create_dir_all, and create_private_file with create_new.
Create(c) ==
  /\ load_pc[c] = "create"
  /\ \/ /\ file = Absent
        /\ file' = [by |-> c, part |-> "empty"]
        /\ Move(c, "write")
     \/ file # Absent /\ Move(c, "reread") /\ UNCHANGED file
     \/ Move(c, "failed") /\ UNCHANGED file
  /\ UNCHANGED <<value, harmful>>

\* A write goes to the file the command created, also when it is gone by now.
Store(c, part) ==
  file' = IF file # Absent /\ file.by = c THEN [file EXCEPT !.part = part]
                                          ELSE file

Write(c) ==
  /\ load_pc[c] = "write"
  /\ \/ Store(c, "full") /\ Return(c, [by |-> c, part |-> "full"])
     \/ /\ \E part \in {"empty", "cut", "short"} : Store(c, part)
        /\ Move(c, "failed") /\ UNCHANGED value
  /\ UNCHANGED harmful

\* Mutant: who lost the race keeps the secrets it generated.
KeepGenerated(c) ==
  /\ load_pc[c] = "reread"
  /\ Return(c, [by |-> c, part |-> "full"])
  /\ UNCHANGED <<file, harmful>>

Reread(c) ==
  /\ load_pc[c] = "reread"
  /\ Parse(c)
  /\ UNCHANGED <<file, harmful>>

KillLoad(c) ==
  /\ load_pc[c] \in Live
  /\ Move(c, "killed")
  /\ UNCHANGED <<file, value, harmful>>

\* The operator does what the error says: "remove it and rerun the command".
Remove ==
  /\ file # Absent
  /\ \E c \in Command : load_pc[c] = "invalid"
  /\ file' = Absent
  /\ harmful' = (harmful \/ Parses(file) \/ load_pc[file.by] = "write")
  /\ UNCHANGED <<load_pc, value>>

Load(c) == Read(c) \/ Create(c) \/ Write(c) \/ Reread(c) \/ KillLoad(c)

SecretsNext == Remove \/ \E c \in Command : Load(c)

SecretsSpec == SecretsInit /\ [][SecretsNext]_secretsVars

-----------------------------------------------------------------------------
\* Properties.

\* As long as the operator removed only files that were broken for good, all
\* commands that succeed use the same secrets, and the file holds them for every
\* later command: no two generate their own, none returns half-written ones that
\* change afterwards.
OneSecret ==
  ~harmful => \A c \in Command : load_pc[c] = "ok" => value[c] = file

\* Once a command has been handed secrets, only the operator can change the file.
StoredSecretStays ==
  [][\A c \in Command : load_pc[c] = "ok" /\ value[c] = file
       => file' \in {file, Absent}]_secretsVars

\* README.md:394: the secrets are "stable" and "generated once".
\* A command that reads the file between its creation and its writing tells the
\* operator to remove what is, a moment later, everybody's valid file.
GeneratedOnce ==
  \A c, d \in Command : load_pc[c] = "ok" /\ load_pc[d] = "ok" => value[c] = value[d]

=============================================================================
