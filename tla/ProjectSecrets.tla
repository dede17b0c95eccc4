---------------------------- MODULE ProjectSecrets ---------------------------
(***************************************************************************)
(* The named values a project gives its agents                             *)
(* (pnevma-commands/src/commands/secrets.rs).  A row of secret_refs says   *)
(* where a value is kept: in the Keychain, under the scope's service and   *)
(* the name, or in the block of .env.local that the program manages.  A    *)
(* command writes the value first and the row after it, and removes what   *)
(* the row pointed to before; nothing undoes what was done when a later    *)
(* step fails.                                                             *)
(*                                                                         *)
(* .env.local is rewritten as a whole: read, changed, written.  The pane   *)
(* that gives the commands offers none while one is under way; two at once *)
(* lose values.                                                            *)
(***************************************************************************)
EXTENDS Naturals, FiniteSets

CONSTANTS
    Commander,          \* commands that may be under way at once
    Id,             \* ids of rows
    Name,
    Given,          \* the values users give
    Blank,          \* the value an exported template gives to every name
    Absent,         \* no row, no value
    MayExport,      \* whether a template is exported
    MaxMishaps      \* bound: steps that fail

VARIABLES
    refs,           \* the rows
    keychain,       \* value per scope and name
    envFile,        \* value per name in the managed block
    command,        \* of each actor: what it is doing
    mishaps,        \* steps that failed
    doomed          \* rows whose deletion has begun (history)

secretVars == <<refs, keychain, envFile, command, mishaps, doomed>>

\* Where a row may say its value is.  A global value is never in the file.
Place == {[scope |-> "project", backend |-> "keychain"],
          [scope |-> "project", backend |-> "env_file"],
          [scope |-> "global", backend |-> "keychain"]}
\* What a row says (SecretRefRow).
Row == [name : Name, place : Place]

ASSUME SecretsAssumption ==
    /\ Blank \notin Given /\ Absent \notin Given \cup {Blank} \cup Row
    /\ MayExport \in BOOLEAN /\ MaxMishaps \in Nat

Rest == [does |-> "nothing"]
Doing(c, what) == command[c].does = what
GoesOn(c, what) == command' = [command EXCEPT ![c].does = what]
Stops(c) == command' = [command EXCEPT ![c] = Rest]

\* The value a row leads to (resolve_secret_value).
ValueAt(place, n, chain, file) ==
    IF place.backend = "env_file" THEN file[n] ELSE chain[<<place.scope, n>>]
ValueOf(i) == ValueAt(refs[i].place, refs[i].name, keychain, envFile)

SameStorage(a, b) == a.place = b.place /\ a.name = b.name

\* Another row of the scope has the name already.
NameTaken(n, scope, i) ==
    \E j \in Id : j # i /\ refs[j] # Absent /\ refs[j].name = n /\ refs[j].place.scope = scope

-----------------------------------------------------------------------------
(* upsert_project_secret.  Without a new value, the old one is read.       *)
\* slip: a name may be used twice in a scope
MayUse(n, place, i) == TRUE

MayTake(n, place, i) == ~NameTaken(n, place.scope, i)

Saves(c, i, n, place, v) ==
    /\ MayTake(n, place, i) /\ v \in Given
    /\ command' = [command EXCEPT ![c] =
           [does |-> "store", id |-> i, old |-> refs[i], value |-> v,
            new |-> [name |-> n, place |-> place]]]

BeginSave(c) ==
    /\ Doing(c, "nothing")
    /\ \E i \in Id, n \in Name, place \in Place :
           \/ \E v \in Given : Saves(c, i, n, place, v)
           \/ refs[i] # Absent /\ Saves(c, i, n, place, ValueOf(i))
    /\ UNCHANGED <<refs, keychain, envFile, mishaps, doomed>>

\* import_project_secrets replacing what is there: the names and ids it
\* found at its start, one save after the other.
BeginImport(c) ==
    /\ Doing(c, "nothing")
    /\ \E i \in Id, n \in Name, place \in Place, v \in Given :
           /\ IF \E j \in Id : refs[j] # Absent /\ refs[j].name = n /\ refs[j].place.scope = place.scope
              THEN refs[i] # Absent /\ refs[i].name = n /\ refs[i].place.scope = place.scope
              ELSE refs[i] = Absent
           /\ Saves(c, i, n, place, v)
    /\ UNCHANGED <<refs, keychain, envFile, mishaps, doomed>>

\* store_keychain_secret, or the reading half of upsert_env_file_secret.
StoreValue(c) ==
    /\ Doing(c, "store")
    /\ LET do == command[c] new == do.new IN
       IF new.place.backend = "keychain"
       THEN /\ keychain' = [keychain EXCEPT ![<<new.place.scope, new.name>>] = do.value]
            /\ GoesOn(c, "row") /\ UNCHANGED envFile
       ELSE /\ command' = [command EXCEPT ![c] = [does |-> "write", then |-> "row",
                   file |-> [envFile EXCEPT ![new.name] = do.value],
                   id |-> do.id, old |-> do.old, value |-> do.value, new |-> new]]
            /\ UNCHANGED <<keychain, envFile>>
    /\ UNCHANGED <<refs, mishaps, doomed>>

\* write_env_file
WriteFile(c) ==
    /\ Doing(c, "write")
    /\ envFile' = command[c].file
    /\ IF command[c].then = "done" THEN Stops(c) ELSE GoesOn(c, command[c].then)
    /\ UNCHANGED <<refs, keychain, mishaps, doomed>>

\* update_secret_ref changes a row that is still there; upsert_secret_ref
\* changes the row that has the name by now, if it is one of the project.
Inserted(do) ==
    IF do.new.place.scope = "project" /\ NameTaken(do.new.name, "project", do.id)
    THEN [j \in Id |-> IF refs[j] # Absent /\ refs[j].name = do.new.name
                          /\ refs[j].place.scope = "project"
                       THEN do.new ELSE refs[j]]
    ELSE [refs EXCEPT ![do.id] = do.new]

StoreRef(c) ==
    /\ Doing(c, "row")
    /\ LET do == command[c] IN
       /\ refs' = IF do.old = Absent THEN Inserted(do)
                  ELSE IF refs[do.id] = Absent THEN refs
                  ELSE [refs EXCEPT ![do.id] = do.new]
       /\ doomed' = doomed \ {do.id}
    /\ GoesOn(c, "drop")
    /\ UNCHANGED <<keychain, envFile, mishaps>>

\* delete_secret_storage of what the row said before, if it was elsewhere.
\* slip: what the row said before is removed in any case
Drops(do) == do.old # Absent

\* slip: a renamed row keeps what it had under its old name
MovedElsewhere(do) == do.old # Absent /\ do.old.place # do.new.place

Moved(do) == do.old # Absent /\ ~SameStorage(do.old, do.new)

RemoveValue(c, place, n, next) ==
    IF place.backend = "keychain"
    THEN /\ keychain' = [keychain EXCEPT ![<<place.scope, n>>] = Absent]
         /\ IF next = "done" THEN Stops(c) ELSE GoesOn(c, next)
    ELSE /\ command' = [command EXCEPT ![c] = [does |-> "write", then |-> next,
                file |-> [envFile EXCEPT ![n] = Absent], id |-> command[c].id]]
         /\ UNCHANGED keychain

DropOld(c) ==
    /\ Doing(c, "drop")
    /\ IF Moved(command[c])
       THEN RemoveValue(c, command[c].old.place, command[c].old.name, "done")
       ELSE Stops(c) /\ UNCHANGED keychain
    /\ UNCHANGED <<refs, envFile, mishaps, doomed>>

-----------------------------------------------------------------------------
(* delete_project_secret: the value first, then the row.                   *)
BeginDelete(c) ==
    /\ Doing(c, "nothing")
    /\ \E i \in Id :
           /\ refs[i] # Absent
           /\ command' = [command EXCEPT ![c] = [does |-> "erase", id |-> i, old |-> refs[i]]]
           /\ doomed' = doomed \cup {i}
    /\ UNCHANGED <<refs, keychain, envFile, mishaps>>

Erase(c) ==
    /\ Doing(c, "erase")
    /\ RemoveValue(c, command[c].old.place, command[c].old.name, "unlist")
    /\ UNCHANGED <<refs, envFile, mishaps, doomed>>

DropRow(c) ==
    /\ Doing(c, "unlist")
    /\ refs' = [refs EXCEPT ![command[c].id] = Absent]
    /\ doomed' = doomed \ {command[c].id}
    /\ Stops(c)
    /\ UNCHANGED <<keychain, envFile, mishaps>>

(* export_project_secret_template writes the block anew, with every name   *)
(* the project knows and no values.                                        *)
BeginExport(c) ==
    /\ MayExport /\ Doing(c, "nothing")
    /\ command' = [command EXCEPT ![c] = [does |-> "write", then |-> "done", id |-> Absent,
           file |-> [n \in Name |-> IF \E i \in Id : refs[i] # Absent /\ refs[i].name = n
                                    THEN Blank ELSE Absent]]]
    /\ UNCHANGED <<refs, keychain, envFile, mishaps, doomed>>

-----------------------------------------------------------------------------
(* Any step of a command may fail or be the last one before the process    *)
(* ends; the failure of the last step of a save is only logged.            *)
Fail(c) ==
    /\ ~Doing(c, "nothing") /\ mishaps < MaxMishaps
    /\ mishaps' = mishaps + 1
    /\ Stops(c)
    /\ UNCHANGED <<refs, keychain, envFile, doomed>>

SecretsInit ==
    /\ refs = [i \in Id |-> Absent]
    /\ keychain = [sn \in {"project", "global"} \X Name |-> Absent]
    /\ envFile = [n \in Name |-> Absent]
    /\ command = [c \in Commander |-> Rest]
    /\ mishaps = 0 /\ doomed = {}

SecretsNext ==
    \E c \in Commander :
        \/ BeginSave(c) \/ BeginImport(c) \/ StoreValue(c) \/ WriteFile(c)
        \/ StoreRef(c) \/ DropOld(c) \/ BeginDelete(c) \/ Erase(c) \/ DropRow(c)
        \/ BeginExport(c) \/ Fail(c)

SecretsSpec == SecretsInit /\ [][SecretsNext]_secretVars

-----------------------------------------------------------------------------
\* Every configured name has a value for the agents: whatever failed and
\* whichever steps it failed between, a row leads to a value the user gave,
\* unless its deletion was begun.
\* (upsert_project_secret, delete_project_secret, delete_secret_storage)
NamesHaveValues ==
    \A i \in Id : refs[i] # Absent /\ i \notin doomed => ValueOf(i) \in Given

\* When no step failed and nothing is under way, what is stored is what the
\* rows point to, each at a place of its own: nothing is left behind by a
\* row that was renamed, moved or deleted.
\* (same_secret_storage, write_managed_entries)
NothingLeftStored ==
    mishaps = 0 /\ (\A c \in Commander : Doing(c, "nothing"))
        => /\ \A n \in Name : envFile[n] # Absent =>
                  \E i \in Id : refs[i] = [name |-> n, place |-> [scope |-> "project", backend |-> "env_file"]]
           /\ \A s \in {"project", "global"}, n \in Name : keychain[<<s, n>>] # Absent =>
                  \E i \in Id : refs[i] = [name |-> n, place |-> [scope |-> s, backend |-> "keychain"]]

\* A command for one name leaves what runs get for the others as it was.
\* (parse_managed_entries, write_managed_entries, dedupe_secret_refs)
OthersKeepTheirs ==
    [][\A i \in Id :
          refs[i] # Absent /\ refs'[i] # Absent /\ ValueOf(i)' # ValueOf(i)
              => \E c \in Commander : ~Doing(c, "nothing") /\ command[c].id = i]_secretVars

ValuesKept == [](NamesHaveValues /\ NothingLeftStored) /\ OthersKeepTheirs
=============================================================================
