---------------------------- MODULE IdentityFiles ---------------------------
(***************************************************************************)
(* The identity commands of the command line (apps/hide-cli/src/main.rs):  *)
(* each reads the log file, appends an entry to what it read, and replaces *)
(* the file through a staged, synced and renamed copy.  Nothing locks the  *)
(* file, a command may end between any two steps, and power may be lost.   *)
(* An entry is the device it names and the device that signed it;          *)
(* IdentityLog models how entries are linked and verified.  The command    *)
(* line has no command for the recovery entry.                             *)
(***************************************************************************)
EXTENDS Naturals, Sequences, FiniteSets

CONSTANTS
  Devices,
  Processes,           \* commands that may run at the same time
  Founders,            \* devices someone creates an identity with
  MAX_LOG_FILE,        \* entries in the largest file read_public_file reads
  MAX_COMMANDS         \* bound: commands started

ASSUME FilesAssumption ==
  Founders \subseteq Devices /\ MAX_LOG_FILE \in Nat \ {0} /\ MAX_COMMANDS \in Nat

VARIABLES
  file,                \* the log file; <<>> when there is none
  durable,             \* the contents it may have after power is lost
  command,             \* what each process is in the middle of
  started,             \* commands started so far
  acked,               \* the longest log a command reported as written
  clobbered            \* a command replaced a log other than the one it read

fileVars == <<file, durable, command, started, acked, clobbered>>

Entry == [kind : {"create", "enrol", "revoke"}, device : Devices, by : Devices]
Idle == [step |-> "idle"]
Torn == <<[kind |-> "torn"]>>

(* The devices whose latest entry is not a revocation.                     *)
membership_of(log) ==
  {d \in Devices :
     \E i \in DOMAIN log :
       /\ log[i].device = d
       /\ log[i].kind # "revoke"
       /\ \A j \in DOMAIN log : j > i => log[j].device # d}

(* What apply() of the identity log asks of the next entry.                *)
applies(log, e) ==
  LET members == membership_of(log) IN
  IF log = <<>> THEN e.kind = "create" /\ e.device = e.by
  ELSE /\ e.by \in members
       /\ \/ e.kind = "enrol" /\ e.device \notin members
          \/ e.kind = "revoke" /\ e.device \in members /\ members # {e.device}

(* IdentityLog::verify: replaying the entries one by one succeeds.         *)
verify(log) ==
  /\ log # <<>>
  /\ \A i \in DOMAIN log : log[i] \in Entry /\ applies(SubSeq(log, 1, i - 1), log[i])

-----------------------------------------------------------------------------
FilesInit ==
  /\ file = <<>>
  /\ durable = {<<>>}
  /\ command = [p \in Processes |-> Idle]
  /\ started = 0
  /\ acked = <<>>
  /\ clobbered = FALSE

Go(p, record) == command' = [command EXCEPT ![p] = record]

Start(p, record) ==
  /\ started < MAX_COMMANDS
  /\ started' = started + 1
  /\ Go(p, record)

(* read_public_file: a file over the limit is refused.                     *)
readable(log) == Len(log) <= MAX_LOG_FILE

(* identity_create reads no log, whatever the path holds.                  *)
IdentityCreate(p) ==
  /\ command[p] = Idle
  /\ \E d \in Founders :
       Start(p, [step |-> "write", read |-> <<>>,
                 entry |-> [kind |-> "create", device |-> d, by |-> d]])
  /\ UNCHANGED <<file, durable, acked, clobbered>>

(* load_identity_log: read and verify.  The passphrase of the author's key *)
(* is asked for after this, before the log is written.                     *)
LoadIdentityLog(p) ==
  /\ command[p] = Idle
  /\ readable(file) /\ verify(file)
  /\ \E kind \in {"enrol", "revoke"}, d, author \in Devices :
       LET e == [kind |-> kind, device |-> d, by |-> author] IN
       /\ applies(file, e)
       /\ Start(p, [step |-> "write", read |-> file, entry |-> e])
  /\ UNCHANGED <<file, durable, acked, clobbered>>

(* Mutant of Persist: the staged file is renamed before it is synced.      *)
Persist_unsynced(p) ==
  /\ command[p].step = "write"
  /\ LET log == Append(command[p].read, command[p].entry) IN
     /\ file' = log
     /\ durable' = durable \cup {log, Torn}
     /\ Go(p, [step |-> "sync", wrote |-> log])
  /\ clobbered' = (clobbered \/ file # command[p].read)
  /\ UNCHANGED <<started, acked>>

(* The entry is appended to the log that was read; write_public_file syncs *)
(* the staged copy and renames it over whatever is there now.              *)
Persist(p) ==
  /\ command[p].step = "write"
  /\ LET log == Append(command[p].read, command[p].entry) IN
     /\ file' = log
     /\ durable' = durable \cup {log}
     /\ Go(p, [step |-> "sync", wrote |-> log])
  /\ clobbered' = (clobbered \/ file # command[p].read)
  /\ UNCHANGED <<started, acked>>

(* Mutant of SyncDirectory: the rename is reported without being synced.   *)
SyncDirectory_skipped(p) ==
  /\ command[p].step = "sync"
  /\ acked' = IF Len(command[p].wrote) > Len(acked) THEN command[p].wrote ELSE acked
  /\ Go(p, Idle)
  /\ UNCHANGED <<file, durable, started, clobbered>>

(* sync_directory makes the rename last, and the command reports.          *)
SyncDirectory(p) ==
  /\ command[p].step = "sync"
  /\ durable' = {file}
  /\ acked' = IF Len(command[p].wrote) > Len(acked) THEN command[p].wrote ELSE acked
  /\ Go(p, Idle)
  /\ UNCHANGED <<file, started, clobbered>>

(* The command ends early; its staged copy goes with it.                   *)
EndEarly(p) ==
  /\ command[p] # Idle
  /\ Go(p, Idle)
  /\ UNCHANGED <<file, durable, started, acked, clobbered>>

LosePower ==
  /\ file' \in durable
  /\ durable' = {file'}
  /\ command' = [p \in Processes |-> Idle]
  /\ UNCHANGED <<started, acked, clobbered>>

Command(p) ==
  \/ IdentityCreate(p)
  \/ LoadIdentityLog(p)
  \/ Persist(p)
  \/ SyncDirectory(p)
  \/ EndEarly(p)

-----------------------------------------------------------------------------
Logs == UNION {[1 .. n -> Entry] : n \in 0 .. MAX_LOG_FILE + 1}

FilesTypeOK ==
  /\ file \in Logs \cup {Torn}
  /\ durable \subseteq Logs \cup {Torn}
  /\ started \in 0 .. MAX_COMMANDS
  /\ acked \in Logs
  /\ clobbered \in BOOLEAN
  /\ \A p \in Processes :
       \/ command[p] = Idle
       \/ /\ command[p].step = "write"
          /\ command[p].read \in Logs /\ command[p].entry \in Entry
       \/ command[p].step = "sync" /\ command[p].wrote \in Logs

(* Whatever order commands run in and wherever they or the power end, the  *)
(* file is missing or a log that verifies, with at least one device left   *)
(* that can sign the next entry.                                           *)
FileVerifies == file # <<>> => verify(file) /\ membership_of(file) # {}

(* An entry a command reported as written stays in the log: no later       *)
(* command, early end or power loss takes it out, as long as every command *)
(* replaced the very log it had read.  A reported revocation is then only  *)
(* undone by a later entry.                                                *)
AckedIsKept ==
  ~clobbered => Len(acked) <= Len(file) /\ acked = SubSeq(file, 1, Len(acked))
=============================================================================
