------------------------------- MODULE Backups -------------------------------
(***************************************************************************)
(* core/backup.py.  A backup copies the database beside the archives, then *)
(* a thread writes the archive, then the oldest archives go.  The names of *)
(* the archive and of the copy hold the second in which it began.          *)
(***************************************************************************)
EXTENDS Integers, Sequences, FiniteSets, Coroutines

CONSTANTS
    Labels,              \* of the backups made by hand
    KeepLast,            \* backups.keep_last
    Interval,            \* backups.interval_hours, in seconds
    MaxSecond            \* a bound on the clock

ASSUME BackupAssumption == KeepLast \in Nat \ {0} /\ Interval \in Nat /\ MaxSecond \in Nat

VARIABLES
    now,                 \* the clock, in seconds
    archives,            \* the archives by name: [db, copied, whole, by]
    age,                 \* their names, the one written to last first
    copies,              \* the seconds of the copies there are
    begun,               \* how many backups began in each second
    reported             \* names of the archives returned to a caller

backupVars == <<now, archives, age, copies, begun, reported>>

Seconds == 0 .. MaxSecond
Names == Seconds \X (Labels \cup {"auto"})

BackupTypeOK ==
    /\ now \in Seconds
    /\ DOMAIN archives \subseteq Names
    /\ \A n \in DOMAIN archives :
          archives[n] \in [db : BOOLEAN, copied : BOOLEAN, whole : BOOLEAN, by : SUBSET Callers]
    /\ {age[i] : i \in DOMAIN age} = DOMAIN archives /\ Len(age) = Cardinality(DOMAIN archives)
    /\ copies \subseteq Seconds
    /\ begun \in [Seconds -> Nat]
    /\ reported \subseteq Names

BackupInit ==
    /\ now = 0
    /\ archives = <<>> /\ age = <<>>
    /\ copies = {} /\ reported = {}
    /\ begun = [s \in Seconds |-> 0]

(* age but for one name; none is there twice. *)
Without(name) ==
    IF name \notin DOMAIN archives THEN age
    ELSE LET at == CHOOSE i \in DOMAIN age : age[i] = name
         IN  [i \in 1 .. Len(age) - 1 |-> age[IF i < at THEN i ELSE i + 1]]

With(name, archive) ==
    [n \in DOMAIN archives \cup {name} |-> IF n = name THEN archive ELSE archives[n]]

Tick ==
    /\ now < MaxSecond
    /\ now' = now + 1
    /\ UNCHANGED <<archives, age, copies, begun, reported, pc, job>>

-----------------------------------------------------------------------------
(* Mutated form: the copy has a fixed name. *)
CopyNameFixed(second) == 0

(* .snapshot-<second>.db, without the label. *)
CopyName(second) == second

(* create, as far as VACUUM INTO. *)
BeginBackup(c, label) ==
    /\ begun' = [begun EXCEPT ![now] = @ + 1]
    /\ Goto(c, At("copying", [kind |-> "backup", second |-> now, name |-> <<now, label>>,
                               copied |-> FALSE]))
    /\ UNCHANGED <<now, archives, age, copies, reported>>

(* is_due counts whatever is there, whole or not. *)
Due == age = <<>> \/ now - Head(age)[1] > Interval

CheckDue(c) ==
    /\ pc[c] = "due"
    /\ IF Due THEN BeginBackup(c, "auto")
       ELSE Goto(c, Ended) /\ UNCHANGED backupVars

(* VACUUM INTO, or a plain copy over what is there.  When both fail the     *)
(* backup goes on without the database, and what was copied so far, perhaps *)
(* in place of the copy of another, is none.                                *)
Copy(c) ==
    /\ pc[c] = "copying"
    /\ \/ /\ copies' = copies \cup {CopyName(job[c].second)}
          /\ Goto(c, At("collecting", [job[c] EXCEPT !.copied = TRUE]))
       \/ /\ copies' \in {copies, copies \ {CopyName(job[c].second)}}
          /\ Goto(c, At("collecting", job[c]))
    /\ UNCHANGED <<now, archives, age, begun, reported>>

Collect(c) ==
    /\ pc[c] = "collecting"
    /\ Goto(c, At("opening", job[c]))
    /\ UNCHANGED backupVars

Writing(name) == {d \in Callers : pc[d] = "writing" /\ job[d].name = name}

(* The thread of _write_archive: open, copy the database in, close. *)
Open(c) ==
    /\ pc[c] = "opening"
    /\ archives' = With(job[c].name,
                        [db |-> FALSE, copied |-> job[c].copied, whole |-> FALSE,
                         by |-> {c} \cup Writing(job[c].name)])
    /\ age' = <<job[c].name>> \o Without(job[c].name)
    /\ Goto(c, At("writing", job[c]))
    /\ UNCHANGED <<now, copies, begun, reported>>

Here(c) == job[c].name \in DOMAIN archives /\ c \in archives[job[c].name].by

Unlinked(c) ==
    copies' = IF job[c].copied THEN copies \ {CopyName(job[c].second)} ELSE copies

(* Writing may fail, for one when the disk is full: what has been written  *)
(* stays.  What two threads write is not whole; what has been removed      *)
(* meanwhile is not closed under its name.                                 *)
Close(c) ==
    /\ pc[c] = "writing"
    /\ \/ /\ archives' = IF ~Here(c) THEN archives
                         ELSE With(job[c].name, [archives[job[c].name] EXCEPT
                                        !.db = job[c].copied /\ CopyName(job[c].second) \in copies,
                                        !.whole = archives[job[c].name].by = {c}])
          /\ age' = IF Here(c) THEN <<job[c].name>> \o Without(job[c].name) ELSE age
          /\ Goto(c, At("finishing", job[c]))
          /\ UNCHANGED copies
       \/ /\ Unlinked(c)
          /\ Goto(c, Ended)
          /\ UNCHANGED <<archives, age>>
    /\ UNCHANGED <<now, begun, reported>>

(* rotate: those written to last stay. *)
Stays == {i \in DOMAIN age : i <= KeepLast}
Kept == {age[i] : i \in Stays}

Finish(c) ==
    /\ pc[c] = "finishing"
    /\ Unlinked(c)
    /\ Goto(c, Ended)
    /\ IF job[c].name \in DOMAIN archives
       THEN /\ archives' = [n \in Kept |-> archives[n]]
            /\ age' = [i \in Stays |-> age[i]]
            /\ reported' = reported \cup {job[c].name}
       ELSE UNCHANGED <<archives, age, reported>>
    /\ UNCHANGED <<now, begun>>

BackupStep(c) == CheckDue(c) \/ Copy(c) \/ Collect(c) \/ Open(c) \/ Close(c) \/ Finish(c)
=============================================================================
