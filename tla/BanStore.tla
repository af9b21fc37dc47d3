------------------------------ MODULE BanStore ------------------------------
(***************************************************************************)
(* src/bans.cpp: the ban database.  The bans are kept in memory and in one *)
(* file.  A change is written to a temporary file that replaces the        *)
(* database by a rename (AtomicWrite, on a POSIX system), and is confirmed *)
(* and put in memory only when the directory is known to be on the disk.   *)
(* The process or the machine may stop between any two system calls, every *)
(* call may fail, and an administrator may edit the file.                  *)
(*                                                                         *)
(* A database is the terms each account is banned on; the JSON text, the   *)
(* times, the reasons and the validity of the arguments are left out.      *)
(***************************************************************************)
EXTENDS Naturals, FiniteSets

CONSTANTS Accounts,
          Terms,            \* reasons, durations and actors of a ban
          Limit,            \* the most entries of a database (4096)
          EditWhileSaving,  \* bound: the administrator may edit during a save
          Torn, Garbage,    \* a file cut short, a file the administrator broke
          Nothing           \* not banned; not loaded; no file

VARIABLES
    file,     \* what a reader of ban_file_ finds
    lasting,  \* what may be found there after the machine has stopped
    loaded,   \* bans_ and ban_contents_: the database in memory
    step,     \* the control point of AtomicWrite
    content,  \* the database that is being written
    flushed,  \* the temporary file is on the disk
    acked     \* history: the database of the last change that was confirmed

vars == <<file, lasting, loaded, step, content, flushed, acked>>

Database == [Accounts -> Terms \cup {Nothing}]
Empty == [a \in Accounts |-> Nothing]
Size(d) == Cardinality({a \in Accounts : d[a] # Nothing})

\* ParseBans rejects a torn or broken file, and too many entries.
Readable(f) == f \notin {Torn, Garbage, Nothing} /\ Size(f) <= Limit

Init ==
    /\ file \in {Nothing} \cup {d \in Database : Size(d) <= Limit}
    /\ lasting = {file}
    /\ loaded = Nothing
    /\ step = "idle" /\ content = Nothing /\ flushed = FALSE
    /\ acked = Nothing

-----------------------------------------------------------------------------
\* Load: the file is read once, and created when there is none.
Load ==
    /\ step = "idle" /\ loaded = Nothing
    /\ \/ /\ file = Nothing
          /\ step' = "create" /\ content' = Empty
          /\ UNCHANGED loaded
       \/ /\ Readable(file)
          /\ loaded' = file
          /\ UNCHANGED <<step, content>>
    /\ UNCHANGED <<file, lasting, flushed, acked>>

\* SaveBans: the file must still be the one that is in memory.
SameFile == file = loaded

SaveBans(candidate) ==
    /\ SameFile
    /\ step' = "create" /\ content' = candidate
    /\ UNCHANGED <<file, lasting, loaded, flushed, acked>>

\* AddBan counts the entries of the candidate, not those it starts from.
Fits(d) == Size(d) <= Limit

AddBan(a, terms) ==
    /\ step = "idle" /\ loaded # Nothing
    /\ LET candidate == [loaded EXCEPT ![a] = terms]
       IN  Fits(candidate) /\ SaveBans(candidate)

\* RemoveBan: an account that is not banned needs no save.
RemoveBan(a) ==
    /\ step = "idle" /\ loaded # Nothing
    /\ loaded[a] # Nothing
    /\ SaveBans([loaded EXCEPT ![a] = Nothing])

-----------------------------------------------------------------------------
(* AtomicWrite: each call succeeds or fails; a failure removes the         *)
(* temporary file and the change is refused.                               *)

Refuse ==
    /\ step' = "idle" /\ content' = Nothing /\ flushed' = FALSE
    /\ UNCHANGED <<file, lasting, loaded, acked>>

\* mkstemp and write.
Create ==
    /\ step = "create"
    /\ \/ step' = "flush" /\ UNCHANGED <<file, lasting, loaded, content, flushed, acked>>
       \/ Refuse

\* fsync(fd) and close.
FlushNeeded_No == FALSE
FlushNeeded == TRUE
Flush ==
    /\ step = "flush"
    /\ \/ /\ step' = "rename" /\ flushed' = FlushNeeded
          /\ UNCHANGED <<file, lasting, loaded, content, acked>>
       \/ Refuse

\* rename: readers see the new file at once; the disk has the old or the new one.
Rename ==
    /\ step = "rename"
    /\ \/ /\ step' = "settle"
          /\ file' = content
          /\ lasting' = lasting \cup {content} \cup (IF flushed THEN {} ELSE {Torn})
          /\ acked' = Nothing
          /\ UNCHANGED <<loaded, content, flushed>>
       \/ Refuse

\* open and fsync of the directory; only then is the change confirmed.  When they
\* fail the file is replaced, but the change is refused.
Settled == {file}
Settle ==
    /\ step = "settle"
    /\ \/ /\ lasting' = Settled
          /\ loaded' = content
          /\ acked' = IF file = content THEN content ELSE acked
          /\ step' = "idle" /\ content' = Nothing /\ flushed' = FALSE
          /\ UNCHANGED file
       \/ Refuse

-----------------------------------------------------------------------------
\* The server process ends, in any way, and is started again.
Restart ==
    /\ loaded' = Nothing /\ step' = "idle" /\ content' = Nothing /\ flushed' = FALSE
    /\ UNCHANGED <<file, lasting, acked>>

\* The machine stops: what was not on the disk may be lost.
PowerLoss ==
    /\ file' \in lasting /\ lasting' = {file'}
    /\ loaded' = Nothing /\ step' = "idle" /\ content' = Nothing /\ flushed' = FALSE
    /\ UNCHANGED acked

\* The administrator replaces or removes the file.
Edit ==
    /\ EditWhileSaving \/ step = "idle"
    /\ \E e \in Database \cup {Garbage, Nothing} :
          file' = e /\ lasting' = {e}
    /\ acked' = Nothing
    /\ UNCHANGED <<loaded, step, content, flushed>>

Next ==
    \/ Load
    \/ \E a \in Accounts : RemoveBan(a) \/ \E t \in Terms : AddBan(a, t)
    \/ Create \/ Flush \/ Rename \/ Settle
    \/ Restart \/ PowerLoss \/ Edit

Spec == Init /\ [][Next]_vars

-----------------------------------------------------------------------------
TypeOK ==
    /\ file \in Database \cup {Torn, Garbage} \cup {Nothing}
    /\ lasting \subseteq Database \cup {Torn, Garbage} \cup {Nothing} /\ file \in lasting
    /\ loaded \in Database \cup {Nothing}
    /\ step \in {"idle", "create", "flush", "rename", "settle"}
    /\ content \in Database \cup {Nothing} /\ (content = Nothing <=> step = "idle")
    /\ flushed \in BOOLEAN
    /\ acked \in Database \cup {Nothing}
    /\ \A d \in {loaded, content} \ {Nothing} : Size(d) <= Limit

\* A change that AddBan or RemoveBan confirmed is in the file, is enforced from
\* memory, and survives the machine stopping at any time, until the next change or
\* edit reaches the file.
ConfirmedSurvives ==
    acked # Nothing => lasting = {acked} /\ loaded \in {acked, Nothing}

\* Whenever the machine stops during AtomicWrite, the next start finds a complete
\* database, the old one or the new one; it is never locked out by its own file.
NeverTorn == Torn \notin lasting

\* Neither the machine nor the process stopping at a bad moment loses bans.
CrashSafe == ConfirmedSurvives /\ NeverTorn

\* "external edit cannot be overwritten or published into memory"
\* (tests/ban_store_test.cpp): a save replaces only the file that memory knows.
EditIsKept == step = "rename" /\ step' = "settle" => file = loaded

\* Neither a crash at any moment nor a save loses bans that were confirmed, or written
\* by the administrator.
KeepingStep == TypeOK' /\ CrashSafe' /\ EditIsKept
BansAreKept == [][KeepingStep]_vars
=============================================================================
