------------------------------ MODULE Session ------------------------------
(***************************************************************************)
(* kernel/session.c and the quota of kernel/tenant.c: one log file per      *)
(* agent, to which lines are appended and which compaction rewrites as a    *)
(* summary line followed by the lines kept.                                 *)
(*                                                                         *)
(* A character is a token; the nine characters "summary: " are one token.   *)
(* An operator returns rc, the error or OK, and the table it leaves.        *)
(***************************************************************************)
EXTENDS Ramfs

CONSTANTS
    TENANT_SESSION_QUOTA,  \* bytes of log an agent may have
    SUMMARY_MAX,           \* bytes of summary that fit a message payload
    NL, SEMI, SUMMARY      \* tokens: newline, the semicolon that replaces it, "summary: "

ASSUME SessionSizes ==
    /\ RAMFS_FILE_SIZE \in Nat /\ TENANT_SESSION_QUOTA \in Nat /\ SUMMARY_MAX \in Nat
    /\ TENANT_SESSION_QUOTA \in 1 .. RAMFS_FILE_SIZE - 1
    /\ SUMMARY_MAX >= 2
    /\ NL \notin {SEMI, SUMMARY}

build_session_path(a) == Path("session", a, "log")

Result(rc, fs) == [rc |-> rc, files |-> fs]

tenant_session_usage(fs, a) == FileSize(fs, build_session_path(a))

tenant_session_allow(fs, a, add) == tenant_session_usage(fs, a) + add <= TENANT_SESSION_QUOTA

\* Slip: only the new line is charged, once.
SessionAllowsOnce(fs, a, old, line) == tenant_session_allow(fs, a, Len(line))

\* The log is measured again by tenant_session_allow, so its old length counts
\* twice.
SessionAllows(fs, a, old, line) == tenant_session_allow(fs, a, Len(old) + Len(line))

session_append(fs, a, text) ==
    LET path == build_session_path(a)
        old  == ramfs_read(fs, path)
        line == Append(text, NL)
    IN  IF text = <<>> THEN Result("EINVAL", fs)
        ELSE IF ~SessionAllows(fs, a, old, line) \/ Len(old) + Len(line) >= RAMFS_FILE_SIZE
        THEN Result("ENOSPC", fs)
        ELSE IF ~HasSlotFor(fs, path) THEN Result("EIO", fs)
        ELSE Result("OK", ramfs_write(fs, path, old \o line))

Newlines(data) == {i \in DOMAIN data : data[i] = NL}

count_lines(data) ==
    Cardinality(Newlines(data)) + (IF data # <<>> /\ data[Len(data)] # NL THEN 1 ELSE 0)

\* The number of bytes up to the end of the line that starts behind byte i.
LineEnd(data, i) == Min({j \in Newlines(data) : j > i} \cup {Len(data)})

\* The number of bytes before line n, counting lines from 0.
line_start_at(data, n) ==
    LET start[k \in 0 .. n] == IF k = 0 THEN 0 ELSE LineEnd(data, start[k - 1])
    IN  IF n <= 0 THEN 0 ELSE start[n]

\* The last line, without its newline.
session_tail(fs, a) ==
    LET data == ramfs_read(fs, build_session_path(a))
        ends == {i \in Newlines(data) : i < Len(data)}
        from == IF ends = {} THEN 1 ELSE Max(ends) + 1
        upto == IF Len(data) \in Newlines(data) THEN Len(data) - 1 ELSE Len(data)
    IN  SubSeq(data, from, upto)

\* The last lines; all of them when the number is 0.
session_read(fs, a, lines) ==
    LET data  == ramfs_read(fs, build_session_path(a))
        start == IF lines <= 0 THEN 0 ELSE line_start_at(data, count_lines(data) - lines)
    IN  SubSeq(data, start + 1, Len(data))

\* The bytes dropped, newlines as semicolons, cut to what a message holds.
Summary(data, start) ==
    LET text == <<SUMMARY>> \o [i \in 1 .. start |-> IF data[i] = NL THEN SEMI ELSE data[i]]
    IN  SubSeq(text, 1, IF Len(text) < SUMMARY_MAX THEN Len(text) ELSE SUMMARY_MAX)

\* The log after compaction, before ramfs_write puts it over the old one.
Compacted(data, keep) ==
    LET start == line_start_at(data, count_lines(data) - keep)
    IN  Summary(data, start) \o <<NL>> \o SubSeq(data, start + 1, Len(data))

\* When the log has more lines than are kept, it is rewritten and the summary
\* is pushed to the agent's own inbox, which has room or not.
CompactionDue(fs, a, keep) == count_lines(ramfs_read(fs, build_session_path(a))) > keep

session_compact(fs, a, keep, room) ==
    LET path == build_session_path(a)
    IN  IF ~CompactionDue(fs, a, keep) THEN Result("OK", fs)
        ELSE Result(IF room THEN "OK" ELSE "ENOSPC",
                    ramfs_write(fs, path, Compacted(ramfs_read(fs, path), keep)))
=============================================================================
