------------------------------- MODULE Audit -------------------------------
(***************************************************************************)
(* kernel/audit.c: the tool log of each agent, a line per tool call, with a *)
(* quota and a compaction that keeps the newest lines behind a mark.        *)
(* A chunk of the file is a line; of a line the answer is kept, the number  *)
(* of the tool is left out.                                                 *)
(***************************************************************************)
EXTENDS Session

CONSTANTS
    AUDIT_QUOTA_BYTES,   \* lines of log an agent may have
    AUDIT_KEEP,          \* lines the gateway keeps when the log is full
    AUDIT_KEEP_MAX       \* most lines a compaction keeps

\* A compaction by the gateway makes room for one line.
ASSUME AuditSizes ==
    /\ AUDIT_QUOTA_BYTES \in Nat /\ AUDIT_KEEP_MAX \in Nat
    /\ AUDIT_KEEP \in 1 .. AUDIT_KEEP_MAX
    /\ AUDIT_KEEP + 2 <= AUDIT_QUOTA_BYTES
    /\ AUDIT_QUOTA_BYTES < RAMFS_FILE_SIZE

audit_path_for(a) == Path("audit", a, "tool.log")

\* parse_audit_agent_id: the whole path must match.
audit_path_ok(a, path) == path = audit_path_for(a)

audit_usage(fs, a) == FileSize(fs, audit_path_for(a))

audit_allow_append(fs, a, add) == audit_usage(fs, a) + add <= AUDIT_QUOTA_BYTES

audit_write(fs, a, line) ==
    LET path == audit_path_for(a)
        data == Append(ramfs_read(fs, path), line)
    IN  IF ~audit_allow_append(fs, a, 1) \/ ~PutAccepts(fs, path, data)
        THEN Result("ENOSPC", fs)
        ELSE Result("OK", ramfs_put(fs, path, data))

Mark(keep) == <<"compact", keep>>

Kept(keep) == IF keep < 1 THEN 1 ELSE IF keep > AUDIT_KEEP_MAX THEN AUDIT_KEEP_MAX ELSE keep

\* Slip: the oldest lines are kept.
CompactOldest(fs, a, keep) ==
    LET data == ramfs_read(fs, audit_path_for(a))
    IN  IF Len(data) <= Kept(keep) THEN Result("OK", fs)
        ELSE Result("OK", ramfs_put(fs, audit_path_for(a), <<Mark(Kept(keep))>> \o SubSeq(data, 1, Kept(keep))))

audit_compact(fs, a, keep) ==
    LET data == ramfs_read(fs, audit_path_for(a))
        from == Len(data) - Kept(keep) + 1
    IN  IF Len(data) <= Kept(keep) THEN Result("OK", fs)
        ELSE Result("OK", ramfs_put(fs, audit_path_for(a), <<Mark(Kept(keep))>> \o SubSeq(data, from, Len(data))))

\* A full log is compacted and the line written again; a line that still does
\* not fit is only printed.
tool_audit_log(fs, a, rc) ==
    LET first == audit_write(fs, a, <<"rc", rc>>)
    IN  IF first.rc = "ENOSPC"
        THEN audit_write(audit_compact(fs, a, AUDIT_KEEP).files, a, <<"rc", rc>>).files
        ELSE first.files

audit_tail(fs, a) == ramfs_read(fs, audit_path_for(a))
=============================================================================
