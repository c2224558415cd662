------------------------------ MODULE Gateway ------------------------------
(***************************************************************************)
(* kernel/tool.c: every tool call of an agent passes quota, policy,         *)
(* capability and argument check, runs, is logged and is charged.  With it  *)
(* the quotas of kernel/quota.c, the private homes of kernel/namespace.c,   *)
(* and the tools of kernel/fleet.c, kernel/remote.c and kernel/mesh.c.  Of  *)
(* the packages of kernel/ota.c and kernel/catalog.c, which module Catalog  *)
(* models, the files they write are kept.                                  *)
(*                                                                         *)
(* A call runs in the trap handler of one hart and is one step.  Tools that  *)
(* only talk to a device or to the network have the answers they may give.  *)
(***************************************************************************)
EXTENDS Policy

CONSTANTS
    Agents,               \* agents that exist
    Caps,                 \* capabilities of each agent
    InitAgent, DisplayAgent,   \* agents 1 and DISPLAY_AGENT_ID; either may not exist
    QUOTA_IPC_MAX, QUOTA_TOOL_MAX, QUOTA_FS_FILES,
    NAMESPACE_HOME_QUOTA,
    MSG_CAPACITY,
    Contents,             \* contents agents write
    Texts,                \* texts agents append to their session
    UserPaths,            \* paths agents read and write
    DeviceCalls,          \* calls of tools without state
    RuledTools,           \* tools agents deny and allow
    Packages,             \* packages that pass verification: where they install, and what
    Entries,              \* entries of the catalog: an install path, its backup, a package
    Mixes                 \* bound of the exploration: kinds of calls made in one behaviour, and how many

VARIABLES
    files,       \* the table of ramfs.c
    pol,         \* the lists of policy.c
    tool_count,  \* quota_tool_count
    ipc_count,   \* quota_ipc_count
    inbox,       \* number of messages each agent has not received
    remote_enabled,
    call,        \* the last call: its agent, and whether its tool installs packages
    trail,       \* per agent, the calls tool_audit_log was given, newest last
    calls,
    mix          \* the kinds of calls the agents make, and how many they make

vars == <<files, pol, tool_count, ipc_count, inbox, remote_enabled, call, trail, calls, mix>>

FLEET_CACHE == Path("agent", "0", "fleet.json")

\* What is written is text.  A session line has up to 188 bytes and a summary
\* up to 222: a line and two summaries fit the quota of 640.
ASSUME GatewayAssumption ==
    /\ SeedPolicy \in Seq(Range(SeedPolicy))
    /\ \A d \in Contents : d \in Seq(Range(d))
    /\ \A pkg \in Packages \cup {entry.package : entry \in Entries} : pkg.elf \in Seq(Range(pkg.elf))
    /\ \A text \in Texts :
           /\ text \in Seq(Range(text))
           /\ Len(text) <= SUMMARY_MAX
           /\ Len(text) + 2 * SUMMARY_MAX <= TENANT_SESSION_QUOTA
    /\ \A i \in DOMAIN SysFiles :
           /\ SysFiles[i].path.root = "sys"
           /\ SysFiles[i].data \in Seq(Range(SysFiles[i].data))
           /\ Len(SysFiles[i].data) < RAMFS_FILE_SIZE
           /\ \A j \in DOMAIN SysFiles : SysFiles[i].path = SysFiles[j].path => i = j
    /\ QUOTA_IPC_MAX \in Nat /\ QUOTA_TOOL_MAX \in Nat /\ MSG_CAPACITY \in Nat
    /\ POLICY_DENY_MAX \in Nat /\ POLICY_NET_ALLOW_MAX \in Nat

Init ==
    /\ files = policy_seed(ramfs_init)
    /\ pol = policy_init
    /\ tool_count = [a \in Agents |-> 0]
    /\ ipc_count = [a \in Agents |-> 0]
    /\ inbox = [a \in Agents |-> 0]
    /\ remote_enabled = FALSE
    /\ call = [agent |-> "none", installs |-> FALSE]
    /\ trail = [a \in Agents |-> <<>>]
    /\ calls = 0
    /\ mix \in Mixes

\* What a tool leaves behind, to be changed by EXCEPT.
Now == [rc |-> "OK", files |-> files, pol |-> pol, ipc |-> ipc_count, inbox |-> inbox, remote |-> remote_enabled]

Answer(rc) == [Now EXCEPT !.rc = rc]

WithFiles(r) == [Now EXCEPT !.rc = r.rc, !.files = r.files]

WithPolicy(r) == [Now EXCEPT !.rc = r.rc, !.pol = r.pol]

agent_has_cap(a, cap) == cap \in Caps[a]

-----------------------------------------------------------------------------
(* kernel/quota.c                                                          *)

quota_tool_allow(a) == tool_count[a] < QUOTA_TOOL_MAX

AgentFiles(fs, a) == {i \in Slots : fs[i] # NoFile /\ fs[i].path.root = "agent" /\ fs[i].path.id = a}

\* Slip: one file too many.
NewFileAtQuota(a, path) ==
    \/ path.root # "agent" \/ path.id # a
    \/ ramfs_path_exists(files, path)
    \/ Cardinality(AgentFiles(files, a)) <= QUOTA_FS_FILES

\* Only a new file of the agent's own directory counts.
quota_fs_allow_new(a, path) ==
    \/ path.root # "agent" \/ path.id # a
    \/ ramfs_path_exists(files, path)
    \/ Cardinality(AgentFiles(files, a)) < QUOTA_FS_FILES

\* n messages of agent_send_kernel_nocheck from a to b.
Sent(a, b, n) == [Now EXCEPT !.inbox[b] = @ + n, !.ipc[a] = @ + n]

\* agent_send and agent_send_kernel: messages go out one by one until the
\* quota of the sender or the inbox of the receiver is exhausted.
quota_burn_ipc(a, b, count) ==
    LET n == Min({count, QUOTA_IPC_MAX - ipc_count[a], MSG_CAPACITY - inbox[b]})
    IN  IF ~agent_has_cap(a, "SEND") THEN Answer(IF ipc_count[a] < QUOTA_IPC_MAX THEN "EPERM" ELSE "ENOSPC")
        ELSE [Sent(a, b, n) EXCEPT !.rc = IF n < count THEN "ENOSPC" ELSE "OK"]

\* agent_send_kernel_nocheck: neither checked against the quota nor charged.
quota_notify(a, b) ==
    IF ~agent_has_cap(a, "SEND") THEN Answer("EPERM")
    ELSE IF inbox[b] = MSG_CAPACITY THEN Answer("ENOSPC")
    ELSE [Now EXCEPT !.inbox[b] = @ + 1]

-----------------------------------------------------------------------------
(* kernel/namespace.c                                                      *)

namespace_file_for(a, name) == Path("ns", a, name)

namespace_path_ok(a, path) == path.root = "ns" /\ path.id = a

\* The new secret replaces the old one, whose length counts as well.
namespace_write_secret(a, data) ==
    LET path == namespace_file_for(a, "secret")
    IN  IF FileSize(files, path) + Len(data) > NAMESPACE_HOME_QUOTA THEN Answer("ENOSPC")
        ELSE IF ~PutAccepts(files, path, data) THEN Answer("ENOSPC")
        ELSE [Now EXCEPT !.files = ramfs_put(files, path, data)]
-----------------------------------------------------------------------------
(* Reading and writing files                                               *)

\* tenant.c compares the eighth character of "/session/" with a slash: no
\* path that starts like that passes, the agent's own log included.
tenant_session_path_ok(a, path) == FALSE

\* What a storage service may do for the agents it serves.
storage_path_ok(path, write) ==
    path.root \in {"agent", "session"} \/ (path.root = "sys" /\ ~write)

policy_fs_read(a, path) ==
    \/ audit_path_ok(a, path)
    \/ namespace_path_ok(a, path)
    \/ agent_has_cap(a, "SVC_STORAGE") /\ storage_path_ok(path, FALSE)
    \/ ~agent_has_cap(a, "SVC_STORAGE") /\ path.root = "sys"
    \/ path.root = "session" /\ tenant_session_path_ok(a, path)
    \/ path.root = "agent" /\ path.id = a

\* Slip: the directory is tested and not whose it is.
WritesAnyHome(a, path) == namespace_path_ok(a, path) \/ path.root = "agent"

policy_fs_write(a, path) ==
    \/ namespace_path_ok(a, path)
    \/ agent_has_cap(a, "SVC_STORAGE") /\ storage_path_ok(path, TRUE)
    \/ path.root = "agent" /\ path.id = a

Permitted(path, ok) == IF path.root = "malformed" THEN "EINVAL" ELSE IF ok THEN "OK" ELSE "EPERM"

run_read(path) == Answer(IF ramfs_path_exists(files, path) THEN "OK" ELSE "ENOENT")

\* A size of RAMFS_FILE_SIZE passes here; ramfs_write refuses it when it has
\* created the file.
run_write(a, path, data) ==
    IF Len(data) > RAMFS_FILE_SIZE THEN Answer("EINVAL")
    ELSE IF ~quota_fs_allow_new(a, path) \/ ~HasSlotFor(files, path) THEN Answer("ENOSPC")
    ELSE [Now EXCEPT !.files = ramfs_write(files, path, data),
                     !.rc = IF Len(data) = RAMFS_FILE_SIZE THEN "EINVAL" ELSE "OK"]

-----------------------------------------------------------------------------
(* Tools without state of their own: what the check and the run may answer  *)

Outcomes(tool, cmd, checks, answers) == [tool : {tool}, cmd : {cmd}, check : checks, rc : answers]

run_log_add == Outcomes("LOG", "", {"OK"}, {"OK"}) \cup Outcomes("ADD", "", {"OK", "EINVAL"}, {"OK"})

run_time_llm ==
    Outcomes("TIME", "", {"OK"}, {"OK", "EFAULT"})
        \cup Outcomes("LLM", "", {"OK", "EINVAL"}, {"OK", "EINVAL", "EFAULT", "EPERM", "EIO", "ETIMEDOUT"})

run_gpio_http ==
    Outcomes("GPIO", "", {"OK", "EINVAL"}, {"OK"})
        \cup Outcomes("HTTP", "", {"OK", "EINVAL"}, {"OK", "EINVAL", "EFAULT", "EPERM", "ENODEV", "EIO", "ETIMEDOUT"})

run_display == Outcomes("DISPLAY", "", {"OK"}, {"OK", "EINVAL", "EFAULT", "EIO"})

\* Zero: nothing was pressed.
run_input == Outcomes("INPUT", "", {"OK"}, {"zero", "OK", "EINVAL"})

\* Reading a character, writing a line and the prompt are polled by the
\* console service and are neither metered nor logged.
run_console ==
    Outcomes("CONSOLE", "GETLINE", {"OK"}, {"OK", "EINVAL", "EFAULT"})
        \cup Outcomes("CONSOLE", "poll", {"OK"}, {"OK", "EINVAL", "EFAULT"})

run_smp == Outcomes("SMP", "", {"OK"}, {"OK", "EINVAL"})

\* Verifying and listing packages, reading the channel, and what is refused
\* before anything is written.
run_package ==
    [tool : {"OTA", "CATALOG"}, cmd : {"VERIFY"}, check : {"OK"}, rc : {"OK", "EINVAL", "EPERM", "ENOENT", "EFAULT", "ENOSPC"}]

\* A number no entry of the table has.
NoTool == Outcomes("unknown", "", {"OK"}, {"OK"})

DeviceTools == run_log_add \cup run_time_llm \cup run_gpio_http \cup run_display \cup run_input
                   \cup run_console \cup run_smp \cup run_package \cup NoTool

-----------------------------------------------------------------------------
(* kernel/ota.c and kernel/catalog.c                                       *)

OTA_PATH_CHANNEL == Path("sys", "ota", "channel")

CATALOG_PATH_ACTIVE == Path("agent", InitAgent, "catalog/active")

CATALOG_PATH_ROLLBACK == Path("agent", InitAgent, "catalog/rollback")

\* Whatever packages and the catalog name, and the records.
PackagePaths ==
    {OTA_PATH_CHANNEL, CATALOG_PATH_ACTIVE, CATALOG_PATH_ROLLBACK}
        \cup {pkg.install_path : pkg \in Packages}
        \cup UNION {{entry.install_path, entry.backup, entry.package.install_path} : entry \in Entries}

\* One more ramfs_put of a tool that returns at the first one refused.
Put(r, path, data) ==
    IF r.rc # "OK" THEN r
    ELSE IF PutAccepts(r.files, path, data) THEN Result("OK", ramfs_put(r.files, path, data))
    ELSE Result("ENOSPC", r.files)

ota_channel_set(fs) == Put(Result("OK", fs), OTA_PATH_CHANNEL, <<<<"channel">>>>)

\* A package may be refused for its path, its contents or want of memory.
ota_apply_package(r, pkg, accepted) ==
    IF r.rc = "OK" /\ ~accepted THEN Result("EPERM", r.files) ELSE Put(r, pkg.install_path, pkg.elf)

\* The old program is saved, with its version if that is on record; then the
\* package says where the new one goes.
catalog_install(fs, entry, recorded, accepted) ==
    LET start == Result("OK", fs)
        noted == IF recorded THEN Put(start, CATALOG_PATH_ROLLBACK, <<<<"rollback">>>>) ELSE start
        saved == IF ramfs_read(fs, entry.install_path) = <<>> THEN start
                 ELSE Put(noted, entry.backup, ramfs_read(noted.files, entry.install_path))
    IN  Put(ota_apply_package(saved, entry.package, accepted), CATALOG_PATH_ACTIVE, <<<<"active">>>>)

catalog_rollback(fs, entry, recorded) ==
    LET old == ramfs_read(fs, entry.backup)
    IN  IF ramfs_read(fs, CATALOG_PATH_ROLLBACK) = <<>> \/ old = <<>> THEN Result("ENOENT", fs)
        ELSE Put(Put(Result("OK", fs), IF recorded THEN entry.install_path ELSE entry.backup, old),
                 CATALOG_PATH_ACTIVE, <<<<"active">>>>)

-----------------------------------------------------------------------------
(* tool_dispatch                                                           *)

tool_table ==
    [LOG |-> "LOG", ADD |-> "MATH", TIME |-> "TIME", READ |-> "FS", WRITE |-> "FS", LLM |-> "LLM",
     SESSION_APPEND |-> "LOG", SESSION_TAIL |-> "LOG", SESSION_READ |-> "LOG", SESSION_COMPACT |-> "LOG",
     GPIO |-> "GPIO", HTTP |-> "NET", DISPLAY |-> "DISPLAY", INPUT |-> "INPUT", CONSOLE |-> "SVC_CONSOLE",
     SMP |-> "LOG", OTA |-> "FS", CATALOG |-> "FS", TENANT |-> "LOG", AUDIT |-> "LOG", NAMESPACE |-> "LOG",
     QUOTA |-> "LOG", FLEET |-> "LOG", POLICY |-> "LOG", REMOTE |-> "LOG", MESH |-> "LOG"]

Polled(tool, cmd) == tool = "CONSOLE" /\ cmd = "poll"

Metered(tool, cmd) == tool \notin Exempt /\ ~Polled(tool, cmd)

Logged(tool, cmd, rc) ==
    /\ tool \notin Exempt \cup {"AUDIT", "NAMESPACE"}
    /\ ~Polled(tool, cmd)
    /\ ~(tool = "INPUT" /\ rc = "zero")

Log(fs, a, rc) ==
    LET all == Append(trail[a], <<"rc", rc>>)
    IN  /\ files' = tool_audit_log(fs, a, rc)
        /\ trail' = [trail EXCEPT ![a] = IF Len(all) > AUDIT_QUOTA_BYTES THEN Tail(all) ELSE all]

Called(a, tool) ==
    /\ calls' = calls + 1
    /\ call' = [agent |-> a, installs |-> tool \in {"OTA", "CATALOG"}]

Refused(a, tool, rc) ==
    /\ Called(a, tool)
    /\ Log(files, a, rc)
    /\ UNCHANGED <<pol, tool_count, ipc_count, inbox, remote_enabled>>

Ran(a, tool, cmd, e) ==
    /\ Called(a, tool)
    /\ IF Logged(tool, cmd, e.rc) THEN Log(e.files, a, e.rc) ELSE files' = e.files /\ trail' = trail
    /\ tool_count' = IF Metered(tool, cmd) THEN [tool_count EXCEPT ![a] = @ + 1] ELSE tool_count
    /\ pol' = e.pol
    /\ ipc_count' = e.ipc
    /\ inbox' = e.inbox
    /\ remote_enabled' = e.remote

OverQuota(a, tool, cmd) == Metered(tool, cmd) /\ ~quota_tool_allow(a)

Denied(tool, cmd) == Metered(tool, cmd) /\ ~policy_tool_allow(pol, tool)

MayUse(a, tool) == tool \in DOMAIN tool_table /\ agent_has_cap(a, tool_table[tool])

\* What stands in the way of a call is looked for in this order.
tool_dispatch(a, tool, cmd, check, e) ==
    \/ OverQuota(a, tool, cmd) /\ Refused(a, tool, "ENOSPC")
    \/ /\ ~OverQuota(a, tool, cmd)
       /\ \/ Denied(tool, cmd) /\ Refused(a, tool, "EPERM")
          \/ /\ ~Denied(tool, cmd)
             /\ \/ tool \notin DOMAIN tool_table /\ Refused(a, tool, "EINVAL")
                \/ tool \in DOMAIN tool_table /\ ~MayUse(a, tool) /\ Refused(a, tool, "EPERM")
                \/ MayUse(a, tool) /\ check # "OK" /\ Refused(a, tool, check)
                \/ MayUse(a, tool) /\ check = "OK" /\ Ran(a, tool, cmd, e)
-----------------------------------------------------------------------------
(* The tools                                                               *)

DeviceTool(a) == \E o \in DeviceCalls : tool_dispatch(a, o.tool, o.cmd, o.check, Answer(o.rc))

ReadTool(a) == \E p \in UserPaths :
    tool_dispatch(a, "READ", "", Permitted(p, policy_fs_read(a, p)), run_read(p))

WriteTool(a) == \E p \in UserPaths, d \in Contents :
    tool_dispatch(a, "WRITE", "", Permitted(p, policy_fs_write(a, p)), run_write(a, p, d))

\* The first argument may not be zero: a buffer, or the number of lines to keep.
policy_session(nonzero) == IF nonzero THEN "OK" ELSE "EINVAL"

run_session_append(a) == \E text \in Texts, given \in BOOLEAN :
    tool_dispatch(a, "SESSION_APPEND", "", policy_session(given), WithFiles(session_append(files, a, text)))

run_session_read(a) == \E tool \in {"SESSION_TAIL", "SESSION_READ"}, given \in BOOLEAN :
    tool_dispatch(a, tool, "", policy_session(given), Answer("OK"))

\* The summary goes to the agent's own inbox, without quota.
run_session_compact(a) == \E keep \in 0 .. 2 :
    LET r == session_compact(files, a, keep, inbox[a] < MSG_CAPACITY)
        pushed == CompactionDue(files, a, keep) /\ inbox[a] < MSG_CAPACITY
    IN  tool_dispatch(a, "SESSION_COMPACT", "", policy_session(keep # 0),
                      [WithFiles(r) EXCEPT !.inbox[a] = IF pushed THEN @ + 1 ELSE @])

run_ota(a) ==
    \/ \E pkg \in Packages :
           tool_dispatch(a, "OTA", "APPLY", "OK", WithFiles(ota_apply_package(Result("OK", files), pkg, TRUE)))
    \/ tool_dispatch(a, "OTA", "CHANNEL_SET", "OK", WithFiles(ota_channel_set(files)))

run_catalog(a) == \E entry \in Entries, recorded \in BOOLEAN :
    /\ recorded => ramfs_path_exists(files, CATALOG_PATH_ACTIVE)
    /\ \/ \E accepted \in BOOLEAN :
              tool_dispatch(a, "CATALOG", "INSTALL", "OK", WithFiles(catalog_install(files, entry, recorded, accepted)))
       \/ tool_dispatch(a, "CATALOG", "ROLLBACK", "OK", WithFiles(catalog_rollback(files, entry, recorded)))

\* STATUS, TAIL and PROBE change nothing.
run_audit(a) ==
    \/ \E keep \in {0, AUDIT_KEEP, AUDIT_KEEP_MAX + 1} :
           tool_dispatch(a, "AUDIT", "COMPACT", "OK", WithFiles(audit_compact(files, a, keep)))
    \/ \E b \in Agents : tool_dispatch(a, "AUDIT", "PROBE", "OK",
                                      Answer(IF audit_path_ok(a, audit_path_for(b)) THEN "OK" ELSE "EPERM"))

run_namespace(a) ==
    \/ \E d \in Contents : tool_dispatch(a, "NAMESPACE", "WRITE", "OK", namespace_write_secret(a, d))
    \/ \E b \in Agents : tool_dispatch(a, "NAMESPACE", "PROBE", "OK",
                                      Answer(IF namespace_path_ok(a, namespace_file_for(b, "secret")) THEN "OK" ELSE "EPERM"))

\* STATUS, and PROBE of another agent's session, which is always refused.
run_tenant(a) == \E b \in Agents : tool_dispatch(a, "TENANT", "PROBE", "OK", Answer(IF a = b THEN "OK" ELSE "EPERM"))

run_quota(a) ==
    \/ \E n \in 1 .. 2 : tool_dispatch(a, "QUOTA", "BURN", "OK",
           IF DisplayAgent \in Agents THEN quota_burn_ipc(a, DisplayAgent, n) ELSE Answer("ENOENT"))
    \/ tool_dispatch(a, "QUOTA", "NOTIFY", "OK", IF InitAgent \in Agents THEN quota_notify(a, InitAgent) ELSE Answer("ENOENT"))

run_policy(a) ==
    \/ \E p \in UserPaths \cup {POLICY_ACTIVE} : tool_dispatch(a, "POLICY", "LOAD", "OK", WithPolicy(policy_load(files, pol, p)))
    \/ \E t \in RuledTools : tool_dispatch(a, "POLICY", "DENY", "OK", WithPolicy(policy_deny_tool(pol, t)))
    \/ \E t \in RuledTools : tool_dispatch(a, "POLICY", "ALLOW", "OK", WithPolicy(policy_allow_tool(pol, t)))
    \/ tool_dispatch(a, "POLICY", "NET_ALLOW", "OK", WithPolicy(policy_net_add_allow(pol, "host")))
    \/ \E on \in BOOLEAN : tool_dispatch(a, "POLICY", "NET_RESTRICT", "OK", WithPolicy(policy_net_set_restrict(pol, on)))

\* The telemetry goes to a file of agent 0, whoever asks.
fleet_push(a) ==
    LET json == <<<<"json">>>>
    IN  tool_dispatch(a, "FLEET", "PUSH", "OK",
                      IF PutAccepts(files, FLEET_CACHE, json) THEN [Now EXCEPT !.files = ramfs_put(files, FLEET_CACHE, json)]
                      ELSE Answer("ENOSPC"))

fleet_ingest(a) == \E rc \in {"OK", "EIO", "EPERM"} :
    tool_dispatch(a, "FLEET", "INGEST", "OK", Answer(IF ramfs_path_exists(files, FLEET_CACHE) THEN rc ELSE "ENOENT"))

run_remote(a) ==
    \/ \E on \in BOOLEAN : tool_dispatch(a, "REMOTE", "ENABLE", "OK", [Now EXCEPT !.remote = on])
    \/ \E rc \in {"OK", "ENODEV", "EIO"} : tool_dispatch(a, "REMOTE", "CONNECT", "OK", Answer(IF remote_enabled THEN rc ELSE "EPERM"))

run_mesh(a) == tool_dispatch(a, "MESH", "PROBE", "OK", Answer("OK"))

-----------------------------------------------------------------------------
(* Messages: the other way to spend the quota, and the one to free an inbox *)

agent_send(a, b) ==
    /\ agent_has_cap(a, "SEND") /\ ipc_count[a] < QUOTA_IPC_MAX /\ inbox[b] < MSG_CAPACITY
    /\ Called(a, "none")
    /\ inbox' = [inbox EXCEPT ![b] = @ + 1]
    /\ ipc_count' = [ipc_count EXCEPT ![a] = @ + 1]
    /\ UNCHANGED <<files, pol, tool_count, remote_enabled, trail>>

agent_recv(a) ==
    /\ agent_has_cap(a, "RECV") /\ inbox[a] > 0
    /\ Called(a, "none")
    /\ inbox' = [inbox EXCEPT ![a] = @ - 1]
    /\ UNCHANGED <<files, pol, tool_count, ipc_count, remote_enabled, trail>>

\* Each kind of call.
Make(a, kind) ==
    \/ kind = "device" /\ DeviceTool(a)
    \/ kind = "file" /\ (ReadTool(a) \/ WriteTool(a))
    \/ kind = "session" /\ (run_session_append(a) \/ run_session_read(a) \/ run_session_compact(a))
    \/ kind = "package" /\ (run_ota(a) \/ run_catalog(a))
    \/ kind = "audit" /\ (run_audit(a) \/ run_tenant(a))
    \/ kind = "namespace" /\ run_namespace(a)
    \/ kind = "quota" /\ run_quota(a)
    \/ kind = "policy" /\ run_policy(a)
    \/ kind = "fleet" /\ (fleet_push(a) \/ fleet_ingest(a) \/ run_remote(a) \/ run_mesh(a))
    \/ kind = "message" /\ (agent_recv(a) \/ \E b \in Agents : agent_send(a, b))

Next ==
    /\ calls < mix.max
    /\ \E a \in Agents, kind \in mix.kinds : Make(a, kind)
    /\ UNCHANGED mix

Spec == Init /\ [][Next]_vars
-----------------------------------------------------------------------------
\* Type invariant: counters within their quotas, inboxes within capacity, and
\* no path in two slots.
TypeOK ==
    /\ \A i \in Slots : files[i] # NoFile =>
           Named(files, files[i].path) = {i} /\ Len(files[i].data) < RAMFS_FILE_SIZE
    /\ Len(pol.deny) <= POLICY_DENY_MAX /\ Len(pol.net_allow) <= POLICY_NET_ALLOW_MAX
    /\ \A a \in Agents :
           /\ tool_count[a] \in 0 .. QUOTA_TOOL_MAX
           /\ ipc_count[a] \in 0 .. QUOTA_IPC_MAX
           /\ inbox[a] \in 0 .. MSG_CAPACITY

\* No call is missing from the middle or the end of an audit log: whatever
\* compactions the gateway or the agent made, the lines of the log behind the
\* mark it may start with are the newest calls of the agent in order.  Only an
\* agent whose log never found a free slot of ramfs has none.  A log that a
\* package or the catalog names as a file to install over is left out.
IsMark(line) == line[1] = "compact"
Lines(log) == IF log # <<>> /\ IsMark(log[1]) THEN Tail(log) ELSE log
AuditTrail ==
    \A a \in {b \in Agents : audit_path_for(b) \notin PackagePaths} :
        LET lines == Lines(audit_tail(files, a))
            kept == Len(trail[a]) - Len(lines)
        IN  /\ kept >= 0 /\ lines = SubSeq(trail[a], kept + 1, Len(trail[a]))
            /\ trail[a] # <<>> /\ lines = <<>> => FreeSlots(files) = {}

\* The session log stays within its quota although compaction may lengthen it
\* and is not checked: an append counts the old log twice, which leaves room
\* for the summary line.  It must be a log session.c alone writes, no storage
\* service and no package.
SessionWithinQuota ==
    \A a \in Agents : build_session_path(a) \notin UserPaths \cup PackagePaths =>
        tenant_session_usage(files, a) <= TENANT_SESSION_QUOTA

\* What session_read returns for one line is what session_tail returns and
\* its newline, whatever appends and compactions made of the log.
TailIsLastLine ==
    \A a \in Agents : session_read(files, a, 1) \in {session_tail(files, a), Append(session_tail(files, a), NL)}

\* The paths whose slot a step fills or rewrites; a file never leaves its slot.
TouchedPaths == {files'[i].path : i \in {j \in Slots : files'[j] # files[j]}}

\* A quota that is spent binds whatever tool is tried next.  Some tools skip
\* the test of the tool quota, and one tool alone tests the quota on files:
\* still an agent without tool quota changes no file but its log and the
\* telemetry, and no agent takes its own home over QUOTA_FS_FILES except by
\* installing a package.
QuotasBind ==
    [][calls' # calls =>
           LET a    == call'.agent
               home == Cardinality(AgentFiles(files', a))
           IN  /\ tool_count[a] = QUOTA_TOOL_MAX => TouchedPaths \subseteq {audit_path_for(a), FLEET_CACHE}
               /\ home > Cardinality(AgentFiles(files, a)) =>
                      home <= QUOTA_FS_FILES \/ call'.installs]_vars

\* An agent that is not a storage service changes only files of its own,
\* through whichever tool; telemetry apart, which has one file for all, and
\* packages: with CAP_FS they are installed where they say.  The storage
\* service reaches the homes and sessions of others, and an audit log, a
\* namespace or a system file only if a package names it.
OwnFilesOnly ==
    [][calls' # calls =>
           \A p \in TouchedPaths :
               \/ p.id = call'.agent /\ p.root \in {"agent", "ns", "session", "audit"}
               \/ p = FLEET_CACHE
               \/ agent_has_cap(call'.agent, "SVC_STORAGE") /\ p.root \in {"agent", "session"}
               \/ call'.installs /\ agent_has_cap(call'.agent, "FS") /\ p \in PackagePaths]_vars

\* A policy file that fits the deny list is in force once it is loaded: the
\* denied tools are those it names, whatever was denied before.
LoadedPolicyInForce ==
    \A p \in UserPaths \cup {POLICY_ACTIVE} :
        LET lines == ramfs_read(files, p)
            named == {l[2] : l \in {k \in Range(lines) : k[1] = "deny"}} \ Undeniable
        IN  ramfs_path_exists(files, p) /\ Cardinality(named) <= POLICY_DENY_MAX
                => Range(policy_load(files, pol, p).pol.deny) = named

\* Allowing a tool lifts its denial, however often it was denied or loaded:
\* policy_allow_tool removes one entry, so there must never be two.
AllowLifts == \A tool \in RuledTools : ~deny_has(policy_allow_tool(pol, tool).pol, tool)

\* Policies: what is loaded is in force, and what is allowed is not denied.
PolicyInForce == LoadedPolicyInForce /\ AllowLifts

\* The state invariants of sessions and counters: no session log is over its
\* quota and both ways to read its last line agree, after any appends and
\* compactions; every counter is within its limit.
GatewayInv == TypeOK /\ SessionWithinQuota /\ TailIsLastLine
=============================================================================
