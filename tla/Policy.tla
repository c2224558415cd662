------------------------------- MODULE Policy -------------------------------
(***************************************************************************)
(* kernel/policy.c: the list of denied tools, the list of allowed network   *)
(* destinations and the switch that makes it count, read from a file or     *)
(* changed one rule at a time.  A chunk of a policy file is a line: a rule   *)
(* to deny a tool, to allow a destination, or to set the switch.            *)
(***************************************************************************)
EXTENDS Audit

CONSTANTS
    POLICY_DENY_MAX,
    POLICY_NET_ALLOW_MAX,
    SeedPolicy            \* lines of the policy file policy_init creates

POLICY_ACTIVE == Path("sys", "policy", "active")

Exempt == {"POLICY", "FLEET", "REMOTE", "MESH", "QUOTA"}

\* A number below 0 or above 31.
OutOfRange == "no tool id"

Undeniable == Exempt \cup {OutOfRange}

policy_init == [deny |-> <<>>, net_allow |-> <<>>, net_restrict |-> FALSE]

policy_seed(fs) == IF ramfs_path_exists(fs, POLICY_ACTIVE) THEN fs ELSE ramfs_put(fs, POLICY_ACTIVE, SeedPolicy)

deny_has(pol, tool) == tool \in Range(pol.deny)

\* A list operation answers rc and the policy it leaves.
Ruled(rc, pol) == [rc |-> rc, pol |-> pol]

policy_deny_tool(pol, tool) ==
    IF tool \in Undeniable THEN Ruled("EINVAL", pol)
    ELSE IF deny_has(pol, tool) THEN Ruled("OK", pol)
    ELSE IF Len(pol.deny) >= POLICY_DENY_MAX THEN Ruled("ENOSPC", pol)
    ELSE Ruled("OK", [pol EXCEPT !.deny = Append(@, tool)])

\* The first entry is removed, the ones behind it move up.
policy_allow_tool(pol, tool) ==
    LET at == Min({i \in DOMAIN pol.deny : pol.deny[i] = tool})
        closed == [i \in 1 .. Len(pol.deny) - 1 |-> pol.deny[IF i < at THEN i ELSE i + 1]]
    IN  Ruled("OK", IF deny_has(pol, tool) THEN [pol EXCEPT !.deny = closed] ELSE pol)

policy_net_add_allow(pol, dest) ==
    IF dest \in Range(pol.net_allow) THEN Ruled("OK", pol)
    ELSE IF Len(pol.net_allow) >= POLICY_NET_ALLOW_MAX THEN Ruled("ENOSPC", pol)
    ELSE Ruled("OK", [pol EXCEPT !.net_allow = Append(@, dest)])

policy_net_set_restrict(pol, on) == Ruled("OK", [pol EXCEPT !.net_restrict = on])

policy_net_allow(pol, dest) == ~pol.net_restrict \/ pol.net_allow = <<>> \/ dest \in Range(pol.net_allow)

\* A line whose rule is refused is passed over.
policy_parse_line(pol, line) ==
    CASE line[1] = "deny"     -> policy_deny_tool(pol, line[2]).pol
      [] line[1] = "allow"    -> policy_net_add_allow(pol, line[2]).pol
      [] line[1] = "restrict" -> policy_net_set_restrict(pol, line[2]).pol
      [] OTHER                -> pol

\* Slip: the new rules are added to the old ones.
LoadOver(pol, lines) ==
    LET load[n \in 0 .. Len(lines)] ==
            IF n = 0 THEN pol ELSE policy_parse_line(load[n - 1], lines[n])
    IN  load[Len(lines)]

\* Only the deny list starts afresh.
LoadLines(pol, lines) ==
    LET load[n \in 0 .. Len(lines)] ==
            IF n = 0 THEN [pol EXCEPT !.deny = <<>>] ELSE policy_parse_line(load[n - 1], lines[n])
    IN  load[Len(lines)]

policy_load(fs, pol, path) ==
    IF ramfs_path_exists(fs, path) THEN Ruled("OK", LoadLines(pol, ramfs_read(fs, path))) ELSE Ruled("ENOENT", pol)

policy_tool_allow(pol, tool) == tool \in Exempt \/ ~deny_has(pol, tool)
=============================================================================
