----------------------------- MODULE MCGateway -----------------------------
(* Instances of Gateway for TLC.                                           *)
EXTENDS Gateway

CONSTANTS app, svc

MCSysFiles == <<File(Path("sys", "version", ""), <<<<"version">>>>)>>
MCCaps == [a \in {app, svc} |-> IF a = app THEN {"LOG", "FS", "SEND", "RECV", "SVC_CONSOLE", "INPUT"} ELSE {"FS", "SVC_STORAGE", "RECV"}]
MCSeedPolicy == <<<<"deny", "GPIO">>>>

MCUserPaths == {Path("agent", app, "f"), Path("agent", app, "g"), Path("agent", svc, "f")}
\* One line, and as many as ramfs_write refuses.
MCContents == {<<<<"deny", "LOG">>>>, [i \in 1 .. RAMFS_FILE_SIZE |-> <<"text">>]}
MCTexts == {<<"x">>, <<"x", "y">>, <<"x", NL>>}
MCDeviceCalls == {o \in DeviceTools : \/ o.tool \in {"LOG", "unknown"}
                                      \/ o.tool = "INPUT" /\ o.rc \in {"zero", "OK"}
                                      \/ o.tool = "OTA" /\ o.rc = "EPERM"
                                      \/ o.cmd = "poll" /\ o.rc = "OK"}
Mix(kinds, max) == [kinds |-> kinds, max |-> max]
Kinds == {"device", "file", "session", "package", "audit", "namespace", "quota", "policy", "fleet", "message"}
\* A few calls of every kind, and more of the kinds that share the policy, the
\* log of an agent or an inbox.
MCMixes ==
    {Mix(Kinds, 3), Mix({"file", "policy"}, 4), Mix({"session", "audit", "device"}, 4),
     Mix({"session", "audit"}, 5), Mix({"device", "audit"}, 5), Mix({"device", "quota", "policy"}, 4),
     Mix({"quota", "message", "session"}, 5), Mix({"quota", "message"}, 6), Mix({"package", "audit"}, 4)}
MCRuledTools == {"LOG", "QUOTA", OutOfRange}

\* A package for a file of the application, and one that is installed over the
\* log of the service; the catalog lists the first.
Package(path) == [install_path |-> path, elf |-> <<<<"elf">>, <<"elf">>>>]
MCPackages == {Package(Path("agent", app, "f")), Package(audit_path_for(svc))}
MCEntries == {[install_path |-> Path("agent", app, "f"), backup |-> Path("agent", app, "f.prev"),
               package |-> Package(Path("agent", app, "f"))]}
=============================================================================
