--------------------------- MODULE AgentPrograms ---------------------------
(* What the agents of the demonstration kernels do between their calls, as   *)
(* programs: sequences of instructions whose execution Services defines.     *)
(* Texts are kept as far as an agent compares them or passes them on.        *)
EXTENDS Integers, Sequences, TLC

(***************************************************************************)
(* The instructions.  After one of them an agent goes on with the next,    *)
(* or where the instruction says; what fails goes on at fail if it has one. *)
(***************************************************************************)
Call(k, arg, opt, fail) == [op |-> "call", k |-> k, arg |-> arg, opt |-> opt, fail |-> fail]
Tell(dst, type, body)   == [op |-> "tell", dst |-> dst, type |-> type, body |-> body]
Forward(dst, type)      == [op |-> "forward", dst |-> dst, type |-> type]
Take(routes, other)     == [op |-> "take", routes |-> routes, other |-> other]
Route(type, body, to)   == [type |-> type, body |-> body, to |-> to]
Receive(to)             == Take({}, to)
Test(want, yes, no)     == [op |-> "test", want |-> want, yes |-> yes, no |-> no]
Branch(to)              == [op |-> "branch", to |-> to]
PollAgain(to, out)      == [op |-> "again", to |-> to, out |-> out]
Line(to)                == [op |-> "line", to |-> to]
Compact                 == [op |-> "compact"]
Steer                   == [op |-> "steer"]
AskLlm(fail)            == [op |-> "llm", fail |-> fail]
Spawn(who)              == [op |-> "spawn", who |-> who]
Exit(code)              == [op |-> "exit", code |-> code]
Then(i, to)             == i @@ [next |-> to]
OrElse(i, to)           == i @@ [fail |-> to]
Done(who)               == Tell(who, "MSG_PIPELINE_DONE", "done")

(* The calls of user/agent_svc.c. *)
agent_svc_read(path, fail)           == Call("read", path, "none", fail)
agent_svc_write(path, data, fail)    == Call("write", path, data, fail)
agent_svc_llm(prompt, backend, fail) == Call("llm", prompt, backend, fail)
agent_svc_http(url, mode, fail)      == Call("http", url, mode, fail)
agent_svc_display(text, fail)        == Call("display", text, "none", fail)
agent_svc_input_poll(fail)           == Call("input", "poll", "none", fail)

(* Two workers read the version, write their note and read it back. *)
fs_worker(note) ==
    << agent_svc_read("version", 7), agent_svc_write(note, note, 7),
       agent_svc_read(note, 7), Test(note, 5, 7),
       Forward("init", "MSG_RESULT"), Exit("done"), Exit("failed") >>

init_storage2_agent ==
    << Spawn("a"), Spawn("b"), Receive(4), Receive(5), Done("storage"), Exit("done") >>

(* One worker writes a note and reads it back; the session may fail it. *)
v1_worker_agent ==
    << agent_svc_read("version", 8), agent_svc_write("note_a", "note_a", 8), Branch({4, 8}),
       agent_svc_read("note_a", 8), Branch({6, 8}), Forward("init", "MSG_RESULT"),
       Exit("done"), Exit("failed") >>

init_v1_agent == << Spawn("worker"), Receive(3), Done("storage"), Exit("done") >>

(* Slip: the rules are told of the samples before they are written. *)
sensor_eager ==
    << Tell("rules", "MSG_TASK", "ready"), agent_svc_write("samples", "peak", 4),
       Exit("done"), Exit("failed") >>

(* The sensor writes samples, the rules read them and raise an alert, *)
sensor_worker ==
    << agent_svc_write("samples", "peak", 4), Tell("rules", "MSG_TASK", "ready"),
       Exit("done"), Exit("failed") >>

rules_worker ==
    << Receive(2), agent_svc_read("samples", 6), Test("peak", 4, 5),
       Then(Tell("edge_llm", "MSG_ALERT", "peak"), 7), Then(Tell("init", "MSG_RESULT", "ok"), 7),
       Exit("failed"), Exit("done") >>

(* which is explained, kept in a file and on the disk, and told to init. *)
edge_llm_worker ==
    << Receive(2), Branch({3, 11}), agent_svc_llm("peak", "faux", 11), Test("High", 5, 8),
       agent_svc_write("llm_last", "High", 11), Branch({7, 11}),
       Then(Tell("init", "MSG_RESULT", "High"), 12),
       agent_svc_write("llm_last", "other", 11), Branch({10, 11}),
       Then(Tell("init", "MSG_RESULT", "other"), 12), Exit("failed"), Exit("done") >>

(* Instructions 1 to 3 of init: an explanation kept from an earlier boot. *)
try_restore ==
    << agent_svc_read("samples", 4), agent_svc_read("llm_last", 4), Test("High", 9, 4) >>

run_pipeline ==
    << Spawn("rules"), Spawn("edge_llm"), Spawn("sensor"), Receive(8), Test("High", 9, 12) >>

init_edge_agent ==
    try_restore \o run_pipeline
    \o << Done("router"), Done("storage"), Exit("done"), Exit("failed") >>

(* An offline request must be refused, then a client asks for a sum. *)
router_client_worker ==
    << agent_svc_llm("17+25", "faux", 5), Test("42", 3, 5),
       Forward("init", "MSG_RESULT"), Exit("done"), Exit("failed") >>

init_router_agent ==
    << agent_svc_llm("ignored", "offline", 3), Exit("failed"), Spawn("client"), Receive(5),
       Test("42", 6, 2), Done("router"), Exit("done") >>

(* The same for the network service. *)
net_client_worker ==
    << agent_svc_http("test", "faux", 5), Test("test", 3, 5),
       Forward("init", "MSG_RESULT"), Exit("done"), Exit("failed") >>

init_net_agent ==
    << agent_svc_http("test", "offline", 3), Exit("failed"), Spawn("client"), Receive(5),
       Test("test", 6, 2), Done("network"), Exit("done") >>

(* Offline, a live page, the page kept for when the network is down, and the
   quota: four prod requests pass, the fifth must not. *)
init_net_prod_agent ==
    << agent_svc_http("test", "offline", 3), Exit("failed"),
       agent_svc_http("test", "native", 2), agent_svc_http("degrade", "prod", 2),
       Test("seed", 6, 2),
       agent_svc_http("test", "prod", 2), agent_svc_http("test", "prod", 2),
       agent_svc_http("test", "prod", 2), Then(agent_svc_http("test", "prod", 10), 2),
       Done("network"), Exit("done") >>

(* The pipeline: a planner has a worker compute and a second one summarise. *)
worker_agent ==
    << Receive(2), agent_svc_read("version", 6), Test("version", 4, 5),
       Then(Tell("planner", "MSG_RESULT", "result"), 7), Then(Tell("planner", "MSG_RESULT", "other"), 7),
       Exit("failed"), Exit("done") >>

llm_worker_agent ==
    << Receive(2), AskLlm(5), Forward("planner", "MSG_RESULT"), Exit("done"), Exit("failed") >>

(* Slip: a third message is waited for. *)
planner_waits ==
    << Spawn("worker"), Spawn("llm_worker"), Tell("worker", "MSG_TASK", "compute"), Receive(5),
       Forward("llm_worker", "MSG_TASK"), Receive(7), Receive(8),
       Tell("init", "MSG_PIPELINE_DONE", "complete"), Exit("done") >>

planner_agent ==
    << Spawn("worker"), Spawn("llm_worker"), Tell("worker", "MSG_TASK", "compute"), Receive(5),
       Forward("llm_worker", "MSG_TASK"), Receive(7),
       Tell("init", "MSG_PIPELINE_DONE", "complete"), Exit("done") >>

(* Instructions 2 and 3 of init: every message but the last is dropped. *)
orch_run_pipeline ==
    << Spawn("planner"), Take({Route("MSG_PIPELINE_DONE", "complete", 1)}, 3) >>

init_console_orch_agent ==
    << Take({Route("MSG_CONSOLE_REQ", "run:orch", 2), Route("MSG_RESULT", "quit orch", 4)}, 1) >>
    \o orch_run_pipeline
    \o << Done("storage"), Done("display"), Done("input"), Exit("done") >>

init_console_session_agent ==
    << Take({Route("MSG_RESULT", "quit session", 2)}, 6),
       Done("router"), Done("display"), Done("input"), Exit("done"), Exit("failed") >>

(* A typed line is one of the commands that send messages. *)
cmd_echo    == agent_svc_display("echo", 1)
cmd_llm     == agent_svc_llm("17+25", "deepseek", 1)
cmd_compact == Compact
cmd_steer   == Steer
cmd_run     == Tell("init", "MSG_CONSOLE_REQ", "run:orch")

handle_line ==
    << Line(2..8), Then(cmd_echo, 1), Then(cmd_llm, 1), Then(cmd_compact, 1), Then(cmd_steer, 1),
       Then(cmd_run, 1), Then(Tell("init", "MSG_RESULT", "quit orch"), 9),
       Tell("init", "MSG_RESULT", "quit session"), Exit("done") >>

(* The launcher: draw, wait for the key, have init load the worker, draw. *)
run_desktop_shell ==
    << agent_svc_display("title", 5), agent_svc_display("apps", 3),
       agent_svc_display("item", 4), agent_svc_display("press", 5),
       agent_svc_input_poll(6), Test("key", 8, 7), PollAgain(5, 12),
       OrElse(Tell("init", "MSG_SHELL_REQ", "load"), 12),
       Take({Route("MSG_SHELL_RSP", "load ok", 10)}, 12),
       agent_svc_display("launched", 11),
       OrElse(Then(Tell("init", "MSG_RESULT", "desktop"), 13), 12), Exit("failed"), Exit("done") >>

(* The loaded worker tells init its sum. *)
worker_load == << Tell("init", "MSG_RESULT", "sum=42"), Exit("done") >>

(* With a display: serve the shell; without one: stop the services. *)
init_desktop_agent ==
    << Branch({2, 8}),
       Take({Route("MSG_SHELL_REQ", "load", 3), Route("MSG_RESULT", "desktop", 8)}, 2),
       Branch({4, 7}), Spawn("elf"), Take({Route("MSG_RESULT", "sum=42", 6)}, 7),
       Then(Tell("shell", "MSG_SHELL_RSP", "load ok"), 2),
       Then(Tell("shell", "MSG_SHELL_RSP", "load failed"), 2),
       Done("display"), Done("input"), Done("shell"), Exit("done") >>

(* What each kernel starts: its service agents and init. *)
kernel_storage2 == [starts |-> {"storage"}, init |-> init_storage2_agent]
kernel_v1 == [starts |-> {"storage"}, init |-> init_v1_agent]
kernel_edge == [starts |-> {"storage", "router"}, init |-> init_edge_agent]
kernel_router == [starts |-> {"router"}, init |-> init_router_agent]
kernel_net == [starts |-> {"network"}, init |-> init_net_agent]
kernel_net_prod == [starts |-> {"network"}, init |-> init_net_prod_agent]
kernel_console_orch ==
    [starts |-> {"storage", "display", "input", "console"}, init |-> init_console_orch_agent]
kernel_console_session ==
    [starts |-> {"router", "display", "input", "console"}, init |-> init_console_session_agent]
kernel_desktop == [starts |-> {"display", "input", "shell"}, init |-> init_desktop_agent]

Kernel ==
    [storage2        |-> kernel_storage2,
     v1              |-> kernel_v1,
     edge            |-> kernel_edge,
     router          |-> kernel_router,
     net             |-> kernel_net,
     net_prod        |-> kernel_net_prod,
     console_orch    |-> kernel_console_orch,
     console_session |-> kernel_console_session,
     desktop         |-> kernel_desktop]

(* The slots of the agents: fixed ones, and for those that are spawned the first
   ones free. *)
Slot ==
    [init |-> 1, storage |-> 2, router |-> 6, network |-> 7, display |-> 8, input |-> 9,
     console |-> 10, shell |-> 11,
     client |-> 2, elf |-> 2, a |-> 3, b |-> 4, planner |-> 3, worker |-> 4, llm_worker |-> 5,
     rules |-> 3, edge_llm |-> 4, sensor |-> 5]

Started == [b \in DOMAIN Kernel |-> Kernel[b].starts]

Program ==
    [b \in DOMAIN Kernel |->
        [init |-> Kernel[b].init, a |-> fs_worker("note_a"), b |-> fs_worker("note_b"),
         client |-> IF b = "net" THEN net_client_worker ELSE router_client_worker,
         worker |-> IF b = "v1" THEN v1_worker_agent ELSE worker_agent,
         sensor |-> sensor_worker, rules |-> rules_worker, edge_llm |-> edge_llm_worker,
         llm_worker |-> llm_worker_agent, planner |-> planner_agent,
         console |-> handle_line, shell |-> run_desktop_shell, elf |-> worker_load]]
=============================================================================
