------------------------------ MODULE Services ------------------------------
(* The service agents, and the agents that call them by message.             *)
(*                                                                           *)
(* An agent asks a service (storage, router, network, display, input) by     *)
(* sending it a numbered request and waits in svc_recv_match for the answer  *)
(* with that number.  All the agents of a kernel are functions of one image, *)
(* so the sequence numbers, the number waited for, the receive buffer and    *)
(* the slot for a deferred message (user/agent_svc.c) are shared by all of   *)
(* them, and the timer switches agents anywhere in user code.  The stages of *)
(* a call are therefore actions of their own, one for each access to a       *)
(* shared variable.  A service shares nothing but its mailbox: receiving a   *)
(* request, serving it and answering is one action.                          *)
EXTENDS AgentPrograms, FiniteSets

CONSTANTS
    Builds,      \* the kernels explored, names in DOMAIN Started
    Urls,        \* the URLs asked for
    CachePath,   \* [Urls -> STRING], url_to_cache_path
    BOX,         \* the length of a normal queue and of a steering queue
    PROD_QUOTA_MAX,
    MAX_POLLS,   \* the shell's polls of the keyboard, 12000 in the code
    MAX_LINES    \* the lines typed at the console of each kernel, a bound of the model

ASSUME ServicesAssumption ==
    /\ Builds \subseteq DOMAIN Started
    /\ {"test", "degrade"} \subseteq Urls
    /\ BOX \in Nat \ {0}
    /\ PROD_QUOTA_MAX \in Nat
    /\ MAX_POLLS \in Nat
    /\ MAX_LINES \in [Builds -> Nat]

VARIABLES
    build,     \* the kernel booted
    box,       \* [agent -> [steer, normal]], the mailboxes
    stage,     \* [agent -> "unused", "run", a stage of a call, "done" or "failed"]
    pc,        \* [client -> the instruction it is at]
    local,     \* [client -> [id, expect, got]], its stack: request id, id awaited, last result
    statics,   \* [seq, pending, ipc_msg, deferred, have_deferred] of agent_svc.c
    files,     \* [path -> content or "none"], what storage reads and writes
    net,       \* [used, cache], the network service's quota and kept pages
    screen,    \* the text on the display
    lines,     \* lines typed so far
    ghost      \* [serial, overlap, steered, lost], for the properties only

vars == <<build, box, stage, pc, local, statics, files, net, screen, lines, ghost>>

ServiceAgents == {"storage", "router", "network", "display", "input"}
Clients == UNION {DOMAIN Program[b] : b \in DOMAIN Program}
Agents == ServiceAgents \cup Clients

Kinds == {"read", "write", "llm", "http", "display", "input"}

Service == [read |-> "storage", write |-> "storage", llm |-> "router",
            http |-> "network", display |-> "display", input |-> "input"]

ReqType == [read |-> "MSG_FS_READ", write |-> "MSG_FS_WRITE", llm |-> "MSG_LLM_REQ",
            http |-> "MSG_HTTP_REQ", display |-> "MSG_DISPLAY_REQ", input |-> "MSG_INPUT_REQ"]

RspType == [read |-> "MSG_FS_RSP", write |-> "MSG_FS_RSP", llm |-> "MSG_LLM_RSP",
            http |-> "MSG_HTTP_RSP", display |-> "MSG_DISPLAY_RSP", input |-> "MSG_INPUT_RSP"]

Failures == {"err:read", "err:write", "err:unknown", "err:offline", "err:llm", "err:http",
             "err:quota", "err:draw", "err:input"}

(* Whose call a request or an answer belongs to, a ghost the code has not. *)
Ask(c, n, k, arg) == [who |-> c, n |-> n, k |-> k, arg |-> arg]
NoAsk == Ask("kernel", 0, "none", "none")

(* An id of 0 stands for a payload without a number. *)
Msg(type, from, id, body, opt, re) ==
    [type |-> type, from |-> from, id |-> id, body |-> body, opt |-> opt, re |-> re]
Plain(type, from, body) == Msg(type, from, 0, body, "none", NoAsk)
NoMsg == Plain("MSG_NONE", "kernel", "none")

NoLocal == [id |-> 0, expect |-> 0, got |-> NoMsg]
Empty == [steer |-> <<>>, normal |-> <<>>]
CallStages == {"store", "pend", "send", "expect", "recv", "check", "use"}
InCall(c) == stage[c] \in CallStages
Gone(a) == stage[a] \in {"done", "failed"}

(* The files of an earlier boot of the edge kernel, from its disk. *)
Restored(f) == [f EXCEPT !.samples = "peak", !.llm_last = "other"]

Init ==
    /\ build \in Builds
    /\ box = [a \in Agents |-> Empty]
    /\ stage = [a \in Agents |-> IF a \in Started[build] \cup {"init"} THEN "run" ELSE "unused"]
    /\ pc = [c \in Clients |-> 1]
    /\ local = [c \in Clients |-> NoLocal]
    /\ statics = [seq |-> [k \in Kinds |-> 0], pending |-> [k \in Kinds |-> 0],
                  ipc_msg |-> NoMsg, deferred |-> NoMsg, have_deferred |-> FALSE]
    /\ files \in LET fresh == [version |-> "version", note_a |-> "none", note_b |-> "none",
                                samples |-> "none", llm_last |-> "none"]
                 IN  {fresh} \cup (IF build = "edge" THEN {Restored(fresh)} ELSE {})
    /\ net = [used |-> 0, cache |-> [p \in {CachePath[u] : u \in Urls} |->
                                       IF p = CachePath["degrade"] THEN "seed" ELSE "none"]]
    /\ screen = "none"
    /\ lines = 0
    /\ ghost = [serial |-> [c \in Clients |-> 0], overlap |-> FALSE, steered |-> FALSE,
                lost |-> FALSE]

(***************************************************************************)
(* Mailboxes.  A message for an agent that has exited is still queued.     *)
(***************************************************************************)
Queue(type) == IF type = "MSG_STEER" THEN "steer" ELSE "normal"

Accepts(b, dst, m) == stage[dst] # "unused" /\ Len(b[dst][Queue(m.type)]) < BOX

Push(b, dst, m) ==
    IF dst \in Agents /\ Accepts(b, dst, m) THEN [b EXCEPT ![dst][Queue(m.type)] = Append(@, m)] ELSE b

Mail(a) == box[a] # Empty
First(a) == IF box[a].steer # <<>> THEN "steer" ELSE "normal"
Front(a) == Head(box[a][First(a)])
Popped(a) == [box EXCEPT ![a][First(a)] = Tail(@)]

(***************************************************************************)
(* A call: agent_svc_read, agent_svc_write, agent_svc_llm, agent_svc_http, *)
(* agent_svc_display and agent_svc_input_poll differ in what they ask.     *)
(***************************************************************************)
Code(c) == Program[build][c][pc[c]]
At(c, op) == stage[c] = "run" /\ Code(c).op = op
NextPc(c) == IF "next" \in DOMAIN Code(c) THEN Code(c).next ELSE pc[c] + 1
Goto(c, n) == pc' = [pc EXCEPT ![c] = n]
Stage(c, s) == stage' = [stage EXCEPT ![c] = s]
InStage(c, s) == c \in Clients /\ stage[c] = s
World == <<files, net, screen, lines>>

(* reqid = ++svc_..._seq reads the number, *)
svc_begin(c) ==
    /\ At(c, "call")
    /\ local' = [local EXCEPT ![c].id = statics.seq[Code(c).k] + 1]
    /\ ghost' = [ghost EXCEPT !.serial[c] = @ + 1,
                              !.overlap = @ \/ \E d \in Clients \ {c} : InCall(d)]
    /\ Stage(c, "store")
    /\ UNCHANGED <<build, box, pc, statics, World>>

(* stores it, *)
svc_store(c) ==
    /\ InStage(c, "store")
    /\ statics' = [statics EXCEPT !.seq[Code(c).k] = local[c].id]
    /\ Stage(c, "pend")
    /\ UNCHANGED <<build, box, pc, local, World, ghost>>

(* Slip: the number pending is not set. *)
svc_pend_none(c) ==
    /\ InStage(c, "pend")
    /\ Stage(c, "send")
    /\ UNCHANGED <<build, box, pc, local, statics, World, ghost>>

(* and svc_..._pending_id = reqid keeps it. *)
svc_pend(c) ==
    /\ InStage(c, "pend")
    /\ statics' = [statics EXCEPT !.pending[Code(c).k] = local[c].id]
    /\ Stage(c, "send")
    /\ UNCHANGED <<build, box, pc, local, World, ghost>>

svc_send(c) ==
    LET i == Code(c)
        m == Msg(ReqType[i.k], c, local[c].id, i.arg, i.opt, Ask(c, ghost.serial[c], i.k, i.arg))
    IN  /\ InStage(c, "send")
        /\ box' = Push(box, Service[i.k], m)
        /\ IF Accepts(box, Service[i.k], m)
           THEN Stage(c, "expect") /\ UNCHANGED <<pc, local>>
           ELSE /\ Stage(c, "run")
                /\ Goto(c, i.fail)
                /\ local' = [local EXCEPT ![c].got = NoMsg]
        /\ UNCHANGED <<build, statics, World, ghost>>

(* The number awaited is read from the shared variable, not from reqid. *)
svc_expect(c) ==
    /\ InStage(c, "expect")
    /\ local' = [local EXCEPT ![c].expect = statics.pending[Code(c).k]]
    /\ Stage(c, "recv")
    /\ UNCHANGED <<build, box, pc, statics, World, ghost>>

svc_recv(c) ==
    /\ InStage(c, "recv")
    /\ \/ /\ statics.have_deferred
          /\ statics' = [statics EXCEPT !.ipc_msg = statics.deferred, !.have_deferred = FALSE]
          /\ UNCHANGED box
       \/ /\ ~statics.have_deferred
          /\ Mail(c)
          /\ statics' = [statics EXCEPT !.ipc_msg = Front(c)]
          /\ box' = Popped(c)
    /\ Stage(c, "check")
    /\ UNCHANGED <<build, pc, local, World, ghost>>

(* Slip: any answer of the right type is taken. *)
match_type(m, k, id) == m.type = RspType[k]

match_id(m, k, id) == m.type = RspType[k] /\ m.id = id

svc_check(c) ==
    LET m == statics.ipc_msg
    IN  /\ InStage(c, "check")
        /\ IF match_id(m, Code(c).k, local[c].expect)
           THEN Stage(c, "use") /\ UNCHANGED statics
           ELSE /\ statics' = [statics EXCEPT !.deferred = m, !.have_deferred = TRUE]
                /\ Stage(c, "recv")
        /\ UNCHANGED <<build, box, pc, local, World, ghost>>

(* The body is copied out of the shared buffer. *)
svc_use(c) ==
    /\ InStage(c, "use")
    /\ local' = [local EXCEPT ![c].got = statics.ipc_msg]
    /\ Goto(c, IF statics.ipc_msg.body \in Failures THEN Code(c).fail ELSE NextPc(c))
    /\ Stage(c, "run")
    /\ UNCHANGED <<build, box, statics, World, ghost>>

CallStep(c) ==
    \/ svc_store(c) \/ svc_pend(c) \/ svc_send(c) \/ svc_expect(c)
    \/ svc_recv(c) \/ svc_check(c) \/ svc_use(c)

(***************************************************************************)
(* The other instructions.                                                 *)
(***************************************************************************)
(* Only the shell looks at whether its message could be queued. *)
SendPlain(c, body) ==
    LET m == Plain(Code(c).type, c, body)
    IN  /\ box' = Push(box, Code(c).dst, m)
        /\ ghost' = [ghost EXCEPT !.lost = @ \/ ~Accepts(box, Code(c).dst, m)]
        /\ Goto(c, IF "fail" \in DOMAIN Code(c) /\ ~Accepts(box, Code(c).dst, m)
                   THEN Code(c).fail ELSE NextPc(c))
        /\ UNCHANGED <<build, stage, local, statics, World>>

agent_send_msg(c) ==
    \/ At(c, "tell") /\ SendPlain(c, Code(c).body)
    \/ At(c, "forward") /\ SendPlain(c, local[c].got.body)

agent_recv_msg(c) ==
    LET fit == {r \in Code(c).routes : r.type = Front(c).type /\ r.body = Front(c).body}
    IN  /\ At(c, "take")
        /\ Mail(c)
        /\ box' = Popped(c)
        /\ local' = [local EXCEPT ![c].got = Front(c)]
        /\ IF fit = {} THEN Goto(c, Code(c).other) ELSE \E r \in fit : Goto(c, r.to)
        /\ UNCHANGED <<build, stage, statics, World, ghost>>

Decide(c) ==
    /\ \/ /\ At(c, "test")
          /\ Goto(c, IF local[c].got.body = Code(c).want THEN Code(c).yes ELSE Code(c).no)
       \/ /\ At(c, "branch")
          /\ \E n \in Code(c).to : Goto(c, n)
       \/ /\ At(c, "again")
          /\ Goto(c, IF statics.seq["input"] < MAX_POLLS THEN Code(c).to ELSE Code(c).out)
    /\ UNCHANGED <<build, box, stage, local, statics, World, ghost>>

(* agent_llm, straight from the kernel. *)
agent_llm(c) ==
    /\ At(c, "llm")
    /\ \/ /\ local' = [local EXCEPT ![c].got = Plain("MSG_NONE", c,
                          IF @.body = "result" THEN "summary" ELSE "other")]
          /\ Goto(c, NextPc(c))
       \/ Goto(c, Code(c).fail) /\ UNCHANGED local
    /\ UNCHANGED <<build, box, stage, statics, World, ghost>>

(* agent_session_compact leaves a summary in the caller's own mailbox, unless
   there was nothing to drop. *)
agent_session_compact(c) ==
    /\ At(c, "compact")
    /\ box' \in {box, Push(box, c, Plain("MSG_SUMMARY", "kernel", "summary:"))}
    /\ Goto(c, NextPc(c))
    /\ UNCHANGED <<build, stage, local, statics, World, ghost>>

(* Any agent may be steered, the console itself too. *)
agent_send_steering(c) ==
    /\ At(c, "steer")
    /\ \E d \in Agents : box' = Push(box, d, Plain("MSG_STEER", c, "steer"))
    /\ ghost' = [ghost EXCEPT !.steered = TRUE]
    /\ Goto(c, NextPc(c))
    /\ UNCHANGED <<build, stage, local, statics, World>>

(* One agent of a name at a time: a second pipeline starts its helpers when
   those of the first have exited. *)
agent_spawn(c) ==
    LET d == Code(c).who
    IN  /\ At(c, "spawn")
        /\ stage[d] \in {"unused", "done", "failed"}
        /\ stage' = [stage EXCEPT ![d] = "run"]
        /\ pc' = [pc EXCEPT ![c] = NextPc(c), ![d] = 1]
        /\ local' = [local EXCEPT ![d] = NoLocal]
        /\ box' = [box EXCEPT ![d] = Empty]
        /\ UNCHANGED <<build, statics, World, ghost>>

agent_exit(c) ==
    /\ At(c, "exit")
    /\ Stage(c, Code(c).code)
    /\ UNCHANGED <<build, box, pc, local, statics, World, ghost>>

ProgramStep(c) ==
    \/ svc_begin(c) \/ agent_send_msg(c) \/ agent_recv_msg(c) \/ Decide(c)
    \/ agent_llm(c) \/ agent_session_compact(c) \/ agent_send_steering(c)
    \/ agent_spawn(c) \/ agent_exit(c)

(* The person at the console. *)
console_getline ==
    /\ At("console", "line")
    /\ lines < MAX_LINES[build]
    /\ lines' = lines + 1
    /\ \E n \in Code("console").to : Goto("console", n)
    /\ UNCHANGED <<build, box, stage, local, statics, files, net, screen, ghost>>

(***************************************************************************)
(* The services.                                                           *)
(***************************************************************************)
Waiting(s, type) == stage[s] = "run" /\ Mail(s) /\ Front(s).type = type

(* The answer goes to the sender with the number of the request; whether it
   could be queued is not looked at. *)
Reply(s, type, id, body) ==
    LET m == Front(s)
    IN  box' = Push(Popped(s), m.from, Msg(type, s, id, body, "none", m.re))

(* Slip: a service ends only when nothing else is queued. *)
ShutdownIdle(s) ==
    /\ Waiting(s, "MSG_PIPELINE_DONE")
    /\ Popped(s)[s] = Empty
    /\ box' = Popped(s)
    /\ Stage(s, "done")
    /\ UNCHANGED <<build, pc, local, statics, World, ghost>>

(* Every service: MSG_PIPELINE_DONE ends it, whatever is still queued; *)
Shutdown(s) ==
    /\ Waiting(s, "MSG_PIPELINE_DONE")
    /\ box' = Popped(s)
    /\ Stage(s, "done")
    /\ UNCHANGED <<build, pc, local, statics, World, ghost>>

(* a message of another type is answered without a number. *)
Unknown(s) ==
    LET k == CHOOSE j \in Kinds : Service[j] = s
    IN  /\ stage[s] = "run" /\ Mail(s)
        /\ Front(s).type \notin {ReqType[j] : j \in {i \in Kinds : Service[i] = s}}
                                \cup {"MSG_PIPELINE_DONE"}
        /\ Reply(s, RspType[k], 0, IF s = "input" THEN "err:input" ELSE "err:unknown")
        /\ UNCHANGED <<build, stage, pc, local, statics, World, ghost>>

storage_agent_main ==
    LET m == Front("storage")
    IN  /\ \/ /\ Waiting("storage", "MSG_FS_READ")
              /\ Reply("storage", "MSG_FS_RSP", m.id,
                       IF files[m.body] = "none" THEN "err:read" ELSE files[m.body])
              /\ UNCHANGED files
           \/ /\ Waiting("storage", "MSG_FS_WRITE")
              /\ \/ /\ files' = [files EXCEPT ![m.body] = m.opt]
                    /\ Reply("storage", "MSG_FS_RSP", m.id, "ok")
                 \/ Reply("storage", "MSG_FS_RSP", m.id, "err:write") /\ UNCHANGED files
        /\ UNCHANGED <<build, stage, pc, local, statics, net, screen, lines, ghost>>

router_faux(prompt) == IF prompt = "17+25" THEN "42" ELSE "ok"

router_agent_main ==
    LET m == Front("router")
    IN  /\ Waiting("router", "MSG_LLM_REQ")
        /\ \E answer \in CASE m.opt = "offline" -> {"err:offline"}
                           [] m.opt = "faux"    -> {router_faux(m.body)}
                           [] OTHER             -> {"other", "err:llm"} :
               Reply("router", "MSG_LLM_RSP", m.id, answer)
        /\ UNCHANGED <<build, stage, pc, local, statics, World, ghost>>

(* The page of a URL is named by the URL. *)
HttpReply(body) == Reply("network", "MSG_HTTP_RSP", Front("network").id, body)

(* The service without quota and cache, and both services' other requests. *)
network_agent_main ==
    LET m == Front("network")
    IN  /\ Waiting("network", "MSG_HTTP_REQ")
        /\ m.opt # "prod" \/ build = "net"
        /\ \E body \in IF m.opt = "offline" THEN {"err:offline"} ELSE {m.body, "err:http"} :
               HttpReply(body)
        /\ UNCHANGED <<build, stage, pc, local, statics, World, ghost>>

cache_write(url) == [net.cache EXCEPT ![CachePath[url]] = url]

cache_read(url) == net.cache[CachePath[url]]

(* handle_prod: the quota counts the request before it is served; a page is kept
   if its file can be written, and looked for if it cannot be fetched. *)
handle_prod ==
    LET m == Front("network")
        used == net.used + 1
    IN  /\ Waiting("network", "MSG_HTTP_REQ")
        /\ m.opt = "prod" /\ build # "net"
        /\ \/ /\ net.used >= PROD_QUOTA_MAX
              /\ HttpReply("err:quota")
              /\ UNCHANGED net
           \/ /\ net.used < PROD_QUOTA_MAX
              /\ \/ /\ net' \in [used : {used}, cache : {cache_write(m.body), net.cache}]
                    /\ HttpReply(m.body)
                 \/ /\ net' = [net EXCEPT !.used = used]
                    /\ HttpReply(CASE cache_read(m.body) # "none" -> cache_read(m.body)
                                   [] used >= PROD_QUOTA_MAX      -> "err:quota"
                                   [] OTHER                       -> "err:offline")
        /\ UNCHANGED <<build, stage, pc, local, statics, files, screen, lines, ghost>>

(* display_text_at clears, draws and flushes; each of the first two may fail. *)
display_agent_main ==
    LET m == Front("display")
    IN  /\ Waiting("display", "MSG_DISPLAY_REQ")
        /\ \/ /\ screen' = m.body
              /\ Reply("display", "MSG_DISPLAY_RSP", m.id, "ok")
           \/ /\ screen' \in {screen, "blank"}
              /\ Reply("display", "MSG_DISPLAY_RSP", m.id, "err:draw")
        /\ UNCHANGED <<build, stage, pc, local, statics, files, net, lines, ghost>>

input_agent_main ==
    /\ Waiting("input", "MSG_INPUT_REQ")
    /\ \E code \in {"err:input", "none", "key"} :
           Reply("input", "MSG_INPUT_RSP", Front("input").id, code)
    /\ UNCHANGED <<build, stage, pc, local, statics, World, ghost>>

Serve(s) ==
    \/ Shutdown(s)
    \/ Unknown(s)
    \/ s = "storage" /\ storage_agent_main
    \/ s = "router"  /\ router_agent_main
    \/ s = "network" /\ (network_agent_main \/ handle_prod)
    \/ s = "display" /\ display_agent_main
    \/ s = "input"   /\ input_agent_main

Running == {a \in Agents : stage[a] = "run"}
Calling == {c \in Clients : InCall(c)}

Calls == \E c \in Calling : CallStep(c)
Programs == \E c \in Running \cap Clients : ProgramStep(c)
Serves == \E s \in Running \cap ServiceAgents : Serve(s)

Next == Calls \/ Programs \/ Serves \/ console_getline

Spec == Init /\ [][Next]_vars

(* pick_next: of the agents that hold mail the one in the lowest slot, whether or
   not it is going to take it; if there are none, the ready queue in turn. *)
Holders == {a \in Agents : stage[a] # "unused" /\ ~Gone(a) /\ Mail(a)}
Picked(a) == a \in Holders /\ \A h \in Holders : Slot[a] <= Slot[h]

MailFirst ==
    \/ \E c \in Calling : Picked(c) /\ CallStep(c)
    \/ \E c \in Running \cap Clients : Picked(c) /\ ProgramStep(c)
    \/ \E s \in Running \cap ServiceAgents : Picked(s) /\ Serve(s)

(* An agent that is picked and can go on does.  Of the ready queue less is
   assumed than that it serves everyone: that those in a call and those between
   calls each get on as a group.  Nobody has to type a line. *)
FairSpec ==
    /\ Spec
    /\ WF_vars(MailFirst)
    /\ WF_vars(Holders = {} /\ Calls)
    /\ WF_vars(Holders = {} /\ Programs)

(***************************************************************************)
(* Properties.                                                             *)
(***************************************************************************)

(* Every agent is somewhere in its program, no queue is over its length, and
   a number pending has been given out, if no calls overlapped. *)
TypeOK ==
    /\ build \in Builds
    /\ \A a \in Agents :
          /\ stage[a] \in {"unused", "run", "done", "failed"} \cup CallStages
          /\ Len(box[a].steer) <= BOX /\ Len(box[a].normal) <= BOX
    /\ \A c \in Clients : stage[c] # "unused" => pc[c] \in DOMAIN Program[build][c]
    /\ ghost.overlap \/ \A k \in Kinds : statics.pending[k] <= statics.seq[k]
    /\ statics.have_deferred \in BOOLEAN
    /\ net.used \in 0 .. PROD_QUOTA_MAX
    /\ lines \in 0 .. MAX_LINES[build]

(* As long as no two agents have been in a call at the same time: what a call
   returned is the answer to that very call, not to an earlier one, and what
   it reports done is done: the text is on the screen, the file is written, and
   what was read is in the file. *)
CallServed ==
    \A c \in Clients :
        LET g == local[c].got
        IN  stage[c] = "run" /\ g.re # NoAsk /\ ~ghost.overlap
            => /\ g.re.who = c /\ g.re.n = ghost.serial[c]
               /\ g.body = "ok" /\ g.re.k = "display" => screen = g.re.arg
               /\ g.body = "ok" /\ g.re.k = "write" => files[g.re.arg] # "none"
               /\ g.body \notin Failures /\ g.re.k = "read" => files[g.re.arg] = g.body

(* Only the kernels whose agents are not ordered by their messages, storage2
   and the console with its pipeline, ever have two agents in a call at once:
   in the others a message or an exit stands between one caller and the next. *)
OneCaller == ghost.overlap => build \in {"storage2", "console_orch"}

(* A page returned for a URL is that URL's page, fetched now or kept from an
   earlier time, provided no two URLs have the same cache path. *)
PageOfUrl ==
    \A c \in Clients :
        LET g == local[c].got
        IN  stage[c] = "run" /\ g.re.k = "http" /\ g.body \notin Failures
            => g.body = g.re.arg \/ (g.re.arg = "degrade" /\ g.body = "seed")

(* The planner reports the pipeline complete when it holds the summary of the
   worker's result, unless someone steered an agent or calls overlapped. *)
PipelineRight ==
    stage["planner"] = "run" /\ pc["planner"] = 7 /\ ~ghost.steered /\ ~ghost.overlap
    => local["planner"].got.body = "summary"

Foreign(c, m) == m.re.who # c \/ m.re.n # ghost.serial[c]

(* A message that is not the awaited answer waits for c, in the slot or in the
   buffer. *)
Strayed(c) ==
    \/ \E q \in {"steer", "normal"} : \E i \in DOMAIN box[c][q] : Foreign(c, box[c][q][i])
    \/ statics.have_deferred /\ Foreign(c, statics.deferred)
    \/ stage[c] = "check" /\ Foreign(c, statics.ipc_msg)

(* pick_next prefers for ever an agent that does not take its mail: the console
   waiting for a line with a message left in its mailbox, or an agent whose call
   found a message it did not wait for. *)
Hogged ==
    \/ At("console", "line") /\ Mail("console")
    \/ \E c \in Clients : InCall(c) /\ Strayed(c)

(* A call returns, although nothing in it times out and agents with mail go
   before it, unless another message came in its way, such an agent is preferred
   for ever, a service was stopped, or calls overlapped. *)
CallReturns ==
    (\E c \in Clients : InCall(c))
    ~> \/ \A c \in Clients : ~InCall(c)
       \/ ghost.overlap \/ []Hogged
       \/ \E s \in ServiceAgents : Gone(s)

(* A pipeline once started is reported complete, unless a worker gave up, a
   message found a full queue, an agent with mail is preferred for ever, or
   someone interfered. *)
PipelineEnds ==
    build = "console_orch" /\ pc["init"] = 3
    ~> \/ pc["init"] = 1
       \/ stage["worker"] = "failed" \/ stage["llm_worker"] = "failed"
       \/ ghost.lost \/ ghost.steered \/ ghost.overlap \/ []Hogged

(* When init has finished its work every service agent of the kernel stops,
   whatever requests are still queued for it. *)
ServicesStop ==
    stage["init"] = "done" ~> \A s \in Started[build] \cap ServiceAgents : Gone(s)

(* Two workers that use the storage service at the same time each read back
   what they wrote, because answers are matched by request number. *)
ReadBack ==
    \A c \in {"a", "b"} :
        stage[c] = "run" /\ pc[c] = 4 => local[c].got.body = Code(c).want

(* The state invariants of the agents: queues and numbers within their bounds,
   one caller at a time in the kernels that are ordered by messages, and a
   planner that reports the pipeline complete when it is. *)
ServicesInv == TypeOK /\ OneCaller /\ PipelineRight

(* What a call returns is the answer to it, and a page is the page asked for. *)
AnswersRight == CallServed /\ PageOfUrl
=============================================================================
