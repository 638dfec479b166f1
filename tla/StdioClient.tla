---------------------------- MODULE StdioClient ----------------------------
(***************************************************************************)
(* One connection to a downstream MCP server over stdio:                   *)
(* internal/connector/stdio, Open, one call, Close.                        *)
(*                                                                         *)
(* The caller sends one request at a time and waits for a response, an     *)
(* error of the reader, or its context.  readLoop takes lines from the     *)
(* server's stdout and hands responses over through a channel; another     *)
(* goroutine runs cmd.Wait.  The server may say anything at any time, hang *)
(* or exit, and may have a child process that inherited its output.        *)
(***************************************************************************)
EXTENDS Naturals, Sequences

CONSTANTS
  Kinds,     \* kinds of capabilities that are called
  Buffer,    \* capacity of the responses channel (8)
  MaxPages,  \* pages of a listing (32)
  Helpers,   \* may the server have a child process?
  Pipe,      \* bound: lines the stdout pipe holds
  MaxExtra   \* bound: messages nobody asked for

ASSUME StdioAssumption ==
  /\ Kinds \subseteq {"tool", "prompt", "resource"}
  /\ Buffer \in Nat /\ MaxPages \in Nat \ {0}
  /\ Helpers \in BOOLEAN
  /\ Pipe \in Nat \ {0} /\ MaxExtra \in Nat

Offers == {"same", "drifted", "absent"}
Methods == {"discover", "list", "call"}
Bodies == Offers \cup {"ok", "more", "no method", "bad", "garbage", "notification"}

Request == [id : Nat, method : Methods, list : 1..3]
Message == [id : Nat, to : Methods \cup {"nobody"}, body : Bodies]
Nothing == [id |-> 0, to |-> "nobody", body |-> "notification"]
Idle == [id |-> 0, method |-> "discover", list |-> 1]
Unasked == {[id |-> 0, to |-> "nobody", body |-> b] : b \in {"garbage", "notification", "ok"}}

VARIABLES
  kind, offers,                   \* the capability selected, what the server has of it
  pc, method, list, page, id,     \* the caller; id is nextID
  found, answer, outcome,
  cancelled, expired,             \* the call's context; the startup deadline
  server, helper, doing, last, extra,
  stdin, stdout,                  \* pipes
  reader, held, responses, readErr,
  waiter                          \* the goroutine in cmd.Wait

selection == <<kind, offers>>
progress == <<method, list, page, id, found>>
results == <<answer, outcome>>
caller == <<pc, progress, results>>
contexts == <<cancelled, expired>>
process == <<server, helper, doing, last, extra>>
pipes == <<stdin, stdout>>
channels == <<reader, held, responses, readErr>>
vars == <<selection, caller, contexts, process, pipes, channels, waiter>>

Init ==
  /\ kind \in Kinds /\ offers \in Offers
  /\ pc = "start" /\ method = "discover" /\ list = 1 /\ page = 1 /\ id = 0
  /\ found = "absent" /\ answer = Nothing /\ outcome = "none"
  /\ cancelled = FALSE /\ expired = FALSE
  /\ server = "none" /\ helper = FALSE /\ doing = Idle /\ last = Nothing /\ extra = 0
  /\ stdin = <<>> /\ stdout = <<>>
  /\ reader = "reading" /\ held = Nothing /\ responses = <<>> /\ readErr = FALSE
  /\ waiter = "waiting"

(* A tool is looked for among the tools; for the other kinds tools, prompts *)
(* and resource templates are listed.                                      *)
Lists == IF kind = "tool" THEN 1 ELSE 3
Home == CASE kind = "tool" -> 1 [] kind = "prompt" -> 2 [] kind = "resource" -> 3

---------------------------------------------------------------------------
(* The caller. *)

Start ==
  /\ pc = "start"
  /\ pc' = "send" /\ server' = "running"
  /\ helper' \in {FALSE, Helpers}
  /\ UNCHANGED <<selection, progress, results, contexts, doing, last, extra, pipes, channels, waiter>>

StartFails ==
  /\ pc = "start"
  /\ pc' = "done" /\ outcome' = "failed"
  /\ UNCHANGED <<selection, progress, answer, contexts, process, pipes, channels, waiter>>

(* mutant: an error return that forgets to close the client *)
GiveUpUnclosed(why) == outcome' = why /\ pc' = "done"

GiveUp(why) == outcome' = why /\ pc' = "close"

(* Nobody will read what is written. *)
Broken == server = "exited" /\ (~helper \/ waiter = "sent")

(* The arguments of a call may be more than the pipe takes; the write then *)
(* waits for the server, and for nothing else.                             *)
Write ==
  /\ pc = "send" /\ ~Broken
  /\ id' = id + 1
  /\ stdin' = Append(stdin, [id |-> id', method |-> method, list |-> list])
  /\ pc' \in IF method = "call" THEN {"await", "writing"} ELSE {"await"}
  /\ UNCHANGED <<selection, method, list, page, found, results, contexts, process, stdout, channels, waiter>>

Written ==
  /\ pc = "writing" /\ stdin = <<>>
  /\ pc' = "await"
  /\ UNCHANGED <<selection, progress, results, contexts, process, pipes, channels, waiter>>

WriteFails ==
  /\ pc \in {"send", "writing"} /\ Broken
  /\ GiveUp("failed")
  /\ UNCHANGED <<selection, progress, answer, contexts, process, pipes, channels, waiter>>

(* mutant: the startup timeout is not applied *)
DoneCancelled == cancelled

(* ctx.Done, of startupCtx or of the call's context. *)
Done == cancelled \/ (expired /\ method # "call")

ContextDone ==
  /\ pc = "await" /\ Done
  /\ server' = "exited"
  /\ GiveUp("expired")
  /\ UNCHANGED <<selection, progress, answer, contexts, helper, doing, last, extra, pipes,
                 channels, waiter>>

ReadFailed ==
  /\ pc = "await" /\ readErr
  /\ readErr' = FALSE
  /\ GiveUp("failed")
  /\ UNCHANGED <<selection, progress, answer, contexts, process, pipes, reader, held, responses, waiter>>

GoOn(step) == pc' = step /\ UNCHANGED results

Discovered(body) ==
  /\ method = "discover" /\ body \in {"ok", "no method"}
  /\ method' = "list"
  /\ GoOn("send")
  /\ UNCHANGED <<list, page, found>>

NextPage(body) ==
  /\ method = "list" /\ body = "more" /\ page < MaxPages
  /\ page' = page + 1
  /\ GoOn("send")
  /\ UNCHANGED <<method, list, found>>

(* The end of a listing; prompts and templates may be unsupported. *)
Listed(body) ==
  /\ method = "list"
  /\ body \in Offers \cup {"ok"} \/ (body = "no method" /\ list > 1)
  /\ found' = IF body \in Offers THEN body ELSE found

NextList(body) ==
  /\ Listed(body) /\ list < Lists
  /\ list' = list + 1 /\ page' = 1
  /\ GoOn("send")
  /\ UNCHANGED method

(* mutant: the capability is there, its schema is not compared *)
VerifiedPresent(definition) == definition # "absent"

Verified(definition) == definition = "same"

Opened(body) ==
  /\ Listed(body) /\ list = Lists
  /\ Verified(found')
  /\ GoOn("opened")
  /\ UNCHANGED <<method, list, page>>

NotOpened(body) ==
  /\ Listed(body) /\ list = Lists
  /\ ~Verified(found')
  /\ GiveUp("failed") /\ UNCHANGED answer
  /\ UNCHANGED <<method, list, page>>

Answered(response) ==
  /\ method = "call" /\ response.body \notin {"bad", "no method"}
  /\ answer' = response /\ outcome' = "answered" /\ pc' = "close"
  /\ UNCHANGED <<method, list, page, found>>

(* An error response, a page too many, a result that cannot be used. *)
Refused(body) ==
  /\ CASE method = "discover" -> body \notin {"ok", "no method"}
       [] method = "list" -> \/ body \in {"bad", "more"} /\ (body = "more" => page = MaxPages)
                             \/ body = "no method" /\ list = 1
       [] method = "call" -> body \in {"bad", "no method"}
  /\ GiveUp("failed") /\ UNCHANGED answer
  /\ UNCHANGED <<method, list, page, found>>

(* mutant: whatever comes next is taken for the response *)
MatchesAny(response) == TRUE

Matches(response) == response.id = id

Receive ==
  /\ pc = "await" /\ responses # <<>>
  /\ responses' = Tail(responses)
  /\ LET response == Head(responses) IN
       \/ /\ Matches(response)
          /\ \/ Discovered(response.body) \/ NextPage(response.body) \/ NextList(response.body)
             \/ Opened(response.body) \/ NotOpened(response.body)
             \/ Answered(response) \/ Refused(response.body)
       \/ /\ ~Matches(response)
          /\ GiveUp("failed") /\ UNCHANGED <<answer, method, list, page, found>>
  /\ UNCHANGED <<selection, id, contexts, process, pipes, reader, held, readErr, waiter>>

Call ==
  /\ pc = "opened"
  /\ pc' = "send" /\ method' = "call"
  /\ UNCHANGED <<selection, list, page, id, found, results, contexts, process, pipes, channels, waiter>>

---------------------------------------------------------------------------
(* Close: end of input, two seconds, then kill. *)

Waited ==
  /\ pc \in {"close", "killed"} /\ waiter = "sent"
  /\ pc' = "done" /\ waiter' = "received"
  /\ UNCHANGED <<selection, progress, results, contexts, process, pipes, channels>>

ForceKill ==
  /\ pc = "close" /\ waiter # "sent"
  /\ pc' = "killed" /\ server' = "exited"
  /\ UNCHANGED <<selection, progress, results, contexts, helper, doing, last, extra, pipes,
                 channels, waiter>>

CallerStep ==
  \/ Start \/ StartFails \/ Write \/ Written \/ WriteFails \/ ContextDone \/ ReadFailed \/ Receive
  \/ Call \/ Waited \/ ForceKill

---------------------------------------------------------------------------
(* readLoop *)

StdoutOpen == waiter = "waiting"

Scan ==
  /\ reader = "reading" /\ StdoutOpen /\ stdout # <<>>
  /\ stdout' = Tail(stdout)
  /\ LET line == Head(stdout) IN
       CASE line.body = "notification" -> UNCHANGED <<reader, held, readErr>>
         [] line.body = "garbage" -> reader' = "done" /\ readErr' = TRUE /\ UNCHANGED held
         [] OTHER -> reader' = "sending" /\ held' = line /\ UNCHANGED readErr
  /\ UNCHANGED <<selection, caller, contexts, process, stdin, responses, waiter>>

Push ==
  /\ reader = "sending" /\ Len(responses) < Buffer
  /\ responses' = Append(responses, held) /\ held' = Nothing
  /\ reader' = "reading"
  /\ UNCHANGED <<selection, caller, contexts, process, pipes, readErr, waiter>>

(* End of file, or a pipe that cmd.Wait closed under the reader. *)
EndOfOutput ==
  /\ reader = "reading"
  /\ ~StdoutOpen \/ (stdout = <<>> /\ server = "exited" /\ ~helper)
  /\ reader' = "done" /\ readErr' = TRUE
  /\ UNCHANGED <<selection, caller, contexts, process, pipes, held, responses, waiter>>

ReaderStep == Scan \/ Push \/ EndOfOutput

---------------------------------------------------------------------------
(* cmd.Wait: the process ends, whoever holds stderr ends, the client's ends *)
(* of the pipes are closed.                                                *)

ProcessEnds ==
  /\ waiter = "waiting" /\ server = "exited" /\ ~helper
  /\ waiter' = "sent"
  /\ UNCHANGED <<selection, caller, contexts, process, pipes, channels>>

(* exec.CommandContext kills the process when the call's context is done. *)
KillOnCancel ==
  /\ cancelled /\ server = "running"
  /\ server' = "exited"
  /\ UNCHANGED <<selection, caller, contexts, helper, doing, last, extra, pipes, channels, waiter>>

Cancel ==
  /\ pc \notin {"start", "done"} /\ ~cancelled
  /\ cancelled' = TRUE
  /\ UNCHANGED <<selection, caller, expired, process, pipes, channels, waiter>>

DeadlinePasses ==
  /\ pc \in {"send", "await"} /\ method # "call" /\ ~expired
  /\ expired' = TRUE
  /\ UNCHANGED <<selection, caller, cancelled, process, pipes, channels, waiter>>

---------------------------------------------------------------------------
(* The server. *)

ServerReads ==
  /\ server = "running" /\ doing = Idle /\ stdin # <<>>
  /\ doing' = Head(stdin) /\ stdin' = Tail(stdin)
  /\ UNCHANGED <<selection, caller, contexts, server, helper, last, extra, stdout,
                 channels, waiter>>

Replies(request) ==
  CASE request.method = "discover" -> {"ok", "no method", "bad"}
    [] request.method = "list" ->
         {"more", "no method", "bad", IF request.list = Home THEN offers ELSE "ok"}
    [] request.method = "call" -> {"ok", "bad"}

ServerReplies ==
  /\ server = "running" /\ doing # Idle /\ Len(stdout) < Pipe
  /\ \E body \in Replies(doing) : last' = [id |-> doing.id, to |-> doing.method, body |-> body]
  /\ stdout' = Append(stdout, last') /\ doing' = Idle
  /\ UNCHANGED <<selection, caller, contexts, server, helper, extra, stdin, channels, waiter>>

(* A notification, nonsense, a response to nothing, a response once more. *)
ServerSays ==
  /\ server = "running" /\ extra < MaxExtra /\ Len(stdout) < Pipe
  /\ \E message \in Unasked \cup {last} : stdout' = Append(stdout, message)
  /\ extra' = extra + 1
  /\ UNCHANGED <<selection, caller, contexts, server, helper, doing, last, stdin,
                 channels, waiter>>

ServerExits ==
  /\ server = "running"
  /\ server' = "exited"
  /\ UNCHANGED <<selection, caller, contexts, helper, doing, last, extra, pipes, channels, waiter>>

HelperExits ==
  /\ helper /\ helper' = FALSE
  /\ UNCHANGED <<selection, caller, contexts, server, doing, last, extra, pipes, channels, waiter>>

Environment == Cancel \/ ServerReads \/ ServerReplies \/ ServerSays \/ ServerExits \/ HelperExits

Next == CallerStep \/ ReaderStep \/ ProcessEnds \/ KillOnCancel \/ DeadlinePasses \/ Environment

Spec == Init /\ [][Next]_vars

(* Goroutines run and timers fire.  The server owes nothing. *)
FairSpec ==
  /\ Spec
  /\ WF_vars(CallerStep) /\ WF_vars(ReaderStep)
  /\ WF_vars(ProcessEnds) /\ WF_vars(KillOnCancel) /\ WF_vars(DeadlinePasses)

---------------------------------------------------------------------------
CallerTypes ==
  /\ kind \in Kinds /\ offers \in Offers
  /\ pc \in {"start", "send", "writing", "await", "opened", "close", "killed", "done"}
  /\ method \in Methods /\ list \in 1..3 /\ page \in 1..MaxPages /\ id \in Nat
  /\ found \in Offers /\ answer \in Message
  /\ outcome \in {"none", "failed", "expired", "answered"}
  /\ cancelled \in BOOLEAN /\ expired \in BOOLEAN
ServerTypes ==
  /\ server \in {"none", "running", "exited"} /\ helper \in BOOLEAN
  /\ doing \in Request /\ last \in Message /\ extra \in 0..MaxExtra
  /\ waiter \in {"waiting", "sent", "received"}
ChannelTypes ==
  /\ stdin \in Seq(Request) /\ stdout \in Seq(Message)
  /\ reader \in {"reading", "sending", "done"} /\ held \in Message
  /\ responses \in Seq(Message) /\ Len(responses) <= Buffer /\ readErr \in BOOLEAN
TypeOK == CallerTypes /\ ServerTypes /\ ChannelTypes

(* A call is answered with what the server wrote in reply to it, never     *)
(* with a repeated or unsolicited response still under way.                *)
OwnAnswer == outcome = "answered" => answer.to = "call" /\ answer.id = id

(* Whichever way a session ends, the process has ended before and was      *)
(* waited for.                                                             *)
NothingLeft == pc = "done" /\ server # "none" => server = "exited" /\ waiter = "received"

Asked ==
  \/ \E i \in DOMAIN stdin : stdin[i].method = "call"
  \/ doing.method = "call" \/ last.to = "call"

(* "proof that live schema drift prevents tools/call", and the rest of     *)
(* what Connector promises, told from what the server has received.        *)
C == INSTANCE Connector WITH
  same <- offers = "same",
  stage <- IF pc = "done" THEN "closed"
           ELSE IF pc = "opened" \/ method = "call" THEN "open" ELSE "new",
  asked <- Asked,
  answered <- outcome = "answered"

ImplementsConnector == C!Spec

(* Opening ends within the startup timeout, whatever the server does,      *)
(* unless a child process of the server keeps its output open for good,    *)
(* and closing returns with the same exception.                            *)
SessionEnds ==
  /\ (server # "none" /\ method # "call") ~> (pc \in {"opened", "done"} \/ []helper)
  /\ pc = "close" ~> (pc = "done" \/ []helper)

(* Not kept by the code: a call that is cancelled returns.  A child of the *)
(* server that holds its output keeps cmd.Wait, and so Close, waiting.     *)
CancelEnds == cancelled ~> pc = "done"

(* Not kept by the code: the reply to the call, written before the server  *)
(* exited, is the result.                                                  *)
ReplyHeard ==
  (pc = "close" /\ outcome = "failed") => ~(last.to = "call" /\ last.body = "ok" /\ extra = 0)

(* Not kept by the code: the reader ends with the session.  With the       *)
(* channel full it waits for a caller that will not come.                  *)
ReaderEnds == pc = "done" /\ server # "none" ~> reader = "done"
=============================================================================
