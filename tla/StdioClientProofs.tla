-------------------------- MODULE StdioClientProofs --------------------------
(***************************************************************************)
(* A session keeps what Connector promises and leaves nothing behind, for  *)
(* any kinds, channel and pipe sizes and number of pages.                  *)
(***************************************************************************)
EXTENDS StdioClient, TLAPS

USE StdioAssumption DEF StdioAssumption

Waits == {"writing", "await"}
Over == {"close", "killed", "done"}

LEMMA DataTypes == Nothing \in Message /\ Idle \in Request /\ Unasked \subseteq Message
<1>1. Nothing \in Message /\ Idle \in Request
  BY DEF Nothing, Message, Idle, Request, Methods, Bodies
<1>2. Unasked \subseteq Message
  <2>1. \A b \in {"garbage", "notification", "ok"} : [id |-> 0, to |-> "nobody", body |-> b] \in Message
    BY DEF Message, Bodies
  <2>2. QED
    BY <2>1 DEF Unasked
<1>3. QED
  BY <1>1, <1>2

(* What is under way in either direction, by its id and what it is about.  *)
Requests == {stdin[i] : i \in DOMAIN stdin} \cup {doing}
Messages == {stdout[i] : i \in DOMAIN stdout} \cup {responses[i] : i \in DOMAIN responses}
            \cup {held, last}

(* An id is used once: what carries the newest one belongs to the request  *)
(* the caller waits for, and only a call that was sent is about a call.    *)
MarkOK(n, about) ==
  /\ n <= id
  /\ pc \in Waits /\ n = id => about = method
  /\ about = "call" => n = id /\ method = "call" /\ pc # "send"
MarkInv ==
  /\ \A r \in Requests : MarkOK(r.id, r.method)
  /\ \A m \in Messages : MarkOK(m.id, m.to)
(* Only what the server offers is listed. *)
BodyInv == \A m \in Messages : m.body = "same" => offers = "same"
(* Requests are read and answered in the order of their ids. *)
OrderInv ==
  /\ doing # Idle => last.id < doing.id
  /\ \A i \in DOMAIN stdin : last.id < stdin[i].id /\ doing.id < stdin[i].id
  /\ \A i, j \in DOMAIN stdin : i < j => stdin[i].id < stdin[j].id
PlaceInv ==
  /\ pc = "start" => server = "none" /\ method = "discover"
  /\ pc \in Waits => id # 0
  /\ pc \in Waits /\ method = "call" => Asked
  /\ pc = "opened" => method = "list"
  /\ method = "call" => offers = "same"
  /\ pc = "opened" => offers = "same"
  /\ outcome = "answered" => pc \in Over /\ method = "call" /\ answer.to = "call" /\ answer.id = id
  /\ found = "same" => offers = "same"
EndInv ==
  /\ waiter # "waiting" => server = "exited"
  /\ pc = "done" /\ server # "none" => waiter = "received"
Inv == TypeOK /\ MarkInv /\ BodyInv /\ OrderInv /\ PlaceInv /\ EndInv

LEMMA InvInit == Init => Inv
<1> SUFFICES ASSUME Init PROVE Inv
  OBVIOUS
<1>1. TypeOK
  <2>1. page \in 1..MaxPages /\ list \in 1..3 /\ id \in Nat
    BY DEF Init
  <2>2. method \in Methods /\ found \in Offers /\ kind \in Kinds /\ offers \in Offers
    BY DEF Init, Methods, Offers
  <2>3. CallerTypes
    BY <2>1, <2>2, DataTypes DEF Init, CallerTypes
  <2>4. extra \in 0..MaxExtra
    BY DEF Init
  <2>5. ServerTypes
    BY <2>4, DataTypes DEF Init, ServerTypes
  <2>6. stdin \in Seq(Request) /\ stdout \in Seq(Message) /\ responses \in Seq(Message)
    BY DEF Init
  <2>7. Len(responses) <= Buffer
    BY DEF Init
  <2>8. ChannelTypes
    BY <2>6, <2>7, DataTypes DEF Init, ChannelTypes
  <2>9. QED
    BY <2>3, <2>5, <2>8 DEF TypeOK
<1>2. Requests = {Idle} /\ Messages = {Nothing}
  <2>1. DOMAIN stdin = {} /\ DOMAIN stdout = {} /\ DOMAIN responses = {}
    BY DEF Init
  <2>2. QED
    BY <2>1 DEF Init, Requests, Messages
<1>3. /\ Idle.id = 0 /\ Idle.method = "discover"
      /\ Nothing.id = 0 /\ Nothing.to = "nobody" /\ Nothing.body = "notification"
  BY DEF Idle, Nothing
<1>4. MarkInv /\ BodyInv
  BY <1>2, <1>3 DEF Init, MarkInv, MarkOK, BodyInv, Waits
<1>5. OrderInv /\ PlaceInv /\ EndInv
  BY DEF Init, OrderInv, PlaceInv, EndInv, Waits, Offers
<1>6. QED
  BY <1>1, <1>4, <1>5 DEF Inv

-----------------------------------------------------------------------------
(* Types *)
LEMMA TypeStep == TypeOK /\ [Next]_vars => TypeOK'
<1> SUFFICES ASSUME TypeOK, [Next]_vars PROVE TypeOK'
  OBVIOUS
<1> USE DEF TypeOK
<1>1. CASE Start \/ StartFails \/ Written \/ WriteFails \/ ContextDone \/ ReadFailed \/ Call \/ Waited \/ ForceKill
  <2> USE DEF Start, StartFails, Written, WriteFails, ContextDone, ReadFailed, Call, Waited, ForceKill, GiveUp,
              selection, progress, results, contexts, process, pipes, channels
  <2>1. CallerTypes'
    BY <1>1 DEF CallerTypes, Methods
  <2>2. ServerTypes'
    BY <1>1 DEF ServerTypes
  <2>3. ChannelTypes'
    BY <1>1 DEF ChannelTypes
  <2>4. QED
    BY <2>1, <2>2, <2>3
<1>2. CASE Write
  <2>1. id' \in Nat /\ [id |-> id', method |-> method, list |-> list] \in Request
    BY <1>2 DEF Write, Request, CallerTypes
  <2>2. CallerTypes' /\ ServerTypes'
    BY <1>2, <2>1 DEF Write, selection, results, contexts, process, CallerTypes, ServerTypes
  <2>3. ChannelTypes'
    BY <1>2, <2>1 DEF Write, channels, ChannelTypes
  <2>4. QED
    BY <2>2, <2>3
<1>3. CASE Receive
  <2> DEFINE response == Head(responses)
  <2>1. responses' \in Seq(Message) /\ Len(responses') <= Buffer /\ response \in Message
    BY <1>3 DEF Receive, ChannelTypes
  <2>2. response.body \in Bodies
    BY <2>1 DEF Message
  <2>3. /\ pc' \in {"send", "opened", "close"} /\ method' \in Methods /\ list' \in 1..3
        /\ page' \in 1..MaxPages /\ found' \in Offers /\ answer' \in Message
        /\ outcome' \in {"none", "failed", "expired", "answered"}
    <3>1. CASE ~Matches(response)
      <4>1. pc' = "close" /\ outcome' = "failed" /\ UNCHANGED <<answer, method, list, page, found>>
        BY <1>3, <3>1 DEF Receive, GiveUp
      <4>2. QED
        BY <4>1 DEF CallerTypes
    <3>2. CASE Discovered(response.body) \/ NextPage(response.body)
      <4>1. pc' = "send" /\ answer' = answer /\ outcome' = outcome
        BY <3>2 DEF Discovered, NextPage, GoOn, results
      <4>2. method' \in Methods
        BY <3>2 DEF Discovered, NextPage, CallerTypes, Methods
      <4>3. list' \in 1..3 /\ found' \in Offers
        BY <3>2 DEF Discovered, NextPage, CallerTypes
      <4>4. page' \in 1..MaxPages
        <5>1. page \in Nat /\ page >= 1 /\ page <= MaxPages /\ MaxPages \in Nat
          BY DEF CallerTypes
        <5>2. page' = page \/ (page' = page + 1 /\ page < MaxPages)
          BY <3>2 DEF Discovered, NextPage
        <5>3. QED
          BY <5>1, <5>2
      <4>5. QED
        BY <4>1, <4>2, <4>3, <4>4 DEF CallerTypes
    <3>6. CASE NextList(response.body)
      <4>1. pc' = "send" /\ answer' = answer /\ outcome' = outcome
        BY <3>6 DEF NextList, GoOn, results
      <4>2. method' \in Methods /\ list' \in 1..3
        BY <3>6 DEF NextList, CallerTypes, Lists
      <4>3. page' \in 1..MaxPages
        BY <3>6 DEF NextList, CallerTypes
      <4>4. found' \in Offers
        BY <3>6 DEF NextList, Listed, CallerTypes
      <4>5. QED
        BY <4>1, <4>2, <4>3, <4>4 DEF CallerTypes
    <3>3. CASE Opened(response.body) \/ NotOpened(response.body)
      BY <3>3 DEF Opened, NotOpened, Listed, GoOn, GiveUp, results, CallerTypes
    <3>4. CASE Answered(response) \/ Refused(response.body)
      BY <2>1, <3>4 DEF Answered, Refused, GiveUp, CallerTypes
    <3>5. QED
      BY <1>3, <3>1, <3>2, <3>3, <3>4, <3>6 DEF Receive
  <2>4. CallerTypes'
    BY <1>3, <2>3 DEF Receive, selection, contexts, CallerTypes
  <2>5. ServerTypes' /\ ChannelTypes'
    BY <1>3, <2>1 DEF Receive, process, pipes, ServerTypes, ChannelTypes
  <2>6. QED
    BY <2>4, <2>5
<1>4. CASE ReaderStep
  <2>1. CallerTypes' /\ ServerTypes'
    BY <1>4 DEF ReaderStep, Scan, Push, EndOfOutput, selection, caller, progress, results, contexts, process,
                CallerTypes, ServerTypes
  <2>2. CASE Scan
    <3>1. stdout' \in Seq(Message) /\ Head(stdout) \in Message
      BY <2>2 DEF Scan, ChannelTypes
    <3>2. reader' \in {"reading", "sending", "done"} /\ held' \in Message /\ readErr' \in BOOLEAN
      BY <2>2, <3>1 DEF Scan, ChannelTypes
    <3>3. QED
      BY <2>1, <2>2, <3>1, <3>2 DEF Scan, ChannelTypes
  <2>3. CASE Push
    BY <2>1, <2>3, DataTypes DEF Push, pipes, ChannelTypes
  <2>4. CASE EndOfOutput
    BY <2>1, <2>4 DEF EndOfOutput, pipes, ChannelTypes
  <2>5. QED
    BY <1>4, <2>2, <2>3, <2>4 DEF ReaderStep
<1>5. CASE ProcessEnds \/ KillOnCancel \/ DeadlinePasses \/ Cancel \/ ServerExits \/ HelperExits
  <2> USE DEF ProcessEnds, KillOnCancel, DeadlinePasses, Cancel, ServerExits, HelperExits,
              selection, caller, progress, results, contexts, process, pipes, channels
  <2>1. CallerTypes'
    BY <1>5 DEF CallerTypes
  <2>2. ServerTypes' /\ ChannelTypes'
    BY <1>5 DEF ServerTypes, ChannelTypes
  <2>3. QED
    BY <2>1, <2>2
<1>6. CASE ServerReads \/ ServerReplies \/ ServerSays
  <2>1. CallerTypes'
    BY <1>6 DEF ServerReads, ServerReplies, ServerSays, selection, caller, progress, results, contexts, CallerTypes
  <2>2. CASE ServerReads
    BY <2>1, <2>2 DEF ServerReads, channels, ServerTypes, ChannelTypes
  <2>3. CASE ServerReplies
    <3>1. PICK body \in Replies(doing) : last' = [id |-> doing.id, to |-> doing.method, body |-> body]
      BY <2>3 DEF ServerReplies
    <3>2. doing.id \in Nat /\ doing.method \in Methods
      BY DEF ServerTypes, Request
    <3>3. body \in Bodies
      BY <3>1, <3>2 DEF Replies, Bodies, Methods, CallerTypes
    <3>4. last' \in Message
      BY <3>1, <3>2, <3>3 DEF Message
    <3>5. stdout' \in Seq(Message) /\ doing' \in Request
      BY <2>3, <3>4, DataTypes DEF ServerReplies, ChannelTypes
    <3>6. QED
      BY <2>1, <2>3, <3>4, <3>5 DEF ServerReplies, channels, ServerTypes, ChannelTypes
  <2>4. CASE ServerSays
    <3>1. PICK message \in Unasked \cup {last} : stdout' = Append(stdout, message)
      BY <2>4 DEF ServerSays
    <3>2. message \in Message
      BY <3>1, DataTypes DEF ServerTypes
    <3>3. QED
      BY <2>1, <2>4, <3>1, <3>2 DEF ServerSays, channels, ServerTypes, ChannelTypes
  <2>5. QED
    BY <1>6, <2>2, <2>3, <2>4
<1>7. CASE UNCHANGED vars
  BY <1>7 DEF vars, selection, caller, progress, results, contexts, process, pipes, channels,
              CallerTypes, ServerTypes, ChannelTypes
<1>8. QED
  BY <1>1, <1>2, <1>3, <1>4, <1>5, <1>6, <1>7 DEF Next, CallerStep, Environment

-----------------------------------------------------------------------------
(* What is under way *)
CallerQuiet ==
  /\ id' = id
  /\ method = "call" => method' = "call"
  /\ method = "call" /\ pc' = "send" => pc = "send"
  /\ pc' \in Waits => pc \in Waits /\ method' = method
Traffic ==
  /\ Requests' \subseteq Requests \cup {Idle}
  /\ \A m \in Messages' :
       \/ m \in Messages \cup Unasked \cup {Nothing}
       \/ \E r \in Requests : m.id = r.id /\ m.to = r.method /\ (m.body = "same" => offers = "same")

LEMMA CallerStepQuiet == ASSUME Inv, [Next]_vars, ~Write PROVE CallerQuiet
<1>1. CASE Receive
  <2>1. id' = id /\ pc = "await"
    BY <1>1 DEF Receive
  <2>2. /\ method = "call" => method' = "call"
        /\ method = "call" => pc' # "send"
        /\ pc' \notin Waits
    <3> DEFINE response == Head(responses)
    <3>1. CASE ~Matches(response)
      BY <1>1, <3>1 DEF Receive, GiveUp, Waits
    <3>2. CASE Discovered(response.body) \/ NextPage(response.body) \/ NextList(response.body)
               \/ Opened(response.body)
      BY <3>2 DEF Discovered, NextPage, NextList, Opened, Listed, GoOn, Waits
    <3>3. CASE NotOpened(response.body) \/ Refused(response.body) \/ Answered(response)
      BY <3>3 DEF NotOpened, Refused, Answered, GiveUp, Waits
    <3>4. QED
      BY <1>1, <3>1, <3>2, <3>3 DEF Receive
  <2>3. QED
    BY <2>1, <2>2 DEF CallerQuiet
<1>2. CASE CallerStep /\ ~Receive
  BY <1>2 DEF CallerStep, Start, StartFails, Written, WriteFails, ContextDone, ReadFailed, Call, Waited, ForceKill,
              GiveUp, progress, CallerQuiet, Waits, Inv, PlaceInv
<1>3. CASE ReaderStep \/ ProcessEnds \/ KillOnCancel \/ DeadlinePasses \/ Environment \/ UNCHANGED vars
  <2>1. UNCHANGED caller
    BY <1>3 DEF ReaderStep, Scan, Push, EndOfOutput, ProcessEnds, KillOnCancel, DeadlinePasses, Environment,
        Cancel, ServerReads, ServerReplies, ServerSays, ServerExits, HelperExits, vars
  <2>2. QED
    BY <2>1 DEF caller, progress, CallerQuiet
<1>4. QED
  BY <1>1, <1>2, <1>3 DEF Next

LEMMA TrafficStep == ASSUME TypeOK, [Next]_vars, ~Write PROVE Traffic
<1>1. CASE UNCHANGED <<stdin, doing, stdout, responses, held, last>>
  BY <1>1 DEF Traffic, Requests, Messages
<1>2. CASE Receive
  <2>1. responses \in Seq(Message) /\ responses # <<>> /\ responses' = Tail(responses)
        /\ UNCHANGED <<stdin, doing, stdout, held, last>>
    BY <1>2 DEF Receive, TypeOK, ChannelTypes, pipes, process
  <2>2. \A i \in DOMAIN responses' : i + 1 \in DOMAIN responses /\ responses'[i] = responses[i + 1]
    BY <2>1
  <2>3. QED
    BY <2>1, <2>2 DEF Traffic, Requests, Messages
<1>3. CASE Scan
  <2>1. stdout \in Seq(Message) /\ stdout # <<>> /\ stdout' = Tail(stdout)
        /\ UNCHANGED <<stdin, doing, responses, last>> /\ held' \in {held, Head(stdout)}
    BY <1>3 DEF Scan, TypeOK, ChannelTypes, process
  <2>2. /\ \A i \in DOMAIN stdout' : i + 1 \in DOMAIN stdout /\ stdout'[i] = stdout[i + 1]
        /\ 1 \in DOMAIN stdout /\ Head(stdout) = stdout[1]
    BY <2>1
  <2>3. QED
    BY <2>1, <2>2 DEF Traffic, Requests, Messages
<1>4. CASE Push
  <2>1. responses \in Seq(Message) /\ responses' = Append(responses, held) /\ held' = Nothing
        /\ UNCHANGED <<stdin, doing, stdout, last>>
    BY <1>4 DEF Push, TypeOK, ChannelTypes, process, pipes
  <2>2. \A i \in DOMAIN responses' : responses'[i] = held \/ (i \in DOMAIN responses /\ responses'[i] = responses[i])
    BY <2>1
  <2>3. QED
    BY <2>1, <2>2 DEF Traffic, Requests, Messages
<1>5. CASE ServerReads
  <2>1. stdin \in Seq(Request) /\ stdin # <<>> /\ stdin' = Tail(stdin) /\ doing' = Head(stdin)
        /\ UNCHANGED <<stdout, responses, held, last>>
    BY <1>5 DEF ServerReads, TypeOK, ChannelTypes, channels
  <2>2. /\ \A i \in DOMAIN stdin' : i + 1 \in DOMAIN stdin /\ stdin'[i] = stdin[i + 1]
        /\ 1 \in DOMAIN stdin /\ Head(stdin) = stdin[1]
    BY <2>1
  <2>3. QED
    BY <2>1, <2>2 DEF Traffic, Requests, Messages
<1>6. CASE ServerReplies
  <2>1. PICK body \in Replies(doing) : last' = [id |-> doing.id, to |-> doing.method, body |-> body]
    BY <1>6 DEF ServerReplies
  <2>2. stdout \in Seq(Message) /\ stdout' = Append(stdout, last') /\ doing' = Idle
        /\ UNCHANGED <<stdin, responses, held>>
    BY <1>6 DEF ServerReplies, TypeOK, ChannelTypes, channels
  <2>3. last' \in Message
    BY <1>6, TypeStep DEF TypeOK, ServerTypes
  <2>4. \A i \in DOMAIN stdout' : stdout'[i] = last' \/ (i \in DOMAIN stdout /\ stdout'[i] = stdout[i])
    BY <2>2, <2>3
  <2>5. doing \in Requests /\ last'.id = doing.id /\ last'.to = doing.method /\ last'.body = body
    BY <2>1 DEF Requests
  <2>6. body = "same" => offers = "same"
    BY <2>1 DEF Replies, TypeOK, ServerTypes, Request, Methods
  <2>7. QED
    BY <2>2, <2>4, <2>5, <2>6 DEF Traffic, Requests, Messages
<1>7. CASE ServerSays
  <2>1. PICK message \in Unasked \cup {last} : stdout' = Append(stdout, message)
    BY <1>7 DEF ServerSays
  <2>2. stdout \in Seq(Message) /\ message \in Message /\ UNCHANGED <<stdin, doing, responses, held, last>>
    BY <1>7, <2>1, DataTypes DEF ServerSays, TypeOK, ChannelTypes, ServerTypes, channels
  <2>3. \A i \in DOMAIN stdout' : stdout'[i] = message \/ (i \in DOMAIN stdout /\ stdout'[i] = stdout[i])
    BY <2>1, <2>2
  <2>4. QED
    BY <2>1, <2>2, <2>3 DEF Traffic, Requests, Messages
<1>8. CASE \/ CallerStep /\ ~Receive
           \/ EndOfOutput \/ ProcessEnds \/ KillOnCancel \/ DeadlinePasses
           \/ Cancel \/ ServerExits \/ HelperExits \/ UNCHANGED vars
  <2>1. UNCHANGED <<stdin, doing, stdout, responses, held, last>>
    BY <1>8 DEF CallerStep, Start, StartFails, Written, WriteFails, ContextDone, ReadFailed, Call, Waited, ForceKill,
         EndOfOutput, ProcessEnds, KillOnCancel, DeadlinePasses, Cancel, ServerExits, HelperExits,
         vars, process, pipes, channels
  <2>2. QED
    BY <1>1, <2>1
<1>9. QED
  BY <1>2, <1>3, <1>4, <1>5, <1>6, <1>7, <1>8 DEF Next, Environment, ReaderStep

LEMMA MarkStep == ASSUME Inv, [Next]_vars PROVE MarkInv' /\ BodyInv'
<1>1. /\ Idle.id = 0 /\ Idle.method = "discover" /\ Nothing.id = 0 /\ Nothing.to = "nobody"
      /\ Nothing.body = "notification"
      /\ \A m \in Unasked : m.id = 0 /\ m.to = "nobody" /\ m.body # "same"
  BY DEF Idle, Nothing, Unasked
<1>2. CASE ~Write
  <2>1. CallerQuiet /\ Traffic
    BY <1>2, CallerStepQuiet, TrafficStep DEF Inv
  <2>2. \A n, about : MarkOK(n, about) => MarkOK(n, about)'
    BY <2>1 DEF CallerQuiet, MarkOK, Waits
  <2>3. MarkOK(0, "nobody")' /\ MarkOK(0, "discover")'
    BY <2>1 DEF CallerQuiet, MarkOK, Inv, PlaceInv, TypeOK, CallerTypes
  <2>4. offers' = offers
    BY TypeStep DEF Next, vars, CallerStep, ReaderStep, Environment, Start, StartFails, Write, Written, WriteFails,
       ContextDone, ReadFailed, Receive, Call, Waited, ForceKill, Scan, Push, EndOfOutput, ProcessEnds, KillOnCancel,
       DeadlinePasses, Cancel, ServerReads, ServerReplies, ServerSays, ServerExits, HelperExits, selection
  <2>5. \A r \in Requests' : MarkOK(r.id, r.method)'
    BY <1>1, <2>1, <2>2, <2>3 DEF Traffic, Inv, MarkInv
  <2>6. \A m \in Messages' : MarkOK(m.id, m.to)' /\ (m.body = "same" => offers' = "same")
    BY <1>1, <2>1, <2>2, <2>3, <2>4 DEF Traffic, Inv, MarkInv, BodyInv
  <2>7. QED
    BY <2>5, <2>6 DEF MarkInv, BodyInv
<1>3. CASE Write
  <2>1. PICK new \in Request : new.id = id' /\ new.method = method /\ stdin' = Append(stdin, new)
    BY <1>3 DEF Write, Inv, TypeOK, CallerTypes, Request
  <2>2. stdin \in Seq(Request) /\ UNCHANGED <<doing, stdout, responses, held, last, offers>>
    BY <1>3 DEF Write, Inv, TypeOK, ChannelTypes, process, channels, selection
  <2>3. \A i \in DOMAIN stdin' : stdin'[i] = new \/ (i \in DOMAIN stdin /\ stdin'[i] = stdin[i])
    BY <2>1, <2>2
  <2>4. Requests' \subseteq Requests \cup {new} /\ Messages' = Messages
    BY <2>2, <2>3 DEF Requests, Messages
  <2>5. pc = "send" /\ id' = id + 1 /\ id \in Nat /\ pc' \in Waits /\ method' = method
    BY <1>3 DEF Write, Inv, TypeOK, CallerTypes, Waits
  <2>6. (\A r \in Requests : r.id \in Nat) /\ (\A m \in Messages : m.id \in Nat)
    <3>1. Requests \subseteq Request /\ Messages \subseteq Message
      BY DEF Inv, TypeOK, ServerTypes, ChannelTypes, Requests, Messages
    <3>2. QED
      BY <3>1 DEF Request, Message
  <2>7. \A n \in Nat : \A about : MarkOK(n, about) => MarkOK(n, about)'
    BY <2>5 DEF MarkOK
  <2>8. MarkOK(new.id, new.method)'
    BY <2>1, <2>5 DEF MarkOK, Waits
  <2>9. QED
    BY <2>2, <2>4, <2>6, <2>7, <2>8 DEF Inv, MarkInv, BodyInv
<1>4. QED
  BY <1>2, <1>3

-----------------------------------------------------------------------------
(* Only three steps touch what the server has been or will be sent. *)
LEMMA ServerSide ==
  ASSUME [Next]_vars, ~Write, ~ServerReads, ~ServerReplies
  PROVE  UNCHANGED <<stdin, doing, last>>
BY DEF Next, vars, CallerStep, ReaderStep, Environment, Start, StartFails, Written, WriteFails,
       ContextDone, ReadFailed, Receive, Call, Waited, ForceKill, Scan, Push, EndOfOutput, ProcessEnds, KillOnCancel,
       DeadlinePasses, Cancel, ServerSays, ServerExits, HelperExits, process, pipes

LEMMA Shifted ==
  ASSUME TypeOK, ServerReads
  PROVE  /\ stdin \in Seq(Request) /\ stdin # <<>> /\ doing = Idle
         /\ doing' = stdin[1] /\ 1 \in DOMAIN stdin /\ last' = last
         /\ \A i \in DOMAIN stdin' : i \in Nat /\ i >= 1 /\ i + 1 \in DOMAIN stdin /\ stdin'[i] = stdin[i + 1]
         /\ \A i \in DOMAIN stdin : i # 1 => i \in Nat /\ i - 1 \in DOMAIN stdin' /\ stdin'[i - 1] = stdin[i]
<1>1. stdin \in Seq(Request) /\ stdin # <<>> /\ stdin' = Tail(stdin) /\ doing' = Head(stdin) /\ doing = Idle
      /\ last' = last
  BY DEF ServerReads, TypeOK, ChannelTypes
<1>2. Len(stdin) \in Nat /\ Len(stdin) >= 1 /\ DOMAIN stdin = 1..Len(stdin) /\ DOMAIN stdin' = 1..(Len(stdin) - 1)
  BY <1>1
<1>3. \A i \in 1..(Len(stdin) - 1) : stdin'[i] = stdin[i + 1]
  BY <1>1
<1>4. QED
  BY <1>1, <1>2, <1>3

LEMMA OrderStep == ASSUME Inv, [Next]_vars PROVE OrderInv'
<1>1. doing.id \in Nat /\ last.id \in Nat /\ id \in Nat /\ Idle.id = 0
  BY DEF Inv, TypeOK, CallerTypes, ServerTypes, Request, Message, Idle
<1>2. \A i \in DOMAIN stdin : stdin[i] \in Requests /\ stdin[i] \in Request /\ stdin[i].id \in Nat
  <2>1. stdin \in Seq(Request)
    BY DEF Inv, TypeOK, ChannelTypes
  <2>2. \A i \in DOMAIN stdin : stdin[i] \in Request
    BY <2>1
  <2>3. QED
    BY <2>2 DEF Requests, Request
<1>3. CASE ~Write /\ ~ServerReads /\ ~ServerReplies
  BY <1>3, ServerSide DEF Inv, OrderInv
<1>4. CASE Write
  <2>1. PICK new \in Request : new.id = id + 1 /\ stdin' = Append(stdin, new)
    BY <1>4 DEF Write, Inv, TypeOK, CallerTypes, Request
  <2>2. stdin \in Seq(Request) /\ UNCHANGED <<doing, last>>
    BY <1>4 DEF Write, Inv, TypeOK, ChannelTypes, process
  <2>3. /\ doing.id <= id /\ last.id <= id
        /\ \A i \in DOMAIN stdin : stdin[i].id <= id /\ stdin[i].id \in Nat
    <3>1. doing \in Requests /\ last \in Messages
      BY DEF Requests, Messages
    <3>2. QED
      BY <1>2, <3>1 DEF Inv, MarkInv, MarkOK
  <2>4. Len(stdin) \in Nat /\ DOMAIN stdin = 1..Len(stdin) /\ DOMAIN stdin' = 1..(Len(stdin) + 1)
    BY <2>1, <2>2
  <2>5. /\ \A i \in 1..Len(stdin) : stdin'[i] = stdin[i]
        /\ stdin'[Len(stdin) + 1] = new
    BY <2>1, <2>2
  <2>6. \A i \in DOMAIN stdin' : last.id < stdin'[i].id /\ doing.id < stdin'[i].id
    BY <1>1, <2>1, <2>3, <2>4, <2>5 DEF Inv, OrderInv
  <2>7. \A i, j \in DOMAIN stdin' : i < j => stdin'[i].id < stdin'[j].id
    BY <1>1, <2>1, <2>3, <2>4, <2>5 DEF Inv, OrderInv
  <2>8. QED
    BY <2>2, <2>6, <2>7 DEF Inv, OrderInv
<1>5. CASE ServerReads
  <2>1. \A i \in DOMAIN stdin : last.id < stdin[i].id
    BY DEF Inv, OrderInv
  <2>2. \A i, j \in DOMAIN stdin : i < j => stdin[i].id < stdin[j].id
    BY DEF Inv, OrderInv
  <2>3. last.id < doing'.id
    BY <1>5, <2>1, Shifted DEF Inv
  <2>4. \A i \in DOMAIN stdin' : last.id < stdin'[i].id /\ doing'.id < stdin'[i].id
    BY <1>5, <2>1, <2>2, Shifted DEF Inv
  <2>5. \A i, j \in DOMAIN stdin' : i < j => stdin'[i].id < stdin'[j].id
    <3>1. SUFFICES ASSUME NEW i \in DOMAIN stdin', NEW j \in DOMAIN stdin', i < j
                   PROVE  stdin'[i].id < stdin'[j].id
      OBVIOUS
    <3>2. /\ i \in Nat /\ i + 1 \in DOMAIN stdin /\ stdin'[i] = stdin[i + 1]
          /\ j \in Nat /\ j + 1 \in DOMAIN stdin /\ stdin'[j] = stdin[j + 1]
      BY <1>5, Shifted DEF Inv
    <3>3. i + 1 < j + 1
      BY <3>1, <3>2
    <3>4. QED
      BY <2>2, <3>2, <3>3
  <2>6. QED
    BY <1>5, <2>3, <2>4, <2>5, Shifted DEF Inv, OrderInv
<1>6. CASE ServerReplies
  <2>1. last'.id = doing.id /\ doing' = Idle /\ stdin' = stdin
    BY <1>6 DEF ServerReplies
  <2>2. \A i \in DOMAIN stdin : doing.id < stdin[i].id /\ stdin[i].id \in Nat
    BY <1>2 DEF Inv, OrderInv
  <2>3. \A i \in DOMAIN stdin : 0 < stdin[i].id
    BY <1>1, <2>2
  <2>4. QED
    BY <1>1, <2>1, <2>2, <2>3 DEF Inv, OrderInv
<1>7. QED
  BY <1>3, <1>4, <1>5, <1>6

(* Once asked, always asked: the reply to a call is the last reply. *)
LEMMA AskedStep ==
  ASSUME Inv, [Next]_vars
  PROVE  /\ Asked => Asked'
         /\ Asked' => Asked \/ (Write /\ method = "call")
         /\ Write /\ method = "call" => Asked'
<1>1. CASE ~Write /\ ~ServerReads /\ ~ServerReplies
  BY <1>1, ServerSide DEF Asked
<1>2. CASE Write
  <2>1. PICK new \in Request : new.method = method /\ stdin' = Append(stdin, new)
    BY <1>2 DEF Write, Inv, TypeOK, CallerTypes, Request
  <2>2. stdin \in Seq(Request) /\ UNCHANGED <<doing, last>>
    BY <1>2 DEF Write, Inv, TypeOK, ChannelTypes, process
  <2>3. Len(stdin) \in Nat /\ DOMAIN stdin = 1..Len(stdin) /\ DOMAIN stdin' = 1..(Len(stdin) + 1)
    BY <2>1, <2>2
  <2>4. /\ \A i \in 1..Len(stdin) : stdin'[i] = stdin[i]
        /\ stdin'[Len(stdin) + 1] = new
    BY <2>1, <2>2
  <2>5. QED
    BY <1>2, <2>1, <2>2, <2>3, <2>4 DEF Asked
<1>3. CASE ServerReads
  <2>1. ~Write
    BY <1>3 DEF ServerReads, Write, caller
  <2>2. doing.method # "call"
    BY <1>3, Shifted DEF Inv, Idle
  <2>3. QED
    BY <1>3, <2>1, <2>2, Shifted DEF Inv, Asked
<1>4. CASE ServerReplies
  <2>1. ~Write
    BY <1>4 DEF ServerReplies, Write, caller
  <2>2. last'.to = doing.method /\ doing' = Idle /\ stdin' = stdin /\ doing # Idle /\ Idle.method = "discover"
    BY <1>4 DEF ServerReplies, Idle
  <2>3. last.to # "call"
    <3>1. SUFFICES ASSUME last.to = "call" PROVE FALSE
      OBVIOUS
    <3>2. last.id = id /\ last.id < doing.id /\ doing.id <= id
      BY <2>2, <3>1 DEF Inv, OrderInv, MarkInv, MarkOK, Messages, Requests
    <3>3. QED
      BY <3>2 DEF Inv, TypeOK, CallerTypes, ServerTypes, Request, Message
  <2>4. QED
    BY <2>1, <2>2, <2>3 DEF Asked
<1>5. QED
  BY <1>1, <1>2, <1>3, <1>4

-----------------------------------------------------------------------------
(* The caller *)
LEMMA Selected == ASSUME [Next]_vars PROVE UNCHANGED <<kind, offers>>
BY DEF Next, vars, CallerStep, ReaderStep, Environment, Start, StartFails, Write, Written, WriteFails,
       ContextDone, ReadFailed, Receive, Call, Waited, ForceKill, Scan, Push, EndOfOutput, ProcessEnds, KillOnCancel,
       DeadlinePasses, Cancel, ServerReads, ServerReplies, ServerSays, ServerExits, HelperExits, selection

(* What a response does to the caller. *)
LEMMA Received ==
  ASSUME Inv, Receive
  PROVE  /\ pc = "await" /\ id' = id /\ outcome # "answered"
         /\ pc' \in {"send", "opened", "close"}
         /\ pc' = "opened" => method = "list" /\ method' = "list" /\ found' = "same"
         /\ method' = "call" <=> method = "call"
         /\ found' = "same" => offers = "same"
         /\ outcome' = "answered" => pc' = "close" /\ method = "call" /\ answer'.to = "call" /\ answer'.id = id
<1> DEFINE response == Head(responses)
<1>1. pc = "await" /\ id' = id /\ outcome # "answered"
  BY DEF Receive, Inv, PlaceInv, Over
<1>2. response \in Messages
  <2>1. responses \in Seq(Message) /\ responses # <<>>
    BY DEF Receive, Inv, TypeOK, ChannelTypes
  <2>2. 1 \in DOMAIN responses /\ response = responses[1]
    BY <2>1
  <2>3. QED
    BY <2>2 DEF Messages
<1>3. /\ response.body = "same" => offers = "same"
      /\ response.id = id => response.to = method
      /\ found = "same" => offers = "same"
  BY <1>1, <1>2 DEF Inv, BodyInv, MarkInv, MarkOK, Waits, PlaceInv
<1>4. CASE ~Matches(response)
  <2>1. pc' = "close" /\ outcome' = "failed" /\ UNCHANGED <<method, found>>
    BY <1>4 DEF Receive, GiveUp
  <2>2. QED
    BY <1>1, <1>3, <2>1
<1>5. CASE Matches(response)
  <2>1. CASE Discovered(response.body) \/ NextPage(response.body)
    BY <1>1, <1>3, <2>1 DEF Discovered, NextPage, GoOn, results
  <2>2. CASE NextList(response.body) \/ Opened(response.body)
    BY <1>1, <1>3, <2>2 DEF NextList, Opened, Verified, Listed, GoOn, results
  <2>3. CASE NotOpened(response.body)
    BY <1>1, <1>3, <2>3 DEF NotOpened, Listed, GiveUp
  <2>4. CASE Refused(response.body)
    BY <1>1, <1>3, <2>4 DEF Refused, GiveUp
  <2>5. CASE Answered(response)
    BY <1>1, <1>3, <1>5, <2>5 DEF Answered, Matches
  <2>6. QED
    BY <1>5, <2>1, <2>2, <2>3, <2>4, <2>5 DEF Receive
<1>6. QED
  BY <1>4, <1>5

LEMMA PlaceStep == ASSUME Inv, [Next]_vars PROVE PlaceInv'
<1>1. UNCHANGED <<kind, offers>>
  BY Selected
<1>2. CASE Receive
  <2>1. pc' \notin Waits \cup {"start"}
    BY <1>2, Received DEF Waits
  <2>2. QED
    BY <1>1, <1>2, <2>1, Received DEF PlaceInv, Inv, Over
<1>3. CASE Write
  <2>1. id' = id + 1 /\ id \in Nat /\ pc = "send" /\ pc' \in Waits /\ UNCHANGED <<method, found, outcome, answer>>
    BY <1>3 DEF Write, Inv, TypeOK, CallerTypes, Waits, results
  <2>2. method' = "call" => Asked'
    BY <1>3, <2>1, AskedStep
  <2>3. id' # 0 /\ outcome # "answered"
    BY <2>1 DEF Inv, PlaceInv, Over
  <2>4. QED
    BY <1>1, <2>1, <2>2, <2>3 DEF PlaceInv, Inv, Waits
<1>4. CASE Start \/ StartFails \/ Call
  BY <1>1, <1>4 DEF Start, StartFails, Call, progress, results, PlaceInv, Inv, Waits, Over
<1>5. CASE Written
  BY <1>1, <1>5, AskedStep DEF Written, progress, results, PlaceInv, Inv, Waits, Over
<1>6. CASE WriteFails \/ ContextDone \/ ReadFailed \/ Waited \/ ForceKill
  BY <1>1, <1>6 DEF WriteFails, ContextDone, ReadFailed, Waited, ForceKill, GiveUp, progress, results,
                    PlaceInv, Inv, Waits, Over
<1>7. CASE ReaderStep \/ ProcessEnds \/ KillOnCancel \/ DeadlinePasses \/ Environment \/ UNCHANGED vars
  <2>1. UNCHANGED <<pc, method, id, found, outcome, answer>> /\ (server = "none" => server' = "none")
    BY <1>7 DEF ReaderStep, Scan, Push, EndOfOutput, ProcessEnds, KillOnCancel, DeadlinePasses, Environment,
        Cancel, ServerReads, ServerReplies, ServerSays, ServerExits, HelperExits, vars, caller, progress, results, process
  <2>2. QED
    BY <1>1, <2>1, AskedStep DEF Inv, PlaceInv
<1>8. QED
  BY <1>2, <1>3, <1>4, <1>5, <1>6, <1>7 DEF Next, CallerStep

LEMMA EndStep == ASSUME Inv, [Next]_vars PROVE EndInv'
<1>1. CASE Receive
  BY <1>1, Received DEF Receive, process, Inv, EndInv
<1>2. CASE Start
  BY <1>2 DEF Start, Inv, EndInv, PlaceInv
<1>3. CASE CallerStep /\ ~Receive /\ ~Start
  BY <1>3 DEF CallerStep, StartFails, Write, Written, WriteFails, ContextDone, ReadFailed, Call, Waited, ForceKill,
              GiveUp, process, Inv, EndInv, PlaceInv
<1>4. CASE ReaderStep \/ ProcessEnds \/ KillOnCancel \/ DeadlinePasses \/ Environment \/ UNCHANGED vars
  BY <1>4 DEF ReaderStep, Scan, Push, EndOfOutput, ProcessEnds, KillOnCancel, DeadlinePasses, Environment,
        Cancel, ServerReads, ServerReplies, ServerSays, ServerExits, HelperExits, vars, caller, process, Inv, EndInv
<1>5. QED
  BY <1>1, <1>2, <1>3, <1>4 DEF Next

LEMMA InvStep == Inv /\ [Next]_vars => Inv'
BY TypeStep, MarkStep, OrderStep, PlaceStep, EndStep DEF Inv

LEMMA InvAlways == Spec => []Inv
BY InvInit, InvStep, PTL DEF Spec

-----------------------------------------------------------------------------
(* Every reachable state of the caller, its reader and waiter, the server  *)
(* and the pipes is well typed; the responses channel never overflows.     *)
THEOREM TypeCorrect == Spec => []TypeOK
<1>1. Inv => TypeOK
  BY DEF Inv
<1>2. QED
  BY <1>1, InvAlways, PTL

(* OwnAnswer: request compares the id of what it takes from the channel    *)
(* with the one it has just used, so what it returns is the reply to it.   *)
THEOREM AnswersOwn == Spec => []OwnAnswer
<1>1. Inv => OwnAnswer
  BY DEF Inv, PlaceInv, OwnAnswer
<1>2. QED
  BY <1>1, InvAlways, PTL

(* NothingLeft: Close returns after cmd.Wait has, and every error return   *)
(* of Open closes.                                                         *)
THEOREM LeavesNothing == Spec => []NothingLeft
<1>1. Inv => NothingLeft
  BY DEF Inv, EndInv, NothingLeft
<1>2. QED
  BY <1>1, InvAlways, PTL

Stage == IF pc = "done" THEN "closed" ELSE IF pc = "opened" \/ method = "call" THEN "open" ELSE "new"

LEMMA SameOrClosed ==
  ASSUME offers' = offers, Asked' <=> Asked, outcome' = "answered" <=> outcome = "answered",
         Stage' = Stage \/ Stage' = "closed"
  PROVE  C!Next \/ UNCHANGED C!vars
<1>1. (Asked' = Asked) /\ ((outcome' = "answered") = (outcome = "answered")) /\ ((offers' = "same") = (offers = "same"))
  OBVIOUS
<1>2. CASE Stage' = Stage
  BY <1>1, <1>2 DEF Stage, C!vars
<1>3. CASE Stage' = "closed"
  BY <1>1, <1>3 DEF Stage, C!Next, C!Close
<1>4. QED
  BY <1>2, <1>3

LEMMA StepImplements == Inv /\ Inv' /\ [Next]_vars => [C!Next]_(C!vars)
<1> SUFFICES ASSUME Inv, Inv', [Next]_vars PROVE C!Next \/ UNCHANGED C!vars
  OBVIOUS
<1> USE DEF C!Next, C!vars, C!Open, C!Ask, C!Answer, C!Close
<1>1. UNCHANGED <<kind, offers>> /\ (Asked => Asked') /\ (Asked' => Asked \/ (Write /\ method = "call"))
  BY Selected, AskedStep
<1>2. CASE Receive
  <2>1. Asked' <=> Asked
    BY <1>1, <1>2 DEF Receive, Write
  <2>2. pc = "await" /\ pc' \in {"send", "opened", "close"} /\ outcome # "answered"
    BY <1>2, Received
  <2>3. CASE outcome' = "answered"
    <3>1. method = "call" /\ method' = "call" /\ pc' = "close" /\ Asked
      BY <1>2, <2>2, <2>3, Received DEF Inv, PlaceInv, Waits
    <3>2. C!Answer
      BY <1>1, <2>1, <2>2, <2>3, <3>1
    <3>3. QED
      BY <3>2
  <2>4. CASE outcome' # "answered" /\ pc' = "opened"
    <3>1. method = "list" /\ method' = "list" /\ offers = "same"
      BY <1>2, <2>4, Received
    <3>2. C!Open
      BY <1>1, <2>1, <2>2, <2>4, <3>1
    <3>3. QED
      BY <3>2
  <2>5. CASE outcome' # "answered" /\ pc' # "opened"
    BY <1>1, <1>2, <2>1, <2>2, <2>5, Received
  <2>6. QED
    BY <2>3, <2>4, <2>5
<1>3. CASE Write
  <2>1. pc = "send" /\ pc' \in Waits /\ UNCHANGED <<method, outcome>>
    BY <1>3 DEF Write, Waits, results
  <2>2. CASE method = "call"
    <3>1. ~Asked /\ Asked'
      <4>1. \A r \in Requests : r.method # "call"
        BY <2>1 DEF Inv, MarkInv, MarkOK
      <4>2. last.to # "call"
        BY <2>1 DEF Inv, MarkInv, MarkOK, Messages
      <4>3. QED
        BY <1>3, <2>2, <4>1, <4>2, AskedStep DEF Asked, Requests
    <3>2. C!Ask
      BY <1>1, <2>1, <2>2, <3>1 DEF Waits
    <3>3. QED
      BY <3>2
  <2>3. CASE method # "call"
    BY <1>1, <2>1, <2>3, SameOrClosed DEF Waits, Stage
  <2>4. QED
    BY <2>2, <2>3
<1>4. CASE Start \/ Written \/ WriteFails \/ ContextDone \/ ReadFailed \/ Call \/ ForceKill
  <2>1. /\ pc # "done" /\ pc' # "done"
        /\ outcome # "answered" \/ outcome' = outcome
        /\ outcome' = "answered" => outcome = "answered"
    BY <1>4 DEF Start, Written, WriteFails, ContextDone, ReadFailed, Call, ForceKill, GiveUp, results,
                Inv, PlaceInv, Over
  <2>2. (pc' = "opened" \/ method' = "call") <=> (pc = "opened" \/ method = "call")
    BY <1>4 DEF Start, Written, WriteFails, ContextDone, ReadFailed, Call, ForceKill, GiveUp, progress, Inv, PlaceInv
  <2>3. ~Write
    BY <1>4 DEF Start, Written, WriteFails, ContextDone, ReadFailed, Call, ForceKill, GiveUp, progress, Write,
                Inv, TypeOK, CallerTypes
  <2>4. Stage' = Stage
    BY <2>1, <2>2 DEF Stage
  <2>5. outcome' = "answered" <=> outcome = "answered"
    BY <2>1
  <2>6. QED
    BY <1>1, <2>3, <2>4, <2>5, SameOrClosed
<1>5. CASE StartFails \/ Waited
  <2>1. pc' = "done" /\ (outcome' = "answered" <=> outcome = "answered")
    BY <1>5 DEF StartFails, Waited, results, Inv, PlaceInv, Over
  <2>2. ~Write
    BY <1>5 DEF StartFails, Waited, Write
  <2>3. QED
    BY <1>1, <2>1, <2>2, SameOrClosed DEF Stage
<1>6. CASE ReaderStep \/ ProcessEnds \/ KillOnCancel \/ DeadlinePasses \/ Environment \/ UNCHANGED vars
  <2>1. UNCHANGED <<pc, method, outcome>>
    BY <1>6 DEF ReaderStep, Scan, Push, EndOfOutput, ProcessEnds, KillOnCancel, DeadlinePasses, Environment,
        Cancel, ServerReads, ServerReplies, ServerSays, ServerExits, HelperExits, vars, caller, progress, results
  <2>2. ~Write
    BY <2>1 DEF Write
  <2>3. QED
    BY <1>1, <2>1, <2>2, SameOrClosed DEF Stage
<1>7. QED
  BY <1>2, <1>3, <1>4, <1>5, <1>6 DEF Next, CallerStep

(* ImplementsConnector: the server is asked for the selected capability at *)
(* most once, and only after its listing has confirmed the definition.     *)
THEOREM Implements == Spec => ImplementsConnector
<1>1. Init => C!Init
  <2> SUFFICES ASSUME Init PROVE C!Init
    OBVIOUS
  <2>1. ~Asked
    BY DEF Init, Asked, Idle, Nothing
  <2>2. QED
    BY <2>1 DEF Init, C!Init
<1>2. QED
  BY <1>1, InvAlways, StepImplements, PTL DEF Spec, C!Spec, ImplementsConnector
=============================================================================
